-------------------------------- MODULE Replay --------------------------------
(***************************************************************************)
(* Requests sent again through the proxy (engine.ts compose) and the       *)
(* commands of a window that wait behind them: the agent handles the       *)
(* requests of one connection one after the other (main.ts acceptClient),  *)
(* while MCP calls run beside it. A compose is over when a record of its   *)
(* own local port is no longer pending, or after a minute.                 *)
(***************************************************************************)
EXTENDS Naturals, Sequences, SequencesExt

CONSTANTS Composes,   \* requests composed, by the window or by MCP calls
          ByWindow,   \* those that come over the window's connection
          MaxAnswers  \* bound: times the user clicks Continue

VARIABLES queue,      \* commands of the window not yet handled: a compose or "resume"
          stage,      \* per compose: where its function is
          record,     \* per compose: the record of its exchange
          result,     \* per compose: what its caller was given
          composed,   \* composedClients: composes whose port is inspected
          recording,  \* engine.recording
          running,    \* the capture runs
          answers     \* times Continue was clicked

replayVars == <<queue, stage, record, result, composed, recording, running, answers>>

None    == "none"
Stages  == {"idle", "queued", "dialled", "awaiting", "done"}
Records == {None, "pending", "paused", "completed", "failed"}

Over(c) == record[c] \in {"completed", "failed"}

----------------------------------------------------------------------------
(* The window and its connection.                                          *)

\* Composing from the panel writes a request on the connection; an MCP call does not.
ComposeRequested(c) ==
    /\ stage[c] = "idle"
    /\ stage' = [stage EXCEPT ![c] = "queued"]
    /\ queue' = IF c \in ByWindow THEN Append(queue, c) ELSE queue
    /\ UNCHANGED <<record, result, composed, recording, running, answers>>

\* The inspector offers Continue for a paused record.
ClickContinue(c) ==
    /\ record[c] = "paused"
    /\ answers < MaxAnswers
    /\ answers' = answers + 1
    /\ queue' = Append(queue, <<"resume", c>>)
    /\ UNCHANGED <<stage, record, result, composed, recording, running>>

\* A resume is handled when it is first in the queue: it lets the held exchange go on, or
\* finds that it is paused no more.
ServeResume(c) ==
    /\ queue # <<>>
    /\ Head(queue) = <<"resume", c>>
    /\ queue' = Tail(queue)
    /\ record' = [record EXCEPT ![c] = IF @ = "paused" THEN "pending" ELSE @]
    /\ UNCHANGED <<stage, result, composed, recording, running, answers>>

\* Both are the start of compose; the window's waits for its turn, and keeps it.
BeginCompose(c) ==
    /\ stage[c] = "queued"
    /\ c \in ByWindow => queue # <<>> /\ Head(queue) = c
    /\ stage' = [stage EXCEPT ![c] = IF running THEN "dialled" ELSE "done"]
    /\ result' = [result EXCEPT ![c] = IF running THEN None ELSE "refused"]
    /\ composed' = IF running THEN composed \cup {c} ELSE composed
    /\ queue' = IF c \in ByWindow /\ ~running THEN Tail(queue) ELSE queue
    /\ UNCHANGED <<record, recording, running, answers>>

----------------------------------------------------------------------------
(* engine.ts compose, after the proxy accepted its connection.             *)

\* The function returns or throws: the connection goes, and with it what it exchanged.
Return(c, value) ==
    /\ stage' = [stage EXCEPT ![c] = "done"]
    /\ result' = [result EXCEPT ![c] = value]
    /\ composed' = composed \ {c}
    /\ queue' = IF c \in ByWindow THEN Tail(queue) ELSE queue

\* Over HTTPS a CONNECT comes first, then the request is sent. Recorded or not, the proxy
\* serves it; a breakpoint holds what is recorded.
SendRequest(c) ==
    /\ stage[c] = "dialled"
    /\ running
    /\ stage' = [stage EXCEPT ![c] = "awaiting"]
    /\ \E r \in IF recording THEN {"pending", "paused"} ELSE {None} :
         record' = [record EXCEPT ![c] = r]
    /\ UNCHANGED <<queue, result, composed, recording, running, answers>>

\* The proxy refuses the CONNECT.
ConnectRefused(c) ==
    /\ stage[c] = "dialled"
    /\ Return(c, "refused")
    /\ UNCHANGED <<record, recording, running, answers>>

\* The exchange ends: answered by the origin, failed by it, or cut off.
RecordEnds(c) ==
    /\ record[c] = "pending"
    /\ \E r \in {"completed", "failed"} : record' = [record EXCEPT ![c] = r]
    /\ UNCHANGED <<queue, stage, result, composed, recording, running, answers>>

\* A plausible slip: the first event of the record is taken for its end.
FoundFirst(c) ==
    /\ stage[c] = "awaiting"
    /\ record[c] # None
    /\ Return(c, record[c])
    /\ UNCHANGED <<record, recording, running, answers>>

\* The listener finds its record once it is no longer pending, and gives it its replayOf.
Found(c) ==
    /\ stage[c] = "awaiting"
    /\ Over(c)
    /\ Return(c, record[c])
    /\ UNCHANGED <<record, recording, running, answers>>

\* Thirty seconds without an answer: the request is destroyed, and a record that is still
\* open fails with its client.
RequestTimesOut(c) ==
    /\ stage[c] = "awaiting"
    /\ record[c] \in {"pending", "paused"}
    /\ record' = [record EXCEPT ![c] = "failed"]
    /\ UNCHANGED <<queue, stage, result, composed, recording, running, answers>>

\* A minute without the end of its record: nothing was recorded, the record was deleted,
\* or the response still streams. The connection goes, and with it the exchange.
FoundTimesOut(c) ==
    /\ stage[c] = "awaiting"
    /\ ~Over(c)
    /\ record' = [record EXCEPT ![c] = IF @ = None THEN @ ELSE "failed"]
    /\ Return(c, "timed out")
    /\ UNCHANGED <<recording, running, answers>>

----------------------------------------------------------------------------
SetRecording ==
    /\ recording' = ~recording
    /\ \A c \in Composes : stage[c] # "awaiting"
    /\ UNCHANGED <<queue, stage, record, result, composed, running, answers>>

\* An MCP call clears the records: what was held goes on as aborted.
ClearRecords ==
    /\ \E c \in Composes : record[c] # None
    /\ record' = [c \in Composes |-> None]
    /\ UNCHANGED <<queue, stage, result, composed, recording, running, answers>>

\* Stopping the capture, by an MCP call, fails what is open. Left out: a stop between the
\* CONNECT of a compose and its answer.
StopCapture ==
    /\ running
    /\ \A c \in Composes : stage[c] # "dialled"
    /\ running' = FALSE
    /\ record' = [c \in Composes |->
                    IF record[c] \in {"pending", "paused"} THEN "failed" ELSE record[c]]
    /\ UNCHANGED <<queue, stage, result, composed, recording, answers>>

Init ==
    /\ queue = <<>>
    /\ stage = [c \in Composes |-> "idle"]
    /\ record = [c \in Composes |-> None]
    /\ result = [c \in Composes |-> None]
    /\ composed = {}
    /\ recording \in BOOLEAN
    /\ running = TRUE
    /\ answers = 0

Next ==
    \/ \E c \in Composes :
         \/ ComposeRequested(c) \/ ClickContinue(c) \/ ServeResume(c) \/ BeginCompose(c)
         \/ SendRequest(c) \/ ConnectRefused(c) \/ RecordEnds(c) \/ Found(c)
         \/ RequestTimesOut(c) \/ FoundTimesOut(c)
    \/ SetRecording
    \/ ClearRecords
    \/ StopCapture

\* The agent goes on handling what it was sent, and its timers fire.
ReplayStep(c) ==
    ServeResume(c) \/ BeginCompose(c) \/ SendRequest(c) \/ ConnectRefused(c) \/ Found(c) \/ FoundTimesOut(c)

Spec == Init /\ [][Next]_replayVars
FairSpec == Spec /\ \A c \in Composes : WF_replayVars(ReplayStep(c))

----------------------------------------------------------------------------
TypeOK ==
    /\ queue \in Seq(ByWindow \cup ({"resume"} \X Composes))
    /\ stage \in [Composes -> Stages]
    /\ record \in [Composes -> Records]
    /\ result \in [Composes -> {None, "refused", "completed", "failed", "timed out"}]

\* A replay returns the record of its own exchange, once that is over, and its port is
\* inspected exactly as long as it lasts (engine.ts compose).
ReplayIsWhole ==
    \A c \in Composes :
        /\ stage[c] = "done" /\ result[c] \notin {"refused", "timed out"} =>
               result[c] \in {"completed", "failed"} /\ record[c] \in {result[c], None}
        /\ c \in composed <=> stage[c] \in {"dialled", "awaiting"}

\* Every composed request is answered, whether or not it is recorded, held at a breakpoint,
\* deleted or cut off by the end of the capture (engine.ts compose, its timers).
ReplayIsAnswered == \A c \in Composes : stage[c] = "queued" ~> stage[c] = "done"

\* "Holds the request and/or response; the inspector shows an editor with _Continue_ and
\* _Abort_" (README.md): what waits for the user's answer does not keep that answer from
\* being handled.
ContinueIsServed ==
    \A c \in Composes :
        record[c] = "paused" /\ queue # <<>> /\ Head(queue) = c => <<"resume", c>> \notin ToSet(queue)
=============================================================================
