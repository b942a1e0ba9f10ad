--------------------------- MODULE SessionStreams ---------------------------
(***************************************************************************)
(* One inspected session: its life in the core (engine/session.go), its    *)
(* life in the agent (core/inspector.ts), and the body streams the agent   *)
(* pipes back into the core under one chunk of credit each                 *)
(* (core/streams.ts -> engine/internal/ipc/peer.go, body.go).              *)
(*                                                                         *)
(* The two processes are joined by two FIFO pipes.  The agent handles one  *)
(* frame at a time but its pipes resume in microtasks of their own; in the *)
(* core the control loop, the goroutine that ends the session, the         *)
(* exchange's handler and the body readers run concurrently.               *)
(*                                                                         *)
(* Every stream id carries its session id, so sessions share nothing but   *)
(* the pipes and the fate of the core: one session is enough.              *)
(***************************************************************************)
EXTENDS Naturals, Sequences

CONSTANTS
    Streams,  \* `<id>:request:out' and `<id>:response:out'
    Replies,  \* the streams asked for by a response callback
    Chunks    \* 64 KiB chunks in the body of each stream

ASSUME RepliesAssumption == Replies \subseteq Streams
ASSUME ChunksAssumption == Chunks \in Nat

VARIABLES
    toCore, toNode,  \* the control pipes, oldest frame first
    \* the agent
    live,            \* the id is in Inspector.sessions
    producer,        \* where the callback and then the pipe of each stream is
    cancelled,       \* state.cancelled of the pipe's entry in `sending'
    sent,            \* chunks sent on each stream
    \* the core
    handler,         \* how far the exchange's handler got for each stream
    readers,         \* streams registered in Peer.readers
    slot,            \* BodyReader.messages, a channel of capacity one
    buffer,          \* the chunk BodyReader.buffer holds, 0 when empty
    got, eof,        \* what the reader's consumer saw
    finish,          \* how far session.finish got
    failing,         \* finish was given an error to report
    loop,            \* the control loop is inside session.finish
    fatal            \* Peer.Receive returned an error: the core stops

vars == <<toCore, toNode, live, producer, cancelled, sent, handler, readers,
          slot, buffer, got, eof, finish, failing, loop, fatal>>

nodeVars == <<live, producer, cancelled, sent>>
readerVars == <<slot, buffer, got, eof>>
sessionVars == <<finish, failing>>
coreVars == <<handler, readers, slot, buffer, got, eof, finish, failing, loop, fatal>>

-----------------------------------------------------------------------------
(* Frames. *)

Chunk(s, n) == [type |-> "chunk", stream |-> s, n |-> n]
End(s)      == [type |-> "end", stream |-> s]
Abort       == [type |-> "abort"]
Ask(s)      == [type |-> "ask", stream |-> s]
Credit(s)   == [type |-> "credit", stream |-> s]
Failure     == [type |-> "failure"]
Closed      == [type |-> "closed"]
Empty       == [type |-> "empty"]

Data == [type : {"chunk"}, stream : Streams, n : 1..Chunks]
          \cup [type : {"end"}, stream : Streams]
ToCore == Data \cup {Abort}
ToNode == [type : {"ask", "credit"}, stream : Streams] \cup {Failure, Closed}

IsData(m, s) == m.type \in {"chunk", "end"} /\ m.stream = s

Init ==
    /\ toCore = <<>> /\ toNode = <<>>
    /\ live = FALSE
    /\ producer = [s \in Streams |-> "idle"]
    /\ cancelled = [s \in Streams |-> FALSE]
    /\ sent = [s \in Streams |-> 0]
    /\ handler = [s \in Streams |-> "new"]
    /\ readers = {}
    /\ slot = [s \in Streams |-> Empty]
    /\ buffer = [s \in Streams |-> 0]
    /\ got = [s \in Streams |-> <<>>]
    /\ eof = [s \in Streams |-> FALSE]
    /\ finish = "open" /\ failing = FALSE
    /\ loop = "free" /\ fatal = FALSE

-----------------------------------------------------------------------------
(* The agent. *)

Sending == {"reading", "waiting", "released"}

\* A plausible slip: the pipes are marked, but the one waiting is not let go.
CancelStreamsMarked(p) ==
    /\ cancelled' = [s \in Streams |-> cancelled[s] \/ p[s] \in Sending]
    /\ producer' = p

\* Streams.cancel on the session's prefix, the pipes being in states p: a pipe
\* in `sending' is marked and, if it was waiting for credit, let go; a pipe not
\* started is not touched.
CancelStreams(p) ==
    /\ cancelled' = [s \in Streams |-> cancelled[s] \/ p[s] \in Sending]
    /\ producer' = [s \in Streams |-> IF p[s] = "waiting" THEN "released" ELSE p[s]]

\* Inspector.fail: forget the session, tell the core, cancel its streams.
Fail(p) ==
    /\ live' = FALSE
    /\ toCore' = Append(toCore, Abort)
    /\ CancelStreams(p)
    /\ UNCHANGED sent

\* A closed frame: the core is done with the session.
NodeClosed ==
    /\ live' = FALSE
    /\ CancelStreams(producer)
    /\ UNCHANGED <<toCore, sent>>

\* A request (or connect) callback adds the session; a response callback of
\* a session already forgotten is answered with an abort.
NodeAsked(s) ==
    IF s \in Replies /\ ~live
    THEN /\ toCore' = Append(toCore, Abort)
         /\ UNCHANGED nodeVars
    ELSE /\ live' = TRUE
         /\ producer' = [producer EXCEPT ![s] = "asked"]
         /\ UNCHANGED <<toCore, cancelled, sent>>

\* A credit wakes the pipe waiting for it; one nobody waits for is dropped.
NodeCredited(s) ==
    /\ producer' = IF producer[s] = "waiting"
                   THEN [producer EXCEPT ![s] = "released"] ELSE producer
    /\ UNCHANGED <<toCore, live, cancelled, sent>>

NodeReceive ==
    /\ toNode # <<>>
    /\ toNode' = Tail(toNode)
    /\ LET m == Head(toNode) IN
           \/ m.type = "ask" /\ NodeAsked(m.stream)
           \/ m.type = "credit" /\ NodeCredited(m.stream)
           \/ m.type = "failure" /\ Fail(producer)
           \/ m.type = "closed" /\ NodeClosed
    /\ UNCHANGED coreVars

\* The engine's handler settled: the session may be gone by now, or the
\* decision is to abort; otherwise the bytes will be relayed, at once or
\* after the latency of a throttle rule.
Decide(s) ==
    /\ producer[s] = "asked"
    /\ \E next \in {"done"} \cup (IF live THEN {"delayed"} ELSE {}) :
           producer' = [producer EXCEPT ![s] = next]
    /\ UNCHANGED <<toCore, toNode, live, cancelled, sent, coreVars>>

\* The handler threw.
HandlerFails(s) ==
    /\ producer[s] = "asked"
    /\ Fail([producer EXCEPT ![s] = "done"])
    /\ UNCHANGED <<toNode, coreVars>>

\* Streams.pipe begins: nothing looks again whether the session is alive.
StartPipe(s) ==
    /\ producer[s] = "delayed"
    /\ producer' = [producer EXCEPT ![s] = "reading"]
    /\ UNCHANGED <<toCore, toNode, live, cancelled, sent, coreVars>>

\* Two plausible slips: one chunk too many, or no waiting for the credit.
SendChunkOnceMore(s) ==
    /\ producer[s] = "reading" /\ ~cancelled[s]
    /\ sent[s] <= Chunks
    /\ sent' = [sent EXCEPT ![s] = @ + 1]
    /\ toCore' = Append(toCore, Chunk(s, sent[s] + 1))
    /\ producer' = [producer EXCEPT ![s] = "waiting"]
    /\ UNCHANGED <<toNode, live, cancelled, coreVars>>

SendChunkAtOnce(s) ==
    /\ producer[s] = "reading" /\ ~cancelled[s]
    /\ sent[s] < Chunks
    /\ sent' = [sent EXCEPT ![s] = @ + 1]
    /\ toCore' = Append(toCore, Chunk(s, sent[s] + 1))
    /\ UNCHANGED <<toNode, live, producer, cancelled, coreVars>>

\* The source yielded another chunk: register for credit, then send.
SendChunk(s) ==
    /\ producer[s] = "reading"
    /\ ~cancelled[s]
    /\ sent[s] < Chunks
    /\ sent' = [sent EXCEPT ![s] = @ + 1]
    /\ toCore' = Append(toCore, Chunk(s, sent[s] + 1))
    /\ producer' = [producer EXCEPT ![s] = "waiting"]
    /\ UNCHANGED <<toNode, live, cancelled, coreVars>>

\* The pipe resumes after its credit, or after cancel let it go.
Resume(s) ==
    /\ producer[s] = "released"
    /\ producer' = [producer EXCEPT ![s] = IF cancelled[s] THEN "done" ELSE "reading"]
    /\ UNCHANGED <<toCore, toNode, live, cancelled, sent, coreVars>>

\* The source is exhausted.  A cancel that finds the source already ended
\* does not stop this: the loop over the source ends normally.
SendEnd(s) ==
    /\ producer[s] = "reading"
    /\ sent[s] = Chunks
    /\ toCore' = Append(toCore, End(s))
    /\ producer' = [producer EXCEPT ![s] = "done"]
    /\ UNCHANGED <<toNode, live, cancelled, sent, coreVars>>

\* A plausible slip: a pipe that stops says that its body is complete.
PipeReturnsEnded(s) ==
    /\ producer[s] = "reading" /\ cancelled[s]
    /\ toCore' = Append(toCore, End(s))
    /\ producer' = [producer EXCEPT ![s] = "done"]
    /\ UNCHANGED <<toNode, live, cancelled, sent, coreVars>>

\* A cancelled pipe notices, between chunks or because its source is destroyed.
PipeReturns(s) ==
    /\ producer[s] = "reading"
    /\ cancelled[s]
    /\ producer' = [producer EXCEPT ![s] = "done"]
    /\ UNCHANGED <<toCore, toNode, live, cancelled, sent, coreVars>>

\* The source breaks while the pipe reads it: pipe throws and the inspector
\* fails the session.
SourceFails(s) ==
    /\ producer[s] = "reading"
    /\ ~cancelled[s]
    /\ Fail([producer EXCEPT ![s] = "done"])
    /\ UNCHANGED <<toNode, coreVars>>

Node ==
    \/ NodeReceive
    \/ \E s \in Streams :
           \/ Decide(s) \/ HandlerFails(s) \/ StartPipe(s) \/ SendChunk(s)
           \/ Resume(s) \/ SendEnd(s) \/ PipeReturns(s) \/ SourceFails(s)

-----------------------------------------------------------------------------
(* The core. *)

\* The exchange's handler registers the reader of a stream, and only then asks
\* the agent.  It looked whether the session is open before, so the session may
\* have ended in between.
Register(s) ==
    /\ ~fatal
    /\ handler[s] = "new"
    /\ s \in Replies => \A q \in Streams \ Replies : handler[q] = "asked"
    /\ handler' = [handler EXCEPT ![s] = "registered"]
    /\ readers' = readers \cup {s}
    /\ UNCHANGED <<toCore, toNode, nodeVars, readerVars, sessionVars, loop, fatal>>

SendAsk(s) ==
    /\ ~fatal
    /\ handler[s] = "registered"
    /\ handler' = [handler EXCEPT ![s] = "asked"]
    /\ toNode' = Append(toNode, Ask(s))
    /\ UNCHANGED <<toCore, nodeVars, readers, readerVars, sessionVars, loop, fatal>>

\* session.finish, in a goroutine of its own: the client went away, the response
\* is over, or something failed.  sync.Once lets the first caller through.
FinishStarts ==
    /\ ~fatal
    /\ finish = "open"
    /\ finish' = "cancelled"
    /\ failing' \in BOOLEAN
    /\ UNCHANGED <<toCore, toNode, nodeVars, handler, readers, readerVars, loop, fatal>>

FinishDeletes ==
    /\ ~fatal
    /\ finish = "cancelled"
    /\ finish' = "deleted"
    /\ UNCHANGED <<toCore, toNode, nodeVars, handler, readers, readerVars, failing, loop, fatal>>

FinishRemovesStreams ==
    /\ ~fatal
    /\ finish = "deleted"
    /\ finish' = "removed"
    /\ readers' = {}
    /\ UNCHANGED <<toCore, toNode, nodeVars, handler, readerVars, failing, loop, fatal>>

FinishReports ==
    /\ ~fatal
    /\ finish = "removed" /\ failing
    /\ failing' = FALSE
    /\ toNode' = Append(toNode, Failure)
    /\ UNCHANGED <<toCore, nodeVars, handler, readers, readerVars, finish, loop, fatal>>

FinishCloses ==
    /\ ~fatal
    /\ finish = "removed" /\ ~failing
    /\ finish' = "closed"
    /\ toNode' = Append(toNode, Closed)
    /\ UNCHANGED <<toCore, nodeVars, handler, readers, readerVars, failing, loop, fatal>>

Finish ==
    \/ FinishStarts \/ FinishDeletes \/ FinishRemovesStreams
    \/ FinishReports \/ FinishCloses

\* The session's context is cancelled: the `done' channel of its readers is closed.
Done == finish # "open"

\* The control loop takes an abort: if r.sessions still has the session it runs
\* finish, or waits in sync.Once for the goroutine that does.
LoopAborts ==
    IF finish \in {"open", "cancelled"}
    THEN /\ finish' = "cancelled"
         /\ loop' = "finishing"
         /\ UNCHANGED <<failing, handler, readers, readerVars, fatal>>
    ELSE UNCHANGED coreVars

\* Peer.Receive on a chunk or an end: dropped without a reader; otherwise the
\* ready cases of the select, and an error that stops the core if none is.
LoopDelivers(m) ==
    LET s == m.stream IN
    /\ UNCHANGED <<handler, readers, buffer, got, eof, sessionVars, loop>>
    /\ \/ s \notin readers /\ UNCHANGED <<slot, fatal>>
       \/ s \in readers /\ Done /\ UNCHANGED <<slot, fatal>>
       \/ /\ s \in readers /\ slot[s] = Empty
          /\ slot' = [slot EXCEPT ![s] = m]
          /\ UNCHANGED fatal
       \/ /\ s \in readers /\ ~Done /\ slot[s] # Empty
          /\ fatal' = TRUE
          /\ UNCHANGED slot

CoreReceive ==
    /\ ~fatal
    /\ loop = "free"
    /\ toCore # <<>>
    /\ toCore' = Tail(toCore)
    /\ LET m == Head(toCore) IN
           \/ m = Abort /\ LoopAborts
           \/ m # Abort /\ LoopDelivers(m)
    /\ UNCHANGED <<toNode, nodeVars>>

LoopResumes ==
    /\ ~fatal
    /\ loop = "finishing" /\ finish = "closed"
    /\ loop' = "free"
    /\ UNCHANGED <<toCore, toNode, nodeVars, handler, readers, readerVars, sessionVars, fatal>>

\* Two plausible slips: a chunk is acknowledged already when it is taken, or not
\* when the last of it is read.
ReadFrameAcknowledged(s) ==
    /\ ~fatal
    /\ buffer[s] = 0 /\ ~eof[s] /\ slot[s].type = "chunk"
    /\ slot' = [slot EXCEPT ![s] = Empty]
    /\ buffer' = [buffer EXCEPT ![s] = slot[s].n]
    /\ toNode' = Append(toNode, Credit(s))
    /\ UNCHANGED <<toCore, nodeVars, handler, readers, got, eof, sessionVars, loop, fatal>>

ConsumeChunkSilently(s) ==
    /\ ~fatal
    /\ buffer[s] # 0
    /\ got' = [got EXCEPT ![s] = Append(@, buffer[s])]
    /\ buffer' = [buffer EXCEPT ![s] = 0]
    /\ UNCHANGED <<toCore, toNode, nodeVars, handler, readers, slot, eof, sessionVars, loop, fatal>>

\* BodyReader.Read takes the pending frame ...
ReadFrame(s) ==
    /\ ~fatal
    /\ buffer[s] = 0 /\ ~eof[s]
    /\ slot[s] # Empty
    /\ slot' = [slot EXCEPT ![s] = Empty]
    /\ IF slot[s].type = "end"
       THEN eof' = [eof EXCEPT ![s] = TRUE] /\ UNCHANGED buffer
       ELSE buffer' = [buffer EXCEPT ![s] = slot[s].n] /\ UNCHANGED eof
    /\ UNCHANGED <<toCore, toNode, nodeVars, handler, readers, got, sessionVars, loop, fatal>>

\* ... and returns the last bytes of the chunk, acknowledging it.
ConsumeChunk(s) ==
    /\ ~fatal
    /\ buffer[s] # 0
    /\ got' = [got EXCEPT ![s] = Append(@, buffer[s])]
    /\ buffer' = [buffer EXCEPT ![s] = 0]
    /\ toNode' = Append(toNode, Credit(s))
    /\ UNCHANGED <<toCore, nodeVars, handler, readers, slot, eof, sessionVars, loop, fatal>>

Core ==
    \/ Finish \/ CoreReceive \/ LoopResumes
    \/ \E s \in Streams : Register(s) \/ SendAsk(s) \/ ReadFrame(s) \/ ConsumeChunk(s)

Next == Node \/ Core

Spec == Init /\ [][Next]_vars

-----------------------------------------------------------------------------
(* Fairness: both event loops and the goroutines keep running, sources keep    *)
(* yielding and consumers keep reading.  Nothing makes a callback decide (a    *)
(* breakpoint waits for the user), a handler ask, a client leave or an error   *)
(* happen.                                                                     *)
Fairness ==
    /\ WF_vars(NodeReceive) /\ WF_vars(CoreReceive) /\ WF_vars(LoopResumes)
    /\ WF_vars(FinishDeletes) /\ WF_vars(FinishRemovesStreams)
    /\ WF_vars(FinishReports) /\ WF_vars(FinishCloses)
    /\ \A s \in Streams :
        /\ WF_vars(StartPipe(s)) /\ WF_vars(SendChunk(s)) /\ WF_vars(Resume(s))
        /\ WF_vars(SendEnd(s)) /\ WF_vars(PipeReturns(s))
        /\ WF_vars(ReadFrame(s)) /\ WF_vars(ConsumeChunk(s))

FairSpec == Spec /\ Fairness

-----------------------------------------------------------------------------
(* Properties. *)

TypeOK ==
    /\ toCore \in Seq(ToCore) /\ toNode \in Seq(ToNode)
    /\ live \in BOOLEAN
    /\ producer \in [Streams ->
           {"idle", "asked", "delayed", "reading", "waiting", "released", "done"}]
    /\ cancelled \in [Streams -> BOOLEAN]
    /\ sent \in [Streams -> 0..Chunks]
    /\ handler \in [Streams -> {"new", "registered", "asked"}]
    /\ readers \subseteq Streams
    /\ slot \in [Streams -> Data \cup {Empty}]
    /\ buffer \in [Streams -> 0..Chunks]
    /\ got \in [Streams -> Seq(1..Chunks)]
    /\ eof \in [Streams -> BOOLEAN]
    /\ finish \in {"open", "cancelled", "deleted", "removed", "closed"}
    /\ failing \in BOOLEAN
    /\ loop \in {"free", "finishing"} /\ fatal \in BOOLEAN

\* The core never stops over "IPC producer exceeded stream credit", whatever
\* cancellation, failure or disconnection the frames of a body race with.
NoOverflow == ~fatal

\* engine/README.md: "Only one chunk per stream remains unacknowledged".
OneUnacknowledged == \A s \in Streams : sent[s] <= Len(got[s]) + 1

\* The frames of each stream implement the abstract transfer: in order, one
\* chunk ahead at most, and no body that was cut short is ever reported complete.
Transfer == INSTANCE BodyTransfer WITH offered <- sent
ImplementsTransfer == Transfer!Spec

\* A pipe told to stop does stop: no credit it waits for can strand it.
CancelledPipesReturn ==
    \A s \in Streams : cancelled[s] ~> producer[s] = "done"

\* A body whose session nobody ends reaches its consumer in full: no credit is
\* lost between the processes.
BodiesArrive ==
    \A s \in Streams : producer[s] = "reading" ~> eof[s] \/ Done \/ cancelled[s]

\* engine/README.md: "`closed` completes lifecycle cleanup": once the agent has
\* handled every frame of a closed session it no longer counts it as live.
ClosedSessionForgotten ==
    finish = "closed" /\ toNode = <<>> => ~live
=============================================================================
