------------------------------- MODULE Capture -------------------------------
(***************************************************************************)
(* What the agent keeps of the sessions of one window: the records and the *)
(* breakpoints of core/engine.ts, driven by the callbacks of               *)
(* core/inspector.ts, over several lives of the capture core               *)
(* (agent/sharedCore.ts; the window is the only one).                      *)
(*                                                                         *)
(* A session is numbered in the order its request arrives.  The core names *)
(* it with a counter of its own, which tunnels and certificates draw from  *)
(* too and which restarts with each core process; the agent's maps are     *)
(* keyed by that name, so two sessions of different lives can have the     *)
(* same id.                                                                *)
(*                                                                         *)
(* Everything here runs on one event loop.  The frames of one read of the  *)
(* control pipe are handled in one turn, and the callbacks they wake only  *)
(* continue after the last of them; nothing else runs before those have.   *)
(***************************************************************************)
EXTENDS Naturals, Sequences, SequencesExt

CONSTANTS
    Requests,  \* how many requests the clients make
    Limits     \* the values of the maxEntries setting

ASSUME RequestsAssumption == Requests \in Nat
ASSUME LimitsAssumption == Limits \subseteq Nat \ {0} /\ Limits # {}

Sessions == 1..Requests
Ids == 1..Requests
None == 0
Phases == {"request", "response"}

VARIABLES
    mode,       \* the capture: off, on, stopping or unbound from the core; refused: its stop
                \* failed and all goes on; failing: the core is killed for it; wedged: is dead
    next,       \* the core's counter of ids
    recording, limit,
    turn,       \* what the event loop is doing: free, core or micro
    id,         \* the id the core gave each session, None before its request
    live,       \* in Inspector.sessions, and bound to the window's engine
    call,       \* where the callback of each session is
    phase,      \* which callback that is
    body,       \* the reader of the body that callback may wait for
    subject,    \* the record the callback works on, or None
    tx, paused, \* Transaction.state and Transaction.paused
    kept,       \* Engine.transactions, in insertion order
    holds,      \* Engine.holds: the session whose callback waits under an id
    matched,    \* Engine.matched
    captures,   \* the keys of Engine.captures
    lost        \* history: the sessions a killed core had, until a stop succeeds

vars == <<mode, next, recording, limit, turn, id, live, call, phase, body, subject,
          tx, paused, kept, holds, matched, captures, lost>>

Init ==
    /\ mode = "off" /\ next = 1
    /\ recording = TRUE /\ limit \in Limits
    /\ turn = "free"
    /\ id = [s \in Sessions |-> None]
    /\ live = [s \in Sessions |-> FALSE]
    /\ call = [s \in Sessions |-> "none"]
    /\ phase = [s \in Sessions |-> "request"]
    /\ body = [s \in Sessions |-> "none"]
    /\ subject = [s \in Sessions |-> None]
    /\ tx = [s \in Sessions |-> "none"]
    /\ paused = [s \in Sessions |-> "no"]
    /\ kept = <<>>
    /\ holds = [i \in Ids |-> None]
    /\ matched = [i \in Ids |-> {}]
    /\ captures = {}
    /\ lost = {}

-----------------------------------------------------------------------------
(* The event loop. *)

\* The callback of s can continue: its body ended, or its breakpoint was left.
Runnable(s) ==
    \/ call[s] = "body" /\ body[s] = "ended"
    \/ call[s] \in {"resumed", "aborted"}

Quiet == \A s \in Sessions : ~Runnable(s)

\* A frame from the core, perhaps one of several of the same read.
FrameTurn ==
    /\ turn \in {"free", "core"}
    /\ turn' = IF Quiet' THEN "free" ELSE "core"

\* Anything else: a client's call, a timer, the exit of the child.
TaskTurn ==
    /\ turn = "free"
    /\ turn' = IF Quiet' THEN "free" ELSE "micro"

-----------------------------------------------------------------------------
(* The engine's records. *)

\* The records under the ids of I; the one under i, if any.
Records(I) == {s \in ToSet(kept) : id[s] \in I}
Record(i) == IF Records({i}) = {} THEN None ELSE CHOOSE s \in Records({i}) : TRUE

\* Engine.enforceEntryLimit on the records q: the oldest go.
Newest(q, n) == IF Len(q) <= n THEN q ELSE SubSeq(q, Len(q) - n + 1, Len(q))

IdsOf(q) == {id'[q[k]] : k \in DOMAIN q}

\* Map.set: the record under the same id is replaced where it stands.
Put(q, s, i) ==
    IF \E k \in DOMAIN q : id[q[k]] = i
    THEN [k \in DOMAIN q |-> IF id[q[k]] = i THEN s ELSE q[k]]
    ELSE Append(q, s)

\* The records of q that are not in S, in their order.
Without(q, S) ==
    LET left == {k \in DOMAIN q : q[k] \notin S}
        place(k) == Cardinality({l \in left : l <= k}) IN
    [j \in 1..Cardinality(left) |-> q[CHOOSE k \in left : place(k) = j]]

\* Engine.finish on the records under the ids of I.
Finish(I) ==
    tx' = [s \in Sessions |->
              IF s \in Records(I) /\ tx[s] = "pending" THEN "settled" ELSE tx[s]]

\* The sessions D end in the inspector and Engine.release lets go of what waits
\* under the ids of R: a body not received never is, and a pipe is cancelled.
End(D, R) ==
    /\ live' = [s \in Sessions |-> live[s] /\ s \notin D]
    /\ body' = [s \in Sessions |->
                   IF s \in D /\ body[s] = "open" THEN "destroyed" ELSE body[s]]
    /\ holds' = [i \in Ids |-> IF i \in R THEN None ELSE holds[i]]
    /\ call' = [s \in Sessions |->
                   IF \E i \in R : holds[i] = s THEN "aborted"
                   ELSE IF s \in D /\ call[s] = "relaying" THEN "over"
                   ELSE call[s]]

\* As a plausible slip would have it: the sessions are forgotten first, and the
\* engine's callbacks are then made for none.
ForgottenFirst(D) ==
    /\ End(D, {})
    /\ UNCHANGED <<matched, captures, tx>>

\* What the engine remembers of the ids of I goes, and their records are settled.
Settle(I) ==
    /\ matched' = [i \in Ids |-> IF i \in I THEN {} ELSE matched[i]]
    /\ captures' = captures \ I
    /\ Finish(I)

\* Engine.closed or Engine.failure is called for each of the sessions D.
Ended(D) ==
    LET I == {id[s] : s \in D} IN
    /\ End(D, I)
    /\ Settle(I)

\* Engine.responseEnd is called for each of the sessions D; without a record it does nothing.
Answered(D) == Settle({id[s] : s \in D} \cap {id[r] : r \in ToSet(kept)})

-----------------------------------------------------------------------------
(* Frames from the core. *)

Receiving == mode \in {"on", "stopping", "refused", "failing"}

\* The request callback up to its first await: the record is created unless
\* recording is off, the rules that match are remembered, and a breakpoint makes
\* it wait for the body.
RequestArrives(s) ==
    /\ Receiving
    /\ id[s] = None /\ \A r \in Sessions : r < s => id[r] # None
    /\ \E i \in Ids :
        /\ i >= next
        /\ id' = [id EXCEPT ![s] = i]
        /\ next' = i + 1
    /\ live' = [live EXCEPT ![s] = TRUE]
    /\ \E breakpoints \in SUBSET Phases :
        /\ matched' = IF breakpoints = {} THEN matched
                      ELSE [matched EXCEPT ![id'[s]] = breakpoints]
        /\ IF recording /\ "request" \in breakpoints
           THEN /\ call' = [call EXCEPT ![s] = "body"]
                /\ body' = [body EXCEPT ![s] = "open"]
           ELSE /\ call' = [call EXCEPT ![s] = "relaying"]
                /\ UNCHANGED body
    /\ IF recording
       THEN LET all == Put(kept, s, id'[s]) IN
            /\ kept' = Newest(all, limit)
            /\ captures' = captures \ (IdsOf(all) \ IdsOf(kept'))
            /\ tx' = [tx EXCEPT ![s] = "pending"]
            /\ subject' = [subject EXCEPT ![s] = s]
       ELSE UNCHANGED <<kept, captures, tx, subject>>
    /\ UNCHANGED <<mode, recording, limit, phase, paused, holds, lost>>
    /\ FrameTurn

\* The end of the body a callback waits for.
BodyEnds(s) ==
    /\ Receiving
    /\ body[s] = "open"
    /\ body' = [body EXCEPT ![s] = "ended"]
    /\ UNCHANGED <<mode, next, recording, limit, id, live, call, phase, subject, tx, paused,
                   kept, holds, matched, captures, lost>>
    /\ FrameTurn

\* The response callback finds its record and its rules under the session's id.  A core that
\* is being killed is not told to go on to one.
ResponseArrives(s) ==
    /\ Receiving /\ mode # "failing"
    /\ live[s] /\ call[s] = "relaying" /\ phase[s] = "request"
    /\ phase' = [phase EXCEPT ![s] = "response"]
    /\ subject' = [subject EXCEPT ![s] = Record(id[s])]
    /\ IF "response" \in matched[id[s]] /\ Record(id[s]) # None
       THEN /\ call' = [call EXCEPT ![s] = "body"]
            /\ body' = [body EXCEPT ![s] = "open"]
       ELSE UNCHANGED <<call, body>>
    /\ UNCHANGED <<mode, next, recording, limit, id, live, tx, paused, kept,
                   holds, matched, captures, lost>>
    /\ FrameTurn

\* A `closed' or `failure' frame, or a callback or a pipe that throws.
SessionEnds(s) ==
    /\ Receiving
    /\ live[s]
    /\ Ended({s})
    /\ UNCHANGED <<mode, next, recording, limit, id, phase, subject, paused, kept, lost>>
    /\ FrameTurn

-----------------------------------------------------------------------------
(* Callbacks that continue, and bytes that pass. *)

\* The body is there: show the record as paused and wait for the user.  Nobody
\* looks whether the session, the record or the capture is still there.
Hold(s) ==
    /\ call[s] = "body" /\ body[s] = "ended"
    /\ paused' = [paused EXCEPT ![subject[s]] = phase[s]]
    /\ holds' = [holds EXCEPT ![id[s]] = s]
    /\ call' = [call EXCEPT ![s] = "held"]
    /\ UNCHANGED <<live, matched, captures, tx>>

\* A plausible slip: the mark is only taken off a request that goes on.
ProceedMarked(s) ==
    /\ call[s] \in {"resumed", "aborted"}
    /\ paused' = IF call[s] = "resumed" THEN [paused EXCEPT ![subject[s]] = "no"] ELSE paused
    /\ call' = [call EXCEPT ![s] =
                   IF call[s] = "resumed" /\ live[s] THEN "relaying" ELSE "over"]
    /\ UNCHANGED <<live, holds, matched, captures, tx>>

\* The breakpoint was left: the inspector relays the body, if the session is
\* still there and the user did not abort it.
Proceed(s) ==
    /\ call[s] \in {"resumed", "aborted"}
    /\ paused' = [paused EXCEPT ![subject[s]] = "no"]
    /\ call' = [call EXCEPT ![s] =
                   IF call[s] = "resumed" /\ live[s] THEN "relaying" ELSE "over"]
    /\ UNCHANGED <<live, holds, matched, captures, tx>>

Continue(s) ==
    /\ Hold(s) \/ Proceed(s)
    /\ UNCHANGED <<mode, next, recording, limit, id, phase, body, subject, kept, lost>>
    /\ turn' = IF Quiet' THEN "free" ELSE "micro"

\* A chunk passes the tap of a relay.
DataTapped(s) ==
    /\ live[s] /\ call[s] = "relaying"
    /\ Record(id[s]) # None
    /\ captures' = captures \cup {id[s]}
    /\ UNCHANGED <<mode, next, recording, limit, id, live, call, phase, body, subject,
                   tx, paused, kept, holds, matched, lost>>
    /\ FrameTurn

\* The response was relayed to its end.
ResponseEnds(s) ==
    /\ live[s] /\ call[s] = "relaying" /\ phase[s] = "response"
    /\ call' = [call EXCEPT ![s] = "over"]
    /\ Answered({s})
    /\ UNCHANGED <<mode, next, recording, limit, id, live, phase, body, subject, paused,
                   kept, holds, lost>>
    /\ TaskTurn

-----------------------------------------------------------------------------
(* Calls of the clients. *)

sessionVars == <<mode, next, id, live, phase, body, subject, tx, paused, matched, lost>>

\* The user continues what waits under an id, or aborts it.
Resume(i) ==
    /\ holds[i] # None
    /\ \E way \in {"resumed", "aborted"} : call' = [call EXCEPT ![holds[i]] = way]
    /\ holds' = [holds EXCEPT ![i] = None]
    /\ UNCHANGED <<sessionVars, recording, limit, kept, captures>>
    /\ TaskTurn

\* Engine.delete of some of the records, after what waits under their ids.
Delete(S) ==
    LET I == {id[s] : s \in S} IN
    /\ S # {} /\ S \subseteq ToSet(kept)
    /\ End({}, I)
    /\ kept' = Without(kept, S)
    /\ captures' = captures \ I
    /\ UNCHANGED <<mode, next, id, phase, subject, tx, paused, matched,
                   recording, limit, lost>>
    /\ TaskTurn

Clear ==
    /\ End({}, Ids)
    /\ kept' = <<>> /\ captures' = {}
    /\ UNCHANGED <<mode, next, id, phase, subject, tx, paused, matched,
                   recording, limit, lost>>
    /\ TaskTurn

ToggleRecording ==
    /\ recording' = ~recording
    /\ UNCHANGED <<sessionVars, call, limit, kept, holds, captures>>
    /\ TaskTurn

\* Two plausible slips: the new value is not checked, or not enforced at once.
ChangeLimitUnchecked ==
    /\ limit' \in Limits \cup {0}
    /\ kept' = Newest(kept, limit')
    /\ captures' = captures \cap {id[s] : s \in ToSet(kept')}
    /\ UNCHANGED <<sessionVars, call, recording, holds>>
    /\ TaskTurn

ChangeLimitLater ==
    /\ limit' \in Limits
    /\ UNCHANGED <<sessionVars, call, recording, holds, kept, captures>>
    /\ TaskTurn

\* The settings of the window: enforceEntryLimit follows at once.
ChangeLimit ==
    /\ limit' \in Limits
    /\ kept' = Newest(kept, limit')
    /\ captures' = captures \cap {id[s] : s \in ToSet(kept')}
    /\ UNCHANGED <<sessionVars, call, recording, holds>>
    /\ TaskTurn

\* A new core process counts its sessions from 1; one whose inlet would not go gets another.
Start ==
    /\ mode \in {"off", "refused"}
    /\ mode' = "on" /\ next' = IF mode = "off" THEN 1 ELSE next
    /\ UNCHANGED <<id, live, phase, body, subject, tx, paused, matched, call,
                   recording, limit, kept, holds, captures, lost>>
    /\ TaskTurn

\* Engine.stop first lets go of everything held, then has the inlet removed.
StopBegins ==
    /\ mode \in {"on", "refused"}
    /\ mode' = "stopping"
    /\ End({}, Ids)
    /\ UNCHANGED <<next, id, phase, subject, tx, paused, matched,
                   recording, limit, kept, captures, lost>>
    /\ TaskTurn

\* The inlet is removed: the bindings are dropped and the inspector forgets its
\* sessions and destroys their streams, without a callback to the engine.
InletRemoved ==
    /\ mode = "stopping"
    /\ mode' = "unbound"
    /\ End(Sessions, {})
    /\ UNCHANGED <<next, id, phase, subject, tx, paused, matched,
                   recording, limit, kept, captures, lost>>
    /\ TaskTurn

\* The child exited: what is pending ends, and nothing is captured any more.
StopEnds ==
    /\ mode = "unbound"
    /\ mode' = "off"
    /\ Finish({id[s] : s \in ToSet(kept)})
    /\ captures' = {} /\ lost' = {}
    /\ UNCHANGED <<next, id, live, phase, body, subject, paused, matched,
                   call, recording, limit, kept, holds>>
    /\ TaskTurn

\* A stop with no capture: there is no inlet to remove, the rest is as ever.
StopNothing ==
    /\ mode = "off"
    /\ End({}, Ids)
    /\ Finish({id[s] : s \in ToSet(kept)})
    /\ captures' = {} /\ lost' = {}
    /\ UNCHANGED <<mode, next, id, phase, subject, paused, matched, recording, limit, kept>>
    /\ TaskTurn

\* The core answers the removal with an error: the stop throws before it settles anything, and
\* the sessions of the window go on.
RemoveRefused ==
    /\ mode = "stopping"
    /\ mode' = "refused"
    /\ UNCHANGED <<next, id, live, phase, body, subject, tx, paused, matched, call,
                   recording, limit, kept, holds, captures, lost>>
    /\ TaskTurn

\* The inspector is stopped with its bindings in place: it forgets its sessions and cuts their
\* streams.  Of these only the relays of responses return, and tell the engine of an end.
Cut ==
    LET relayed == {s \in Sessions : live[s] /\ call[s] = "relaying" /\ phase[s] = "response"} IN
    /\ End(Sessions, {})
    /\ Answered(relayed)
    /\ lost' = lost \cup {s \in Sessions : live[s] /\ s \notin relayed}
    /\ UNCHANGED <<next, id, phase, subject, paused, recording, limit, kept>>

\* It does not answer in ten seconds: the stop throws and the core is killed.  What that wrote
\* before is still read, and belongs to the window.
RemoveTimesOut ==
    /\ mode = "stopping"
    /\ mode' = "failing"
    /\ Cut
    /\ TaskTurn

\* Another stop has nobody to send its command to, and throws after its first line.
StopFails ==
    /\ mode \in {"failing", "wedged"}
    /\ End({}, Ids)
    /\ UNCHANGED <<sessionVars, recording, limit, kept, captures>>
    /\ TaskTurn

\* A start adds an inlet to the core there is; when that fails it stops its inspector, and the
\* next one finds none.
StartFails ==
    /\ mode \in {"refused", "wedged"}
    /\ mode' = "off"
    /\ Cut
    /\ TaskTurn

\* The core exits: every session it had fails.  Of a core that was killed the window is not
\* told.  (Nothing that it wrote is read later: a bound.)
CoreExits ==
    /\ Receiving
    /\ mode' = IF mode = "failing" THEN "wedged" ELSE "off"
    /\ Ended({s \in Sessions : live[s]})
    /\ UNCHANGED <<next, recording, limit, id, phase, subject, paused, kept, lost>>
    /\ TaskTurn

Next ==
    \/ \E s \in Sessions :
           \/ RequestArrives(s) \/ BodyEnds(s) \/ ResponseArrives(s) \/ SessionEnds(s)
           \/ Continue(s) \/ DataTapped(s) \/ ResponseEnds(s)
    \/ \E i \in Ids : Resume(i)
    \/ \E S \in SUBSET Sessions : Delete(S)
    \/ Clear \/ ToggleRecording \/ ChangeLimit
    \/ Start \/ StartFails \/ StopBegins \/ InletRemoved \/ StopEnds \/ StopNothing
    \/ RemoveRefused \/ RemoveTimesOut \/ StopFails \/ CoreExits

Spec == Init /\ [][Next]_vars

-----------------------------------------------------------------------------
(* Properties. *)

TypeOK ==
    /\ mode \in {"off", "on", "stopping", "unbound", "refused", "failing", "wedged"}
    /\ next \in 1..Requests + 1
    /\ recording \in BOOLEAN /\ limit \in Limits
    /\ turn \in {"free", "core", "micro"}
    /\ id \in [Sessions -> Ids \cup {None}]
    /\ live \in [Sessions -> BOOLEAN]
    /\ call \in [Sessions ->
           {"none", "body", "held", "resumed", "aborted", "relaying", "over"}]
    /\ phase \in [Sessions -> Phases]
    /\ body \in [Sessions -> {"none", "open", "ended", "destroyed"}]
    /\ subject \in [Sessions -> Sessions \cup {None}]
    /\ tx \in [Sessions -> {"none", "pending", "settled"}]
    /\ paused \in [Sessions -> {"no"} \cup Phases]
    /\ kept \in Seq(Sessions)
    /\ holds \in [Ids -> Sessions \cup {None}]
    /\ matched \in [Ids -> SUBSET Phases]
    /\ captures \subseteq Ids /\ lost \subseteq Sessions

\* Whatever joins, leaves or lowers the limit, no more requests are kept than the
\* setting allows, and captured bytes are only kept for a request that is.
KeptWithinLimit ==
    /\ Len(kept) <= limit
    /\ captures \subseteq {id[s] : s \in ToSet(kept)}

\* No request is shown as pending once its session is over, however it ended: the
\* client, the core, a crash of the core or a stop of the capture.  A stop that fails
\* throws before it settles what is pending (engine.ts:252): what was under way when
\* the core was killed for it, and no more, may stay so until a stop succeeds.
PendingIsLive ==
    \A s \in ToSet(kept) :
        tx[s] = "pending" => live[s] \/ mode = "unbound" \/ s \in lost

\* A request shown as paused can be continued: a callback waits under its id, or
\* has been let go and is about to say so.
PausedCanContinue ==
    \A s \in ToSet(kept) :
        paused[s] # "no" =>
            \/ holds[id[s]] # None
            \/ \E c \in Sessions : subject[c] = s /\ call[c] \in {"resumed", "aborted"}

\* engine.ts, on release: "Resolve a held transaction as aborted, e.g. when its
\* client went away": nothing stays held for a session that is over.
HeldIsLive == \A i \in Ids : holds[i] # None => live[holds[i]]
=============================================================================
