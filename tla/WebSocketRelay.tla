---------------------------- MODULE WebSocketRelay ----------------------------
(***************************************************************************)
(* An inspected WebSocket (engine/websocket.go): two goroutines relay      *)
(* whole messages, one in each direction, and the user may resend an old   *)
(* message into the direction of the server.  Resends and the client's     *)
(* messages share one mutex; a resend has five seconds, after which it     *)
(* closes the connection to get itself unblocked.                          *)
(*                                                                         *)
(* A message takes two writes on the wire (its fragments, and for each the *)
(* header and the payload).  The server may stop reading: nothing says     *)
(* that a write returns unless the connection is closed.                   *)
(***************************************************************************)
EXTENDS Naturals, Sequences

CONSTANTS
    Resends,     \* the resends asked for
    Messages     \* bound: messages and Close frames the client sends


VARIABLES
    upward,      \* the relay from the client: reading, asking Node, waiting, writing, ended
    downward,    \* the relay from the server
    control,     \* what the upward relay holds is a Close frame
    number,      \* messages it has read
    holder,      \* who holds sender.mu
    written,     \* of each writer: writes of its message that are done
    wire,        \* what the server was sent
    closing,     \* websocketBody.closing
    stage,       \* websocketBody.Close, which runs once
    wanted,      \* somebody called it
    outcome,     \* what session.finish reported, once
    broken,      \* an end failed: reset the connection, or broke the protocol
    phase,       \* of each resend
    err,         \* the error of each resend
    fired,       \* its five seconds are over
    acked,       \* what Node was told
    resending    \* session.resending

relayVars == <<upward, downward, control, number, holder, written, wire, closing, stage,
               wanted, outcome, broken, phase, err, fired, acked, resending>>
sender == <<holder, written, wire>>
resend == <<phase, err, fired, acked, resending>>
relays == <<upward, downward, control, number>>

Nobody == "nobody"
Client == "client"
Writers == Resends \cup {Client}
Shut == stage \in {"shut", "done"}

Init ==
    /\ upward = "reading" /\ downward = "reading" /\ control = FALSE /\ number = 0
    /\ holder = Nobody /\ written = [w \in Writers |-> 0] /\ wire = <<>>
    /\ closing = FALSE /\ stage = "open" /\ wanted = FALSE
    /\ outcome = "none" /\ broken = FALSE
    /\ phase = [r \in Resends |-> "idle"] /\ err = [r \in Resends |-> FALSE]
    /\ fired = [r \in Resends |-> FALSE] /\ acked = [r \in Resends |-> "no"]
    /\ resending = FALSE

-----------------------------------------------------------------------------
(* The end of a relay (transfer), and Close. *)

Finish(how) == outcome' = IF outcome = "none" THEN how ELSE outcome

\* An error counts as a failure unless it is the end of the stream, or the closed socket
\* of a connection that is closing.
Ended(error) ==
    /\ wanted' = TRUE
    /\ broken' = (broken \/ error = "broken")
    /\ CASE error = "end" \/ (error = "closed" /\ closing) -> UNCHANGED outcome
         [] error = "cancelled" -> Finish("aborted")
         [] OTHER -> Finish("failed")

CloseMarks ==
    /\ stage = "open" /\ (wanted \/ outcome # "none")
    /\ stage' = "marked" /\ closing' = TRUE
    /\ UNCHANGED <<relays, sender, resend, wanted, outcome, broken>>

CloseShuts ==
    /\ stage = "marked" /\ stage' = "shut"
    /\ UNCHANGED <<relays, sender, resend, wanted, outcome, broken, closing>>

CloseFinishes ==
    /\ stage = "shut" /\ stage' = "done" /\ Finish("completed")
    /\ UNCHANGED <<relays, sender, resend, wanted, broken, closing>>

\* The client's connection is gone: session.disconnected.
ClientLeaves ==
    /\ outcome = "none" /\ Finish("aborted")
    /\ UNCHANGED <<relays, sender, resend, closing, stage, wanted, broken>>

-----------------------------------------------------------------------------
(* From the client to the server. *)

UpReads ==
    /\ upward = "reading"
    /\ \/ /\ ~Shut /\ number < Messages                    \* a message
          /\ upward' = "asking" /\ control' = FALSE /\ number' = number + 1
          /\ UNCHANGED <<closing, wanted, outcome, broken>>
       \/ /\ ~Shut /\ number < Messages                    \* a Close frame
          /\ upward' = "waiting" /\ control' = TRUE /\ number' = number + 1
          /\ closing' = TRUE
          /\ UNCHANGED <<wanted, outcome, broken>>
       \/ /\ upward' = "ended" /\ UNCHANGED <<control, number, closing>>
          /\ \/ ~Shut /\ Ended("broken")                   \* an invalid frame
             \/ Shut /\ Ended("end")                       \* the memory pipe is closed
    /\ UNCHANGED <<downward, sender, resend, stage>>

\* Node saw the message and returned it, unless the session is over.
UpAsks ==
    /\ upward = "asking"
    /\ \/ outcome = "none" /\ upward' = "waiting" /\ UNCHANGED <<wanted, outcome, broken>>
       \/ outcome # "none" /\ upward' = "ended" /\ Ended("cancelled")
    /\ UNCHANGED <<downward, control, number, sender, resend, closing, stage>>

UpLocks ==
    /\ upward = "waiting" /\ holder = Nobody
    /\ upward' = "writing" /\ holder' = Client
    /\ UNCHANGED <<downward, control, number, written, wire, resend, closing, stage, wanted,
                   outcome, broken>>

Released(who) == holder' = IF holder = who THEN Nobody ELSE holder
Last(who) == written[who] = 1
WritesOn(who) ==
    /\ ~Shut
    /\ wire' = Append(wire, [from |-> who, part |-> written[who] + 1])
    /\ written' = [written EXCEPT ![who] = 1 - @]
    /\ IF Last(who) THEN Released(who) ELSE UNCHANGED holder

UpWrites ==
    /\ upward = "writing" /\ WritesOn(Client)
    /\ upward' = IF Last(Client) THEN "reading" ELSE "writing"
    /\ UNCHANGED <<downward, control, number, resend, closing, stage, wanted, outcome, broken>>

UpFails ==
    /\ upward = "writing" /\ upward' = "ended"
    /\ Ended(IF Shut THEN "closed" ELSE "broken")
    /\ Released(Client) /\ written' = [written EXCEPT ![Client] = 0]
    /\ UNCHANGED <<downward, control, number, wire, resend, closing, stage>>

-----------------------------------------------------------------------------
(* From the server to the client; its writer is a memory pipe nobody else uses. *)

DownReads ==
    /\ downward = "reading"
    /\ \/ /\ ~Shut /\ downward' = "asking" /\ UNCHANGED <<closing, wanted, outcome, broken>>
       \/ /\ ~Shut /\ downward' = "writing" /\ closing' = TRUE       \* a Close frame
          /\ UNCHANGED <<wanted, outcome, broken>>
       \/ /\ downward' = "ended" /\ UNCHANGED closing
          /\ \/ ~Shut /\ (Ended("end") \/ Ended("broken"))
             \/ Shut /\ Ended("closed")
    /\ UNCHANGED <<upward, control, number, sender, resend, stage>>

DownAsks ==
    /\ downward = "asking"
    /\ \/ outcome = "none" /\ downward' = "writing" /\ UNCHANGED <<wanted, outcome, broken>>
       \/ outcome # "none" /\ downward' = "ended" /\ Ended("cancelled")
    /\ UNCHANGED <<upward, control, number, sender, resend, closing, stage>>

DownWrites ==
    /\ downward = "writing"
    /\ \/ ~Shut /\ downward' = "reading" /\ UNCHANGED <<wanted, outcome, broken>>
       \/ Shut /\ downward' = "ended" /\ Ended("end")
    /\ UNCHANGED <<upward, control, number, sender, resend, closing, stage>>

-----------------------------------------------------------------------------
(* sendWebSocket: the control loop starts a worker, or refuses at once. *)

ResendArrives(r) ==
    /\ phase[r] = "idle"
    /\ IF outcome # "none" \/ closing \/ resending
       THEN /\ phase' = [phase EXCEPT ![r] = "done"]
            /\ acked' = [acked EXCEPT ![r] = "error"]
            /\ UNCHANGED resending
       ELSE /\ phase' = [phase EXCEPT ![r] = "waiting"]
            /\ resending' = TRUE /\ UNCHANGED acked
    /\ UNCHANGED <<relays, sender, err, fired, closing, stage, wanted, outcome, broken>>

\* Wrong: a resend does not wait for the client's message to end.
ResendTakes(r) ==
    /\ phase[r] = "waiting" /\ ~closing
    /\ phase' = [phase EXCEPT ![r] = "writing"]
    /\ UNCHANGED <<relays, sender, err, fired, acked, resending, closing, stage, wanted,
                   outcome, broken>>

ResendLocks(r) ==
    /\ phase[r] = "waiting" /\ holder = Nobody
    /\ IF closing
       THEN /\ phase' = [phase EXCEPT ![r] = "checking"] /\ err' = [err EXCEPT ![r] = TRUE]
            /\ UNCHANGED holder
       ELSE /\ phase' = [phase EXCEPT ![r] = "writing"] /\ holder' = r /\ UNCHANGED err
    /\ UNCHANGED <<relays, written, wire, fired, acked, resending, closing, stage, wanted, outcome,
                   broken>>

ResendWrites(r) ==
    /\ phase[r] = "writing" /\ WritesOn(r)
    /\ phase' = [phase EXCEPT ![r] = IF Last(r) THEN "checking" ELSE "writing"]
    /\ UNCHANGED <<relays, err, fired, acked, resending, closing, stage, wanted, outcome,
                   broken>>

\* The write fails: the socket was closed here, or the server reset it.
ResendFails(r) ==
    /\ phase[r] = "writing"
    /\ phase' = [phase EXCEPT ![r] = "checking"] /\ err' = [err EXCEPT ![r] = TRUE]
    /\ Released(r) /\ written' = [written EXCEPT ![r] = 0]
    /\ UNCHANGED <<relays, wire, fired, acked, resending, closing, stage, wanted, outcome,
                   broken>>

\* A resend that ran out of time counts as failed, written or not; a failed one closes
\* the connection.
ResendChecks(r) ==
    /\ phase[r] = "checking"
    /\ err' = [err EXCEPT ![r] = @ \/ fired[r]]
    /\ wanted' = (wanted \/ err'[r])
    /\ phase' = [phase EXCEPT ![r] = "replying"]
    /\ UNCHANGED <<relays, sender, fired, acked, resending, closing, stage, outcome, broken>>

\* Close returns once it ran, whoever called it first.
ResendReplies(r) ==
    /\ phase[r] = "replying" /\ (err[r] => stage = "done")
    /\ acked' = [acked EXCEPT ![r] = IF err[r] THEN "error" ELSE "ok"]
    /\ phase' = [phase EXCEPT ![r] = "stopping"]
    /\ UNCHANGED <<relays, sender, err, fired, resending, closing, stage, wanted, outcome,
                   broken>>

ResendStops(r) ==
    /\ phase[r] = "stopping"
    /\ phase' = [phase EXCEPT ![r] = "done"] /\ resending' = FALSE
    /\ err' = [err EXCEPT ![r] = FALSE] /\ fired' = [fired EXCEPT ![r] = FALSE]
    /\ UNCHANGED <<relays, sender, acked, closing, stage, wanted, outcome, broken>>

\* Wrong: the deadline is only looked at after the write.
TimerFiresQuietly(r) ==
    /\ phase[r] \notin {"idle", "done"} /\ ~fired[r]
    /\ fired' = [fired EXCEPT ![r] = TRUE]
    /\ UNCHANGED <<relays, sender, phase, err, acked, resending, closing, stage, wanted,
                   outcome, broken>>

\* Until it is stopped the timer closes the connection, after a success as well.
TimerFires(r) ==
    /\ phase[r] \notin {"idle", "done"} /\ ~fired[r]
    /\ fired' = [fired EXCEPT ![r] = TRUE] /\ wanted' = TRUE
    /\ UNCHANGED <<relays, sender, phase, err, acked, resending, closing, stage, outcome, broken>>

-----------------------------------------------------------------------------

CloseStep == CloseMarks \/ CloseShuts \/ CloseFinishes
ResendGoesOn(r) ==
    \/ ResendLocks(r) \/ ResendChecks(r) \/ ResendReplies(r) \/ ResendStops(r)
    \/ (Shut /\ ResendFails(r))

Next ==
    \/ CloseStep \/ ClientLeaves
    \/ UpReads \/ UpAsks \/ UpLocks \/ UpWrites \/ UpFails
    \/ DownReads \/ DownAsks \/ DownWrites
    \/ \E r \in Resends :
           \/ ResendArrives(r) \/ ResendLocks(r) \/ ResendWrites(r) \/ ResendFails(r)
           \/ ResendChecks(r) \/ ResendReplies(r) \/ ResendStops(r) \/ TimerFires(r)

\* Goroutines run and timers fire; a write to a server that does not read may hang.
Fairness ==
    /\ WF_relayVars(CloseStep)
    /\ WF_relayVars(Shut /\ UpFails)
    /\ \A r \in Resends :
           /\ WF_relayVars(ResendGoesOn(r)) /\ WF_relayVars(TimerFires(r))

Spec == Init /\ [][Next]_relayVars
FairSpec == Spec /\ Fairness

-----------------------------------------------------------------------------
(* Properties. *)

TypeOK ==
    /\ upward \in {"reading", "asking", "waiting", "writing", "ended"}
    /\ downward \in {"reading", "asking", "writing", "ended"}
    /\ {control, closing, wanted, broken, resending} \subseteq BOOLEAN
    /\ number \in 0..Messages /\ written \in [Writers -> 0..1]
    /\ holder \in Resends \cup {Client, Nobody}
    /\ stage \in {"open", "marked", "shut", "done"}
    /\ outcome \in {"none", "completed", "aborted", "failed"}
    /\ phase \in [Resends -> {"idle", "waiting", "writing", "checking", "replying",
                              "stopping", "done"}]
    /\ err \in [Resends -> BOOLEAN] /\ fired \in [Resends -> BOOLEAN]
    /\ acked \in [Resends -> {"no", "ok", "error"}]

\* The server sees whole messages: a resend never falls between two fragments of the
\* client's.  (websocket.go, "Serialize whole messages".)
MessagesWhole ==
    \A i \in 1..Len(wire) :
        wire[i].part = 2 => i > 1 /\ wire[i - 1] = [wire[i] EXCEPT !.part = 1]

\* A resend that is acknowledged was written to its last byte.
AckedIsWritten ==
    \A r \in Resends : acked[r] = "ok" =>
        \E i \in 1..Len(wire) : wire[i] = [from |-> r, part |-> 2]

\* A connection is reported as failed only if an end failed: the sockets closed by the
\* cleanup do not win the race.  (websocket.go, transfer.)
CloseIsClean == outcome = "failed" => broken

\* Node gets its answer, also when the server does not read.
ResendAnswered == \A r \in Resends : (phase[r] = "waiting") ~> (acked[r] # "no")
=============================================================================
