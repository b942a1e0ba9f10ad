------------------------------ MODULE FrameResend ------------------------------
(***************************************************************************)
(* An old WebSocket message sent once more from the list of messages       *)
(* (webview/components/MessageStream.tsx): the page asks the window        *)
(* (trafficPanel.ts), that the agent, whose engine checks the record and   *)
(* asks the core (engine.ts resendFrame, inspector.ts sendWebSocket), and  *)
(* records the message as sent when the core says it is.  Meanwhile the    *)
(* connection goes on, closes or is deleted, and page and agent have       *)
(* timeouts of their own.  What the core does with a resend is in          *)
(* WebSocketRelay: here it delivers or refuses each, and says which.       *)
(***************************************************************************)
EXTENDS Naturals, Sequences, SequencesExt

CONSTANTS
    Kept,       \* messages that a record keeps (500)
    MaxMade,    \* bound: messages recorded when the ends send another one
    MaxClicks   \* bound: resends asked for

VARIABLES
    frames,     \* the messages of the record
    made,       \* how many there have been
    alive,      \* the core has the connection (Inspector.sessions)
    open,       \* the record is of an open connection
    gone,       \* the record was deleted
    core,       \* the core runs
    frozen,     \* the messages at which the list stands still; <<>>: it runs
    sending,    \* the message the page is sending, or None
    told,       \* what it says of the last one
    requests,   \* of the page, on their way to the agent
    jobs,       \* of each resend: what it is for, and how far engine and core are
    replies,    \* on their way to the page
    clicks, delivered, recorded    \* history: of each message, how often

vars == <<frames, made, alive, open, gone, core, frozen, sending, told, requests, jobs,
          replies, clicks, delivered, recorded>>
recordVars == <<frames, made, alive, open, gone, core>>
pageVars == <<frozen, sending, told, requests, clicks>>
agentVars == <<jobs, replies, delivered, recorded>>

None == 0
Numbers == 1 .. MaxMade + MaxClicks
Frame(id, direction, truncated, of) ==
    [id |-> id, direction |-> direction, truncated |-> truncated, of |-> of]

-----------------------------------------------------------------------------
(* The connection. *)

\* engine.ts frame: a message is recorded, and the oldest makes room.
Recorded(direction, truncated, of) ==
    IF gone THEN UNCHANGED <<frames, made>>
    ELSE LET all == Append(frames, Frame(made + 1, direction, truncated, of)) IN
         /\ frames' = IF Len(all) > Kept THEN Tail(all) ELSE all
         /\ made' = made + 1

Relay ==
    /\ alive /\ made < MaxMade
    /\ Recorded("send", TRUE, None) \/ Recorded("receive", FALSE, None)
    /\ UNCHANGED <<alive, open, gone, core, pageVars, agentVars>>

\* One of the ends closes it.
Closed ==
    /\ alive
    /\ alive' = FALSE /\ open' = FALSE
    /\ UNCHANGED <<frames, made, gone, core, pageVars, agentVars>>

Delete ==
    /\ ~gone
    /\ gone' = TRUE /\ frames' = <<>> /\ open' = FALSE
    /\ UNCHANGED <<made, alive, core, pageVars, agentVars>>

\* Whatever waits for the core fails with it, and every connection is over.
CoreExits ==
    /\ core
    /\ core' = FALSE /\ alive' = FALSE /\ open' = FALSE
    /\ LET left == SelectSeq(jobs, LAMBDA j : j.stage # "over") IN
       jobs' = [n \in DOMAIN left |->
                  [left[n] EXCEPT !.stage = IF @ = "sent" THEN "failed" ELSE @,
                                  !.core = "done"]]
    /\ UNCHANGED <<frames, made, gone, pageVars, replies, delivered, recorded>>

-----------------------------------------------------------------------------
(* The agent. *)

\* A resend is forgotten when neither has anything to do for it.
Update(n, stage, coreStage) ==
    jobs' = IF stage = "over" /\ coreStage = "done" THEN RemoveAt(jobs, n)
            ELSE [jobs EXCEPT ![n].stage = stage, ![n].core = coreStage]

\* A request reaches the engine, which checks what it can: the connection, and that the
\* message is kept, whole and one that was sent.
Call ==
    /\ requests # <<>>
    /\ requests' = Tail(requests)
    /\ LET ready == /\ open /\ core /\ alive
                    /\ \E i \in DOMAIN frames :
                           /\ frames[i].id = Head(requests)
                           /\ frames[i].direction = "send" /\ ~frames[i].truncated IN
       jobs' = Append(jobs, [frame |-> Head(requests), heard |-> TRUE,
                             stage |-> IF ready THEN "sent" ELSE "failed",
                             core |-> IF ready THEN "asked" ELSE "done"])
    /\ UNCHANGED <<recordVars, frozen, sending, told, clicks, replies, delivered, recorded>>

\* It does not: the window has no agent.
CallFails ==
    /\ requests # <<>>
    /\ requests' = Tail(requests)
    /\ replies' = Append(replies, [frame |-> Head(requests), error |-> TRUE])
    /\ UNCHANGED <<recordVars, frozen, sending, told, clicks, jobs, delivered, recorded>>

CoreDelivers(n) ==
    /\ jobs[n].core = "asked" /\ alive
    /\ Update(n, jobs[n].stage, "delivered")
    /\ delivered' = [delivered EXCEPT ![jobs[n].frame] = @ + 1]
    /\ UNCHANGED <<recordVars, pageVars, replies, recorded>>

CoreRefuses(n) ==
    /\ jobs[n].core = "asked"
    /\ Update(n, IF jobs[n].stage = "sent" THEN "failed" ELSE jobs[n].stage, "done")
    /\ UNCHANGED <<recordVars, pageVars, replies, delivered, recorded>>

\* The core's answer; nobody waits for it after ten seconds.
Acknowledged(n) ==
    /\ jobs[n].core = "delivered"
    /\ Update(n, IF jobs[n].stage = "sent" THEN "acknowledged" ELSE jobs[n].stage, "done")
    /\ UNCHANGED <<recordVars, pageVars, replies, delivered, recorded>>

SendTimesOut(n) ==
    /\ jobs[n].stage = "sent"
    /\ Update(n, "failed", jobs[n].core)
    /\ UNCHANGED <<recordVars, pageVars, replies, delivered, recorded>>

Reply(n, error) ==
    replies' = IF jobs[n].heard
               THEN Append(replies, [frame |-> jobs[n].frame, error |-> error]) ELSE replies

\* A turn after the acknowledgement the message is recorded, if its record is still there.
Record(n) ==
    /\ jobs[n].stage = "acknowledged"
    /\ Update(n, "over", "done")
    /\ Recorded("send", FALSE, jobs[n].frame)
    /\ recorded' = IF gone THEN recorded ELSE [recorded EXCEPT ![jobs[n].frame] = @ + 1]
    /\ Reply(n, FALSE)
    /\ UNCHANGED <<alive, open, gone, core, pageVars, delivered>>

Fail(n) ==
    /\ jobs[n].stage = "failed"
    /\ Update(n, "over", jobs[n].core)
    /\ Reply(n, TRUE)
    /\ UNCHANGED <<recordVars, pageVars, delivered, recorded>>

\* The window loses the agent: its calls fail, and what the agent is doing goes on.
LoseAgent ==
    LET lost == SelectSeq(jobs, LAMBDA j : j.heard /\ j.stage # "over") IN
    /\ lost # <<>>
    /\ replies' = replies \o [i \in DOMAIN lost |-> [frame |-> lost[i].frame, error |-> TRUE]]
    /\ jobs' = [n \in DOMAIN jobs |-> [jobs[n] EXCEPT !.heard = FALSE]]
    /\ UNCHANGED <<recordVars, pageVars, delivered, recorded>>

-----------------------------------------------------------------------------
(* The page. *)

Pause ==
    /\ frozen' = IF frozen = <<>> THEN frames ELSE <<>>
    /\ frozen' # frozen
    /\ UNCHANGED <<recordVars, sending, told, requests, clicks, agentVars>>

Displayed == IF frozen = <<>> THEN frames ELSE frozen

\* One at a time, and of those whose button is enabled; a list that stands still may show a
\* message that has left the record.
Resend ==
    /\ sending = None /\ open
    /\ FoldSeq(LAMBDA n, sum : n + sum, 0, clicks) < MaxClicks
    /\ \E i \in DOMAIN Displayed :
           LET id == Displayed[i].id IN
           /\ Displayed[i].direction = "send" /\ ~Displayed[i].truncated
           /\ sending' = id
           /\ requests' = Append(requests, id)
           /\ clicks' = [clicks EXCEPT ![id] = @ + 1]
    /\ told' = [what |-> "nothing", frame |-> None]
    /\ UNCHANGED <<recordVars, frozen, agentVars>>

\* The reply to an earlier request for the same message serves as well.
Receive ==
    /\ replies # <<>>
    /\ LET reply == Head(replies) IN
       IF sending # reply.frame THEN UNCHANGED <<sending, told>>
       ELSE /\ sending' = None
            /\ told' = [what |-> IF reply.error THEN "failed" ELSE "resent",
                        frame |-> sending]
    /\ replies' = Tail(replies)
    /\ UNCHANGED <<recordVars, frozen, requests, clicks, jobs, delivered, recorded>>

\* After fifteen seconds.
PageTimesOut ==
    /\ sending # None
    /\ sending' = None /\ told' = [what |-> "timeout", frame |-> sending]
    /\ UNCHANGED <<recordVars, frozen, requests, clicks, agentVars>>

\* Another tab and back: the list begins anew.
Leave ==
    /\ sending # None \/ frozen # <<>>
    /\ sending' = None /\ told' = [what |-> "nothing", frame |-> None] /\ frozen' = <<>>
    /\ UNCHANGED <<recordVars, requests, clicks, agentVars>>

-----------------------------------------------------------------------------

\* A connection with a message of each direction.
Init ==
    /\ frames = <<Frame(1, "send", FALSE, None), Frame(2, "receive", FALSE, None)>>
    /\ made = 2
    /\ alive = TRUE /\ open = TRUE /\ gone = FALSE /\ core = TRUE
    /\ frozen = <<>>
    /\ sending = None /\ told = [what |-> "nothing", frame |-> None]
    /\ requests = <<>> /\ jobs = <<>> /\ replies = <<>>
    /\ clicks = [id \in Numbers |-> 0]
    /\ delivered = [id \in Numbers |-> 0] /\ recorded = [id \in Numbers |-> 0]

Next ==
    \/ Relay \/ Closed \/ Delete \/ CoreExits
    \/ Call \/ CallFails \/ LoseAgent
    \/ \E n \in DOMAIN jobs :
           \/ CoreDelivers(n) \/ CoreRefuses(n) \/ Acknowledged(n) \/ SendTimesOut(n)
           \/ Record(n) \/ Fail(n)
    \/ Pause \/ Resend \/ Receive \/ PageTimesOut \/ Leave

Spec == Init /\ [][Next]_vars

-----------------------------------------------------------------------------
(* Properties. *)

TypeOK ==
    /\ \A i \in DOMAIN frames : frames[i].id \in Numbers /\ frames[i].of \in Numbers \cup {None}
    /\ {alive, open, gone, core} \subseteq BOOLEAN
    /\ sending \in Numbers \cup {None}
    /\ told.what \in {"nothing", "resent", "failed", "timeout"}
    /\ \A n \in DOMAIN jobs :
           /\ jobs[n].stage \in {"sent", "acknowledged", "failed", "over"}
           /\ jobs[n].core \in {"asked", "delivered", "done"}

\* A resend that the record shows was delivered, and none was delivered more often than the
\* user asked for it.
ResendsAreDelivered ==
    \A id \in Numbers : recorded[id] <= delivered[id] /\ delivered[id] <= clicks[id]

\* Somebody will answer: the engine, or the core that the engine waits for.
Working(job) ==
    /\ job.heard /\ job.stage # "over"
    /\ job.stage = "sent" => core /\ job.core # "done"

\* The page says that a message was resent only when the record, if there still is one, got
\* it; and what it is sending is under way somewhere, so that no timeout is needed for it.
ResendIsTold ==
    /\ told.what = "resent" => recorded[told.frame] > 0 \/ gone
    /\ sending # None =>
           \/ sending \in ToSet(requests)
           \/ \E n \in DOMAIN jobs : jobs[n].frame = sending /\ Working(jobs[n])
           \/ \E i \in DOMAIN replies : replies[i].frame = sending

\* The record keeps the last messages, in order, each replay after the message it repeats.
FramesInOrder ==
    /\ Len(frames) <= Kept
    /\ \A i \in DOMAIN frames : frames[i].of < frames[i].id
    /\ \A i, j \in DOMAIN frames : i < j => frames[i].id < frames[j].id
    /\ frames # <<>> => Last(frames).id = made

ResendIsRecorded == ResendsAreDelivered /\ ResendIsTold /\ FramesInOrder
=============================================================================
