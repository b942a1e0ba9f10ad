------------------------------- MODULE Components -------------------------------
(***************************************************************************)
(* The parts of the agent and of the core that keep a state of their own   *)
(* and meet the rest of the system only through what they report: a        *)
(* connection of the capture listener, a tunnel, an exchange, an inspected *)
(* WebSocket, the life of the engine, and requests sent again.  A          *)
(* behaviour is one of one part, `part'; the variables of the others stay  *)
(* as they are.                                                            *)
(***************************************************************************)
EXTENDS Naturals

CONSTANTS
    Chunks,                          \* TrackedConn
    Downloads, Uploads,              \* Tunnel
    Pieces,                          \* Exchange
    Resends, Messages,               \* WebSocketRelay
    Dials, Flows,                    \* EngineRuntime
    Composes, ByWindow, MaxAnswers   \* Replay

ASSUME BoundsAssumption ==
    {Chunks, Downloads, Uploads, Pieces, Messages, MaxAnswers} \subseteq Nat
\* A response without a body is no transfer: nothing of it goes to Node and back.
ASSUME BodyAssumption == Pieces # 0
\* A request of the window is none of the answers that share its queue.
ASSUME ComposesAssumption ==
    ByWindow \subseteq Composes /\ ByWindow \cap ({"resume"} \X Composes) = {}
ASSUME ResendsAssumption == "client" \notin Resends /\ "nobody" \notin Resends

VARIABLES
    part,
    \* TrackedConn
    arrived, fin, sock, deadline, setting, wake, pump, offered, taken, incoming, got,
    reader, timedOut, due, open, listening, place,
    \* Tunnel
    toCore, toNode, handler, held, registered, channel, answered, over, fatal, pipe, token,
    client, pending, copied, ended, up, socket, queue, inflight, ending, sent, lost,
    \* Exchange, of which the first seven have another name there
    requests, decisions, serving, frame, present, settled, recorded,
    framing, reply, local, uploaded, produced, owed, exhausted, read, delivered, eof, given,
    noticed, draining, drainedOut, known, deciding, relaying, inbox, tapped, credit,
    \* WebSocketRelay, whose `wire', `stage' and `phase' are the next three
    sentOn, closeStage, resendPhase,
    upward, downward, control, number, holder, written, closing, wanted, outcome, broken,
    err, fired, acked, resending,
    \* EngineRuntime
    cancelled, ready, loop, shutdown, accepting, dial, conn, flow, sides,
    \* Replay, whose `queue' is the next
    commands, stage, record, result, composed, recording, running, answers

Conn == INSTANCE TrackedConn
Tunnelled == INSTANCE Tunnel
Exchanged == INSTANCE Exchange
                 WITH toNode <- requests, toCore <- decisions, stage <- serving,
                      channel <- frame, client <- present, over <- settled,
                      record <- recorded
Relayed == INSTANCE WebSocketRelay
                WITH wire <- sentOn, stage <- closeStage, phase <- resendPhase
Runtime == INSTANCE EngineRuntime
Replayed == INSTANCE Replay WITH queue <- commands

connVars == <<arrived, fin, sock, deadline, setting, wake, pump, offered, taken, incoming,
              got, reader, timedOut, due, open, listening, place>>
tunnelVars == <<toCore, toNode, handler, held, registered, channel, answered, over, fatal,
                pipe, token, client, pending, copied, ended, up, socket, queue, inflight,
                ending, sent, lost>>
exchangeVars == <<requests, decisions, serving, frame, present, settled, recorded, framing,
                  reply, local, uploaded, produced, owed, exhausted, read, delivered, eof,
                  given, noticed, draining, drainedOut, known, deciding, relaying, inbox,
                  tapped, credit>>
relayVars == <<sentOn, closeStage, resendPhase, upward, downward, control, number, holder,
               written, closing, wanted, outcome, broken, err, fired, acked, resending>>
engineVars == <<cancelled, ready, loop, shutdown, accepting, dial, conn, flow, sides>>
replayVars == <<commands, stage, record, result, composed, recording, running, answers>>
vars == <<part, connVars, tunnelVars, exchangeVars, relayVars, engineVars, replayVars>>

Parts == {"conn", "tunnel", "exchange", "relay", "runtime", "replay"}

\* Of the other parts nothing has begun, or all is over: fairness asks no step of them.
Init ==
    /\ part \in Parts
    /\ IF part = "conn" THEN Conn!Init ELSE Conn!Over
    /\ IF part = "tunnel" THEN Tunnelled!Init ELSE Tunnelled!Over
    /\ IF part = "exchange" THEN Exchanged!Init ELSE Exchanged!Over
    /\ Relayed!Init /\ Runtime!Init
    /\ Replayed!Init /\ (part # "replay" => recording)

Next ==
    \/ /\ part = "conn" /\ Conn!Next
       /\ UNCHANGED <<part, tunnelVars, exchangeVars, relayVars, engineVars, replayVars>>
    \/ /\ part = "tunnel" /\ Tunnelled!Next
       /\ UNCHANGED <<part, connVars, exchangeVars, relayVars, engineVars, replayVars>>
    \/ /\ part = "exchange" /\ Exchanged!Next
       /\ UNCHANGED <<part, connVars, tunnelVars, relayVars, engineVars, replayVars>>
    \/ /\ part = "relay" /\ Relayed!Next
       /\ UNCHANGED <<part, connVars, tunnelVars, exchangeVars, engineVars, replayVars>>
    \/ /\ part = "runtime" /\ Runtime!Next
       /\ UNCHANGED <<part, connVars, tunnelVars, exchangeVars, relayVars, replayVars>>
    \/ /\ part = "replay" /\ Replayed!Next
       /\ UNCHANGED <<part, connVars, tunnelVars, exchangeVars, relayVars, engineVars>>

\* The fairness of each part, as its module states and justifies it.
Fairness ==
    /\ WF_connVars(part = "conn" /\ Conn!PumpStep)
    /\ WF_connVars(part = "conn" /\ Conn!ListenerStep)
    /\ WF_connVars(part = "conn" /\ Conn!Publishes)
    /\ SF_connVars(part = "conn" /\ Conn!PumpChecks)
    /\ WF_connVars(part = "conn" /\ Conn!ReadBegins)
    /\ WF_connVars(part = "conn" /\ (Conn!ReadTakes \/ Conn!ReadEnds))
    /\ SF_connVars(part = "conn" /\ Conn!ReadChecks)
    /\ WF_tunnelVars(part = "tunnel" /\ Tunnelled!Ask)
    /\ WF_tunnelVars(part = "tunnel" /\ Tunnelled!Decides)
    /\ WF_tunnelVars(part = "tunnel" /\ Tunnelled!PutBack)
    /\ WF_tunnelVars(part = "tunnel" /\ Tunnelled!CoreReceives)
    /\ WF_tunnelVars(part = "tunnel" /\ Tunnelled!Copy)
    /\ WF_tunnelVars(part = "tunnel" /\ Tunnelled!PipeGoesOn)
    /\ WF_tunnelVars(part = "tunnel" /\ Tunnelled!Disconnected)
    /\ WF_tunnelVars(part = "tunnel" /\ Tunnelled!NodeReceives)
    /\ WF_tunnelVars(part = "tunnel" /\ Tunnelled!Writes)
    /\ WF_tunnelVars(part = "tunnel" /\ Tunnelled!Dialled)
    /\ WF_exchangeVars(part = "exchange" /\ Exchanged!CoreStep)
    /\ WF_exchangeVars(part = "exchange" /\ Exchanged!Disconnected)
    /\ WF_exchangeVars(part = "exchange" /\ Exchanged!DrainTimesOut)
    /\ WF_exchangeVars(part = "exchange" /\ Exchanged!CoreReceives)
    /\ WF_exchangeVars(part = "exchange" /\ Exchanged!NodeReceives)
    /\ WF_relayVars(part = "relay" /\ Relayed!CloseStep)
    /\ WF_relayVars(part = "relay" /\ Relayed!Shut /\ Relayed!UpFails)
    /\ \A r \in Resends :
           /\ WF_relayVars(part = "relay" /\ Relayed!ResendGoesOn(r))
           /\ WF_relayVars(part = "relay" /\ Relayed!TimerFires(r))
    /\ WF_engineVars(part = "runtime" /\ cancelled /\ Runtime!LoopEnds)
    /\ WF_engineVars(part = "runtime" /\ Runtime!LoopReturns)
    /\ WF_engineVars(part = "runtime" /\ Runtime!AwaitFlows)
    /\ WF_engineVars(part = "runtime" /\ Runtime!CloseResources)
    /\ SF_engineVars(part = "runtime" /\ Runtime!AcceptEnds)
    /\ \A d \in Dials :
           /\ WF_engineVars(part = "runtime" /\ Runtime!ConnStep(d))
           /\ WF_engineVars(part = "runtime" /\ Runtime!DialAnswered(d))
           /\ WF_engineVars(part = "runtime" /\ cancelled /\ Runtime!DialGivesUp(d))
    /\ \A f \in Flows :
           /\ WF_engineVars(part = "runtime" /\ cancelled /\ Runtime!FlowEnds(f))
           /\ WF_engineVars(part = "runtime" /\ cancelled /\ Runtime!SideStops(f))
           /\ WF_engineVars(part = "runtime" /\ Runtime!SideFails(f))
           /\ WF_engineVars(part = "runtime" /\ Runtime!RelayReturns(f))
    /\ \A c \in Composes : WF_replayVars(part = "replay" /\ Replayed!ReplayStep(c))

FairSpec == Init /\ [][Next]_vars /\ Fairness

-----------------------------------------------------------------------------
(* Properties, stated in the modules of the parts. *)

\* Every part is well typed in every state.
TypeOK ==
    /\ part \in Parts
    /\ Conn!TypeOK /\ Tunnelled!TypeOK /\ Exchanged!TypeOK
    /\ Relayed!TypeOK /\ Runtime!TypeOK /\ Replayed!TypeOK

\* A Read that times out saw a deadline in force pass: none of a deadline that was reset
\* before reaches the server (listener.go, Read).
NoStaleTimeout == Conn!NoStaleTimeout
\* What a client sent is read: the pump misses no wake-up (listener.go, pump).
DataIsRead == Conn!DataIsRead
\* A tunnel never exceeds its credits; a client that is told the end was given all the
\* origin sent, and none of its own bytes went where nobody read them (proxy.go,
\* out.Messages; inspector.ts, case 'connect'). A response that is recorded or reported as
\* complete is, and a client that was given all of it is not recorded as gone (proxy.go,
\* body.finish; session.go, disconnected).
TransfersAreWhole ==
    /\ Tunnelled!CreditsSuffice /\ Tunnelled!EndIsComplete /\ Tunnelled!UploadsAwaitTheOrigin
    /\ Exchanged!CompletedIsWhole /\ Exchanged!DeliveredIsRecorded
\* An origin that ends in order ends the session of its tunnel, a client that left the
\* session and the record of its exchange.
EndsArrive == Tunnelled!OrderlyEndArrives /\ Exchanged!LeavingEnds
\* A server of a WebSocket sees whole messages, and those that a resend reported as sent;
\* the WebSocket is reported as failed only if an end failed (websocket.go,
\* sendWebSocket, transfer).
MessagesArrive == Relayed!MessagesWhole /\ Relayed!AckedIsWritten /\ Relayed!CloseIsClean
\* A frame or a request that is sent again is answered, also when the server does not read
\* and nothing is recorded (websocket.go, engine.ts compose).
RepeatsAreAnswered == Relayed!ResendAnswered /\ Replayed!ReplayIsAnswered
\* A replay returns the record of its own exchange, and its port is inspected exactly as
\* long as it lasts (engine.ts, compose).
ReplayIsWhole == Replayed!ReplayIsWhole
\* No connection and no flow outlives the engine (engine.go, NewEngine).
NothingOutlivesTheEngine == Runtime!NothingOutlivesTheEngine
\* A cancelled engine ends, and with it every dial into it.
ShutdownCompletes == Runtime!ShutdownCompletes
=============================================================================
