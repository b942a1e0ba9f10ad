----------------------------- MODULE EngineRuntime -----------------------------
(***************************************************************************)
(* The life of the Go engine inside the core (engine/engine.go,            *)
(* runtime.go, the accept loop of listener.go, ServePacket of http3.go).   *)
(*                                                                         *)
(* TCP connections are dialled into it through memory pipes and taken by   *)
(* an accept loop, which registers each of them after it started its pump; *)
(* UDP flows are counted under a mutex.  The engine ends when its control  *)
(* stream does or when it is cancelled: it then closes what is registered, *)
(* while dials and flows are still on their way in.                        *)
(***************************************************************************)
EXTENDS Naturals, FiniteSets

CONSTANTS Dials, Flows      \* callers of DialContext and of ServePacket

VARIABLES
    cancelled,   \* the engine's context
    ready,       \* the channel DialContext and ServePacket wait for
    loop,        \* runtime.run: starting, running, closing its server, returned
    shutdown,    \* the goroutine of NewEngine: running, waiting for flows, done
    accepting,   \* the accept loop of the capture listener runs
    dial,        \* each DialContext
    conn,        \* the server end of its pipe
    flow,        \* each ServePacket
    sides        \* goroutines that copy the packets of a bypassed flow

engineVars == <<cancelled, ready, loop, shutdown, accepting, dial, conn, flow, sides>>

Init ==
    /\ cancelled = FALSE /\ ready = FALSE /\ loop = "starting" /\ shutdown = "running"
    /\ accepting = FALSE
    /\ dial = [d \in Dials |-> "idle"] /\ conn = [d \in Dials |-> "none"]
    /\ flow = [f \in Flows |-> "idle"] /\ sides = [f \in Flows |-> {}]

-----------------------------------------------------------------------------
(* The engine. *)

\* The start message is read, the listener and the server run.
Start ==
    /\ loop = "starting" /\ ~cancelled
    /\ loop' = "running" /\ ready' = TRUE /\ accepting' = TRUE
    /\ UNCHANGED <<cancelled, shutdown, dial, conn, flow, sides>>

\* Close, the parent's context, or a failed peer: the streams are closed, too.
Cancel ==
    /\ ~cancelled /\ cancelled' = TRUE
    /\ UNCHANGED <<ready, loop, shutdown, accepting, dial, conn, flow, sides>>

\* What the registry of connections holds.
Registered == {d \in Dials : conn[d] \in {"registered", "offered", "serving"}}
CloseRegistered == conn' = [d \in Dials |-> IF d \in Registered THEN "closed" ELSE conn[d]]

\* inbound-remove closes what is registered for the inlet.
RemoveInlet(tagged) ==
    /\ loop = "running"
    /\ conn' = [d \in Dials |-> IF d \in Registered \cap tagged THEN "closed" ELSE conn[d]]
    /\ UNCHANGED <<cancelled, ready, loop, shutdown, accepting, dial, flow, sides>>

\* The control stream ends; the deferred server.Close closes the capture listener, which
\* closes what is registered and then waits for the goroutines of its connections.
LoopEnds ==
    /\ loop \in {"starting", "running"}
    /\ loop' = IF loop = "running" THEN "closing" ELSE "returned"
    /\ cancelled' = TRUE
    /\ CloseRegistered
    /\ UNCHANGED <<ready, shutdown, accepting, dial, flow, sides>>

LoopReturns ==
    /\ loop = "closing" /\ ~accepting
    /\ \A d \in Dials : conn[d] \in {"none", "closed"}
    /\ loop' = "returned"
    /\ UNCHANGED <<cancelled, ready, shutdown, accepting, dial, conn, flow, sides>>

\* packetMu is held from here on, until the flows are done.
AwaitFlows ==
    /\ loop = "returned" /\ shutdown = "running" /\ shutdown' = "waiting"
    /\ UNCHANGED <<cancelled, ready, loop, accepting, dial, conn, flow, sides>>

Counted == {f \in Flows : flow[f] \in {"counted", "policy", "inspecting", "relaying"}}
CloseResources ==
    /\ shutdown = "waiting" /\ Counted = {} /\ shutdown' = "done"
    /\ CloseRegistered
    /\ UNCHANGED <<cancelled, ready, loop, accepting, dial, flow, sides>>

-----------------------------------------------------------------------------
(* DialContext. *)

Dial(d) ==
    /\ dial[d] = "idle" /\ dial' = [dial EXCEPT ![d] = "waiting"]
    /\ UNCHANGED <<cancelled, ready, loop, shutdown, accepting, conn, flow, sides>>

\* Refused while it waits for the start or for the accept loop: the caller's context or
\* the engine's is done.
DialGivesUp(d) ==
    /\ dial[d] \in {"waiting", "offering"}
    /\ dial' = [dial EXCEPT ![d] = "failed"]
    /\ UNCHANGED <<cancelled, ready, loop, shutdown, accepting, conn, flow, sides>>

DialOffers(d) ==
    /\ dial[d] = "waiting" /\ ready /\ dial' = [dial EXCEPT ![d] = "offering"]
    /\ UNCHANGED <<cancelled, ready, loop, shutdown, accepting, conn, flow, sides>>

\* The answer to the CONNECT that was put before the stream; a context that ends first
\* closes the pipe.
DialAnswered(d) ==
    /\ dial[d] = "reading"
    /\ \/ conn[d] = "serving" /\ dial' = [dial EXCEPT ![d] = "open"] /\ UNCHANGED conn
       \/ conn[d] = "closed" /\ dial' = [dial EXCEPT ![d] = "failed"] /\ UNCHANGED conn
    /\ UNCHANGED <<cancelled, ready, loop, shutdown, accepting, flow, sides>>

\* The client's end is closed: the pump cancels the connection and the server closes it.
CallerCloses(d) ==
    /\ dial[d] \in {"reading", "open"} /\ d \in Registered
    /\ dial' = [dial EXCEPT ![d] = "failed"] /\ conn' = [conn EXCEPT ![d] = "closed"]
    /\ UNCHANGED <<cancelled, ready, loop, shutdown, accepting, flow, sides>>

-----------------------------------------------------------------------------
(* The capture listener. *)

\* Accept takes a dial that offers, or sees the context done; both may be ready.  A raw
\* stream is the caller's at once.
Accept(d) ==
    /\ accepting /\ dial[d] = "offering" /\ \A e \in Dials : conn[e] # "accepted"
    /\ \E raw \in BOOLEAN : dial' = [dial EXCEPT ![d] = IF raw THEN "open" ELSE "reading"]
    /\ conn' = [conn EXCEPT ![d] = "accepted"]
    /\ UNCHANGED <<cancelled, ready, loop, shutdown, accepting, flow, sides>>

AcceptEnds ==
    /\ accepting /\ cancelled /\ (\A d \in Dials : conn[d] # "accepted")
    /\ accepting' = FALSE
    /\ UNCHANGED <<cancelled, ready, loop, shutdown, dial, conn, flow, sides>>

Register(d) ==
    /\ conn[d] = "accepted" /\ conn' = [conn EXCEPT ![d] = "registered"]
    /\ UNCHANGED <<cancelled, ready, loop, shutdown, accepting, dial, flow, sides>>

Prepare(d) ==
    /\ conn[d] = "registered" /\ conn' = [conn EXCEPT ![d] = "offered"]
    /\ UNCHANGED <<cancelled, ready, loop, shutdown, accepting, dial, flow, sides>>

\* Wrong: a connection that is not accepted any more is forgotten.
HandOutOrForget(d) ==
    /\ conn[d] = "offered" /\ ~cancelled
    /\ conn' = [conn EXCEPT ![d] = "serving"]
    /\ UNCHANGED <<cancelled, ready, loop, shutdown, accepting, dial, flow, sides>>

\* The server accepts it, or the end of the listener closes it; both may be ready.
HandOut(d) ==
    /\ conn[d] = "offered"
    /\ \/ conn' = [conn EXCEPT ![d] = "serving"]
       \/ cancelled /\ conn' = [conn EXCEPT ![d] = "closed"]
    /\ UNCHANGED <<cancelled, ready, loop, shutdown, accepting, dial, flow, sides>>

\* A read of a connection whose context is done fails, and the server closes it.
ServingEnds(d) ==
    /\ conn[d] = "serving" /\ cancelled
    /\ conn' = [conn EXCEPT ![d] = "closed"]
    /\ UNCHANGED <<cancelled, ready, loop, shutdown, accepting, dial, flow, sides>>

-----------------------------------------------------------------------------
(* ServePacket. *)

\* Wrong: the flow is counted without looking whether the engine still runs.
FlowBeginsUnchecked(f) ==
    /\ flow[f] = "idle" /\ shutdown # "waiting"
    /\ flow' = [flow EXCEPT ![f] = "counted"]
    /\ UNCHANGED <<cancelled, ready, loop, shutdown, accepting, dial, conn, sides>>

\* The check and the count are one under packetMu.
FlowBegins(f) ==
    /\ flow[f] = "idle" /\ shutdown # "waiting"
    /\ flow' = [flow EXCEPT ![f] = IF cancelled THEN "ended" ELSE "counted"]
    /\ UNCHANGED <<cancelled, ready, loop, shutdown, accepting, dial, conn, sides>>

\* Once the engine is ready an HTTP/3 flow is asked about, another is relayed.
FlowAsks(f) ==
    /\ flow[f] = "counted" /\ ready
    /\ \/ flow' = [flow EXCEPT ![f] = "policy"] /\ UNCHANGED sides
       \/ /\ flow' = [flow EXCEPT ![f] = "relaying"]
          /\ sides' = [sides EXCEPT ![f] = {"in", "out"}]
    /\ UNCHANGED <<cancelled, ready, loop, shutdown, accepting, dial, conn>>

FlowDecided(f) ==
    /\ flow[f] = "policy"
    /\ \/ flow' = [flow EXCEPT ![f] = "inspecting"] /\ UNCHANGED sides
       \/ /\ flow' = [flow EXCEPT ![f] = "relaying"]
          /\ sides' = [sides EXCEPT ![f] = {"in", "out"}]
    /\ UNCHANGED <<cancelled, ready, loop, shutdown, accepting, dial, conn>>

\* A failure or a time-out, a minute and a half without packets, the end of the QUIC
\* connection, or the engine's context.
FlowEnds(f) ==
    /\ flow[f] \in {"counted", "policy", "inspecting"}
    /\ flow' = [flow EXCEPT ![f] = "ended"]
    /\ UNCHANGED <<cancelled, ready, loop, shutdown, accepting, dial, conn, sides>>

\* One direction fails, which closes the sockets of the other.
SideEnds(f, side) ==
    /\ side \in sides[f] /\ sides' = [sides EXCEPT ![f] = @ \ {side}]
    /\ UNCHANGED <<cancelled, ready, loop, shutdown, accepting, dial, conn, flow>>

\* relayPacket awaits the goroutine it started.
RelayReturns(f) ==
    /\ flow[f] = "relaying" /\ sides[f] = {}
    /\ flow' = [flow EXCEPT ![f] = "ended"]
    /\ UNCHANGED <<cancelled, ready, loop, shutdown, accepting, dial, conn, sides>>

-----------------------------------------------------------------------------

ConnStep(d) == Register(d) \/ Prepare(d) \/ HandOut(d) \/ ServingEnds(d)
SideStops(f) == \E side \in {"in", "out"} : SideEnds(f, side)
SideFails(f) == Cardinality(sides[f]) < 2 /\ SideStops(f)

Next ==
    \/ Start \/ Cancel \/ LoopEnds \/ LoopReturns \/ AwaitFlows \/ CloseResources \/ AcceptEnds
    \/ \E tagged \in SUBSET Dials : RemoveInlet(tagged)
    \/ \E d \in Dials :
           \/ Dial(d) \/ DialGivesUp(d) \/ DialOffers(d) \/ DialAnswered(d) \/ CallerCloses(d)
           \/ Accept(d) \/ Register(d) \/ Prepare(d) \/ HandOut(d) \/ ServingEnds(d)
    \/ \E f \in Flows :
           \/ FlowBegins(f) \/ FlowAsks(f) \/ FlowDecided(f) \/ FlowEnds(f)
           \/ RelayReturns(f) \/ \E side \in {"in", "out"} : SideEnds(f, side)

\* Goroutines run, and what watches the engine's context acts once that is done.  Nothing
\* is assumed of an engine that is not cancelled.
Fairness ==
    /\ WF_engineVars(cancelled /\ LoopEnds) /\ WF_engineVars(LoopReturns)
    /\ WF_engineVars(AwaitFlows) /\ WF_engineVars(CloseResources)
    /\ SF_engineVars(AcceptEnds)
    /\ \A d \in Dials :
           /\ WF_engineVars(ConnStep(d))
           /\ WF_engineVars(DialAnswered(d))
           /\ WF_engineVars(cancelled /\ DialGivesUp(d))
    /\ \A f \in Flows :
           /\ WF_engineVars(cancelled /\ FlowEnds(f))
           /\ WF_engineVars(cancelled /\ SideStops(f))
           /\ WF_engineVars(SideFails(f))
           /\ WF_engineVars(RelayReturns(f))

Spec == Init /\ [][Next]_engineVars
FairSpec == Spec /\ Fairness

-----------------------------------------------------------------------------
(* Properties. *)

TypeOK ==
    /\ {cancelled, ready, accepting} \subseteq BOOLEAN
    /\ loop \in {"starting", "running", "closing", "returned"}
    /\ shutdown \in {"running", "waiting", "done"}
    /\ dial \in [Dials -> {"idle", "waiting", "offering", "reading", "open", "failed"}]
    /\ conn \in [Dials -> {"none", "accepted", "registered", "offered", "serving", "closed"}]
    /\ flow \in [Flows -> {"idle", "counted", "policy", "inspecting", "relaying", "ended"}]
    /\ sides \in [Flows -> SUBSET {"in", "out"}]
    /\ \A f \in Flows : sides[f] # {} => flow[f] = "relaying"

\* Once Wait returns, no connection is open and no flow runs, however late it came in.
\* (engine.go, NewEngine: "until Close or IPC EOF".)
NothingOutlivesTheEngine ==
    shutdown = "done" =>
        /\ \A d \in Dials : conn[d] \in {"none", "closed"}
        /\ Counted = {}

\* A cancelled engine ends, and every dial returns: no connection escapes the registry
\* between its acceptance and the close, and nobody waits for a mutex for ever.
ShutdownCompletes ==
    cancelled ~> (shutdown = "done" /\ \A d \in Dials : dial[d] \notin {"offering", "reading"})
=============================================================================
