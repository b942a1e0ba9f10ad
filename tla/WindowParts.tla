------------------------------- MODULE WindowParts -------------------------------
(***************************************************************************)
(* A window and its agent: how windows find, upgrade and lose the agent    *)
(* behind the socket file (AgentEndpoint), and how a window follows it     *)
(* over one socket (AgentWindow).  A behaviour is one of one part; the     *)
(* variables of the other stay as they began.                              *)
(***************************************************************************)
EXTENDS Naturals, FiniteSets

CONSTANTS
    Agents, Windows, Newer, NoAgent, NoWindow,  \* AgentEndpoint
    Ids, MaxLines, MaxCalls                     \* AgentWindow

ASSUME NamesAssumption ==
    Newer \subseteq Windows /\ NoAgent \notin Agents /\ NoWindow \notin Windows
ASSUME BoundsAssumption == MaxLines \in Nat \ {0} /\ MaxCalls \in Nat
ASSUME IdsAssumption == IsFiniteSet(Ids)

VARIABLES
    part,
    \* AgentEndpoint
    file, phase, recent, staged, promoted, clients, exitTimer, asked, stage, link, previous,
    \* AgentWindow, whose `phase' is `greeting'
    records, state, attached, serving, toAgent, toWindow, greeting, pending, mirror, shown,
    chunk, resolved

Endpoint == INSTANCE AgentEndpoint
Window == INSTANCE AgentWindow WITH phase <- greeting

endpointVars == <<file, phase, recent, staged, promoted, clients, exitTimer, asked, stage,
                  link, previous>>
windowVars == <<records, state, attached, serving, toAgent, toWindow, greeting, pending,
                mirror, shown, chunk, resolved>>
vars == <<part, endpointVars, windowVars>>

Init ==
    /\ part \in {"endpoint", "window"}
    /\ Endpoint!Init /\ (part # "endpoint" => file = NoAgent)
    /\ Window!Init

Next ==
    \/ part = "endpoint" /\ Endpoint!Next /\ UNCHANGED <<part, windowVars>>
    \/ part = "window" /\ Window!Next /\ UNCHANGED <<part, endpointVars>>

\* The fairness of each part, as its module states and justifies it.
Fairness ==
    /\ \A a \in Agents : WF_endpointVars(part = "endpoint" /\ Endpoint!AgentStep(a))
    /\ \A w \in Windows : WF_endpointVars(part = "endpoint" /\ Endpoint!UpgradeStep(w))
    /\ WF_windowVars(part = "window" /\ Window!Read)
    /\ WF_windowVars(part = "window" /\ Window!Continue)
    /\ SF_windowVars(part = "window" /\ Window!TimesOut)

FairSpec == Init /\ [][Next]_vars /\ Fairness

-----------------------------------------------------------------------------
(* Properties, stated in the modules of the parts. *)

\* A client of an agent is one of a running process, a timer of an agent runs only without
\* clients, and a socket nobody greeted on gets no line.
TypeOK == Endpoint!TypeOK /\ Window!TypeOK
\* The mirror shows what the agent has once the lines on their way are read (client.ts).
MirrorFollows == Window!MirrorFollows
\* Every call in progress has one request, or one result on its way (client.ts).
CallsMatched == Window!CallsMatched
\* Connecting never hangs, whatever the agent does (client.ts, establish).
ConnectingEnds == Window!ConnectingEnds
\* Agents leave once their windows are closed for good (main.ts, scheduleExit).
AgentsLeave == Endpoint!AgentsLeave
=============================================================================
