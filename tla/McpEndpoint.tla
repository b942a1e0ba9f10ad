----------------------------- MODULE McpEndpoint -----------------------------
(***************************************************************************)
(* The MCP endpoint of the agent (agent/mcp/endpoint.ts, server.ts and the *)
(* `settings' case of agent/main.ts): one listener shared by the windows,  *)
(* which ask for a port or for none in their settings; and tool calls that *)
(* name a window or mean the only one.                                     *)
(***************************************************************************)
EXTENDS Naturals, FiniteSets

CONSTANTS Windows,    \* sessions of the agent
          Ports,      \* ports a window may ask for
          NoPort,     \* MCP disabled; nothing listens
          NoWindow,   \* no sessionId given
          MaxPushes   \* bound: settings pushed

VARIABLES wants,     \* per window: mcpPort in its editor's settings
          told,      \* per session: engine.settings.mcpPort
          windows,   \* windows connected (clients)
          sessions,  \* sessions the agent keeps, for three seconds more
          port,      \* mcp.port
          failed,    \* the last listen did not get its port
          called,    \* the last tool call: the sessionId given and the session it reached
          pushes

mcpVars == <<wants, told, windows, sessions, port, failed, called, pushes>>

----------------------------------------------------------------------------
(* Who listens (main.ts handle `hello' and `settings', endpoint.ts).       *)

Others(w) == {o \in sessions \ {w} : o \in windows}

\* A plausible slip: the other windows are not asked.
KeepsOnlyIfSame(w) == wants[w] = port

\* Conflicting settings of a window cannot steal the port of another one.
Keeps(w) == wants[w] = port \/ (port # NoPort /\ \E o \in Others(w) : told[o] # NoPort)

\* listen closes the old listener first; a port that is taken leaves none.
Listens(w) ==
    \/ Keeps(w) /\ UNCHANGED <<port, failed>>
    \/ ~Keeps(w) /\ port' = wants[w] /\ failed' = FALSE
    \/ ~Keeps(w) /\ wants[w] # NoPort /\ port' = NoPort /\ failed' = TRUE

HandleSettings(w) ==
    /\ told' = [told EXCEPT ![w] = wants[w]]
    /\ Listens(w)

\* hello: the session is opened, or kept if its window came back in time.
Hello(w) ==
    /\ w \notin windows
    /\ pushes < MaxPushes
    /\ windows' = windows \cup {w}
    /\ sessions' = sessions \cup {w}
    /\ HandleSettings(w)
    /\ pushes' = pushes + 1
    /\ UNCHANGED <<wants, called>>

\* The editor's settings change, and its client pushes them.
SetPort(w) ==
    /\ w \in windows
    /\ pushes < MaxPushes
    /\ \E p \in (Ports \cup {NoPort}) \ {wants[w]} : wants' = [wants EXCEPT ![w] = p]
    /\ pushes' = pushes + 1
    /\ UNCHANGED <<told, windows, sessions, port, failed, called>>

PushSettings(w) ==
    /\ w \in windows
    /\ told[w] # wants[w]
    /\ HandleSettings(w)
    /\ UNCHANGED <<wants, windows, sessions, called, pushes>>

LeaveWindow(w) ==
    /\ w \in windows
    /\ windows' = windows \ {w}
    /\ UNCHANGED <<wants, told, sessions, port, failed, called, pushes>>

\* A plausible slip: the timer is not stopped when the window is back.
ForgetSessionAnyway(w) ==
    /\ w \in sessions
    /\ sessions' = sessions \ {w}
    /\ UNCHANGED <<wants, told, windows, port, failed, called, pushes>>

\* Three seconds after its last socket a session is taken down.
ForgetSession(w) ==
    /\ w \in sessions \ windows
    /\ sessions' = sessions \ {w}
    /\ UNCHANGED <<wants, told, windows, port, failed, called, pushes>>

----------------------------------------------------------------------------
(* Tool calls (main.ts select, server.ts guard).                           *)

\* NoWindow stands for `Specify sessionId from list_sessions'.
Reaches(given) ==
    LET active == windows \cap sessions
    IN  IF given = NoWindow /\ Cardinality(active) = 1 THEN CHOOSE w \in active : TRUE
        ELSE IF given \in active THEN given ELSE NoWindow

CallTool ==
    /\ port # NoPort
    /\ \E given \in Windows \cup {NoWindow} :
         called' = [given |-> given, reached |-> Reaches(given), active |-> windows]
    /\ UNCHANGED <<wants, told, windows, sessions, port, failed, pushes>>

----------------------------------------------------------------------------
Begin(asked) ==
    /\ wants = asked
    /\ told = [w \in Windows |-> NoPort]
    /\ windows = {}
    /\ sessions = {}
    /\ port = NoPort
    /\ failed = FALSE
    /\ called = [given |-> NoWindow, reached |-> NoWindow, active |-> {}]
    /\ pushes = 0

Init == \E asked \in [Windows -> Ports \cup {NoPort}] : Begin(asked)

Next ==
    \/ CallTool
    \/ \E w \in Windows :
         \/ Hello(w)
         \/ SetPort(w)
         \/ PushSettings(w)
         \/ LeaveWindow(w)
         \/ ForgetSession(w)

Spec == Init /\ [][Next]_mcpVars

----------------------------------------------------------------------------
TypeOK ==
    /\ wants \in [Windows -> Ports \cup {NoPort}]
    /\ told \in [Windows -> Ports \cup {NoPort}]
    /\ windows \subseteq sessions
    /\ sessions \subseteq Windows
    /\ port \in Ports \cup {NoPort}

\* "Conflicting window settings cannot steal its port" (main.ts): while a connected
\* window asked for MCP, it is served, whatever the other windows ask, unless a port that
\* was asked for is taken.
ServedWhileWanted == (\E w \in windows : told[w] # NoPort) => port # NoPort \/ failed

\* A tool acts on the window it names, or on the only one there is: never on one of several
\* that was not named, nor on one that has left (main.ts select, server.ts guard).
CallsReachTheirWindow ==
    called.reached # NoWindow =>
        \/ called.given = called.reached /\ called.reached \in called.active
        \/ called.given = NoWindow /\ called.active = {called.reached}
=============================================================================
