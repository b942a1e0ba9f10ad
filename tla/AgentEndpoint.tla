----------------------------- MODULE AgentEndpoint -----------------------------
(***************************************************************************)
(* How the windows of a user find their capture agent: the socket file,    *)
(* agents that start, probe, reclaim it, shut down and are replaced        *)
(* (agent/main.ts), and AgentClient's connecting and upgrading             *)
(* (extension/client.ts).                                                  *)
(*                                                                         *)
(* The file at the canonical path is a name: whoever unlinks it removes    *)
(* the socket of whoever listens there.  An agent started for an upgrade   *)
(* has a path of its own, known to the window that started it, until it is *)
(* promoted.  Processes may be killed at any moment, which leaves the      *)
(* file; windows may be closed and opened.                                 *)
(***************************************************************************)
EXTENDS Naturals, FiniteSets

CONSTANTS
    Agents,     \* bound: processes of the agent that may exist at a time
    Windows,    \* windows of VS Code
    Newer,      \* those whose extension is of a newer release than the others'
    NoAgent, NoWindow


VARIABLES
    file,       \* whose socket the canonical path names; "stale" when its process is gone
    phase,      \* the life of each process
    recent,     \* whether its script is of the newer release
    staged,     \* the window for whose upgrade it listens on a path of its own
    promoted,   \* it listens on the canonical path as well (promotedServer)
    clients,    \* main.ts clients: the windows with a socket accepted by the agent
    exitTimer,  \* the agent leaves when it fires without clients
    asked,      \* a `shutdown' request is on its way to the agent
    stage,      \* where AgentClient.connect, establish and upgrade are
    link,       \* the agent at the other end of AgentClient.socket
    previous    \* the agent at the other end of retiringSocket

agentVars == <<file, phase, recent, staged, promoted, clients, exitTimer, asked>>
windowVars == <<stage, link, previous>>
vars == <<agentVars, windowVars>>

Phases == {"off", "starting", "probing", "refused", "answered", "listening", "stopping"}
Upgrading == {"staging", "checking", "retiring", "promoting"}
Stages == {"closed", "idle", "waiting", "polling", "greeting", "ready"} \cup Upgrading

Init ==
    /\ file \in {NoAgent, "stale"}
    /\ phase = [a \in Agents |-> "off"]
    /\ recent = [a \in Agents |-> FALSE]
    /\ staged = [a \in Agents |-> NoWindow] /\ promoted = [a \in Agents |-> FALSE]
    /\ clients = [a \in Agents |-> {}]
    /\ exitTimer = [a \in Agents |-> FALSE]
    /\ asked = [a \in Agents |-> FALSE]
    /\ stage = [w \in Windows |-> "closed"]
    /\ link = [w \in Windows |-> NoAgent]
    /\ previous = [w \in Windows |-> NoAgent]

Alive(a) == phase[a] # "off"
Accepts(a) == phase[a] = "listening"
Canonical(a) == staged[a] = NoWindow

\* A socket of window w ends at agent a.
Joined(w, a) == link[w] = a \/ previous[w] = a

-----------------------------------------------------------------------------
(* The agent. *)

\* What a process that is gone leaves: nothing but the file it named, if any.
Gone(a, left) ==
    /\ phase' = [phase EXCEPT ![a] = "off"]
    /\ recent' = [recent EXCEPT ![a] = FALSE]
    /\ staged' = [staged EXCEPT ![a] = NoWindow]
    /\ promoted' = [promoted EXCEPT ![a] = FALSE]
    /\ clients' = [clients EXCEPT ![a] = {}]
    /\ exitTimer' = [exitTimer EXCEPT ![a] = FALSE]
    /\ asked' = [asked EXCEPT ![a] = FALSE]
    /\ file' = left
    /\ UNCHANGED windowVars


\* server.listen succeeds: from now on there is a timer until a client comes.
Listening(a) ==
    /\ phase' = [phase EXCEPT ![a] = "listening"]
    /\ exitTimer' = [exitTimer EXCEPT ![a] = TRUE]
    /\ UNCHANGED <<recent, staged, promoted, clients, asked, windowVars>>

\* The script runs.  A file that exists is probed first; a staging path is always new.
CheckFile(a) ==
    /\ phase[a] = "starting"
    /\ \/ /\ ~Canonical(a) /\ Listening(a) /\ UNCHANGED file
       \/ /\ Canonical(a) /\ file = NoAgent
          /\ file' = a /\ Listening(a)
       \/ /\ Canonical(a) /\ file # NoAgent
          /\ phase' = [phase EXCEPT ![a] = "probing"]
          /\ UNCHANGED <<file, recent, staged, promoted, clients, exitTimer, asked, windowVars>>

\* net.connect: whoever listens answers, a file without a listener (or none) refuses.
Probe(a) ==
    /\ phase[a] = "probing"
    /\ phase' = [phase EXCEPT ![a] =
                    IF file \in Agents /\ Accepts(file) THEN "answered" ELSE "refused"]
    /\ UNCHANGED <<file, recent, staged, promoted, clients, exitTimer, asked, windowVars>>

\* probe.once('connect'): there is an agent already.
Yield(a) == phase[a] = "answered" /\ Gone(a, file)

\* shutdown(): the server is closed and the paths are unlinked, whoever they name.
StopAgent(a) ==
    /\ phase' = [phase EXCEPT ![a] = "stopping"]
    /\ file' = IF Canonical(a) \/ promoted[a] THEN NoAgent ELSE file
    /\ exitTimer' = [exitTimer EXCEPT ![a] = FALSE]
    /\ asked' = [asked EXCEPT ![a] = FALSE]
    /\ UNCHANGED <<recent, staged, promoted, clients, windowVars>>

\* probe.once('error'): the file is taken over.  When it is gone meanwhile, unlinkSync
\* throws and uncaughtException shuts the agent down.
Reclaim(a) ==
    /\ phase[a] = "refused"
    /\ \/ file # NoAgent /\ file' = a /\ Listening(a)
       \/ file = NoAgent /\ StopAgent(a)

\* The grace period of scheduleExit is over.
ExitTimerFires(a) ==
    /\ Accepts(a) /\ exitTimer[a] /\ clients[a] = {}
    /\ StopAgent(a)

\* The request `shutdown'.
ServeShutdown(a) == Accepts(a) /\ asked[a] /\ StopAgent(a)

\* SIGINT, SIGTERM, an uncaught exception or a failed teardown.
Signalled(a) == Accepts(a) /\ StopAgent(a)

\* serial(core.close, mcp.close).finally(process.exit)
Exit(a) == phase[a] = "stopping" /\ Gone(a, file)

\* The process is killed or crashes hard: nothing is unlinked.
Kill(a) == Alive(a) /\ Gone(a, IF file = a THEN "stale" ELSE file)


\* Wrong: a replacement that was given up is not told that its client left.
ClientClosesQuietly(a, w) ==
    /\ Alive(a) /\ w \in clients[a] /\ ~Joined(w, a)
    /\ clients' = [clients EXCEPT ![a] = @ \ {w}]
    /\ exitTimer' = [exitTimer EXCEPT ![a] = clients[a] = {w} /\ Accepts(a) /\ Canonical(a)]
    /\ UNCHANGED <<file, phase, recent, staged, promoted, asked, windowVars>>

\* acceptClient's 'close': the window's end of a socket is gone.
ClientCloses(a, w) ==
    /\ Alive(a) /\ w \in clients[a] /\ ~Joined(w, a)
    /\ clients' = [clients EXCEPT ![a] = @ \ {w}]
    /\ exitTimer' = [exitTimer EXCEPT ![a] = clients[a] = {w} /\ Accepts(a)]
    /\ UNCHANGED <<file, phase, recent, staged, promoted, asked, windowVars>>

-----------------------------------------------------------------------------
(* The window. *)

Goes(w, next, socket, retiring) ==
    /\ stage' = [stage EXCEPT ![w] = next]
    /\ link' = [link EXCEPT ![w] = socket]
    /\ previous' = [previous EXCEPT ![w] = retiring]

\* dial succeeds: the agent accepts the socket, and has a client.
Dialed(w, a) ==
    /\ Accepts(a) /\ w \notin clients[a]
    /\ clients' = [clients EXCEPT ![a] = @ \cup {w}]
    /\ exitTimer' = [exitTimer EXCEPT ![a] = FALSE]
    /\ UNCHANGED <<file, phase, recent, staged, promoted, asked>>


\* needsAgentUpgrade: the releases are compared, not the files.
NeedsUpgrade(w, a) == w \in Newer /\ ~recent[a]

\* spawnAgent, on the canonical path or on one of its own.
Spawn(a, w, owner) ==
    /\ ~Alive(a)
    /\ phase' = [phase EXCEPT ![a] = "starting"]
    /\ recent' = [recent EXCEPT ![a] = w \in Newer]
    /\ staged' = [staged EXCEPT ![a] = owner]
    /\ UNCHANGED <<file, promoted, clients, exitTimer, asked>>

\* openAgent at the canonical path: an agent that does not answer in time (or none) is
\* replaced by a new process, which is then polled for.
Connect(w) ==
    /\ stage[w] \in {"closed", "idle", "waiting"}
    /\ \/ /\ file \in Agents /\ Dialed(w, file)
          /\ Goes(w, "greeting", file, NoAgent)
       \/ \E a \in Agents : Spawn(a, w, NoWindow) /\ Goes(w, "polling", NoAgent, NoAgent)

\* The loop of openAgent: the agent that answers need not be the one started.  After
\* ten seconds the attempt is given up, and nothing tries again by itself.
Poll(w) ==
    /\ stage[w] = "polling"
    /\ \/ /\ file \in Agents /\ Dialed(w, file)
          /\ Goes(w, "greeting", file, NoAgent)
       \/ Goes(w, "idle", NoAgent, NoAgent) /\ UNCHANGED agentVars

\* establish: hello is answered.  An agent of an older release is replaced, otherwise
\* the snapshot completes the connection.
Greeted(w) ==
    /\ stage[w] = "greeting" /\ Accepts(link[w]) /\ w \in clients[link[w]]
    /\ \/ /\ NeedsUpgrade(w, link[w])
          /\ \E b \in Agents : Spawn(b, w, w) /\ Goes(w, "staging", b, link[w])
       \/ /\ ~NeedsUpgrade(w, link[w])
          /\ Goes(w, "ready", link[w], NoAgent) /\ UNCHANGED agentVars

\* The socket of an agent that is gone closes, or hello, the snapshot or another request
\* fails: the socket is destroyed, and its close schedules a new attempt.
Lost(w) ==
    /\ stage[w] \in {"greeting", "ready"}
    /\ Goes(w, "waiting", NoAgent, NoAgent)
    /\ UNCHANGED agentVars

\* upgrade: the replacement answers on its own path.
Staged(w) ==
    /\ stage[w] = "staging"
    /\ staged[link[w]] = w
    /\ Dialed(w, link[w]) /\ Goes(w, "checking", link[w], previous[w])

\* The replacement answered hello, start, snapshot, and took the state of the old one,
\* which is asked to leave.
Checked(w) ==
    /\ stage[w] = "checking"
    /\ Accepts(link[w]) /\ w \in clients[link[w]]
    /\ \/ /\ w \in clients[previous[w]]
          /\ asked' = [asked EXCEPT ![previous[w]] = Accepts(previous[w])]
          /\ Goes(w, "retiring", link[w], previous[w])
       \/ /\ w \notin clients[previous[w]]
          /\ UNCHANGED asked /\ Goes(w, "promoting", link[w], NoAgent)
    /\ UNCHANGED <<file, phase, recent, staged, promoted, clients, exitTimer>>

\* retire: the old agent's socket closed.
Retired(w) ==
    /\ stage[w] = "retiring" /\ w \notin clients[previous[w]]
    /\ Goes(w, "promoting", link[w], NoAgent)
    /\ UNCHANGED agentVars

\* The replacement does not start, does not answer, or the old agent does not leave in
\* time: back to the old one while it is connected.  Otherwise a new attempt follows the
\* close of the replacement's socket, unless that socket closed before.
UpgradeFails(w) ==
    /\ stage[w] \in {"staging", "checking", "retiring"}
    /\ \/ /\ w \in clients[previous[w]]
          /\ Goes(w, "ready", previous[w], NoAgent)
       \/ /\ w \notin clients[previous[w]]
          /\ Goes(w, IF w \in clients[link[w]] THEN "waiting" ELSE "idle", NoAgent, NoAgent)
    /\ UNCHANGED agentVars

\* promote: the replacement listens on the canonical path as well, if that is free.
Promoted(w) ==
    /\ stage[w] = "promoting" /\ w \in clients[link[w]] /\ Accepts(link[w])
    /\ file = NoAgent
    /\ file' = link[w]
    /\ promoted' = [promoted EXCEPT ![link[w]] = TRUE]
    /\ Goes(w, "ready", link[w], NoAgent)
    /\ UNCHANGED <<phase, recent, staged, clients, exitTimer, asked>>

\* The path is taken, or the request fails: the replacement is given up.
PromoteFails(w) ==
    /\ stage[w] = "promoting"
    /\ Goes(w, IF w \in clients[link[w]] THEN "waiting" ELSE "idle", NoAgent, NoAgent)
    /\ UNCHANGED agentVars

CloseWindow(w) ==
    /\ stage[w] # "closed"
    /\ Goes(w, "closed", NoAgent, NoAgent)
    /\ UNCHANGED agentVars

-----------------------------------------------------------------------------

AgentStep(a) ==
    \/ CheckFile(a) \/ Probe(a) \/ Yield(a) \/ Reclaim(a)
    \/ ExitTimerFires(a) \/ ServeShutdown(a) \/ Exit(a)
    \/ \E w \in Windows : ClientCloses(a, w)

UpgradeStep(w) ==
    \/ Staged(w) \/ Checked(w) \/ Retired(w) \/ UpgradeFails(w)
    \/ Promoted(w) \/ PromoteFails(w)

Next ==
    \/ \E a \in Agents : AgentStep(a) \/ Signalled(a) \/ Kill(a)
    \/ \E w \in Windows : Connect(w) \/ Poll(w) \/ Greeted(w) \/ Lost(w)
                          \/ UpgradeStep(w) \/ CloseWindow(w)

Spec == Init /\ [][Next]_vars

\* Processes run and their timers fire; the steps of an upgrade are bounded by the
\* time-outs of its requests.  Nothing else need happen: a user may close windows, or
\* never use one again.
Fairness ==
    /\ \A a \in Agents : WF_vars(AgentStep(a))
    /\ \A w \in Windows : WF_vars(UpgradeStep(w))

FairSpec == Spec /\ Fairness

-----------------------------------------------------------------------------
(* Properties. *)

\* A client is one of a running process; a timer runs only without clients; an upgrade
\* has a replacement and, until the old agent left, a socket to return to.
TypeOK ==
    /\ file \in Agents \cup {NoAgent, "stale"}
    /\ phase \in [Agents -> Phases]
    /\ recent \in [Agents -> BOOLEAN] /\ staged \in [Agents -> Windows \cup {NoWindow}]
    /\ promoted \in [Agents -> BOOLEAN] /\ asked \in [Agents -> BOOLEAN]
    /\ clients \in [Agents -> SUBSET Windows] /\ exitTimer \in [Agents -> BOOLEAN]
    /\ stage \in [Windows -> Stages]
    /\ link \in [Windows -> Agents \cup {NoAgent}]
    /\ previous \in [Windows -> Agents \cup {NoAgent}]
    /\ \A a \in Agents : Accepts(a) => (exitTimer[a] <=> clients[a] = {})
    /\ \A w \in Windows : link[w] # NoAgent <=> stage[w] \in {"greeting", "ready"} \cup Upgrading
    /\ \A w \in Windows : previous[w] # NoAgent <=> stage[w] \in Upgrading \ {"promoting"}

\* "Never steal a live agent's socket; only reclaim a stale file."  (main.ts, before the
\* probe.)  The path stops naming an agent only once that agent no longer listens.
NeverSteals ==
    [][\A a \in Agents : (file = a /\ file' # a) => phase'[a] # "listening"]_vars

\* Once every window is closed for good, so is every agent, those that an upgrade staged
\* and those that lost their socket file included.
AgentsLeave ==
    <>[](\A w \in Windows : stage[w] = "closed") => <>[](\A a \in Agents : phase[a] = "off")
=============================================================================
