------------------------------ MODULE Environment ------------------------------
(***************************************************************************)
(* What routes terminals and debug sessions through a capture: the         *)
(* variables that utils/environment.ts makes of a target and its profiles, *)
(* and environment/captureEnvironment.ts, which gives them to the editor's *)
(* terminals whenever the capture or the preferences change, and to each   *)
(* debug session as it is resolved. The engine decides by the same         *)
(* preferences which hosts are decrypted (shared/model.ts).                *)
(***************************************************************************)
EXTENDS Naturals, FiniteSets

CONSTANTS Ports, Nothing, MaxPatterns   \* bound: patterns in a list

VARIABLES
    running, port,  \* the state of the agent, as the window knows it
    store,          \* there is a trust store for JVMs
    hosts, noHosts, \* the preferences ssl.hosts and ssl.noHosts
    profiles,       \* terminal.profiles
    terminal,       \* the variables that new terminals get
    session,        \* a debug session: its type, its own variables, and all it was given
    announced       \* what its console says was injected

environmentVars ==
    <<running, port, store, hosts, noHosts, profiles, terminal, session, announced>>

\* Hosts "a" and "b"; a pattern stands for "a" or for all, and may exclude.
Names == {"a", "b"}
Over == {"a", "*"}
Patterns == [not : BOOLEAN, over : Over]
Lists == {l \in SUBSET Patterns : Cardinality(l) <= MaxPatterns}

Profiles == {"openssl", "node", "java"}
Types == {"node", "extensionHost", "java", "dart", "other"}
\* defaultDebugRuntimes; other types are left alone.
Runtimes(type) ==
    CASE type \in {"node", "extensionHost"} -> {"node"}
      [] type = "java" -> {"java"}
      [] OTHER -> {}

-----------------------------------------------------------------------------
(* The engine. *)

\* matchHost.
Matches(over, host) == over \in {"*", host}

\* Engine.intercepts and isHostIntercepted.
Intercepts(host) ==
    /\ ~\E o \in noHosts : Matches(o, host)
    /\ ~\E p \in hosts : p.not /\ Matches(p.over, host)
    /\ \E p \in hosts : ~p.not /\ Matches(p.over, host)

-----------------------------------------------------------------------------
(* The variables. *)

\* captureEnvironment's guess whether any host is decrypted.
DecryptTLS ==
    /\ ~\E p \in hosts : p.not /\ p.over = "*"
    /\ "*" \notin noHosts
    /\ \E p \in hosts : ~p.not

\* captureEnvironment: the proxy, the runtimes it is made known to (a JVM that could not be
\* made to trust it is not routed), and those given the certificate.
Variables(chosen) ==
    LET served == {p \in chosen : p # "java" \/ store \/ ~DecryptTLS} IN
    [proxy |-> port, routed |-> served, trusts |-> IF DecryptTLS THEN served ELSE {}]

\* CaptureEnvironment.apply.
Apply == terminal' = IF running' THEN Variables(profiles)' ELSE Nothing

-----------------------------------------------------------------------------
\* A `state' event of the agent, or the loss of the connection to it.
AgentState ==
    /\ running' \in BOOLEAN /\ port' \in Ports /\ store' \in BOOLEAN
    /\ UNCHANGED <<hosts, noHosts, profiles, session, announced>>
    /\ Apply

\* The preferences under terminal and ssl.
ChangePreference ==
    /\ \/ hosts' \in Lists /\ UNCHANGED <<noHosts, profiles>>
       \/ noHosts' \in {l \in SUBSET Over : Cardinality(l) <= 1} /\ UNCHANGED <<hosts, profiles>>
       \/ profiles' \in SUBSET (Profiles \ {"node"}) /\ UNCHANGED <<hosts, noHosts>>
    /\ UNCHANGED <<running, port, store, session, announced>>
    /\ Apply

\* injectDebug: the session's own variables win over those of the capture. An extension
\* host trusts what the system trusts. A proxy of its own is Nothing here.
Inject(type, own) ==
    LET given == Variables(Runtimes(type)) IN
    IF type # "other" /\ running
    THEN [proxy |-> IF own THEN Nothing ELSE given.proxy,
          trusts |-> IF type = "extensionHost" THEN {} ELSE given.trusts]
    ELSE IF own THEN [proxy |-> Nothing, trusts |-> {}] ELSE Nothing
ResolveDebug(type, own) ==
    /\ session = Nothing
    /\ session' = [type |-> type, env |-> Inject(type, own), live |-> FALSE]
    /\ announced' = Nothing
    /\ UNCHANGED <<running, port, store, hosts, noHosts, profiles, terminal>>

\* announce, once it started: only if its proxy is that of the capture there is.
Announce ==
    /\ session # Nothing /\ ~session.live
    /\ session' = [session EXCEPT !.live = TRUE]
    /\ announced' = IF running /\ session.env # Nothing /\ session.env.proxy = port
                    THEN port ELSE Nothing
    /\ UNCHANGED <<running, port, store, hosts, noHosts, profiles, terminal>>

EndDebug ==
    /\ session # Nothing /\ session' = Nothing /\ announced' = Nothing
    /\ UNCHANGED <<running, port, store, hosts, noHosts, profiles, terminal>>

Begin(p) ==
    /\ running = FALSE /\ port = p /\ store = FALSE
    /\ hosts = {[not |-> FALSE, over |-> "*"]} /\ noHosts = {} /\ profiles = {"openssl"}
    /\ terminal = Nothing /\ session = Nothing /\ announced = Nothing
Init == \E p \in Ports : Begin(p)

Next ==
    \/ AgentState \/ ChangePreference \/ Announce \/ EndDebug
    \/ \E type \in Types, own \in BOOLEAN : ResolveDebug(type, own)

Spec == Init /\ [][Next]_environmentVars

-----------------------------------------------------------------------------
Environments == [proxy : Ports, routed : SUBSET Profiles, trusts : SUBSET Profiles]
Injected == [proxy : Ports \cup {Nothing}, trusts : SUBSET Profiles]
Sessions == [type : Types, env : Injected \cup {Nothing}, live : BOOLEAN]
TypeOK ==
    /\ running \in BOOLEAN /\ port \in Ports /\ store \in BOOLEAN
    /\ hosts \in Lists /\ noHosts \subseteq Over /\ profiles \subseteq Profiles
    /\ terminal \in Environments \cup {Nothing}
    /\ session \in Sessions \cup {Nothing}
    /\ announced \in Ports \cup {Nothing}

\* No runtime of the terminals is routed through a capture that decrypts some host unless it
\* would trust what is presented for it (environment.ts; model.ts isHostIntercepted).
TerminalsTrustTheProxy ==
    (terminal # Nothing /\ \E h \in Names : Intercepts(h)) =>
        terminal.routed \subseteq terminal.trusts

\* What a debug session's console says is true of it, although the capture may have moved or
\* ended between its resolution and its start (captureEnvironment.ts, announce).
AnnouncedIsInjected ==
    announced # Nothing =>
        /\ session # Nothing /\ session.env # Nothing
        /\ session.env.proxy = announced
=============================================================================
