----------------------------- MODULE ControlParts -----------------------------
(***************************************************************************)
(* The parts of the agent, of the extension and of its pages with which the*)
(* user says what is captured and how: the settings and the rules, the     *)
(* certificate, the proxy of the editor and of its terminals, the composer *)
(* and MCP.  AgentParts puts them beside those that hold and show the       *)
(* traffic: a behaviour is one of one part, `part'.                        *)
(***************************************************************************)
EXTENDS Naturals

CONSTANTS
    Nothing,                                   \* nobody, no page, no file
    Editors, Ports, Own, Unset, MaxQueued, MaxStarts,  \* EditorProxy
    MaxJobs, MaxChanges,                       \* CaptureGate
    Kinds, RuleIds, MaxEdits, MaxWrites,       \* RulesEditor
    Files, MaxActions, MaxPicks,               \* Composer
    Windows, MaxPushes,                        \* McpEndpoint
    MaxRecords, MaxLimit,                      \* McpListing
    MaxPatterns,                               \* Environment
    MaxDeeds,                                  \* SettingsPage
    MaxMinted                                  \* RootIdentity

ASSUME ControlNamesAssumption ==
    /\ Own # Unset /\ {Own, Unset, Nothing} \cap Ports = {}
    /\ Nothing \notin Windows \cup RuleIds \cup Files
ASSUME ControlBoundsAssumption ==
    /\ {MaxQueued, MaxStarts, MaxJobs, MaxChanges, MaxEdits, MaxWrites, MaxActions, MaxPicks,
        MaxPushes, MaxRecords, MaxDeeds, MaxMinted} \subseteq Nat
    /\ {MaxLimit, MaxPatterns} \subseteq Nat \ {0}

VARIABLES
    part,
    \* EditorProxy
    setting, proxyChosen, raced, alive, capturePort, value, previous, operations, writing,
    updateFailed, stranded, starts,
    \* CaptureGate
    platform, trustStore, status, half, drifted, chain, required, starting, vetted,
    removing, listening, outside,
    \* RulesEditor
    page, saving, rulesToHost, rulesToPage, store, snapshot, rulesTold, connected, undone,
    edits, writes,
    \* Composer
    mode, parts, fileName, variables, body, error, ctype, reads, asked, changes, picks,
    \* McpEndpoint
    wants, told, windows, sessions, port, failed, called, pushes,
    \* McpListing
    listed, sequence, offset, given, due, deleted, phase,
    \* Environment
    running, envPort, envStore, sslHosts, sslNoHosts, profiles, terminal, session, announced,
    \* SettingsPage
    stored, legacy, visiting, migrated, wished, noticed, takenBack, capturing, configured,
    tasks, tab, requests, posts, values, drafts, pending, pageState, stray, deeds,
    \* RootIdentity
    files, up, making, minted, stage, root

Proxy == INSTANCE EditorProxy
             WITH chosen <- proxyChosen, port <- capturePort, queue <- operations,
                  failed <- updateFailed
Gate == INSTANCE CaptureGate WITH store <- trustStore, changes <- outside
Editor == INSTANCE RulesEditor
              WITH toHost <- rulesToHost, toPage <- rulesToPage, told <- rulesTold
Composed == INSTANCE Composer WITH NoFile <- Nothing, MaxChanges <- MaxActions
Mcp == INSTANCE McpEndpoint WITH NoPort <- Nothing, NoWindow <- Nothing
Listing == INSTANCE McpListing WITH items <- listed, seen <- given
Routed == INSTANCE Environment
              WITH port <- envPort, store <- envStore, hosts <- sslHosts,
                   noHosts <- sslNoHosts
Settings == INSTANCE SettingsPage
                WITH undone <- takenBack, jobs <- tasks, shown <- values, state <- pageState
Rooted == INSTANCE RootIdentity WITH Sessions <- Windows

proxyVars == <<setting, proxyChosen, raced, alive, capturePort, value, previous, operations,
               writing, updateFailed, stranded, starts>>
gateVars == <<platform, trustStore, status, half, drifted, chain, required, starting, vetted,
              removing, listening, outside>>
editorVars == <<page, saving, rulesToHost, rulesToPage, store, snapshot, rulesTold, connected,
                undone, edits, writes>>
composedVars == <<mode, parts, fileName, variables, body, error, ctype, reads, asked, changes,
                  picks>>
mcpVars == <<wants, told, windows, sessions, port, failed, called, pushes>>
listingVars == <<listed, sequence, offset, given, due, deleted, phase>>
routedVars == <<running, envPort, envStore, sslHosts, sslNoHosts, profiles, terminal, session,
                announced>>
settingsVars == <<stored, legacy, visiting, migrated, wished, noticed, takenBack, capturing,
                  configured, tasks, tab, requests, posts, values, drafts, pending, pageState,
                  stray, deeds>>
rootedVars == <<files, up, making, minted, stage, root>>
controlVars ==
    <<proxyVars, gateVars, editorVars, composedVars, mcpVars, listingVars, routedVars,
      settingsVars, rootedVars>>

Controls == {"proxy", "gate", "editor", "composer", "mcp", "listing", "environment",
             "settings", "root"}

\* Nothing is no session, no variables of one and no rules.
ASSUME RecordsAssumption ==
    /\ Nothing \notin Routed!Sessions \cup Routed!Environments
    /\ Nothing \notin Editor!Lists

SomePort == CHOOSE p \in Ports : TRUE

ControlsBegin ==
    /\ IF part = "proxy" THEN Proxy!Init ELSE Proxy!Begin(Unset)
    /\ IF part = "gate" THEN Gate!Init ELSE Gate!Begin("linux", {}, TRUE)
    /\ IF part = "editor" THEN Editor!Init ELSE Editor!Begin(<<>>)
    /\ Composed!Init
    /\ IF part = "mcp" THEN Mcp!Init ELSE Mcp!Begin([w \in Windows |-> Nothing])
    /\ Listing!Init
    /\ IF part = "environment" THEN Routed!Init ELSE Routed!Begin(SomePort)
    /\ IF part = "settings" THEN Settings!Init ELSE Settings!Begin(<<>>, FALSE)
    /\ Rooted!Init

\* What the parts other than p do: nothing.
OtherControls(p) ==
    /\ IF p = "proxy" THEN TRUE ELSE UNCHANGED proxyVars
    /\ IF p = "gate" THEN TRUE ELSE UNCHANGED gateVars
    /\ IF p = "editor" THEN TRUE ELSE UNCHANGED editorVars
    /\ IF p = "composer" THEN TRUE ELSE UNCHANGED composedVars
    /\ IF p = "mcp" THEN TRUE ELSE UNCHANGED mcpVars
    /\ IF p = "listing" THEN TRUE ELSE UNCHANGED listingVars
    /\ IF p = "environment" THEN TRUE ELSE UNCHANGED routedVars
    /\ IF p = "settings" THEN TRUE ELSE UNCHANGED settingsVars
    /\ IF p = "root" THEN TRUE ELSE UNCHANGED rootedVars

ControlStep(p) ==
    CASE p = "proxy" -> Proxy!Next
      [] p = "gate" -> Gate!Next
      [] p = "editor" -> Editor!Next
      [] p = "composer" -> Composed!Next
      [] p = "mcp" -> Mcp!Next
      [] p = "listing" -> Listing!Next
      [] p = "environment" -> Routed!Next
      [] p = "settings" -> Settings!Next
      [] p = "root" -> Rooted!Next

-----------------------------------------------------------------------------
(* Properties, stated in the modules of the parts.  Those of the parts that stay as they   *)
(* began hold of how they began.                                                           *)

\* The part is well typed in every state.
ControlsTyped ==
    /\ part = "proxy" => Proxy!TypeOK
    /\ part = "gate" => Gate!TypeOK
    /\ part = "editor" => Editor!TypeOK
    /\ part = "composer" => Composed!TypeOK
    /\ part = "mcp" => Mcp!TypeOK
    /\ part = "listing" => Listing!TypeOK
    /\ part = "environment" => Routed!TypeOK
    /\ part = "settings" => Settings!TypeOK
    /\ part = "root" => Rooted!TypeOK

\* At rest the editor's own proxy is a live capture's or the user's, but for a port forgotten
\* as it was written; no runtime of its terminals is sent where it would refuse the
\* certificate, and what a debug session is said to go through is what it goes through
\* (settingsPanel.ts, captureEnvironment.ts).
ProxyIsChosen ==
    /\ part = "proxy" => Proxy!ProxyIsChosen
    /\ part = "environment" => Routed!TerminalsTrustTheProxy /\ Routed!AnnouncedIsInjected

\* A capture starts only with a certificate the system trusted, no status is one of an
\* operation half done, and what the agent signs with is what its clients are told to trust
\* (certificateTrust.ts, certificate.ts).
CaptureIsGated ==
    /\ part = "gate" => Gate!GateHolds /\ Gate!StatusIsWhole
    /\ part = "root" => Rooted!RootIsTrusted

\* The page's rules, the stored ones and the agent's agree once nothing is on its way, and so
\* do the page's settings and the stored ones, which are valid (useTraffic.ts, preferences.ts,
\* client.ts, Settings.tsx, settingsPanel.ts).
RulesSettle ==
    /\ part = "editor" => Editor!RulesSettle
    /\ part = "settings" => Settings!SettingsSettle

\* What Send sends is what the composer shows, whichever file was read first
\* (AdvancedBody.tsx, Editor.tsx).
ShownIsSent == part = "composer" => Composed!ShownIsSent

\* MCP is served while a window wants it, a tool acts on the window it was meant for, and a
\* listing read to its end leaves out no record (main.ts, endpoint.ts, server.ts).
McpServes ==
    /\ part = "mcp" => Mcp!ServedWhileWanted /\ Mcp!CallsReachTheirWindow
    /\ part = "listing" => Listing!ListingIsComplete
=============================================================================
