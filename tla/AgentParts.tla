------------------------------ MODULE AgentParts ------------------------------
(***************************************************************************)
(* The parts of the agent, of the extension and of its pages that keep a   *)
(* state of their own and meet the rest of the system only through what they*)
(* are asked and what they report: those that hold and show the traffic,   *)
(* and those of ControlParts.  A behaviour is one of one part, `part'; the *)
(* variables of the others stay as they began.                             *)
(***************************************************************************)
EXTENDS Naturals, ControlParts

CONSTANTS
    MaxRules,                                                 \* Rules
    MaxText, Limits, MaxItems,                                \* Records
    Ids, MaxEvents,                                           \* TrafficPanel
    MaxToggles, MaxAsks, MaxNews,                             \* PanelSearch
    HeaderSize, PoolSize, MaxFrames, MaxFragments, MaxBytes,  \* CoreData
    MaxRows,                                                  \* Selection
    Hosts, MaxNodes,                                          \* TrafficTree
    MaxFilters,                                               \* Query
    Kept, MaxMade, MaxClicks                                  \* FrameResend

ASSUME NamesAssumption == Nothing \notin Ids
ASSUME BoundsAssumption ==
    /\ {MaxRules, MaxText, MaxItems, MaxEvents, MaxToggles, MaxAsks, MaxNews, MaxRows,
        MaxNodes, MaxFilters, MaxMade, MaxClicks} \subseteq Nat
    /\ {HeaderSize, PoolSize, MaxFrames, MaxFragments, MaxBytes, Kept} \subseteq Nat \ {0}

VARIABLES
    \* Rules
    came, rules, pc, todo, recorded, message, replaced, hold, applied, touched, named, meant,
    \* Records
    kind, text, seen, limit, parserLimit, kept, truncated, parser, items, itemsCut, timer,
    decoded, state,
    \* TrafficPanel
    records, opened, ready, queued, dirty, rowsTimer, selected, revealed, toPage, toHost,
    rows, chosen, detail, pendingFocus, events, crossed,
    \* PanelSearch
    record, holds, searchDirty, row, on, toggles, asks, news, answered, ids, scanned,
    searchTimer, early,
    \* CoreData
    subject, input, output, wire, pool,
    \* Selection
    tableRows, hidden, ascending, shown, selection, anchor, awaited,
    \* TrafficTree
    transactions, treeTimer, tree,
    \* Query
    typed, quick, atHost, noTunnels, sort, found, tries,
    \* FrameResend
    frames, made, flowing, open, gone, core, frozen, sending, notice, resends, resending,
    replies, clicks, delivered, repeated

Ruled == INSTANCE Rules
Recorded == INSTANCE Records
Panel == INSTANCE TrafficPanel
Search == INSTANCE PanelSearch WITH dirty <- searchDirty, timer <- searchTimer
Data == INSTANCE CoreData
Table == INSTANCE Selection
             WITH rows <- tableRows, selected <- shown, pendingFocus <- awaited,
                  NoRow <- Nothing
Tree == INSTANCE TrafficTree WITH timer <- treeTimer
Asked == INSTANCE Query
Resent == INSTANCE FrameResend
              WITH alive <- flowing, told <- notice, requests <- resends, jobs <- resending,
                   recorded <- repeated

ruledVars == <<came, rules, pc, todo, recorded, message, replaced, hold, applied, touched,
               named, meant>>
recordedVars == <<kind, text, seen, limit, parserLimit, kept, truncated, parser, items,
                  itemsCut, timer, decoded, state>>
panelVars == <<records, opened, ready, queued, dirty, rowsTimer, selected, revealed, toPage,
               toHost, rows, chosen, detail, pendingFocus, events, crossed>>
searchVars == <<record, holds, searchDirty, row, on, toggles, asks, news, answered, ids,
                scanned, searchTimer, early>>
dataVars == <<subject, input, output, wire, pool>>
tableVars == <<tableRows, hidden, ascending, shown, selection, anchor, awaited>>
treeVars == <<transactions, treeTimer, tree>>
askedVars == <<typed, quick, atHost, noTunnels, sort, found, tries>>
resentVars == <<frames, made, flowing, open, gone, core, frozen, sending, notice, resends,
                resending, replies, clicks, delivered, repeated>>
vars == <<part, controlVars, ruledVars, recordedVars, panelVars, searchVars, dataVars,
          tableVars, treeVars, askedVars, resentVars>>

Parts == Controls \cup
         {"rules", "record", "panel", "search", "data", "table", "tree", "query", "resend"}

SomeLimit == CHOOSE l \in Limits : TRUE

Init ==
    /\ part \in Parts
    /\ ControlsBegin
    /\ IF part = "rules" THEN Ruled!Init ELSE Ruled!Begin(<<>>, <<>>, TRUE)
    /\ IF part = "record" THEN Recorded!Init ELSE Recorded!Begin("frames", <<>>, SomeLimit)
    /\ IF part = "panel" THEN Panel!Init ELSE Panel!Begin([i \in Ids |-> "none"])
    /\ IF part = "search" THEN Search!Init ELSE Search!Begin([i \in Ids |-> "none"], {})
    /\ IF part = "data" THEN Data!Init ELSE Data!Begin("transports", TRUE)
    /\ IF part = "table" THEN Table!Init ELSE Table!Begin(Nothing)
    /\ Tree!Init
    /\ Asked!Init
    /\ Resent!Init

\* What the parts other than p do: nothing.
Others(p) ==
    /\ IF p = "rules" THEN TRUE ELSE UNCHANGED ruledVars
    /\ IF p = "record" THEN TRUE ELSE UNCHANGED recordedVars
    /\ IF p = "panel" THEN TRUE ELSE UNCHANGED panelVars
    /\ IF p = "search" THEN TRUE ELSE UNCHANGED searchVars
    /\ IF p = "data" THEN TRUE ELSE UNCHANGED dataVars
    /\ IF p = "table" THEN TRUE ELSE UNCHANGED tableVars
    /\ IF p = "tree" THEN TRUE ELSE UNCHANGED treeVars
    /\ IF p = "query" THEN TRUE ELSE UNCHANGED askedVars
    /\ IF p = "resend" THEN TRUE ELSE UNCHANGED resentVars

Step(p) ==
    CASE p = "rules" -> Ruled!Next
      [] p = "record" -> Recorded!Next
      [] p = "panel" -> Panel!Next
      [] p = "search" -> Search!Next
      [] p = "data" -> Data!Next
      [] p = "table" -> Table!Next
      [] p = "tree" -> Tree!Next
      [] p = "query" -> Asked!Next
      [] p = "resend" -> Resent!Next
      [] p \in Controls -> ControlStep(p)

Next ==
    \E p \in Parts :
        part = p /\ UNCHANGED part /\ Others(p) /\ OtherControls(p) /\ Step(p)

Spec == Init /\ [][Next]_vars

-----------------------------------------------------------------------------
(* Properties, stated in the modules of the parts.  Those of the parts that stay as they   *)
(* began hold of how they began.                                                           *)

\* The part is well typed in every state.
TypeOK ==
    /\ part \in Parts
    /\ part = "rules" => Ruled!TypeOK
    /\ part = "record" => Recorded!TypeOK
    /\ part = "panel" => Panel!TypeOK
    /\ part = "search" => Search!TypeOK
    /\ part = "data" => Data!TypeOK
    /\ part = "table" => Table!TypeOK
    /\ part = "tree" => Tree!TypeOK
    /\ part = "query" => Asked!TypeOK
    /\ part = "resend" => Resent!TypeOK
    /\ ControlsTyped

\* Whatever rules match, the receiver reads the text they mean under headers that fit it,
\* at the host its URL names, and the record says that it was touched (engine.ts, request
\* and response).
RulesApply ==
    part = "rules" => Ruled!BodyArrives /\ Ruled!HostFollows /\ Ruled!TouchedIsShown

\* What a record keeps of a stream is what came, in order, and it says when it is not all;
\* a message that it shows as resent was delivered (engine.ts, capture, trackEvents, frame
\* and sendWebSocket; sse.ts; MessageStream.tsx).
RecordIsWhole ==
    /\ part = "record" =>
           /\ Recorded!BodyIsWhole /\ Recorded!DecodesInTime
           /\ Recorded!EventsAreRecent /\ Recorded!FramesAreRecent
    /\ part = "resend" => Resent!ResendIsRecorded

\* The table, the inspector, the search and the tree end up showing the records, however what
\* the page asks and what it is told cross, a query shows the rows it means whichever side
\* decides it, and what a command acts on is what is marked (trafficPanel.ts, useTraffic.ts,
\* App.tsx, trafficView.ts, filter.ts, search.ts).
PanelFollows ==
    /\ part = "panel" => Panel!TableFollows /\ Panel!InspectorFollows
    /\ part = "search" => Search!SearchSettles
    /\ part = "table" => Table!SelectionIsHonest
    /\ part = "tree" => Tree!TreeIsWhole
    /\ part = "query" => Asked!QueryIsMeant

\* Frames, headers and fragments survive the pipe however it cuts its bytes, and a request
\* goes out on a transport built for what it asks (wire.ts, websocket.go, transport.go).
DataArrives ==
    part = "data" =>
        /\ Data!FramesSurvive /\ Data!HeadersSurvive /\ Data!FragmentsKeepMessage
        /\ Data!TransportFits
=============================================================================
