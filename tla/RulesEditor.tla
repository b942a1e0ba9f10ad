----------------------------- MODULE RulesEditor -----------------------------
(***************************************************************************)
(* The rules on their way from the editor to the agent: the page edits a   *)
(* copy and saves the whole list once typing pauses (useTraffic.ts,        *)
(* Rules.tsx), the host checks it against the schema and stores it         *)
(* (preferences.ts), what changed in the store is noticed after an update  *)
(* or by a timer - other windows write the same store - and is then echoed *)
(* to the page (trafficPanel.ts) and told to the agent (client.ts).        *)
(* `store' is VS Code's global state, external: every window writes it.    *)
(***************************************************************************)
EXTENDS Naturals, Sequences, SequencesExt

CONSTANTS Kinds,       \* kinds of rules
          RuleIds,     \* identities of rules
          Nothing,     \* no page, no save
          MaxEdits,    \* bound: edits in the page
          MaxWrites    \* bound: writes of the store made elsewhere

VARIABLES page,        \* the rules of the page, Nothing while it is closed
          saving,      \* what the page's timer will save, Nothing when unset
          toHost,      \* messages of the page
          toPage,      \* rules on their way to the page
          store,       \* preferences.rules
          snapshot,    \* the values the last refresh saw
          told,        \* the rules the agent was given last
          connected,   \* the client has its socket
          undone,      \* history: a change was undone before any refresh saw it
          edits, writes

editorVars == <<page, saving, toHost, toPage, store, snapshot, told,
                connected, undone, edits, writes>>

\* A rule: its fields are as in a new one, typed, or hold a number the schema refuses.
Rule == [id: RuleIds, kind: Kinds, field: {"fresh", "typed", "refused"}]

Lists == {l \in Seq(Rule) : \A i, j \in DOMAIN l : l[i].id = l[j].id => i = j}

\* preferences.ts validatePreference: the list as a whole passes or does not.
Valid(list) == \A i \in DOMAIN list : list[i].field # "refused"

----------------------------------------------------------------------------
(* Edits of the page (Rules.tsx).                                          *)

NewRule(id, kind) == [id |-> id, kind |-> kind, field |-> "fresh"]

Added(list) == {Append(list, NewRule(id, kind)) :
                  id \in RuleIds \ {list[i].id : i \in DOMAIN list}, kind \in Kinds}

\* Only one rule has the identity.
Removed(list) == {RemoveAt(list, i) : i \in DOMAIN list}

Moved(list) == {[list EXCEPT ![i] = list[i + 1], ![i + 1] = list[i]] :
                  i \in {k \in DOMAIN list : k + 1 \in DOMAIN list}}

\* The fields of a rule: a number may be typed that the schema refuses.
Typed(list) == {[list EXCEPT ![i].field = f] : i \in DOMAIN list, f \in {"typed", "refused"}}

\* Another kind is a new rule under the old identity: its own fields are lost.
Rekinded(list) == {[list EXCEPT ![i] = NewRule(list[i].id, k)] : i \in DOMAIN list, k \in Kinds}

Edited(list) ==
    (Added(list) \cup Removed(list) \cup Moved(list) \cup Typed(list) \cup Rekinded(list)) \ {list}

\* useTraffic.ts setRules: the copy changes at once, the save waits for a pause.
EditRules ==
    /\ page # Nothing
    /\ edits < MaxEdits
    /\ \E next \in Edited(page) :
         page' = next /\ saving' = next
    /\ edits' = edits + 1
    /\ UNCHANGED <<toHost, toPage, store, snapshot, told, connected, undone, writes>>

SaveTimer ==
    /\ saving # Nothing
    /\ toHost' = Append(toHost, saving)
    /\ saving' = Nothing
    /\ UNCHANGED <<page, toPage, store, snapshot, told, connected, undone, edits, writes>>

\* Rules of the host replace the copy unless a save of it is still waiting.
PageReceives ==
    /\ toPage # <<>>
    /\ page' = IF saving = Nothing THEN Head(toPage) ELSE page
    /\ toPage' = Tail(toPage)
    /\ UNCHANGED <<saving, toHost, store, snapshot, told, connected, undone, edits, writes>>

\* A new page knows no rules and says it is ready; the host answers (trafficPanel.ts).
OpenPage ==
    /\ page = Nothing
    /\ page' = <<>>
    /\ toPage' = <<store>>
    /\ UNCHANGED <<saving, toHost, store, snapshot, told, connected, undone, edits, writes>>

\* Closing the tab ends the page, its timer and the messages between the two.
ClosePage ==
    /\ page # Nothing
    /\ page' = Nothing
    /\ saving' = Nothing
    /\ toHost' = <<>>
    /\ toPage' = <<>>
    /\ UNCHANGED <<store, snapshot, told, connected, undone, edits, writes>>

----------------------------------------------------------------------------
(* The store, and what follows it.                                         *)

Undo == undone' = (undone \/ (store # snapshot /\ store' = snapshot))

\* A plausible slip: an update takes its own value for already noticed.
SaveNoted ==
    /\ toHost # <<>>
    /\ store' = IF Valid(Head(toHost)) THEN Head(toHost) ELSE store
    /\ snapshot' = IF Valid(Head(toHost)) THEN Head(toHost) ELSE snapshot
    /\ toHost' = Tail(toHost)
    /\ Undo
    /\ UNCHANGED <<page, saving, toPage, told, connected, edits, writes>>

\* preferences.ts update: a list the schema refuses is thrown away as a whole.
Save ==
    /\ toHost # <<>>
    /\ store' = IF Valid(Head(toHost)) THEN Head(toHost) ELSE store
    /\ toHost' = Tail(toHost)
    /\ Undo
    /\ UNCHANGED <<page, saving, toPage, snapshot, told, connected, edits, writes>>

\* index.ts addBreakpoint, or another window: the stored list with a change.
StoreChanges ==
    /\ writes < MaxWrites
    /\ \E next \in Added(store) \cup Removed(store) : store' = next
    /\ Undo
    /\ writes' = writes + 1
    /\ UNCHANGED <<page, saving, toHost, toPage, snapshot, told, connected, edits>>

\* preferences.ts refresh, after an update and every two seconds: the listeners are
\* the agent's client (client.ts, with a socket) and the panel (if there is a page).
Refresh ==
    /\ snapshot # store
    /\ snapshot' = store
    /\ told' = IF connected THEN store ELSE told
    /\ toPage' = IF page = Nothing THEN toPage ELSE Append(toPage, store)
    /\ UNCHANGED <<page, saving, toHost, store, connected, undone, edits, writes>>

\* client.ts establish: a new connection opens its session with the stored settings.
ConnectAgent ==
    /\ ~connected
    /\ connected' = TRUE
    /\ told' = store
    /\ UNCHANGED <<page, saving, toHost, toPage, store, snapshot, undone, edits, writes>>

LoseAgent ==
    /\ connected
    /\ connected' = FALSE
    /\ UNCHANGED <<page, saving, toHost, toPage, store, snapshot, told, undone, edits, writes>>

Begin(list) ==
    /\ store = list /\ snapshot = list /\ told = list
    /\ page = Nothing
    /\ saving = Nothing
    /\ toHost = <<>>
    /\ toPage = <<>>
    /\ connected = FALSE
    /\ undone = FALSE
    /\ edits = 0
    /\ writes = 0

Init ==
    \E list \in {<<>>} \cup {<<NewRule(id, k)>> : id \in RuleIds, k \in Kinds} : Begin(list)

EditorStep == EditRules \/ SaveTimer \/ PageReceives \/ OpenPage \/ ClosePage
HostStep   == Save \/ StoreChanges \/ Refresh \/ ConnectAgent \/ LoseAgent
Next == EditorStep \/ HostStep

Spec == Init /\ [][Next]_editorVars

----------------------------------------------------------------------------
TypeOK ==
    /\ page \in Lists \cup {Nothing}
    /\ saving \in Lists \cup {Nothing}
    /\ toHost \in Seq(Lists)
    /\ toPage \in Seq(Lists)
    /\ {store, snapshot, told} \subseteq Lists
    /\ Valid(store)

AtRest == saving = Nothing /\ toHost = <<>> /\ toPage = <<>> /\ snapshot = store

\* Once nothing is on its way, the page shows the stored rules and the agent applies
\* them, however edits, echoes and the writes of other windows crossed: only rules the
\* schema refused stay on the page alone. A change undone within the two seconds before
\* a refresh would have seen it is the one case left out (preferences.ts update and refresh, client.ts
\* settings, useTraffic.ts `rules').
RulesSettle ==
    AtRest /\ ~undone =>
        /\ page # Nothing => page = store \/ ~Valid(page)
        /\ connected => told = store
=============================================================================
