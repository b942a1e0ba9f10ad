------------------------------ MODULE SettingsPage ------------------------------
(***************************************************************************)
(* The settings tab: the page keeps drafts of what is typed and saves one  *)
(* setting at a time (webview/components/Settings.tsx), the window checks  *)
(* each against its schema and stores it (shared/preferences.ts,           *)
(* extension/preferences.ts), and posts all values on every change         *)
(* (extension/panels/settingsPanel.ts).  The store is VS Code's global     *)
(* state, external and shared with other windows; settings of versions     *)
(* that kept them elsewhere are moved there at the start.  What the proxy  *)
(* buttons do to the editor is in EditorProxy: here they succeed or fail.  *)
(*                                                                         *)
(* A text is the sequence of its lines, a number in it itself.             *)
(***************************************************************************)
EXTENDS Integers, Sequences, SequencesExt, FiniteSets, Functions, TLC

CONSTANT MaxDeeds    \* bound: what the user and other windows do

VARIABLES
    stored,     \* the settings in the store, by key
    legacy,     \* what an earlier version left in the configuration
    visiting,   \* keys that the migration has not looked at
    migrated,
    wished,     \* history: what users saved last, by key
    noticed,    \* the values that the last refresh saw
    undone,     \* history: a change was taken back before a refresh saw it
    capturing,  \* the window captures, on a port
    configured, \* http.proxy is set for the user
    jobs,       \* what the window has under way, in the order in which it began
    tab,        \* closed, loading or open
    requests,   \* from the page to the window
    posts,      \* from the window to the page
    shown,      \* the values the page has, and what it knows of the proxy
    drafts,     \* texts typed and not saved, by key
    pending, state,
    stray,      \* history: an error nobody asked for came while the page was saving
    deeds

storeVars == <<stored, legacy, visiting, migrated, wished, noticed, undone>>
tabVars == <<tab, shown, drafts, pending, state, stray>>
vars == <<storeVars, tabVars, capturing, configured, jobs, requests, posts, deeds>>

-----------------------------------------------------------------------------
(* The schema. *)

Flag(default) == [type |-> "boolean", default |-> default]
Number(minimum, maximum, default) ==
    [type |-> "integer", minimum |-> minimum, maximum |-> maximum, default |-> default]
\* A list of names, or of any texts.
List(names, default) == [type |-> "array", names |-> names, default |-> default]

Schema ==
    ("autoStart" :> Flag(FALSE)) @@ ("port" :> Number(0, 65535, 3606)) @@
    ("ssl.hosts" :> List({}, <<"*">>)) @@ ("ssl.noHosts" :> List({}, <<>>)) @@
    ("ssl.insecureUpstream" :> Flag(TRUE)) @@ ("ssl.noProxy" :> List({}, <<>>)) @@
    ("maxEntries" :> Number(100, 10000, 2000)) @@ ("maxBodyKiB" :> Number(0, 4096, 512)) @@
    ("terminal.profiles" :> List({"openssl", "git", "node", "python", "java", "rust", "deno",
                                  "grpc"}, <<"openssl", "git">>)) @@
    ("mcp.enabled" :> Flag(TRUE)) @@ ("mcp.port" :> Number(1024, 65535, 3607)) @@
    ("grpc.protoFiles" :> List({}, <<"**/*.proto">>))

NaN == -1    \* no number; no setting may be negative

ValidatePreference(key, v) ==
    LET schema == Schema[key] IN
    CASE schema.type = "boolean" -> v \in BOOLEAN
      [] schema.type = "integer" -> v # NaN /\ v >= schema.minimum /\ v <= schema.maximum
      [] schema.type = "array" -> schema.names = {} \/ ToSet(v) \subseteq schema.names

\* One setting of each type, and what may be typed.
Keys == {"autoStart", "maxEntries", "terminal.profiles"}
Texts(key) ==
    IF key = "maxEntries" THEN {<<>>, <<99>>, <<100>>, <<10001>>}
    ELSE {<<"git", "", "node">>, <<"git", "nodes">>}
\* What a text says.
Parsed(key, text) ==
    IF Schema[key].type = "integer" THEN (IF text = <<>> THEN NaN ELSE text[1])
    ELSE SelectSeq(text, LAMBDA line : line # "")

\* A function with one value more, or another one.
With(f, key, v) == [k \in DOMAIN f \cup {key} |-> IF k = key THEN v ELSE f[k]]

Get(store, key) == IF key \in DOMAIN store THEN store[key] ELSE Schema[key].default
ValuesOf(store) == [key \in Keys |-> Get(store, key)]
Values == ValuesOf(stored)

-----------------------------------------------------------------------------
(* The window posts. *)

Message(result, key) ==
    [values |-> Values, configured |-> configured, canSet |-> capturing,
     result |-> result, key |-> key]
News == Message("none", "")
\* A page that is gone is told nothing.
Post(messages) == posts' = IF tab = "closed" THEN posts ELSE posts \o messages

\* preferences.ts refresh: what changed since the last one is posted.
Changed == IF Values = noticed THEN <<>> ELSE <<News>>
Noticed == noticed' = Values

Undo(next) == undone' = (undone \/ (Values # noticed /\ ValuesOf(next) = noticed))

Refresh ==
    /\ migrated /\ Values # noticed
    /\ Noticed /\ Post(Changed)
    /\ UNCHANGED <<stored, legacy, visiting, migrated, wished, undone, tabVars, capturing, configured,
                   jobs, requests, deeds>>

\* A value of an earlier version is taken over unless there is one already.
Migrate ==
    /\ ~migrated /\ visiting # {}
    /\ \E key \in visiting :
           /\ visiting' = visiting \ {key}
           /\ stored' = IF /\ key \in DOMAIN legacy \ DOMAIN stored
                           /\ ValidatePreference(key, legacy[key])
                        THEN With(stored, key, legacy[key]) ELSE stored
    /\ UNCHANGED <<legacy, migrated, wished, noticed, undone, tabVars, capturing, configured, jobs,
                   requests, posts, deeds>>

\* All are taken over: the window begins to watch the store.
Migrated ==
    /\ ~migrated /\ visiting = {}
    /\ migrated' = TRUE /\ Noticed
    /\ UNCHANGED <<stored, legacy, visiting, wished, undone, tabVars, capturing, configured, jobs,
                   requests, posts, deeds>>

Store(key, v) ==
    /\ stored' = With(stored, key, v)
    /\ wished' = With(wished, key, v)
Do == deeds < MaxDeeds /\ deeds' = deeds + 1

\* The window closes before it is done: the next one begins again.
Interrupted ==
    /\ Do /\ ~migrated /\ visiting # Keys
    /\ visiting' = Keys
    /\ UNCHANGED <<stored, legacy, migrated, wished, noticed, undone, tabVars, capturing, configured,
                   jobs, requests, posts>>

\* Another window saves a setting.
StoreChanges ==
    /\ Do
    /\ \E key \in Keys : \E v \in {Parsed(key, text) : text \in Texts(key)} :
           /\ key # "autoStart" /\ ValidatePreference(key, v) /\ v # Get(stored, key)
           /\ Store(key, v)
    /\ IF migrated THEN Undo(stored') ELSE UNCHANGED undone
    /\ UNCHANGED <<legacy, visiting, migrated, noticed, tabVars, capturing, configured, jobs,
                   requests, posts>>

\* The capture starts or stops: the page is told at once, and again when the proxy of the
\* editor has followed.
StateChanges ==
    /\ Do /\ migrated
    /\ capturing' = ~capturing
    /\ posts' = IF tab = "closed" THEN posts
                ELSE Append(posts, [News EXCEPT !.canSet = ~capturing])
    /\ jobs' = Append(jobs, [kind |-> "synchronize", key |-> "", heard |-> TRUE])
    /\ UNCHANGED <<storeVars, tabVars, configured, requests>>

-----------------------------------------------------------------------------
(* Requests of the page. *)

Request(type, key, v) == [type |-> type, key |-> key, value |-> v]
Begun(kind, key) == jobs' = Append(jobs, [kind |-> kind, key |-> key, heard |-> TRUE])

LoadSettings ==
    /\ requests # <<>> /\ Head(requests).type = "load"
    /\ requests' = Tail(requests)
    /\ Post(<<News>>)
    /\ UNCHANGED <<storeVars, tabVars, capturing, configured, jobs, deeds>>

\* A value that the schema refuses is answered with an error; the memento shows another one
\* at once and writes it later.
SaveSetting ==
    /\ requests # <<>> /\ Head(requests).type = "save"
    /\ requests' = Tail(requests)
    /\ LET key == Head(requests).key
           v == Head(requests).value IN
       IF ValidatePreference(key, v)
       THEN /\ Store(key, v)
            /\ Undo(stored') /\ Begun("save", key) /\ UNCHANGED posts
       ELSE /\ Post(<<Message("error", key)>>)
            /\ UNCHANGED <<stored, wished, undone, jobs>>
    /\ UNCHANGED <<legacy, visiting, migrated, noticed, tabVars, capturing, configured, deeds>>

ProxyRequest ==
    /\ requests # <<>> /\ Head(requests).type \in {"setProxy", "removeProxy"}
    /\ requests' = Tail(requests)
    /\ Begun(Head(requests).type, "")
    /\ UNCHANGED <<storeVars, tabVars, capturing, configured, posts, deeds>>

\* A job ends.  Those of the proxy queue up, a save may overtake them.
Ending(n) ==
    /\ n \in DOMAIN jobs
    /\ jobs[n].kind # "save" => \A k \in 1 .. n - 1 : jobs[k].kind = "save"
    /\ jobs' = RemoveAt(jobs, n)
Answer(n, messages) == IF jobs[n].heard THEN messages ELSE <<>>

\* The value is written: the window refreshes, and only then answers.
Saved(n) ==
    /\ Ending(n) /\ jobs[n].kind = "save"
    /\ Noticed
    /\ Post(Changed \o Answer(n, <<Message("saved", jobs[n].key)>>))
    /\ UNCHANGED <<stored, legacy, visiting, migrated, wished, undone, tabVars, capturing, configured,
                   requests, deeds>>

\* http.proxy is what it was to be, whether the capture still ran or not when the job's turn
\* came; a change of it is posted by itself.
ProxySet(n) ==
    /\ Ending(n) /\ jobs[n].kind \in {"setProxy", "removeProxy"}
    /\ configured' = (jobs[n].kind = "setProxy")
    /\ Post((IF configured' = configured THEN <<>>
             ELSE <<[News EXCEPT !.configured = configured']>>)
            \o Answer(n, <<[Message("saved", "http.proxy") EXCEPT !.configured = configured']>>))
    /\ UNCHANGED <<storeVars, tabVars, capturing, requests, deeds>>

Synchronized(n) ==
    /\ Ending(n) /\ jobs[n].kind = "synchronize"
    /\ configured' \in {configured, configured /\ capturing}
    /\ Post((IF configured' = configured THEN <<>>
             ELSE <<[News EXCEPT !.configured = configured']>>)
            \o <<[News EXCEPT !.configured = configured']>>)
    /\ UNCHANGED <<storeVars, tabVars, capturing, requests, deeds>>

\* The error of a state event was asked for by nobody, and all the same ends what is pending.
Fails(n) ==
    /\ Ending(n)
    /\ Post(IF jobs[n].kind = "synchronize" THEN <<Message("error", "stray")>>
            ELSE Answer(n, <<Message("error", jobs[n].key)>>))
    /\ UNCHANGED <<storeVars, tabVars, capturing, configured, requests, deeds>>

-----------------------------------------------------------------------------
(* The page. *)

OpenTab ==
    /\ Do /\ migrated /\ tab = "closed"
    /\ tab' = "loading" /\ requests' = <<Request("load", "", FALSE)>>
    /\ UNCHANGED <<storeVars, shown, drafts, pending, state, stray, capturing, configured,
                   jobs, posts>>

\* The tab goes with all it had; a job goes on, and its answer finds nobody.
CloseTab ==
    /\ tab # "closed"
    /\ tab' = "closed" /\ requests' = <<>> /\ posts' = <<>>
    /\ shown' = News /\ drafts' = <<>> /\ pending' = FALSE /\ state' = ""
    /\ jobs' = [n \in DOMAIN jobs |-> [jobs[n] EXCEPT !.heard = FALSE]]
    /\ UNCHANGED <<storeVars, stray, capturing, configured, deeds>>

Receive ==
    /\ posts # <<>>
    /\ LET message == Head(posts) IN
       /\ shown' = message /\ tab' = "open"
       /\ stray' = (stray \/ (message.key = "stray" /\ pending))
       /\ IF message.result = "none" THEN UNCHANGED <<pending, state>>
          ELSE pending' = FALSE /\ state' = message.result
       /\ drafts' = IF message.result = "saved"
                    THEN Restrict(drafts, DOMAIN drafts \ {message.key}) ELSE drafts
    /\ posts' = Tail(posts)
    /\ UNCHANGED <<storeVars, capturing, configured, jobs, requests, deeds>>

\* Fields can be typed into while a save is under way.
Type ==
    /\ Do /\ tab = "open"
    /\ \E key \in Keys \ {"autoStart"} : \E text \in Texts(key) :
           drafts' = With(drafts, key, text)
    /\ UNCHANGED <<storeVars, tab, shown, pending, state, stray, capturing, configured, jobs,
                   requests, posts>>

Ask(request) ==
    /\ tab = "open" /\ ~pending
    /\ pending' = TRUE /\ state' = "saving"
    /\ requests' = Append(requests, request)
    /\ UNCHANGED <<storeVars, tab, shown, drafts, stray, capturing, configured, jobs, posts>>

Toggle == Do /\ Ask(Request("save", "autoStart", ~shown.values["autoStart"]))
Save ==
    /\ \E key \in DOMAIN drafts : Ask(Request("save", key, Parsed(key, drafts[key])))
    /\ UNCHANGED deeds
PressProxy ==
    /\ Do
    /\ \/ shown.canSet /\ Ask(Request("setProxy", "", FALSE))
       \/ shown.configured /\ Ask(Request("removeProxy", "", FALSE))

-----------------------------------------------------------------------------

\* The user's settings may name a proxy from the last time.
Begin(old, set) ==
    /\ legacy = old /\ stored = <<>> /\ visiting = Keys /\ migrated = FALSE /\ wished = <<>>
    /\ noticed = ValuesOf(<<>>) /\ undone = FALSE
    /\ capturing = FALSE /\ configured = set
    /\ jobs = <<>> /\ requests = <<>> /\ posts = <<>>
    /\ tab = "closed" /\ shown = News /\ drafts = <<>>
    /\ pending = FALSE /\ state = "" /\ stray = FALSE
    /\ deeds = 0

Init == \E old \in {<<>>, [maxEntries |-> 99, autoStart |-> TRUE], [maxEntries |-> 500]} :
        \E set \in BOOLEAN : Begin(old, set)

Next ==
    \/ Refresh \/ Migrate \/ Migrated \/ Interrupted \/ StoreChanges \/ StateChanges
    \/ LoadSettings \/ SaveSetting \/ ProxyRequest
    \/ \E n \in DOMAIN jobs : Saved(n) \/ ProxySet(n) \/ Synchronized(n) \/ Fails(n)
    \/ OpenTab \/ CloseTab \/ Receive \/ Type \/ Toggle \/ Save \/ PressProxy

Spec == Init /\ [][Next]_vars

-----------------------------------------------------------------------------
(* Properties. *)

TypeOK ==
    /\ DOMAIN stored \subseteq Keys /\ visiting \subseteq Keys /\ DOMAIN drafts \subseteq Keys
    /\ {migrated, undone, capturing, configured, pending, stray} \subseteq BOOLEAN
    /\ tab \in {"closed", "loading", "open"} /\ state \in {"", "saving", "saved", "error"}
    /\ \A n \in DOMAIN jobs : jobs[n].kind \in {"save", "setProxy", "removeProxy", "synchronize"}

\* Nothing is on its way, and the window has noticed what the store holds.
AtRest == jobs = <<>> /\ requests = <<>> /\ posts = <<>> /\ noticed = Values

\* At rest the tab shows the settings in force and what the proxy buttons can do, and waits
\* for nothing; a change taken back before the window noticed it is left out.
TabFollows ==
    AtRest /\ tab # "closed" /\ ~undone =>
        /\ tab = "open" /\ ~pending
        /\ shown.values = Values
        /\ shown.configured = configured /\ shown.canSet = capturing

\* The store holds what the schema allows and what was saved last, and from the migration
\* on the other allowed values of an earlier version, however often that was interrupted.
StoreIsValid ==
    /\ \A key \in DOMAIN stored : ValidatePreference(key, stored[key])
    /\ \A key \in DOMAIN wished : stored[key] = wished[key]
    /\ migrated =>
           \A key \in DOMAIN legacy :
               /\ ValidatePreference(key, legacy[key]) /\ key \notin DOMAIN wished
               => key \in DOMAIN stored /\ stored[key] = legacy[key]

\* What the page has asked for: not yet begun, under way, and answered.
Saves == {n \in DOMAIN requests : requests[n].type # "load"}
Busy == {n \in DOMAIN jobs : jobs[n].kind # "synchronize" /\ jobs[n].heard}
Answers == {n \in DOMAIN posts : posts[n].result # "none" /\ posts[n].key # "stray"}
Asked == Cardinality(Saves) + Cardinality(Busy) + Cardinality(Answers)

\* The page saves one thing at a time, unless an error of something else has let it go.
OneAtATime == ~stray /\ tab # "closed" => Asked = IF pending THEN 1 ELSE 0

SettingsSettle == TabFollows /\ StoreIsValid /\ OneAtATime
=============================================================================
