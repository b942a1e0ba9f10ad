-------------------------------- MODULE PanelSearch --------------------------------
(***************************************************************************)
(* A filter over headers and bodies, which the rows of the panel do not    *)
(* carry: webview/App.tsx asks the window for the rows it has no answer    *)
(* for, utils/search.ts scans the records the window has by then, and      *)
(* webview/hooks/useTraffic.ts collects the answers.                       *)
(*                                                                         *)
(* A transaction either satisfies the filter or not; while it is pending   *)
(* that may change.  The panel's rows follow the records a little later,   *)
(* on the same channel as the answers.                                     *)
(***************************************************************************)
EXTENDS Naturals, Sequences, FiniteSets

CONSTANTS
    Ids,        \* transactions
    MaxToggles, \* how often the user enters the filter or takes it off
    MaxAsks,    \* questions on their way to the window
    MaxNews     \* messages on their way to the page

VARIABLES
    record,   \* of each transaction in the window: none, pending or done
    holds,    \* those that satisfy the filter as they are
    dirty,    \* those whose row is due
    row,      \* the state that the row on the page says
    on,       \* the filter is in force
    toggles,
    asks,     \* the questions on their way: ids, and whether they name what is to be scanned
    news,     \* what is on its way to the page: answers and rows
    answered, \* the page has an answer to the filter (remote)
    ids, scanned,
    timer,    \* the page will ask
    early     \* those first scanned while they were pending

vars == <<record, holds, dirty, row, on, toggles, asks, news, answered, ids, scanned, timer,
          early>>

States == {"none", "pending", "done"}

Begin(known, found) ==
    /\ record = known /\ row = known /\ holds = found
    /\ dirty = {}
    /\ on = FALSE /\ toggles = 0
    /\ asks = <<>> /\ news = <<>>
    /\ answered = FALSE /\ ids = {} /\ scanned = {}
    /\ timer = FALSE /\ early = {}

Init ==
    \E known \in [Ids -> {"none", "done"}] :
        \E found \in SUBSET {i \in Ids : known[i] = "done"} : Begin(known, found)

-----------------------------------------------------------------------------
(* The window. *)

\* A transaction begins, or goes on: what it holds may change until it is done.
Progress(i) ==
    /\ record[i] # "done"
    /\ \E s \in {"pending", "done"} : record' = [record EXCEPT ![i] = s]
    /\ holds' \in {holds \cup {i}, holds \ {i}}
    /\ dirty' = dirty \cup {i}
    /\ UNCHANGED <<row, on, toggles, asks, news, answered, ids, scanned, timer, early>>

SendRows ==
    /\ dirty # {} /\ dirty' = {} /\ Len(news) < MaxNews
    /\ news' = Append(news, [type |-> "rows", row |-> [i \in dirty |-> record[i]]])
    /\ UNCHANGED <<record, holds, row, on, toggles, asks, answered, ids, scanned, timer, early>>

\* searchTransactions over all records, or those it was asked about.
Scan ==
    /\ asks # <<>> /\ asks' = Tail(asks) /\ Len(news) < MaxNews
    /\ LET ask == Head(asks)
           read == {i \in Ids : record[i] # "none" /\ (ask.all \/ i \in ask.ids)} IN
        /\ news' = Append(news, [type |-> "answer", all |-> ask.all, ids |-> read \cap holds,
                                 scanned |-> ask.ids])
        /\ early' = early \cup {i \in read : record[i] = "pending"}
    /\ UNCHANGED <<record, holds, dirty, row, on, toggles, answered, ids, scanned, timer>>

-----------------------------------------------------------------------------
(* The page. *)

Rows == {i \in Ids : row[i] # "none"}

\* What there is to ask once there is an answer: the rows without one and those that may
\* still change.
Unscanned == {i \in Rows : i \notin scanned \/ row[i] = "pending"}

\* The effect that runs when the filter, the rows or the answers have changed.
Schedule == timer' = (on' /\ (~answered' \/ Unscanned' # {}))

TakeRows(message) ==
    /\ row' = [i \in Ids |-> IF i \in DOMAIN message.row THEN message.row[i] ELSE row[i]]
    /\ UNCHANGED <<answered, ids, scanned>>

\* The first answer, and any to a question about everything, replaces what is known; it
\* names no rows as scanned.
TakeAnswer(message) ==
    /\ answered' = TRUE
    /\ ids' = IF answered /\ ~message.all THEN ids \cup message.ids ELSE message.ids
    /\ scanned' = IF message.all THEN {}
                  ELSE IF answered THEN scanned \cup message.scanned ELSE message.scanned
    /\ UNCHANGED row

PageReceives ==
    /\ news # <<>> /\ news' = Tail(news)
    /\ IF Head(news).type = "rows" THEN TakeRows(Head(news)) ELSE TakeAnswer(Head(news))
    /\ UNCHANGED <<record, holds, dirty, on, toggles, asks, early>>
    /\ Schedule

TimerFires ==
    /\ timer /\ timer' = FALSE /\ Len(asks) < MaxAsks
    /\ asks' = Append(asks, [all |-> ~answered, ids |-> IF answered THEN Unscanned ELSE {}])
    /\ UNCHANGED <<record, holds, dirty, row, on, toggles, news, answered, ids, scanned, early>>

Toggle ==
    /\ toggles < MaxToggles /\ toggles' = toggles + 1
    /\ on' = ~on
    /\ UNCHANGED <<record, holds, dirty, row, asks, news, answered, ids, scanned, early>>
    /\ Schedule

Next ==
    \/ \E i \in Ids : Progress(i)
    \/ SendRows \/ Scan \/ PageReceives \/ TimerFires \/ Toggle

Spec == Init /\ [][Next]_vars

-----------------------------------------------------------------------------
(* Properties. *)

TypeOK ==
    /\ record \in [Ids -> States] /\ row \in [Ids -> States]
    /\ {holds, dirty, ids, scanned, early} \subseteq SUBSET Ids
    /\ {on, answered, timer} \subseteq BOOLEAN /\ toggles \in 0..MaxToggles
    /\ \A k \in DOMAIN asks : asks[k] \in [all : BOOLEAN, ids : SUBSET Ids]
    /\ \A k \in DOMAIN news : news[k].type \in {"rows", "answer"}

\* Nothing is due, asked or on its way.
Settled == on /\ dirty = {} /\ asks = <<>> /\ news = <<>> /\ ~timer

\* A filter settles only once every row was answered for, and of the transactions that were
\* complete when they were first scanned it shows those that satisfy it (App.tsx, unscanned).
SearchSettles ==
    Settled => /\ answered /\ Rows \subseteq scanned
               /\ \A i \in Ids \ early : i \in ids <=> i \in holds
=============================================================================
