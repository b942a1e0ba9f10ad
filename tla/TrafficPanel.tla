------------------------------- MODULE TrafficPanel -------------------------------
(***************************************************************************)
(* The panel of a window: extension/panels/trafficPanel.ts, which follows  *)
(* the records of the window's client, and the page it shows,              *)
(* webview/hooks/useTraffic.ts.  The two only exchange messages, in order  *)
(* in either direction.  What the page sent before it was closed is lost,  *)
(* and so is what was on its way to it.                                    *)
(***************************************************************************)
EXTENDS Naturals, Sequences, SequencesExt

CONSTANTS
    Ids,      \* transactions
    Nothing,  \* no transaction
    MaxEvents \* how many things the capture, the user and the window do

VARIABLES
    records,   \* client.transactions: what a transaction's row would say
    opened,    \* the panel exists
    ready,     \* its page has reported so
    queued,    \* the focus messages that wait for that
    dirty, rowsTimer,
    selected, revealed,
    toPage, toHost,   \* messages on their way
    rows,      \* the page's rows
    chosen,    \* its selection
    detail,    \* the record it was last sent in full
    pendingFocus,
    events,    \* what was done of those
    crossed    \* a click and a focus passed each other since the page was opened

vars == <<records, opened, ready, queued, dirty, rowsTimer, selected, revealed, toPage, toHost,
          rows, chosen, detail, pendingFocus, events, crossed>>

hostVars == <<opened, ready, queued, selected, revealed>>
pageVars == <<rows, chosen, detail, pendingFocus>>

Present == {"paused", "done"}
States == {"none"} \cup Present
NoDetail == <<Nothing, "none">>

Begin(known) ==
    /\ records = known
    /\ opened = FALSE /\ ready = FALSE /\ queued = <<>>
    /\ dirty = {} /\ rowsTimer = FALSE
    /\ selected = Nothing /\ revealed = {}
    /\ toPage = <<>> /\ toHost = <<>>
    /\ rows = [i \in Ids |-> "none"]
    /\ chosen = Nothing /\ detail = NoDetail /\ pendingFocus = Nothing
    /\ events = 0 /\ crossed = FALSE

Init == \E known \in [Ids -> {"none", "done"}] : Begin(known)

-----------------------------------------------------------------------------
(* Messages to the page. *)

Rows(now, S, reset) ==
    [type |-> "rows", reset |-> reset,
     rows |-> [i \in Ids |-> IF i \in S THEN now[i] ELSE "keep"]]
Focus(i) == [type |-> "focus", id |-> i]
Detail(now, i) == [type |-> "detail", record |-> <<i, now[i]>>]

\* postDetail and postAll, with the records as they are now.
Details(now, i) == IF i # Nothing /\ now[i] # "none" THEN <<Detail(now, i)>> ELSE <<>>
All(now, i) == <<Rows(now, Ids, TRUE)>> \o Details(now, i)

\* post: before the page is ready rows and details are dropped, and the rest is queued.
Post(messages) ==
    IF ready THEN toPage' = toPage \o messages /\ UNCHANGED queued
    ELSE /\ queued' = queued \o SelectSeq(messages, LAMBDA m : m.type = "focus")
         /\ UNCHANGED toPage

Event == events < MaxEvents /\ events' = events + 1

-----------------------------------------------------------------------------
(* Events of the client. *)

\* Its row is due, the inspector gets it at once, and a breakpoint brings it forward once.
Reports(i, now) ==
    /\ dirty' = dirty \cup {i} /\ rowsTimer' = TRUE
    /\ LET seen == IF i = selected THEN <<Detail(now, i)>> ELSE <<>> IN
       IF now[i] = "paused" /\ i \notin revealed
       THEN /\ revealed' = revealed \cup {i} /\ selected' = i
            /\ Post(seen \o <<Focus(i), Detail(now, i)>>)
       ELSE /\ revealed' = IF now[i] = "done" THEN revealed \ {i} ELSE revealed
            /\ Post(seen)
            /\ UNCHANGED selected

\* A record was added or has changed.
Transaction(i) ==
    /\ Event
    /\ \E s \in Present :
        LET now == [records EXCEPT ![i] = s] IN
        /\ records' = now
        /\ IF opened THEN Reports(i, now)
           ELSE UNCHANGED <<dirty, rowsTimer, revealed, selected, queued, toPage>>
    /\ UNCHANGED <<opened, ready, toHost, pageVars, crossed>>

Removed(S) ==
    /\ Event
    /\ S # {} /\ \A i \in S : records[i] # "none"
    /\ records' = [i \in Ids |-> IF i \in S THEN "none" ELSE records[i]]
    /\ IF opened
       THEN dirty' = dirty \cup S /\ rowsTimer' = TRUE /\ revealed' = revealed \ S
       ELSE UNCHANGED <<dirty, rowsTimer, revealed>>
    /\ UNCHANGED <<opened, ready, queued, selected, toPage, toHost, pageVars, crossed>>

\* A snapshot replaced the client's records (a reset, a new connection): everything goes
\* to the page.
Snapshot ==
    /\ Event
    /\ \E now \in [Ids -> {"none", "done"}] :
        /\ records' = now
        /\ IF opened
           THEN dirty' = {} /\ rowsTimer' = FALSE /\ Post(All(now, selected))
           ELSE UNCHANGED <<dirty, rowsTimer, queued, toPage>>
    /\ UNCHANGED <<opened, ready, selected, revealed, toHost, pageVars, crossed>>

\* A plausible slip: only what is still there is sent.
SendRowsPresent ==
    /\ rowsTimer /\ rowsTimer' = FALSE
    /\ dirty' = {}
    /\ Post(<<Rows(records, {i \in dirty : records[i] # "none"}, FALSE)>>)

SendRows ==
    /\ rowsTimer /\ rowsTimer' = FALSE
    /\ dirty' = {}
    /\ Post(<<Rows(records, dirty, FALSE)>>)

TimerFires ==
    /\ SendRows
    /\ UNCHANGED <<events, records, opened, ready, selected, revealed, toHost, pageVars, crossed>>

-----------------------------------------------------------------------------
(* Commands of the window, and messages from the page. *)

\* A new page knows nothing and says when it is ready.
NewPage ==
    /\ toHost' = <<[type |-> "ready"]>>
    /\ rows' = [i \in Ids |-> "none"]
    /\ chosen' = Nothing /\ detail' = NoDetail /\ pendingFocus' = Nothing
    /\ crossed' = FALSE

Show ==
    /\ ~opened /\ opened' = TRUE
    /\ NewPage
    /\ UNCHANGED <<events, records, ready, queued, dirty, rowsTimer, selected, revealed, toPage>>

\* A tree item, or the record of a replay.
FocusOn(i) ==
    /\ Event /\ records[i] # "none"
    /\ opened' = TRUE
    /\ selected' = i
    /\ IF opened THEN UNCHANGED <<toHost, pageVars, crossed>> ELSE NewPage
    /\ UNCHANGED <<records, ready, dirty, rowsTimer, revealed>>
    /\ Post(<<Focus(i)>> \o Details(records, i))

Dispose ==
    /\ Event
    /\ opened /\ opened' = FALSE /\ ready' = FALSE
    /\ dirty' = {} /\ rowsTimer' = FALSE /\ queued' = <<>>
    /\ toPage' = <<>> /\ toHost' = <<>>
    /\ UNCHANGED <<records, selected, revealed, pageVars, crossed>>

Ready ==
    /\ toHost # <<>> /\ Head(toHost).type = "ready"
    /\ ready' = TRUE
    /\ dirty' = {} /\ rowsTimer' = FALSE
    /\ toPage' = toPage \o All(records, selected) \o queued /\ queued' = <<>>
    /\ toHost' = Tail(toHost)
    /\ UNCHANGED <<events, records, opened, selected, revealed, pageVars, crossed>>

Select ==
    /\ toHost # <<>> /\ Head(toHost).type = "select"
    /\ selected' = Head(toHost).id
    /\ Post(Details(records, selected'))
    /\ toHost' = Tail(toHost)
    /\ crossed' = (crossed \/ \E k \in DOMAIN toPage : toPage[k].type = "focus")
    /\ UNCHANGED <<events, records, opened, ready, dirty, rowsTimer, revealed, pageVars>>

-----------------------------------------------------------------------------
(* The page. *)

Selects(i) == toHost' = Append(toHost, [type |-> "select", id |-> i])

\* The rows, and then the effects that follow them: a focus that waited for its row has
\* it, and a selection whose row is gone is let go of, unless no row is left.
TakeRows(message) ==
    LET new == [i \in Ids |-> IF message.rows[i] = "keep" THEN rows[i] ELSE message.rows[i]]
        waits == IF pendingFocus # Nothing /\ new[pendingFocus] # "none" THEN Nothing
                 ELSE pendingFocus
    IN  /\ rows' = new /\ pendingFocus' = waits
        /\ IF chosen # Nothing /\ waits = Nothing /\ new[chosen] = "none"
              /\ \E i \in Ids : new[i] # "none"
           THEN chosen' = Nothing /\ Selects(Nothing)
           ELSE UNCHANGED <<chosen, toHost>>
        /\ UNCHANGED <<detail, crossed>>

TakeFocus(message) ==
    /\ chosen' = message.id
    /\ pendingFocus' = IF rows[message.id] # "none" THEN Nothing ELSE message.id
    /\ crossed' = (crossed \/ \E k \in DOMAIN toHost : toHost[k].type = "select")
    /\ UNCHANGED <<rows, detail, toHost>>

TakeDetail(message) ==
    /\ detail' = message.record
    /\ UNCHANGED <<rows, chosen, pendingFocus, toHost, crossed>>

PageReceives ==
    /\ toPage # <<>> /\ toPage' = Tail(toPage)
    /\ LET message == Head(toPage) IN
        CASE message.type = "rows" -> TakeRows(message)
          [] message.type = "focus" -> TakeFocus(message)
          [] message.type = "detail" -> TakeDetail(message)
    /\ UNCHANGED <<events, records, hostVars, dirty, rowsTimer>>

Click(i) ==
    /\ Event
    /\ opened /\ rows[i] # "none" /\ chosen # i
    /\ chosen' = i /\ Selects(i)
    /\ UNCHANGED <<records, hostVars, dirty, rowsTimer, toPage, rows, detail, pendingFocus,
                   crossed>>

Next ==
    \/ \E i \in Ids : Transaction(i) \/ FocusOn(i) \/ Click(i)
    \/ \E S \in SUBSET Ids : Removed(S)
    \/ Snapshot \/ TimerFires \/ Show \/ Dispose \/ Ready \/ Select \/ PageReceives

Spec == Init /\ [][Next]_vars

-----------------------------------------------------------------------------
(* Properties. *)

TypeOK ==
    /\ records \in [Ids -> States] /\ rows \in [Ids -> States]
    /\ {opened, ready, rowsTimer, crossed} \subseteq BOOLEAN
    /\ events \in 0..MaxEvents /\ dirty \subseteq Ids /\ revealed \subseteq Ids
    /\ {selected, chosen, pendingFocus} \subseteq Ids \cup {Nothing}
    /\ detail \in (Ids \cup {Nothing}) \X States
    /\ \A k \in DOMAIN queued : queued[k].type = "focus"
    /\ \A k \in DOMAIN toPage : toPage[k].type \in {"rows", "focus", "detail"}
    /\ \A k \in DOMAIN toHost : toHost[k].type \in {"ready", "select"}

Quiet == ready /\ toPage = <<>> /\ toHost = <<>>

\* Once nothing is on its way the table shows the records; what it does not show yet has a
\* timer (trafficPanel.ts, scheduleRows).
TableFollows ==
    /\ opened /\ dirty # {} => rowsTimer
    /\ Quiet => \A i \in Ids \ dirty : rows[i] = records[i]

\* The inspector shows the record of the selection as it is now, unless a click and a focus
\* passed each other (messages.ts, "pushed on selection and on every change to it").
InspectorFollows ==
    Quiet /\ ~crossed /\ chosen # Nothing /\ records[chosen] # "none"
        => detail = <<chosen, records[chosen]>>
=============================================================================
