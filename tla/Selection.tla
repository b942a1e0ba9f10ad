------------------------------- MODULE Selection -------------------------------
(***************************************************************************)
(* The rows selected in the table of the traffic panel: the one that the   *)
(* inspector shows (useTraffic.ts `selected') and all that a command acts  *)
(* on (App.tsx `selection'), under clicks and keys (SequenceTable.tsx),    *)
(* filters, sorting, requests of the host to reveal a row, and rows that   *)
(* come and go.                                                            *)
(*                                                                         *)
(* React runs the effects of a change before the next event: an action is  *)
(* the change with all the effects it sets off.                            *)
(***************************************************************************)
EXTENDS Integers, Sequences, FiniteSetsExt, SequencesExt

CONSTANTS MaxRows,   \* bound: rows the agent records
          NoRow

VARIABLES
    rows,         \* the rows of the page
    hidden,       \* those the filters leave out
    ascending,    \* the order of the table
    selected,     \* the row of the inspector
    selection,    \* the rows selected
    anchor,       \* where a range begins
    pendingFocus  \* a row the host asked for that is not there yet

selectionVars == <<rows, hidden, ascending, selected, selection, anchor, pendingFocus>>

RowIds == 1..MaxRows
\* The page remembers the row it showed when it was last closed.
Begin(i) ==
    /\ rows = {} /\ hidden = {} /\ ascending = TRUE
    /\ selected = i /\ selection = (IF i = NoRow THEN <<>> ELSE <<i>>) /\ anchor = i
    /\ pendingFocus = NoRow
Init == \E i \in RowIds \cup {NoRow} : Begin(i)

\* App.tsx `visible'.
Visible ==
    LET up == SetToSortSeq(rows \ hidden, <) IN IF ascending THEN up ELSE Reverse(up)

\* The effect of App.tsx that keeps the selection honest.
Honest(s, there, primary) ==
    LET kept == SelectSeq(s, LAMBDA i : i \in there) IN
    IF primary # NoRow /\ ~Contains(kept, primary) THEN <<primary>>
    ELSE IF primary = NoRow THEN <<>> ELSE kept

\* The effects of a change to `there' and `primary', with s selected and f awaited: a focus
\* is over once its row is there, and the filters then show it; next, a selected row that is
\* gone is let go of, unless nothing was loaded yet or a focus is still awaited.
Settle(there, primary, s, f) ==
    LET found == f # NoRow /\ f \in there
        lost == /\ primary # NoRow /\ there # {} /\ primary \notin there
                /\ f = NoRow \/ found
        kept == IF lost THEN NoRow ELSE primary IN
    /\ rows' = there /\ selected' = kept
    /\ selection' = Honest(s, there, kept)
    /\ pendingFocus' = IF found THEN NoRow ELSE f
    /\ hidden' = IF found /\ f \in hidden THEN {} ELSE hidden \cap there

-----------------------------------------------------------------------------
(* The host.                                                               *)

\* A `rows' message: some are new, some gone.
RowsCome(new, gone) ==
    /\ new \cap rows = {} /\ new \cap gone = {} /\ new \cup gone # {} /\ gone \subseteq rows
    /\ Settle((rows \ gone) \cup new, selected, selection, pendingFocus)
    /\ UNCHANGED <<ascending, anchor>>

\* A `focus' message, which may come before its row.
Focus(i) ==
    /\ Settle(rows, i, selection, i)
    /\ UNCHANGED <<ascending, anchor>>

-----------------------------------------------------------------------------
(* The user.                                                               *)

Filter(away) ==
    /\ hidden' = away /\ away \subseteq rows
    /\ UNCHANGED <<rows, ascending, selected, selection, anchor, pendingFocus>>
Sort ==
    /\ ascending' = ~ascending
    /\ UNCHANGED <<rows, hidden, selected, selection, anchor, pendingFocus>>

\* App.onSelect: a row alone, or none; a range from the anchor; a row added or taken away.
Select(i) ==
    /\ Settle(rows, i, IF i = NoRow THEN <<>> ELSE <<i>>, pendingFocus)
    /\ anchor' = IF i = NoRow THEN anchor ELSE i
SelectRange(i) ==
    IF Contains(Visible, anchor) /\ Contains(Visible, i)
    THEN LET a == SelectInSeq(Visible, LAMBDA x : x = anchor)
             b == SelectInSeq(Visible, LAMBDA x : x = i) IN
         /\ Settle(rows, i, SubSeq(Visible, Min({a, b}), Max({a, b})), pendingFocus)
         /\ UNCHANGED anchor
    ELSE Select(i)
Toggle(i) ==
    LET next == IF Contains(selection, i) THEN SelectSeq(selection, LAMBDA x : x # i)
                ELSE Append(selection, i)
        shown == IF Contains(next, i) THEN i ELSE IF next = <<>> THEN NoRow ELSE Last(next) IN
    /\ Settle(rows, shown, next, pendingFocus)
    /\ anchor' = i

\* A click on a row, with a modifier or without.
Click(i) ==
    /\ i \in rows \ hidden
    /\ Select(i) \/ SelectRange(i) \/ Toggle(i)
    /\ UNCHANGED ascending

\* The arrow keys move from the shown row (from before the first if it is hidden), with
\* shift as a range; the key for all is a click on the first and a range to the last.
Arrow(step, range) ==
    LET at == SelectInSeq(Visible, LAMBDA x : x = selected)
        next == Visible[Min({Len(Visible), Max({1, at + step})})] IN
    /\ Visible # <<>> /\ (next # selected \/ range)
    /\ IF range THEN SelectRange(next) ELSE Select(next)
    /\ UNCHANGED ascending
SelectAll ==
    /\ Visible # <<>>
    /\ Settle(rows, Last(Visible), Visible, pendingFocus)
    /\ anchor' = Head(Visible)
    /\ UNCHANGED ascending
Escape ==
    /\ selected # NoRow /\ Select(NoRow) /\ UNCHANGED ascending

Next ==
    \/ \E new \in SUBSET RowIds, gone \in SUBSET rows : RowsCome(new, gone)
    \/ \E i \in RowIds : Focus(i) \/ Click(i)
    \/ \E away \in SUBSET rows : Filter(away)
    \/ \E step \in {1, -1}, range \in BOOLEAN : Arrow(step, range)
    \/ Sort \/ SelectAll \/ Escape

Spec == Init /\ [][Next]_selectionVars

-----------------------------------------------------------------------------
TypeOK ==
    /\ rows \subseteq RowIds /\ hidden \subseteq rows /\ ascending \in BOOLEAN
    /\ {selected, anchor, pendingFocus} \subseteq RowIds \cup {NoRow}
    /\ selection \in Seq(RowIds)

\* What the delete key and the commands act on is what the table marks: the row shown is one
\* of the rows selected, nothing is selected when none is shown, none twice, and none that
\* is gone once the page has rows and no focus is awaited (App.tsx, "Keep the
\* multi-selection honest"; useTraffic.ts, "Selection vanished").
SelectionIsHonest ==
    /\ IF selected = NoRow THEN selection = <<>> ELSE Contains(selection, selected)
    /\ IsInjective(selection)
    /\ rows # {} /\ pendingFocus = NoRow => ToSet(selection) \subseteq rows
=============================================================================
