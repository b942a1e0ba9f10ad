----------------------------- MODULE McpListing ------------------------------
(***************************************************************************)
(* The MCP tool list_requests (agent/mcp/server.ts), read page by page     *)
(* from the newest record to the oldest while the engine captures, evicts  *)
(* and deletes. A record is its sequence number.                           *)
(***************************************************************************)
EXTENDS Naturals, Sequences, SequencesExt, FiniteSets

CONSTANTS MaxRecords, \* bound: records captured
          MaxLimit    \* bound: size of a page

VARIABLES items,   \* the transactions in order of their sequence, as `ordered' gives them
          sequence, \* engine.sequence
          offset,  \* what the client asks to skip next
          seen,    \* records the pages of this listing held
          due,     \* records there from its beginning to now
          deleted, \* how many were deleted since by the user or a tool
          phase    \* "idle", "listing" or "done"

listingVars == <<items, sequence, offset, seen, due, deleted, phase>>

CaptureRecord ==
    /\ sequence < MaxRecords
    /\ sequence' = sequence + 1
    /\ items' = Append(items, sequence')
    /\ UNCHANGED <<offset, seen, due, deleted, phase>>

\* At its limit the engine removes the oldest record (engine.ts enforceEntryLimit).
EvictRecord ==
    /\ items # <<>>
    /\ items' = Tail(items)
    /\ due' = due \ {Head(items)}
    /\ UNCHANGED <<sequence, offset, seen, deleted, phase>>

\* The user, or a tool, deletes any record (engine.ts remove).
DeleteRecord ==
    /\ \E k \in DOMAIN items :
         /\ items' = RemoveAt(items, k)
         /\ due' = due \ {items[k]}
         /\ deleted' = IF phase = "listing" THEN deleted + 1 ELSE deleted
    /\ UNCHANGED <<sequence, offset, seen, phase>>

BeginListing ==
    /\ phase # "listing"
    /\ phase' = "listing"
    /\ offset' = 0
    /\ seen' = {}
    /\ due' = ToSet(items)
    /\ deleted' = 0
    /\ UNCHANGED <<items, sequence>>

\* The last `limit' rows before the `offset' newest.
Page(limit) ==
    LET end == IF Len(items) > offset THEN Len(items) - offset ELSE 0
    IN  SubSeq(items, (IF end > limit THEN end - limit ELSE 0) + 1, end)

\* The client skips what it was given and stops at an empty page.
ListRequests ==
    /\ phase = "listing"
    /\ \E limit \in 1 .. MaxLimit :
         /\ seen' = seen \cup ToSet(Page(limit))
         /\ offset' = offset + Len(Page(limit))
         /\ phase' = IF Page(limit) = <<>> THEN "done" ELSE "listing"
    /\ UNCHANGED <<items, sequence, due, deleted>>

Init ==
    /\ items = <<>>
    /\ sequence = 0
    /\ offset = 0
    /\ seen = {}
    /\ due = {}
    /\ deleted = 0
    /\ phase = "idle"

Next ==
    \/ CaptureRecord
    \/ EvictRecord
    \/ DeleteRecord
    \/ BeginListing
    \/ ListRequests

Spec == Init /\ [][Next]_listingVars

----------------------------------------------------------------------------
TypeOK ==
    /\ items \in Seq(1 .. MaxRecords)
    /\ seen \cup due \subseteq 1 .. MaxRecords
    /\ phase \in {"idle", "listing", "done"}
    /\ {sequence, offset, deleted} \subseteq Nat

\* A listing read to its end gave every record that was there when it began and still is,
\* whatever was captured or evicted between its pages: an offset from the newest row may
\* repeat rows but skips none, except that a row deleted meanwhile makes the
\* offset skip at most one (server.ts list_requests).
ListingIsComplete == phase = "done" => Cardinality(due \ seen) <= deleted
=============================================================================
