--------------------------------- MODULE Records ---------------------------------
(***************************************************************************)
(* What core/engine.ts keeps of the data of one session: the bytes of a    *)
(* body up to the limit, the events that core/sse.ts parses out of a       *)
(* text/event-stream, the frames of a WebSocket, and the timer that has a  *)
(* long gRPC stream decoded before it ends.                                *)
(*                                                                         *)
(* A character is one of "d" and "i", which begin a data and an id line    *)
(* and are the content of any, and the two line terminators; a line is     *)
(* named by the position of its terminator, an event by its data lines     *)
(* and the id line in force.  WholeEvents says what the parser, which sees *)
(* one character at a time, should have found in what arrived.             *)
(***************************************************************************)
EXTENDS Integers, Sequences, FiniteSetsExt, SequencesExt

CONSTANTS
    MaxText,    \* how many characters a stream has
    Limits,     \* the values of the maxBodyBytes setting
    MaxItems    \* how many events or frames a record keeps (500 in the code)

VARIABLES
    kind,       \* an event stream, a gRPC stream or a WebSocket
    text,       \* all that the server sends
    seen,       \* how much of it arrived
    limit,      \* maxBodyBytes; the parser keeps the one it was made with
    parserLimit,
    kept,       \* capture.chunks: the positions of the bytes retained
    truncated,
    parser,     \* SSEParser
    items,      \* t.events, or t.frames
    itemsCut,   \* t.eventsTruncated, or t.framesTruncated
    timer,      \* grpcTimer
    decoded,    \* grpcDecoded
    state       \* t.state

vars == <<kind, text, seen, limit, parserLimit, kept, truncated, parser, items, itemsCut,
          timer, decoded, state>>

Characters == {"d", "i", "CR", "LF"}
Terminators == {"CR", "LF"}

NoParser == [skipLF |-> FALSE, line |-> 0, first |-> "", size |-> 0, dropped |-> FALSE,
             data |-> {}, lastId |-> 0]

Begin(k, all, most) ==
    /\ kind = k /\ text = all /\ seen = 0
    /\ limit = most /\ parserLimit = most
    /\ kept = <<>> /\ truncated = FALSE
    /\ parser = NoParser
    /\ items = <<>> /\ itemsCut = FALSE
    /\ timer = FALSE /\ decoded = -1
    /\ state = "pending"

Init ==
    \E k \in {"events", "grpc", "frames"}, most \in Limits :
        \E all \in [1..MaxText -> IF k = "events" THEN Characters ELSE {"d"}] :
            Begin(k, all, most)

-----------------------------------------------------------------------------
(* core/sse.ts. *)

\* The id of an event counts too, also when an earlier event brought it.
Size(event) == Cardinality(event.data) + (IF event.id = 0 THEN 0 ELSE 1)

\* One more event: the oldest go while there are too many, or they are too large.
Total(s) == FoldLeft(LAMBDA n, e : n + Size(e), 0, s)
Recent(s) ==
    LET Fits(n) == n <= MaxItems /\ Total(SubSeq(s, Len(s) - n + 1, Len(s))) <= parserLimit
    IN  LET n == Max({k \in 0..Len(s) : Fits(k)}) IN SubSeq(s, Len(s) - n + 1, Len(s))

\* SSEParser.consumeLine at the terminator at position p.
EndOfEvent(q) == [q EXCEPT !.data = {}, !.size = 0, !.dropped = FALSE]
Field(q, p) ==
    IF q.dropped THEN q
    ELSE IF q.first = "d" THEN [q EXCEPT !.data = @ \cup {p}]
    ELSE [q EXCEPT !.lastId = p]
ConsumeLine(q, p) ==
    [(IF q.line = 0 THEN EndOfEvent(q) ELSE Field(q, p)) EXCEPT !.line = 0, !.first = ""]

\* SSEParser.push of one character, which is at position p.
Push(q, c, p) ==
    IF c = "LF" /\ q.skipLF THEN [q EXCEPT !.skipLF = FALSE]
    ELSE IF c \in Terminators THEN [ConsumeLine(q, p) EXCEPT !.skipLF = (c = "CR")]
    ELSE LET n == q.size + 1 IN
         [q EXCEPT !.skipLF = FALSE, !.line = @ + 1, !.size = n,
                   !.first = IF q.line = 0 THEN c ELSE @,
                   !.dropped = @ \/ n > parserLimit,
                   !.data = IF n > parserLimit THEN {} ELSE @]

\* The event that this character completes, if any.
Emitted(q, c) ==
    IF /\ c \in Terminators /\ ~(c = "LF" /\ q.skipLF)
       /\ q.line = 0 /\ ~q.dropped /\ q.data # {}
    THEN <<[data |-> q.data, id |-> q.lastId]>> ELSE <<>>

\* The emit callback: an event larger than the limit is not kept at all.
Keep(s, event) == IF Size(event) > parserLimit THEN s ELSE Recent(Append(s, event))

-----------------------------------------------------------------------------
(* core/engine.ts. *)

Parse(p) ==
    LET c == text[p]
        new == Emitted(parser, c)
        next == Push(parser, c, p) IN
    /\ parser' = next
    /\ IF new = <<>>
       THEN /\ UNCHANGED items
            /\ itemsCut' = (itemsCut \/ (next.dropped /\ ~parser.dropped))
       ELSE /\ items' = Keep(items, new[1])
            /\ itemsCut' = (itemsCut \/ Len(items') <= Len(items))

\* Engine.frame.
RecordFrame(p) ==
    LET all == Append(items, [data |-> {p}, id |-> 0]) IN
    /\ items' = IF Len(all) > MaxItems THEN Tail(all) ELSE all
    /\ itemsCut' = (itemsCut \/ Len(all) > MaxItems)
    /\ UNCHANGED parser

\* A plausible slip: a limit that was raised takes the mark off again.
CaptureAnew(p) ==
    /\ kept' = IF Len(kept) < limit THEN Append(kept, p) ELSE kept
    /\ truncated' = (seen' > limit)

\* Engine.capture: what fits is retained, and a body that does not is marked.
CaptureByte(p) ==
    /\ kept' = IF Len(kept) < limit THEN Append(kept, p) ELSE kept
    /\ truncated' = (truncated \/ seen' > limit)

\* The timer is set once there is something it would decode.
Time == timer' = (timer \/ decoded # Len(kept'))

\* The next byte, or frame.  (A chunk is a run of them: nothing below looks at its ends.)
Receive ==
    /\ state = "pending" /\ seen < Len(text)
    /\ seen' = seen + 1
    /\ CASE kind = "events" ->
               CaptureByte(seen') /\ Parse(seen') /\ UNCHANGED timer
         [] kind = "grpc" ->
               CaptureByte(seen') /\ Time /\ UNCHANGED <<parser, items, itemsCut>>
         [] kind = "frames" ->
               RecordFrame(seen') /\ UNCHANGED <<kept, truncated, timer>>
    /\ UNCHANGED <<kind, text, limit, parserLimit, decoded, state>>

\* What is complete of the messages is decoded.
TimerFires ==
    /\ timer /\ timer' = FALSE
    /\ decoded' = Len(kept)
    /\ UNCHANGED <<kind, text, seen, limit, parserLimit, kept, truncated, parser, items,
                   itemsCut, state>>

\* The settings of the window; one change suffices for either order.
ChangeLimit ==
    /\ state = "pending" /\ limit = parserLimit
    /\ limit' \in Limits
    /\ UNCHANGED <<kind, text, seen, parserLimit, kept, truncated, parser, items, itemsCut,
                   timer, decoded, state>>

\* Engine.seal and finish; the session may end before all of it came.
End ==
    /\ state = "pending"
    /\ state' = "completed" /\ timer' = FALSE
    /\ decoded' = IF kind = "grpc" THEN Len(kept) ELSE decoded
    /\ UNCHANGED <<kind, text, seen, limit, parserLimit, kept, truncated, parser, items,
                   itemsCut>>

Next == Receive \/ TimerFires \/ ChangeLimit \/ End

Spec == Init /\ [][Next]_vars

-----------------------------------------------------------------------------
(* Properties. *)

Positions == 1..MaxText
Items == [data : SUBSET Positions, id : Positions \cup {0}]

TypeOK ==
    /\ kind \in {"events", "grpc", "frames"} /\ text \in Seq(Characters)
    /\ seen \in 0..Len(text)
    /\ limit \in Limits /\ parserLimit \in Limits
    /\ kept \in Seq(Positions) /\ items \in Seq(Items)
    /\ parser \in [skipLF : BOOLEAN, line : 0..MaxText, first : {"", "d", "i"},
                   size : 0..MaxText, dropped : BOOLEAN, data : SUBSET Positions,
                   lastId : Positions \cup {0}]
    /\ {truncated, itemsCut, timer} \subseteq BOOLEAN
    /\ decoded \in -1..MaxText
    /\ state \in {"pending", "completed"}

\* A body that is not marked as truncated is there in full, also if the limit changed
\* while it came, and no body exceeds every limit (engine.ts, capture).
BodyIsWhole ==
    /\ kind # "frames" /\ ~truncated => kept = [k \in 1..seen |-> k]
    /\ \E l \in Limits : Len(kept) <= l

\* What can be decoded of a gRPC stream is, or will be when the timer fires.
DecodesInTime == kind = "grpc" /\ state = "pending" /\ kept # <<>> =>
    timer \/ decoded = Len(kept)

\* The line ends in the first n characters: a line feed after a carriage return is none.
LineEnds(n) == {p \in 1..n : text[p] = "CR" \/ (text[p] = "LF" /\ (p = 1 \/ text[p - 1] # "CR"))}
Content(from, to) == {p \in from..to : text[p] \notin Terminators}
PreviousEnd(S, p) == Max({0} \cup {e \in S : e < p})
BlankEnds(n) == {p \in LineEnds(n) : Content(PreviousEnd(LineEnds(n), p) + 1, p) = {}}
BeginsWith(p, c) ==
    LET line == Content(PreviousEnd(LineEnds(p), p) + 1, p) IN
    line # {} /\ text[Min(line)] = c

\* The line that ends at p ends before its event became larger than the limit.
InTime(p) == Cardinality(Content(PreviousEnd(BlankEnds(p), p) + 1, p)) <= parserLimit

\* What the event that the blank line at b ends consists of, and all of the events.
DataOf(b) ==
    {p \in LineEnds(b) : p > PreviousEnd(BlankEnds(b), b) /\ BeginsWith(p, "d")}
IdAt(b) == Max({0} \cup {p \in LineEnds(b) : BeginsWith(p, "i") /\ InTime(p)})
Complete(n) == {b \in BlankEnds(n) : DataOf(b) # {} /\ InTime(b)}
WholeEvents(n) ==
    [k \in 1..Cardinality(Complete(n)) |->
        LET b == CHOOSE b \in Complete(n) :
                     Cardinality({c \in Complete(n) : c < b}) = k - 1
        IN  [data |-> DataOf(b), id |-> IdAt(b)]]

\* The events shown are the last of those in the stream, wherever it was cut into lines and
\* chunks, and all of them unless the record says so (sse.ts, "EOF never dispatches an
\* unfinished event").
EventsAreRecent ==
    kind = "events" =>
        LET all == WholeEvents(seen) IN
        /\ IsSuffix(items, SelectSeq(all, LAMBDA e : Size(e) <= parserLimit))
        /\ ~itemsCut => items = all
        /\ Len(items) <= MaxItems /\ Total(items) <= parserLimit

\* The frames shown are the last ones, and all of them unless the record says so.
FramesAreRecent ==
    kind = "frames" =>
        /\ items = [k \in 1..Len(items) |-> [data |-> {seen - Len(items) + k}, id |-> 0]]
        /\ itemsCut <=> Len(items) < seen
        /\ Len(items) = Min({seen, MaxItems})
=============================================================================
