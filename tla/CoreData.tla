-------------------------------- MODULE CoreData --------------------------------
(***************************************************************************)
(* What the core and Node do to the data they exchange: frames on the pipe *)
(* (wire.ts, wire.go), headers (headers.go, proxy.go), fragments of an     *)
(* edited WebSocket message (websocket.go), and the transport a request    *)
(* goes out on (proxy.go, upstream/transport.go).                          *)
(*                                                                         *)
(* One behaviour exercises one subject.                                    *)
(***************************************************************************)
EXTENDS Naturals, Sequences, FiniteSets, SequencesExt, FiniteSetsExt

CONSTANTS
    HeaderSize,    \* bytes of a frame's header (4)
    PoolSize,      \* transports and certificates kept (32 and 512)
    MaxFrames,     \* bound: frames in a stream
    MaxFragments,  \* bound: fragments of a message
    MaxBytes       \* bound: bytes of a frame, a fragment or a message


VARIABLES
    subject,     \* what this behaviour exercises
    input,       \* what it is given
    output,      \* what it made of it
    wire,        \* Wire: the header and the body read so far, and what was emitted
    pool         \* Pool: the entries, oldest first

dataVars == <<subject, input, output, wire, pool>>

-----------------------------------------------------------------------------
(* Frames.  A byte is [frame, of], the length of its frame's body being in the header. *)

Lengths == UNION {[1..n -> 0..MaxBytes] : n \in 0..MaxFrames}
BytesOf(frame, length) == [i \in 1..(HeaderSize + length) |-> [frame |-> frame, length |-> length]]
Stream(lengths) == FlattenSeq([f \in 1..Len(lengths) |-> BytesOf(f, lengths[f])])

NoWire == [header |-> 0, body |-> 0, used |-> 0, emitted |-> <<>>, failed |-> FALSE, read |-> 0]
Least(a, b) == IF a < b THEN a ELSE b

\* One pass of the loop of Wire.receive over the bytes of a read.  body = 0: no header yet.
Pass(w, data) ==
    LET count == Least(IF w.body = 0 THEN HeaderSize - w.header ELSE w.body - w.used, Len(data))
        length == data[count].length
        next ==
            IF w.body = 0
            THEN IF w.header + count < HeaderSize THEN [w EXCEPT !.header = @ + count]
                 ELSE IF length = 0 THEN [w EXCEPT !.failed = TRUE]
                 ELSE [w EXCEPT !.header = HeaderSize, !.body = length, !.used = 0]
            ELSE IF w.used + count < w.body THEN [w EXCEPT !.used = @ + count]
                 ELSE [w EXCEPT !.header = 0, !.body = 0,
                                !.emitted = Append(@, data[count].frame)]
    IN  <<next, SubSeq(data, count + 1, Len(data))>>

\* Passes are made while bytes are left; each takes one at least.
Receive(w, data) ==
    LET after[n \in 0..Len(data)] ==
            IF n = 0 THEN <<w, data>>
            ELSE LET now == after[n - 1]
                 IN  IF now[1].failed \/ now[2] = <<>> THEN now ELSE Pass(now[1], now[2])
    IN  after[Len(data)][1]

\* Wrong: what was read of a header is not kept for the next read.
ReadsForgetting ==
    /\ subject = "frames" /\ ~wire.failed
    /\ LET bytes == Stream(input)
       IN  \E n \in 1..(Len(bytes) - wire.read) :
               wire' = [Receive([wire EXCEPT !.header = 0], SubSeq(bytes, wire.read + 1, wire.read + n))
                            EXCEPT !.read = wire.read + n]
    /\ UNCHANGED <<subject, input, output, pool>>

\* A read of any size.
ReadsSome ==
    /\ subject = "frames" /\ ~wire.failed
    /\ LET bytes == Stream(input)
       IN  \E n \in 1..(Len(bytes) - wire.read) :
               wire' = [Receive(wire, SubSeq(bytes, wire.read + 1, wire.read + n))
                            EXCEPT !.read = wire.read + n]
    /\ UNCHANGED <<subject, input, output, pool>>

-----------------------------------------------------------------------------
(* Fragments: writeFragments cuts `size' bytes along the lengths of the original. *)

Total(lengths) == FoldSeq(LAMBDA a, b : a + b, 0, lengths)

\* Lengths are taken from the original while bytes remain, then the largest is repeated.
Along(lengths, size) ==
    FoldLeft(LAMBDA cut, length :
                 IF cut # <<>> /\ Total(cut) = size THEN cut
                 ELSE Append(cut, Least(length, size - Total(cut))),
             <<>>, lengths)
Repeat(largest, remaining) ==
    [i \in 1..((remaining + largest - 1) \div largest) |->
        Least(largest, remaining - ((i - 1) * largest))]

Cut(lengths, size) ==
    IF Total(lengths) = size THEN lengths
    ELSE LET along == Along(lengths, size)
         IN  along \o Repeat(Max({1} \cup {lengths[i] : i \in 1..Len(lengths)}),
                             size - Total(along))

WriteFragments ==
    /\ subject = "fragments" /\ output = <<>>
    /\ LET cut == Cut(input.lengths, input.size)
       IN  output' = [i \in 1..Len(cut) |->
               [length |-> cut[i], fin |-> i = Len(cut),
                op |-> IF i = 1 THEN input.op ELSE "continuation"]]
    /\ UNCHANGED <<subject, input, wire, pool>>

-----------------------------------------------------------------------------
(* Headers: a function of names to sequences of values. *)

Names == {"Connection", "Set-Cookie", "Upgrade", "X-Hop", "X-End"}
Listed == {<<"X-Hop">>, <<"close", "X-Hop">>}     \* values of Connection
HeaderSets ==
    {h \in [Names -> {<<>>, <<"a">>, <<"a", "b">>} \cup Listed] :
        /\ h["Connection"] \in {<<>>} \cup Listed
        /\ \A n \in Names \ {"Connection"} : h[n] \notin Listed}
Present(h) == {n \in DOMAIN h : h[n] # <<>>}
Header(h) == [n \in Present(h) |-> h[n]]

\* One value goes as text, several and every Set-Cookie as a list.
NodeHeaders(h) ==
    [n \in DOMAIN h |->
        IF Len(h[n]) = 1 /\ n # "Set-Cookie" THEN [list |-> FALSE, values |-> h[n]]
                                            ELSE [list |-> TRUE, values |-> h[n]]]

HTTPHeaders(values) == [n \in DOMAIN values |-> values[n].values]

\* For a client of HTTP/2 the fields of the connection are dropped, and those it names.
HopByHop == {"Connection", "Keep-Alive", "Proxy-Connection", "Transfer-Encoding", "Upgrade"}
Forwarded(h, proto) ==
    LET named == IF "Connection" \in DOMAIN h
                 THEN {h["Connection"][i] : i \in 1..Len(h["Connection"])} ELSE {}
        kept == IF proto < 2 THEN DOMAIN h ELSE DOMAIN h \ (named \cup HopByHop)
    IN  [n \in kept |-> h[n]]

ConvertHeaders ==
    /\ subject = "headers" /\ output = <<>>
    /\ output' = <<Forwarded(HTTPHeaders(NodeHeaders(input.headers)), input.proto)>>
    /\ UNCHANGED <<subject, input, wire, pool>>

-----------------------------------------------------------------------------
(* Transports: what a request asks for, and the pool that is shared by all sessions. *)

Requests == [scheme : {"http", "https"}, proto : 1..3, grpc : BOOLEAN, websocket : BOOLEAN,
             insecure : BOOLEAN, route : {"", "proxy"}, destination : {"a", "b"}]

\* The input says whether the core dials UDP itself, through any proxy.
H2C(q) == q.scheme = "http" /\ (q.proto = 2 \/ q.grpc)
H3(q) == q.proto = 3 /\ q.scheme = "https" /\ ~q.websocket /\ (q.route = "" \/ input)

\* Everything a transport is built from is in its key.
Key(q) == [insecure |-> q.insecure, h2c |-> H2C(q), websocket |-> q.websocket, h3 |-> H3(q),
           route |-> q.route, destination |-> IF H3(q) THEN q.destination ELSE "none"]

\* What a transport is built from: trust in the origin, proxy, protocol and endpoint.
Built(q) == [insecure |-> q.insecure, route |-> q.route, websocket |-> q.websocket,
             protocol |-> IF H2C(q) THEN "h2c" ELSE IF H3(q) THEN "h3" ELSE "http",
             endpoint |-> IF H3(q) THEN q.destination ELSE "the request's"]

\* Wrong: the oldest goes once there is one too many.
RoomLater == IF Len(pool) > PoolSize THEN Tail(pool) ELSE pool

\* At the limit the oldest makes room.
Room == IF Len(pool) = PoolSize THEN Tail(pool) ELSE pool

\* A transport that is kept is returned.
Get(q) ==
    /\ subject = "transports"
    /\ LET kept == SelectSeq(pool, LAMBDA e : e.key = Key(q))
           entry == [key |-> Key(q), transport |-> Built(q)]
       IN  IF kept # <<>>
           THEN output' = <<Built(q), kept[1].transport>> /\ UNCHANGED pool
           ELSE /\ pool' = Append(Room, entry)
                /\ output' = <<Built(q), entry.transport>>
    /\ UNCHANGED <<subject, input, wire>>

-----------------------------------------------------------------------------

Begin(what, given) ==
    /\ subject = what /\ input = given
    /\ output = <<>> /\ wire = NoWire /\ pool = <<>>

Init ==
    \/ \E given \in Lengths : Begin("frames", given)
    \/ \E given \in [lengths : UNION {[1..n -> 0..MaxBytes] : n \in 1..MaxFragments},
                      size : 0..(MaxBytes + MaxFragments), op : {"text", "binary"}] :
           Begin("fragments", given)
    \/ \E given \in [headers : {Header(h) : h \in HeaderSets}, proto : 1..2] :
           Begin("headers", given)
    \/ \E given \in BOOLEAN : Begin("transports", given)

Next ==
    \/ ReadsSome \/ WriteFragments \/ ConvertHeaders
    \/ \E q \in Requests : Get(q)

Spec == Init /\ [][Next]_dataVars

-----------------------------------------------------------------------------
(* Properties. *)

TypeOK ==
    /\ subject \in {"frames", "fragments", "headers", "transports"}
    /\ wire.header \in 0..HeaderSize /\ (wire.body > 0 => wire.used < wire.body)
    /\ Len(pool) <= PoolSize

\* However the pipe cuts its bytes, exactly the frames that are complete are delivered, in
\* order, up to the first that is empty.  (wire.ts, receive.)
FramesSurvive ==
    subject = "frames" =>
        LET valid(n) == \A f \in 1..n : input[f] > 0
            whole(n) == valid(n) /\ Len(Stream(SubSeq(input, 1, n))) <= wire.read
            count == Max({n \in 0..Len(input) : whole(n)})
        IN  /\ wire.emitted = [f \in 1..count |-> f]
            /\ wire.failed => count < Len(input) /\ input[count + 1] = 0

\* An edited message arrives whole, whatever its length: all of its bytes, one opcode, one
\* FIN, at least one frame; an unchanged length keeps the original fragments.
FragmentsKeepMessage ==
    (subject = "fragments" /\ output # <<>>) =>
        LET cut == [i \in 1..Len(output) |-> output[i].length]
        IN  /\ Total(cut) = input.size
            /\ \A i \in 1..Len(output) :
                   /\ output[i].fin = (i = Len(output))
                   /\ (output[i].op = "continuation") = (i > 1)
            /\ Total(input.lengths) = input.size => cut = input.lengths

\* Headers come back with all their values in order; a client of HTTP/2 gets none that
\* belong to the connection to the origin, nor any that Connection names.
HeadersSurvive ==
    (subject = "headers" /\ output # <<>>) =>
        LET h == input.headers
        IN  /\ \A n \in DOMAIN output[1] : output[1][n] = h[n]
            /\ {n \in DOMAIN h : n \notin DOMAIN output[1]} =
                   IF input.proto < 2 THEN {}
                   ELSE DOMAIN h \cap ({"Connection", "Upgrade"} \cup
                            IF "Connection" \in DOMAIN h THEN {"X-Hop"} ELSE {})

\* A request goes out on a transport built for what it asks: the same trust in the origin's
\* certificate, the same protocol, and over HTTP/3 the endpoint that was captured.
TransportFits == (subject = "transports" /\ output # <<>>) => output[1] = output[2]
=============================================================================
