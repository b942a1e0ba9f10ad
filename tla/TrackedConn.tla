------------------------------ MODULE TrackedConn ------------------------------
(***************************************************************************)
(* A connection of the capture listener: trackedConn of engine/listener.go *)
(* and the listener that hands it out.                                     *)
(*                                                                         *)
(* A goroutine reads ahead (pump), so that a client that leaves is noticed *)
(* while the HTTP server is not reading; Read takes what it offers from a  *)
(* channel with one slot.  The server moves the read deadline meanwhile,   *)
(* to abort a read of its own in the background and to go on afterwards:   *)
(* the pump must neither report a timeout that no longer holds nor stop.   *)
(*                                                                         *)
(* A deadline is none, ahead or past; time may pass it at any moment.      *)
(***************************************************************************)
EXTENDS Naturals, Sequences

CONSTANT Chunks     \* bound: reads of the socket that return data


VARIABLES
    arrived,    \* chunks the client sent so far
    fin,        \* the client closed its end
    sock,       \* the read deadline of the socket
    deadline,   \* trackedConn.deadline
    setting,    \* SetReadDeadline in progress: the new deadline, with deadlineMu held
    wake,       \* a token is in readWake
    pump,       \* what the pump is doing
    offered,    \* the result it wants to put into the channel
    taken,      \* chunks it read from the socket
    incoming,   \* the channel: at most one result
    got,        \* chunks returned by Read, in order
    reader,     \* the server's Read: idle, waiting, or checking a timeout it took
    timedOut,   \* the last Read ended with a timeout
    due,        \* history: a deadline in force had passed at some moment of the last Read
    open,       \* ctx: neither the pump nor Close cancelled it
    listening,  \* the listener's context
    place       \* the connection: accepted, prepared, handed out, or closed

connVars == <<arrived, fin, sock, deadline, setting, wake, pump, offered, taken,
              incoming, got, reader, timedOut, due>>
vars == <<connVars, open, listening, place>>

Deadlines == {"none", "ahead", "past"}
Timeout == [err |-> TRUE, chunk |-> 0]
Data(n) == [err |-> FALSE, chunk |-> n]
Idle == "unset"

Init ==
    /\ arrived = 0 /\ fin = FALSE
    /\ sock = "none" /\ deadline = "none" /\ setting = Idle /\ wake = FALSE
    /\ pump = "reading" /\ offered = Timeout /\ taken = 0
    /\ incoming = <<>> /\ got = <<>>
    /\ reader = "idle" /\ timedOut = FALSE /\ due = FALSE
    /\ open = TRUE /\ listening = TRUE /\ place = "accepted"

\* A connection that is over.
Over ==
    /\ arrived = 0 /\ fin = TRUE
    /\ sock = "none" /\ deadline = "none" /\ setting = Idle /\ wake = FALSE
    /\ pump = "gone" /\ offered = Timeout /\ taken = 0
    /\ incoming = <<>> /\ got = <<>>
    /\ reader = "idle" /\ timedOut = FALSE /\ due = FALSE
    /\ open = FALSE /\ listening = FALSE /\ place = "closed"

-----------------------------------------------------------------------------
(* The client, and time. *)

ClientSends ==
    /\ arrived < Chunks /\ ~fin
    /\ arrived' = arrived + 1
    /\ UNCHANGED <<fin, sock, deadline, setting, wake, pump, offered, taken, incoming, got,
                   reader, timedOut, due, open, listening, place>>

ClientLeaves ==
    /\ ~fin /\ fin' = TRUE
    /\ UNCHANGED <<arrived, sock, deadline, setting, wake, pump, offered, taken, incoming,
                   got, reader, timedOut, due, open, listening, place>>

\* A Read that is under way sees the deadline pass.
Dated == due' = (due \/ (reader # "idle" /\ deadline' = "past"))

\* A deadline ahead is reached, for the socket and the field alike.
Passed(d) == IF d = "ahead" THEN "past" ELSE d
TimePasses ==
    /\ "ahead" \in {sock, deadline, setting}
    /\ sock' = Passed(sock) /\ deadline' = Passed(deadline) /\ setting' = Passed(setting)
    /\ Dated
    /\ UNCHANGED <<arrived, fin, wake, pump, offered, taken, incoming, got, reader, timedOut,
                   open, listening, place>>

-----------------------------------------------------------------------------
(* pump *)

\* Wrong: what was read together with a timeout is dropped.
PumpReadsDropping ==
    /\ pump = "reading"
    /\ \/ taken < arrived /\ taken' = taken + 1
          /\ offered' = IF sock = "past" THEN Timeout ELSE Data(taken + 1)
       \/ sock = "past" /\ UNCHANGED taken /\ offered' = Timeout
    /\ pump' = "offering"
    /\ UNCHANGED <<arrived, fin, sock, deadline, setting, wake, incoming, got, reader,
                   timedOut, due, open, listening, place>>

\* Conn.Read returns what arrived, or the timeout of the socket's deadline.
PumpReads ==
    /\ pump = "reading"
    /\ \/ sock # "past" /\ taken < arrived /\ taken' = taken + 1 /\ offered' = Data(taken + 1)
       \/ sock = "past" /\ UNCHANGED taken /\ offered' = Timeout
    /\ pump' = "offering"
    /\ UNCHANGED <<arrived, fin, sock, deadline, setting, wake, incoming, got, reader,
                   timedOut, due, open, listening, place>>

\* The end of the connection, or any error but a timeout, cancels it.
PumpEnds ==
    /\ pump = "reading"
    /\ \/ ~open                                 \* the connection was closed below it
       \/ fin /\ taken = arrived /\ sock # "past"
    /\ pump' = "gone" /\ open' = FALSE
    /\ UNCHANGED <<arrived, fin, sock, deadline, setting, wake, offered, taken, incoming, got,
                   reader, timedOut, due, listening, place>>

\* The select of the channel and of ctx.Done takes any that is ready.
PumpOffers ==
    /\ pump = "offering"
    /\ \/ /\ incoming = <<>>
          /\ incoming' = <<offered>>
          /\ pump' = IF offered.err THEN "checking" ELSE "reading"
       \/ ~open /\ pump' = "gone" /\ UNCHANGED incoming
    /\ UNCHANGED <<arrived, fin, sock, deadline, setting, wake, offered, taken, got, reader,
                   timedOut, due, open, listening, place>>

\* After a timeout the pump goes on once the deadline is off or ahead.
PumpChecks ==
    /\ pump = "checking" /\ setting = Idle
    /\ pump' = IF deadline = "past" THEN "parked" ELSE "reading"
    /\ UNCHANGED <<arrived, fin, sock, deadline, setting, wake, offered, taken, incoming, got,
                   reader, timedOut, due, open, listening, place>>

PumpWakes ==
    /\ pump = "parked"
    /\ \/ wake /\ wake' = FALSE /\ pump' = "checking"
       \/ ~open /\ pump' = "gone" /\ UNCHANGED wake
    /\ UNCHANGED <<arrived, fin, sock, deadline, setting, offered, taken, incoming, got,
                   reader, timedOut, due, open, listening, place>>

-----------------------------------------------------------------------------
(* The HTTP server, one Read at a time. *)

ReadBegins ==
    /\ place = "handed" /\ reader = "idle"
    /\ reader' = "waiting" /\ timedOut' = FALSE
    /\ due' = (deadline = "past")
    /\ UNCHANGED <<arrived, fin, sock, deadline, setting, wake, pump, offered, taken, incoming,
                   got, open, listening, place>>

\* Read takes what is in the channel, and returns data at once.
ReadTakes ==
    /\ reader = "waiting" /\ incoming # <<>>
    /\ incoming' = <<>>
    /\ LET result == Head(incoming)
       IN  /\ got' = IF result.err THEN got ELSE Append(got, result.chunk)
           /\ reader' = IF result.err THEN "checking" ELSE "idle"
    /\ UNCHANGED <<arrived, fin, sock, deadline, setting, wake, pump, offered, taken, timedOut,
                   due, open, listening, place>>

\* Wrong: the pump's timeout is passed on as it is.
ReadUnchecked ==
    /\ reader = "checking"
    /\ reader' = "idle" /\ timedOut' = TRUE
    /\ UNCHANGED <<arrived, fin, sock, deadline, setting, wake, pump, offered, taken, incoming,
                   got, due, open, listening, place>>

\* A timeout ends the Read if the deadline by now has passed; otherwise it goes on waiting.
ReadChecks ==
    /\ reader = "checking" /\ setting = Idle
    /\ LET expired == deadline = "past"
       IN  /\ reader' = IF expired THEN "idle" ELSE "waiting"
           /\ timedOut' = expired
    /\ UNCHANGED <<arrived, fin, sock, deadline, setting, wake, pump, offered, taken, incoming,
                   got, due, open, listening, place>>

\* The connection is over: so is the Read, though something may be in the channel.
ReadEnds ==
    /\ reader = "waiting" /\ ~open
    /\ reader' = "idle"
    /\ UNCHANGED <<arrived, fin, sock, deadline, setting, wake, pump, offered, taken, incoming,
                   got, timedOut, due, open, listening, place>>

\* SetReadDeadline: the socket first, then the field and the wake-up.  The pump may read
\* in between, but not look at the field.
SetsSocket ==
    /\ place = "handed" /\ setting = Idle
    /\ \E d \in Deadlines : setting' = d /\ sock' = d
    /\ UNCHANGED <<arrived, fin, deadline, wake, pump, offered, taken, incoming, got, reader,
                   timedOut, due, open, listening, place>>

\* Wrong: a pump that is not waiting needs no wake-up.
PublishesToParked ==
    /\ setting # Idle
    /\ deadline' = setting /\ setting' = Idle /\ wake' = (setting = "ahead")
    /\ Dated
    /\ UNCHANGED <<arrived, fin, sock, pump, offered, taken, incoming, got, reader, timedOut,
                   open, listening, place>>

Publishes ==
    /\ setting # Idle
    /\ deadline' = setting /\ setting' = Idle /\ wake' = TRUE
    /\ Dated
    /\ UNCHANGED <<arrived, fin, sock, pump, offered, taken, incoming, got, reader, timedOut,
                   open, listening, place>>

\* Close, by the server or because a response was the last one.
Close ==
    /\ place = "handed"
    /\ place' = "closed" /\ open' = FALSE
    /\ UNCHANGED <<connVars, listening>>

-----------------------------------------------------------------------------
(* The listener: prepare runs in a goroutine of the connection, which then waits for   *)
(* Accept or for the end of the listener. *)

Prepare ==
    /\ place = "accepted"
    /\ \/ place' = "prepared" /\ UNCHANGED open
       \/ place' = "closed" /\ open' = FALSE
    /\ UNCHANGED <<connVars, listening>>

HandOut ==
    /\ place = "prepared"
    /\ \/ listening /\ place' = "handed" /\ UNCHANGED open
       \/ ~listening /\ place' = "closed" /\ open' = FALSE
    /\ UNCHANGED <<connVars, listening>>

\* captureListener.Close cancels the context of every connection and closes those that
\* are registered; it returns once the pumps and the goroutines above are done.
ListenerCloses ==
    /\ listening /\ listening' = FALSE
    /\ open' = FALSE
    /\ place' = IF place = "handed" THEN "closed" ELSE place
    /\ UNCHANGED connVars

-----------------------------------------------------------------------------

PumpStep == PumpReads \/ PumpEnds \/ PumpOffers \/ PumpChecks \/ PumpWakes
ListenerStep == Prepare \/ HandOut

Next ==
    \/ ClientSends \/ ClientLeaves \/ TimePasses
    \/ PumpStep \/ ListenerStep \/ ListenerCloses
    \/ ReadBegins \/ ReadTakes \/ ReadChecks \/ ReadEnds \/ SetsSocket \/ Publishes \/ Close

\* Goroutines run, a server that was handed a connection reads it, and deadlineMu does
\* not starve the pump or the reader however often the deadline is moved.
Fairness ==
    /\ WF_vars(PumpStep) /\ WF_vars(ListenerStep)
    /\ WF_vars(Publishes)
    /\ WF_vars(ReadBegins) /\ WF_vars(ReadTakes \/ ReadEnds)
    /\ SF_vars(PumpChecks) /\ SF_vars(ReadChecks)

Spec == Init /\ [][Next]_vars
FairSpec == Spec /\ Fairness

-----------------------------------------------------------------------------
(* Properties. *)

TypeOK ==
    /\ arrived \in 0..Chunks /\ taken \in 0..arrived /\ fin \in BOOLEAN
    /\ {sock, deadline} \subseteq Deadlines /\ setting \in Deadlines \cup {Idle}
    /\ wake \in BOOLEAN /\ open \in BOOLEAN /\ listening \in BOOLEAN
    /\ pump \in {"reading", "offering", "checking", "parked", "gone"}
    /\ incoming \in {<<>>, <<Timeout>>} \cup {<<Data(n)>> : n \in 1..Chunks}
    /\ reader \in {"idle", "waiting", "checking"} /\ {timedOut, due} \subseteq BOOLEAN
    /\ place \in {"accepted", "prepared", "handed", "closed"}
    /\ got = [i \in 1..Len(got) |-> i]

\* No Read ends with the timeout of a deadline that was reset before it began, however long
\* that waited in the pump's hand or in the channel: some deadline in force had passed while
\* the Read was under way.  (listener.go, in Read.)
NoStaleTimeout == timedOut => due

\* What the client sent is read, unless the deadline stays in the past or the connection
\* ends: the pump is never left parked by a wake-up it missed.
DataIsRead ==
    (taken < arrived) ~> (taken = arrived \/ deadline = "past" \/ ~open)
=============================================================================
