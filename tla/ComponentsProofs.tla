---------------------------- MODULE ComponentsProofs ----------------------------
(***************************************************************************)
(* Proofs about five of the parts that Components puts together, for any   *)
(* number of chunks, resends, messages, dials, flows and requests: a       *)
(* connection of the capture listener, an inspected WebSocket, the life of *)
(* the engine, requests sent again, and a tunnel.  Each part has an        *)
(* invariant of its own, which its steps keep and which those of the       *)
(* others do not touch.                                                    *)
(***************************************************************************)
EXTENDS Components, Sequences, FiniteSets, FiniteSetTheorems, TLAPS

-----------------------------------------------------------------------------
(* The connection: nothing is lost or reordered between the socket and Read. *)

\* The data that Read has not taken from the channel.
Unread == IF incoming # <<>> /\ ~incoming[1].err THEN 1 ELSE 0

\* What the pump took is what Read returned, what is in the channel, and what the pump is
\* about to put there; a pump that is gone may have dropped that last one.
InOrder ==
    /\ got \in Seq(Nat) /\ \A i \in 1..Len(got) : got[i] = i
    /\ incoming \in {<<>>, <<Conn!Timeout>>, <<Conn!Data(Len(got) + 1)>>}
    /\ pump \in {"reading", "checking", "parked"} => taken = Len(got) + Unread
    /\ pump = "offering" =>
           \/ offered = Conn!Timeout /\ taken = Len(got) + Unread
           \/ offered = Conn!Data(taken) /\ taken = Len(got) + Unread + 1
    /\ pump = "gone" => taken \in {Len(got) + Unread, Len(got) + Unread + 1}

ConnTyped ==
    /\ arrived \in 0..Chunks /\ taken \in 0..arrived /\ fin \in BOOLEAN
    /\ sock \in Conn!Deadlines /\ deadline \in Conn!Deadlines
    /\ setting \in Conn!Deadlines \cup {Conn!Idle}
    /\ wake \in BOOLEAN /\ open \in BOOLEAN /\ listening \in BOOLEAN
    /\ pump \in {"reading", "offering", "checking", "parked", "gone"}
    /\ reader \in {"idle", "waiting", "checking"} /\ timedOut \in BOOLEAN /\ due \in BOOLEAN
    /\ place \in {"accepted", "prepared", "handed", "closed"}

\* A Read that is under way remembers that the deadline passed, and one that timed out did.
Remembers ==
    /\ reader # "idle" /\ deadline = "past" => due
    /\ timedOut => due

ConnInv == ConnTyped /\ InOrder /\ Remembers

-----------------------------------------------------------------------------
(* The WebSocket: who holds the mutex is the one that writes. *)

LastIs(piece) == sentOn # <<>> /\ sentOn[Len(sentOn)] = piece
Sent(r) == \E i \in 1..Len(sentOn) : sentOn[i] = [from |-> r, part |-> 2]

\* Whoever writes holds sender.mu, and one that has written half of its message wrote last.
WriterHolds ==
    /\ upward = "writing" <=> holder = "client"
    /\ \A r \in Resends : resendPhase[r] = "writing" <=> holder = r
    /\ \A w \in Relayed!Writers :
           written[w] = 1 => holder = w /\ LastIs([from |-> w, part |-> 1])

\* A resend without an error was written, from its last write on.
WrittenUnlessFailed ==
    \A r \in Resends :
        /\ resendPhase[r] \in {"checking", "replying"} /\ ~err[r] => Sent(r)
        /\ acked[r] = "ok" => Sent(r)

Writes ==
    /\ sentOn \in Seq([from : Relayed!Writers, part : 1..2])
    /\ WriterHolds /\ Relayed!MessagesWhole

\* Sockets are only closed here once closing says so.
Closes == Relayed!CloseIsClean /\ (closeStage # "open" => closing)

RelayInv == Relayed!TypeOK /\ Writes /\ WrittenUnlessFailed /\ Closes

-----------------------------------------------------------------------------
(* The engine: the loop has returned before anybody waits for the flows. *)

AllClosed == \A d \in Dials : conn[d] \in {"none", "closed"}

RuntimeInv ==
    /\ Runtime!TypeOK
    /\ loop = "starting" => ~accepting /\ AllClosed
    /\ loop \in {"closing", "returned"} => cancelled
    /\ loop = "returned" => ~accepting /\ AllClosed
    /\ shutdown # "running" => loop = "returned"
    /\ shutdown = "done" => Runtime!Counted = {}

-----------------------------------------------------------------------------
(* Requests sent again: the window's keeps the first place of the queue. *)

FirstInLine ==
    \A c \in ByWindow :
        stage[c] \in {"dialled", "awaiting"} => commands # <<>> /\ Head(commands) = c

ReplayInv ==
    /\ Replayed!TypeOK /\ running \in BOOLEAN
    /\ FirstInLine
    /\ Replayed!ReplayIsWhole

-----------------------------------------------------------------------------
(* The connection. *)

LEMMA ConnInitial == Init => ConnInv
<1> SUFFICES ASSUME Init PROVE ConnInv
  OBVIOUS
<1>1. Conn!Init \/ Conn!Over
  BY DEF Init
<1>0. Chunks \in Nat
  BY BoundsAssumption
<1>2. ConnTyped
  <2>1. arrived \in 0..Chunks /\ taken \in 0..arrived
    BY <1>0, <1>1 DEF Conn!Init, Conn!Over
  <2>2. {fin, wake, open, listening} \subseteq BOOLEAN
    BY <1>1 DEF Conn!Init, Conn!Over
  <2>3. /\ sock = "none" /\ deadline = "none" /\ setting = "unset"
        /\ reader = "idle" /\ timedOut = FALSE /\ due = FALSE
        /\ pump \in {"reading", "gone"} /\ place \in {"accepted", "closed"}
    BY <1>1 DEF Conn!Init, Conn!Over, Conn!Idle
  <2> QED
    BY <2>1, <2>2, <2>3 DEF ConnTyped, Conn!Idle, Conn!Deadlines
<1>3. got = <<>> /\ incoming = <<>> /\ taken = 0 /\ pump \in {"reading", "gone"}
  BY <1>1 DEF Conn!Init, Conn!Over
<1>4. Len(got) = 0 /\ got \in Seq(Nat) /\ Unread = 0
  BY <1>3 DEF Unread
<1>5. InOrder
  BY <1>3, <1>4 DEF InOrder
<1>6. Remembers
  BY <1>1 DEF Remembers, Conn!Init, Conn!Over
<1> QED
  BY <1>2, <1>5, <1>6 DEF ConnInv

LEMMA ConnStutters == ConnInv /\ UNCHANGED connVars => ConnInv'
  BY DEF connVars, ConnInv, ConnTyped, InOrder, Unread, Conn!Data, Remembers

\* The steps that touch neither the data nor the pump's place in it.
StaysInPlace ==
    /\ UNCHANGED <<got, incoming, taken, offered>>
    /\ \/ pump' = pump
       \/ {pump, pump'} \subseteq {"reading", "checking", "parked"}
       \/ pump' = "gone" /\ pump # "offering"

LEMMA ConnInOrder ==
    ASSUME InOrder, pump \in {"reading", "offering", "checking", "parked", "gone"},
           StaysInPlace
    PROVE  InOrder'
<1> Unread' = Unread /\ Len(got)' = Len(got) /\ Conn!Data(taken)' = Conn!Data(taken)
    /\ Conn!Data(Len(got) + 1)' = Conn!Data(Len(got) + 1)
  BY DEF StaysInPlace, Unread, Conn!Data
<1>1. (pump \in {"reading", "checking", "parked"} => taken = Len(got) + Unread)'
  BY DEF StaysInPlace, InOrder
<1>2. (pump = "offering" =>
           \/ offered = Conn!Timeout /\ taken = Len(got) + Unread
           \/ offered = Conn!Data(taken) /\ taken = Len(got) + Unread + 1)'
  BY DEF StaysInPlace, InOrder, Conn!Data
<1>3. (pump = "gone" => taken \in {Len(got) + Unread, Len(got) + Unread + 1})'
  BY DEF StaysInPlace, InOrder
<1> QED
  BY <1>1, <1>2, <1>3 DEF StaysInPlace, InOrder

\* Steps that move the pump, the server's Read and the listener only.
LEMMA ConnStaysTyped ==
    ASSUME ConnTyped,
           UNCHANGED <<arrived, taken, fin, sock, deadline, setting>>,
           wake' \in BOOLEAN, open' \in BOOLEAN, listening' \in BOOLEAN,
           pump' \in {"reading", "offering", "checking", "parked", "gone"},
           reader' \in {"idle", "waiting", "checking"}, timedOut' \in BOOLEAN, due' \in BOOLEAN,
           place' \in {"accepted", "prepared", "handed", "closed"}
    PROVE  ConnTyped'
<1>1. /\ arrived' \in 0..Chunks /\ taken' \in 0..arrived' /\ fin' \in BOOLEAN
      /\ sock' \in Conn!Deadlines /\ deadline' \in Conn!Deadlines
      /\ setting' \in Conn!Deadlines \cup {Conn!Idle}
  BY Zenon DEF ConnTyped
<1> QED
  BY Zenon, <1>1 DEF ConnTyped, Conn!Deadlines, Conn!Idle

\* Steps that move the deadlines only.
LEMMA DeadlinesStayTyped ==
    ASSUME ConnTyped,
           UNCHANGED <<arrived, fin, pump, taken, reader, timedOut, open, listening, place>>,
           sock' \in Conn!Deadlines, deadline' \in Conn!Deadlines,
           setting' \in Conn!Deadlines \cup {Conn!Idle}, wake' \in BOOLEAN, due' \in BOOLEAN
    PROVE  ConnTyped'
<1>1. arrived' \in 0..Chunks /\ taken' \in 0..arrived' /\ fin' \in BOOLEAN
  BY Zenon DEF ConnTyped
<1>2. /\ open' \in BOOLEAN /\ listening' \in BOOLEAN
      /\ pump' \in {"reading", "offering", "checking", "parked", "gone"}
      /\ reader' \in {"idle", "waiting", "checking"} /\ timedOut' \in BOOLEAN
      /\ place' \in {"accepted", "prepared", "handed", "closed"}
  BY Zenon DEF ConnTyped
<1> QED
  BY Zenon, <1>1, <1>2 DEF ConnTyped, Conn!Deadlines, Conn!Idle

\* Steps of the client only.
LEMMA ClientStaysTyped ==
    ASSUME ConnTyped,
           UNCHANGED <<sock, deadline, setting, wake, pump, reader, timedOut, due, open>>,
           UNCHANGED <<listening, place>>,
           arrived' \in 0..Chunks, taken' \in 0..arrived', fin' \in BOOLEAN
    PROVE  ConnTyped'
<1>1. /\ sock' \in Conn!Deadlines /\ deadline' \in Conn!Deadlines
      /\ setting' \in Conn!Deadlines \cup {Conn!Idle}
  BY Zenon DEF ConnTyped
<1>2. /\ wake' \in BOOLEAN /\ open' \in BOOLEAN /\ listening' \in BOOLEAN
      /\ pump' \in {"reading", "offering", "checking", "parked", "gone"}
      /\ reader' \in {"idle", "waiting", "checking"} /\ timedOut' \in BOOLEAN /\ due' \in BOOLEAN
      /\ place' \in {"accepted", "prepared", "handed", "closed"}
  BY Zenon DEF ConnTyped
<1> QED
  BY Zenon, <1>1, <1>2 DEF ConnTyped, Conn!Deadlines, Conn!Idle

\* What a Read remembers stands while nothing it speaks of moves.
LEMMA ConnStillRemembers ==
    ASSUME Remembers, UNCHANGED <<reader, deadline, timedOut, due>>
    PROVE  Remembers'
BY Zenon DEF Remembers

\* The listener's steps and Close, which leave the connection's own state alone.
LEMMA ConnStands ==
    ASSUME ConnTyped, Remembers, UNCHANGED Conn!connVars,
           open' \in BOOLEAN, listening' \in BOOLEAN,
           place' \in {"accepted", "prepared", "handed", "closed"}
    PROVE  ConnTyped' /\ StaysInPlace /\ Remembers'
<1>1. /\ UNCHANGED <<arrived, taken, fin, sock, deadline, setting, wake>>
      /\ UNCHANGED <<reader, timedOut, due, pump, got, incoming, offered>>
  BY Zenon DEF Conn!connVars
<1>2. /\ wake' \in BOOLEAN /\ pump' \in {"reading", "offering", "checking", "parked", "gone"}
      /\ reader' \in {"idle", "waiting", "checking"} /\ timedOut' \in BOOLEAN /\ due' \in BOOLEAN
  BY Zenon, <1>1 DEF ConnTyped
<1>3. ConnTyped'
  BY Zenon, <1>1, <1>2, ConnStaysTyped
<1>4. Remembers'
  BY Zenon, <1>1, ConnStillRemembers
<1> QED
  BY Zenon, <1>1, <1>3, <1>4 DEF StaysInPlace

LEMMA ConnMoves ==
    ASSUME ConnInv,
           Conn!ClientSends \/ Conn!ClientLeaves \/ Conn!TimePasses \/ Conn!PumpChecks
           \/ Conn!PumpWakes \/ Conn!ListenerStep \/ Conn!ListenerCloses \/ Conn!SetsSocket
           \/ Conn!Publishes \/ Conn!Close \/ Conn!PumpEnds \/ Conn!ReadBegins \/ Conn!ReadChecks
           \/ Conn!ReadEnds
    PROVE  ConnInv'
<1>i. Chunks \in Nat /\ ConnTyped /\ InOrder /\ Remembers
  BY BoundsAssumption DEF ConnInv
<1>m. SUFFICES ConnTyped' /\ StaysInPlace /\ Remembers'
  BY <1>i, ConnInOrder DEF ConnInv, ConnTyped
<1>t. /\ wake \in BOOLEAN /\ open \in BOOLEAN /\ listening \in BOOLEAN
      /\ pump \in {"reading", "offering", "checking", "parked", "gone"}
      /\ reader \in {"idle", "waiting", "checking"} /\ timedOut \in BOOLEAN /\ due \in BOOLEAN
      /\ place \in {"accepted", "prepared", "handed", "closed"}
  BY Zenon, <1>i DEF ConnTyped
<1>1. CASE Conn!ClientSends
  <2>1. /\ arrived' = arrived + 1 /\ arrived < Chunks
        /\ UNCHANGED <<fin, sock, deadline, setting, wake, pump, offered, taken, incoming>>
        /\ UNCHANGED <<got, reader, timedOut, due, open, listening, place>>
    BY Zenon, <1>1 DEF Conn!ClientSends
  <2>2. arrived' \in 0..Chunks /\ taken' \in 0..arrived'
    <3>1. arrived \in 0..Chunks /\ taken \in 0..arrived
      BY Zenon, <1>i DEF ConnTyped
    <3> QED
      BY <1>i, <2>1, <3>1
  <2>3. fin' \in BOOLEAN
    BY Zenon, <1>i, <2>1 DEF ConnTyped
  <2>4. ConnTyped'
    BY Zenon, <1>i, <2>1, <2>2, <2>3, ClientStaysTyped
  <2>5. Remembers'
    BY Zenon, <1>i, <2>1, ConnStillRemembers
  <2> QED
    BY Zenon, <2>1, <2>4, <2>5 DEF StaysInPlace
<1>2. CASE Conn!ClientLeaves
  <2>1. /\ fin' = TRUE
        /\ UNCHANGED <<arrived, sock, deadline, setting, wake, pump, offered, taken, incoming>>
        /\ UNCHANGED <<got, reader, timedOut, due, open, listening, place>>
    BY Zenon, <1>2 DEF Conn!ClientLeaves
  <2>2. fin' \in BOOLEAN /\ arrived' \in 0..Chunks /\ taken' \in 0..arrived'
    BY Zenon, <1>i, <2>1 DEF ConnTyped
  <2>3. ConnTyped'
    BY Zenon, <1>i, <2>1, <2>2, ClientStaysTyped
  <2>4. Remembers'
    BY Zenon, <1>i, <2>1, ConnStillRemembers
  <2> QED
    BY Zenon, <2>1, <2>3, <2>4 DEF StaysInPlace
<1>3. CASE Conn!TimePasses
  <2>1. /\ due' = (due \/ (reader # "idle" /\ deadline' = "past"))
        /\ UNCHANGED <<arrived, fin, wake, pump, offered, taken, incoming, got, reader, timedOut,
                       open, listening, place>>
    BY <1>3 DEF Conn!TimePasses, Conn!Dated
  <2>2. sock' \in Conn!Deadlines /\ deadline' \in Conn!Deadlines
        /\ setting' \in Conn!Deadlines \cup {Conn!Idle}
    BY <1>i, <1>3 DEF ConnTyped, Conn!Deadlines, Conn!Idle, Conn!TimePasses, Conn!Passed
  <2>3. due' \in BOOLEAN /\ wake' \in BOOLEAN
    BY Zenon, <1>t, <2>1
  <2>4. Remembers'
    BY Zenon, <1>i, <2>1 DEF Remembers
  <2>5. ConnTyped'
    BY Zenon, <1>i, <2>1, <2>2, <2>3, DeadlinesStayTyped
  <2> QED
    BY Zenon, <2>1, <2>4, <2>5 DEF StaysInPlace
<1>4. CASE Conn!PumpChecks
  <2>1. /\ pump = "checking" /\ pump' \in {"parked", "reading"}
        /\ UNCHANGED <<arrived, fin, sock, deadline, setting, wake, offered, taken, incoming>>
        /\ UNCHANGED <<got, reader, timedOut, due, open, listening, place>>
    BY <1>4 DEF Conn!PumpChecks
  <2>2. pump' \in {"reading", "offering", "checking", "parked", "gone"}
    BY Zenon, <2>1
  <2>3. ConnTyped'
    BY Zenon, <1>i, <1>t, <2>1, <2>2, ConnStaysTyped
  <2>4. Remembers'
    BY Zenon, <1>i, <2>1, ConnStillRemembers
  <2> QED
    BY Zenon, <2>1, <2>3, <2>4 DEF StaysInPlace
<1>5. CASE Conn!PumpWakes
  <2>1. /\ UNCHANGED <<arrived, fin, sock, deadline, setting, offered, taken, incoming, got>>
        /\ UNCHANGED <<reader, timedOut, due, open, listening, place>>
    BY Zenon, <1>5 DEF Conn!PumpWakes
  <2>2. pump = "parked" /\ pump' \in {"checking", "gone"} /\ (wake' = FALSE \/ wake' = wake)
    BY Zenon, <1>5 DEF Conn!PumpWakes
  <2>3. wake' \in BOOLEAN /\ pump' \in {"reading", "offering", "checking", "parked", "gone"}
    BY Zenon, <1>t, <2>2
  <2>4. ConnTyped'
    BY Zenon, <1>i, <1>t, <2>1, <2>3, ConnStaysTyped
  <2>5. Remembers'
    BY Zenon, <1>i, <2>1, ConnStillRemembers
  <2> QED
    BY Zenon, <2>1, <2>2, <2>4, <2>5 DEF StaysInPlace
<1>6. CASE Conn!ListenerStep
  <2>1. UNCHANGED Conn!connVars
    BY Zenon, <1>6 DEF Conn!ListenerStep, Conn!Prepare, Conn!HandOut
  <2>2. /\ open' \in BOOLEAN /\ listening' \in BOOLEAN
        /\ place' \in {"accepted", "prepared", "handed", "closed"}
    <3>1. CASE Conn!Prepare
      BY Zenon, <1>t, <3>1 DEF Conn!Prepare
    <3>2. CASE Conn!HandOut
      BY Zenon, <1>t, <3>2 DEF Conn!HandOut
    <3> QED
      BY Zenon, <1>6, <3>1, <3>2 DEF Conn!ListenerStep
  <2> QED
    BY Zenon, <1>i, <2>1, <2>2, ConnStands
<1>7. CASE Conn!ListenerCloses
  <2>1. UNCHANGED Conn!connVars /\ open' = FALSE /\ listening' = FALSE
    BY Zenon, <1>7 DEF Conn!ListenerCloses
  <2>2. place' \in {"accepted", "prepared", "handed", "closed"}
    BY <1>t, <1>7 DEF Conn!ListenerCloses
  <2>3. open' \in BOOLEAN /\ listening' \in BOOLEAN
    BY Zenon, <2>1
  <2> QED
    BY Zenon, <1>i, <2>1, <2>2, <2>3, ConnStands
<1>8. CASE Conn!SetsSocket
  <2>1. /\ UNCHANGED <<arrived, fin, deadline, wake, pump, offered, taken, incoming, got>>
        /\ UNCHANGED <<reader, timedOut, due, open, listening, place>>
    BY Zenon, <1>8 DEF Conn!SetsSocket
  <2>2. sock' \in Conn!Deadlines /\ setting' \in Conn!Deadlines \cup {Conn!Idle}
    BY Zenon, <1>8 DEF Conn!SetsSocket
  <2>3. deadline' \in Conn!Deadlines /\ wake' \in BOOLEAN /\ due' \in BOOLEAN
    BY Zenon, <1>i, <2>1 DEF ConnTyped
  <2>4. ConnTyped'
    BY Zenon, <1>i, <2>1, <2>2, <2>3, DeadlinesStayTyped
  <2>5. Remembers'
    BY Zenon, <1>i, <2>1, ConnStillRemembers
  <2> QED
    BY Zenon, <2>1, <2>4, <2>5 DEF StaysInPlace
<1>9. CASE Conn!Publishes
  <2>1. /\ due' = (due \/ (reader # "idle" /\ deadline' = "past"))
        /\ UNCHANGED <<arrived, fin, sock, pump, offered, taken, incoming, got, reader, timedOut,
                       open, listening, place>>
    BY <1>9 DEF Conn!Publishes, Conn!Dated
  <2>2. /\ setting # Conn!Idle
        /\ deadline' = setting /\ setting' = Conn!Idle /\ wake' = TRUE
    BY Zenon, <1>9 DEF Conn!Publishes
  <2>3. deadline' \in Conn!Deadlines /\ setting' \in Conn!Deadlines \cup {Conn!Idle}
    BY Zenon, <1>i, <2>2 DEF ConnTyped
  <2>4. sock' \in Conn!Deadlines /\ wake' \in BOOLEAN /\ due' \in BOOLEAN
    BY Zenon, <1>i, <2>1, <2>2 DEF ConnTyped
  <2>5. Remembers'
    BY Zenon, <1>i, <2>1 DEF Remembers
  <2>6. ConnTyped'
    BY Zenon, <1>i, <2>1, <2>3, <2>4, DeadlinesStayTyped
  <2> QED
    BY Zenon, <2>1, <2>5, <2>6 DEF StaysInPlace
<1>10. CASE Conn!Close
  <2>1. UNCHANGED Conn!connVars /\ open' = FALSE /\ listening' = listening /\ place' = "closed"
    BY Zenon, <1>10 DEF Conn!Close
  <2>2. /\ open' \in BOOLEAN /\ listening' \in BOOLEAN
        /\ place' \in {"accepted", "prepared", "handed", "closed"}
    BY Zenon, <1>t, <2>1
  <2> QED
    BY Zenon, <1>i, <2>1, <2>2, ConnStands
<1>11. CASE Conn!PumpEnds
  <2>1. /\ pump = "reading" /\ pump' = "gone" /\ open' = FALSE
        /\ UNCHANGED <<arrived, fin, sock, deadline, setting, wake, offered, taken, incoming>>
        /\ UNCHANGED <<got, reader, timedOut, due, listening, place>>
    BY Zenon, <1>11 DEF Conn!PumpEnds
  <2>2. /\ open' \in BOOLEAN
        /\ pump' \in {"reading", "offering", "checking", "parked", "gone"}
    BY Zenon, <2>1
  <2>3. ConnTyped'
    BY Zenon, <1>i, <1>t, <2>1, <2>2, ConnStaysTyped
  <2>4. Remembers'
    BY Zenon, <1>i, <2>1, ConnStillRemembers
  <2> QED
    BY Zenon, <2>1, <2>3, <2>4 DEF StaysInPlace
<1>12. CASE Conn!ReadBegins
  <2>1. /\ reader' = "waiting" /\ timedOut' = FALSE /\ due' = (deadline = "past")
        /\ UNCHANGED <<arrived, fin, sock, deadline, setting, wake, pump, offered, taken>>
        /\ UNCHANGED <<incoming, got, open, listening, place>>
    BY Zenon, <1>12 DEF Conn!ReadBegins
  <2>2. reader' \in {"idle", "waiting", "checking"} /\ timedOut' \in BOOLEAN /\ due' \in BOOLEAN
    BY Zenon, <2>1
  <2>3. ConnTyped'
    BY Zenon, <1>i, <1>t, <2>1, <2>2, ConnStaysTyped
  <2>4. Remembers'
    BY Zenon, <2>1 DEF Remembers
  <2> QED
    BY Zenon, <2>1, <2>3, <2>4 DEF StaysInPlace
<1>13. CASE Conn!ReadChecks
  <2>1. /\ reader = "checking" /\ timedOut' = (deadline = "past")
        /\ UNCHANGED <<arrived, fin, sock, deadline, setting, wake, pump, offered, taken>>
        /\ UNCHANGED <<incoming, got, due, open, listening, place>>
    BY Zenon, <1>13 DEF Conn!ReadChecks
  <2>2. reader' \in {"idle", "waiting", "checking"}
    BY <1>13 DEF Conn!ReadChecks
  <2>3. timedOut' \in BOOLEAN
    BY Zenon, <2>1
  <2>4. ConnTyped'
    BY Zenon, <1>i, <1>t, <2>1, <2>2, <2>3, ConnStaysTyped
  <2>5. Remembers'
    BY Zenon, <1>i, <2>1 DEF Remembers
  <2> QED
    BY Zenon, <2>1, <2>4, <2>5 DEF StaysInPlace
<1>14. CASE Conn!ReadEnds
  <2>1. /\ reader = "waiting" /\ reader' = "idle"
        /\ UNCHANGED <<arrived, fin, sock, deadline, setting, wake, pump, offered, taken>>
        /\ UNCHANGED <<incoming, got, timedOut, due, open, listening, place>>
    BY Zenon, <1>14 DEF Conn!ReadEnds
  <2>2. reader' \in {"idle", "waiting", "checking"}
    BY Zenon, <2>1
  <2>3. ConnTyped'
    BY Zenon, <1>i, <1>t, <2>1, <2>2, ConnStaysTyped
  <2>4. Remembers'
    BY Zenon, <1>i, <2>1 DEF Remembers
  <2> QED
    BY Zenon, <2>1, <2>3, <2>4 DEF StaysInPlace
<1> QED
  BY Zenon, <1>1, <1>2, <1>3, <1>4, <1>5, <1>6, <1>7, <1>8, <1>9, <1>10, <1>11, <1>12, <1>13, <1>14

LEMMA ConnPumpReads == ConnInv /\ Conn!PumpReads => ConnInv'
<1> SUFFICES ASSUME ConnInv, Conn!PumpReads PROVE ConnInv'
  OBVIOUS
<1>1. Unread' = Unread
  BY DEF Unread, Conn!PumpReads
<1> QED
  BY <1>1 DEF ConnInv, ConnTyped, InOrder, Remembers, Conn!Data, Conn!PumpReads

LEMMA ConnPumpOffers == ConnInv /\ Conn!PumpOffers => ConnInv'
<1> SUFFICES ASSUME ConnInv, Conn!PumpOffers PROVE ConnInv'
  OBVIOUS
<1>0. /\ ConnTyped' /\ Remembers' /\ UNCHANGED <<got, taken>>
      /\ Len(got) \in Nat /\ taken \in Nat
  BY BoundsAssumption DEF ConnInv, ConnTyped, InOrder, Remembers, Conn!PumpOffers
<1>1. CASE pump' = "gone"
  <2>1. Unread' = Unread
    BY <1>1 DEF Conn!PumpOffers, Unread
  <2> QED
    BY <1>0, <1>1, <2>1 DEF ConnInv, InOrder, Conn!PumpOffers, Conn!Data
<1>2. CASE incoming = <<>> /\ offered = Conn!Timeout /\ pump' # "gone"
  <2>1. incoming' = <<Conn!Timeout>> /\ pump' = "checking" /\ Unread = 0 /\ Unread' = 0
    BY <1>2 DEF Conn!PumpOffers, Unread, Conn!Timeout
  <2>2. taken = Len(got)
    BY <1>2, <2>1, <1>0 DEF ConnInv, InOrder, Conn!PumpOffers, Conn!Timeout, Conn!Data
  <2> QED
    BY <1>0, <2>1, <2>2 DEF ConnInv, InOrder
<1>3. CASE incoming = <<>> /\ offered = Conn!Data(taken) /\ offered # Conn!Timeout
           /\ pump' # "gone"
  <2>1. incoming' = <<Conn!Data(taken)>> /\ pump' = "reading" /\ Unread = 0 /\ Unread' = 1
    BY <1>3 DEF Conn!PumpOffers, Unread, Conn!Data
  <2>2. taken = Len(got) + 1
    BY <1>3, <2>1, <1>0 DEF ConnInv, InOrder, Conn!PumpOffers
  <2>3. incoming' \in {<<>>, <<Conn!Timeout>>, <<Conn!Data(Len(got') + 1)>>}
    BY <2>1, <2>2, <1>0
  <2> QED
    BY <1>0, <2>1, <2>2, <2>3 DEF ConnInv, InOrder
<1> QED
  BY <1>1, <1>2, <1>3 DEF ConnInv, InOrder, Conn!PumpOffers

\* A timeout is looked at next, data is appended.
LEMMA ConnReadTakes == ConnInv /\ Conn!ReadTakes => ConnInv'
<1> SUFFICES ASSUME ConnInv, Conn!ReadTakes PROVE ConnInv'
  OBVIOUS
<1>1. got \in Seq(Nat) /\ Len(got) \in Nat /\ ConnTyped' /\ Remembers'
  BY DEF ConnInv, ConnTyped, InOrder, Remembers, Conn!ReadTakes
<1>2. CASE incoming = <<Conn!Timeout>>
  <2>1. got' = got /\ incoming' = <<>> /\ Unread' = 0 /\ Unread = 0
    BY <1>2 DEF Conn!ReadTakes, Conn!Timeout, Unread
  <2> QED
    BY <2>1, <1>1, <1>2 DEF ConnInv, ConnTyped, InOrder, Conn!ReadTakes, Conn!Data
<1>3. CASE incoming = <<Conn!Data(Len(got) + 1)>>
  <2>1. got' = Append(got, Len(got) + 1) /\ incoming' = <<>> /\ Unread' = 0 /\ Unread = 1
    BY <1>3 DEF Conn!ReadTakes, Conn!Data, Unread
  <2>2. got' \in Seq(Nat) /\ Len(got') = Len(got) + 1
    BY <1>1, <2>1
  <2>3. \A i \in 1..Len(got') : got'[i] = i
    BY <1>1, <2>1, <2>2 DEF ConnInv, InOrder
  <2>4. InOrder'
    BY <1>1, <2>1, <2>2, <1>3 DEF ConnInv, ConnTyped, InOrder, Conn!ReadTakes, Conn!Data
  <2> QED
    BY <1>1, <2>4 DEF ConnInv
<1> QED
  BY <1>2, <1>3 DEF ConnInv, InOrder, Conn!ReadTakes

LEMMA ConnKept == ConnInv /\ [Next]_vars => ConnInv'
<1> SUFFICES ASSUME ConnInv, [Next]_vars PROVE ConnInv'
  OBVIOUS
<1>1. CASE Conn!Next
  BY <1>1, ConnMoves, ConnPumpReads, ConnPumpOffers, ConnReadTakes
     DEF Conn!Next, Conn!PumpStep
<1>2. CASE UNCHANGED connVars
  BY <1>2, ConnStutters
<1> QED
  BY <1>1, <1>2 DEF Next, vars

\* What the type of a connection asks of it: at most one result of the pump waits.
LEMMA ConnServes == ConnInv => Conn!TypeOK
<1> SUFFICES ASSUME ConnInv PROVE Conn!TypeOK
  OBVIOUS
<1>1. incoming \in {<<>>, <<Conn!Timeout>>} \cup {<<Conn!Data(n)>> : n \in 1..Chunks}
  <2>1. /\ incoming \in {<<>>, <<Conn!Timeout>>, <<Conn!Data(Len(got) + 1)>>}
        /\ Len(got) \in Nat
    BY DEF ConnInv, InOrder
  <2>2. ASSUME incoming = <<Conn!Data(Len(got) + 1)>> PROVE Len(got) + 1 \in 1..Chunks
    <3>1. Unread = 1
      BY <2>2 DEF Unread, Conn!Data
    <3>2. taken \in {Len(got) + Unread, Len(got) + Unread + 1}
      BY DEF ConnInv, InOrder, ConnTyped
    <3>3. taken <= Chunks /\ taken \in Nat /\ Chunks \in Nat
      BY BoundsAssumption DEF ConnInv, ConnTyped
    <3> QED
      BY <2>1, <3>1, <3>2, <3>3
  <2> QED
    BY <2>1, <2>2
<1>2. got = [i \in 1..Len(got) |-> i]
  BY DEF ConnInv, InOrder
<1> QED
  BY <1>1, <1>2 DEF ConnInv, ConnTyped, Conn!TypeOK

\* A Read that times out saw a deadline in force pass, whatever the pump met before it began
\* (trackedConn.Read).
THEOREM NoTimeoutIsStale == FairSpec => []NoStaleTimeout
<1>1. ConnInv => NoStaleTimeout
  BY DEF ConnInv, Remembers, NoStaleTimeout, Conn!NoStaleTimeout
<1> QED
  BY <1>1, ConnInitial, ConnKept, PTL DEF FairSpec

-----------------------------------------------------------------------------
(* The WebSocket. *)

LEMMA RelayInitial == Init => RelayInv
<1> SUFFICES ASSUME Init PROVE RelayInv
  OBVIOUS
<1>1. Relayed!Init
  BY DEF Init
<1>2. Messages \in Nat
  BY BoundsAssumption
<1>3. Relayed!TypeOK
  <2>1. {control, closing, wanted, broken, resending} \subseteq BOOLEAN
    BY <1>1 DEF Relayed!Init
  <2>2. number \in 0..Messages /\ written \in [Relayed!Writers -> 0..1]
    BY <1>1, <1>2 DEF Relayed!Init
  <2>3. err \in [Resends -> BOOLEAN] /\ fired \in [Resends -> BOOLEAN]
    BY <1>1 DEF Relayed!Init
  <2>4. resendPhase = [r \in Resends |-> "idle"] /\ acked = [r \in Resends |-> "no"]
    BY <1>1 DEF Relayed!Init
  <2> QED
    BY <1>1, <2>1, <2>2, <2>3, <2>4
       DEF Relayed!Init, Relayed!TypeOK, Relayed!Nobody, Relayed!Client
<1>4. sentOn = <<>> /\ Len(sentOn) = 0
  BY <1>1 DEF Relayed!Init
<1>5. Writes
  BY <1>1, <1>4, ResendsAssumption
     DEF Relayed!Init, Writes, WriterHolds, Relayed!MessagesWhole, Relayed!Nobody
<1>6. WrittenUnlessFailed /\ Closes
  BY <1>1 DEF Relayed!Init, WrittenUnlessFailed, Closes, Relayed!CloseIsClean
<1> QED
  BY <1>3, <1>5, <1>6 DEF RelayInv

LEMMA RelayStutters == RelayInv /\ UNCHANGED relayVars => RelayInv'
  BY DEF relayVars, RelayInv, Writes, Closes, Relayed!TypeOK, WriterHolds, WrittenUnlessFailed, LastIs, Sent,
     Relayed!MessagesWhole, Relayed!CloseIsClean

\* A step that writes nothing, and neither begins nor ends a message.
WritesNothing ==
    /\ UNCHANGED <<sentOn, holder, written>>
    /\ upward = "writing" <=> upward' = "writing"
    /\ \A r \in Resends : resendPhase[r] = "writing" <=> resendPhase'[r] = "writing"

LEMMA WritesKept == Writes /\ WritesNothing => Writes'
  BY DEF Writes, WritesNothing, WriterHolds, LastIs, Relayed!MessagesWhole

\* A step of a relay or of Close leaves every resend and what was written.
LEMMA ResendsKept ==
    WrittenUnlessFailed /\ UNCHANGED <<sentOn, resendPhase, err, acked>>
        => WrittenUnlessFailed'
  BY DEF WrittenUnlessFailed, Sent

\* What a relay reports when it ends.
LEMMA EndKeeps ==
    ASSUME Relayed!TypeOK, Closes, NEW error, Relayed!Ended(error),
           error \in {"end", "closed", "cancelled", "broken"},
           error = "closed" => closing
    PROVE  /\ wanted' \in BOOLEAN /\ broken' \in BOOLEAN
           /\ outcome' \in {"none", "completed", "aborted", "failed"}
           /\ outcome' = "failed" => broken'
<1>1. wanted' \in BOOLEAN /\ broken' \in BOOLEAN /\ (broken => broken')
      /\ (error = "broken" => broken')
  BY DEF Relayed!Ended, Relayed!TypeOK
<1>2. CASE outcome' = outcome
  BY <1>1, <1>2 DEF Relayed!TypeOK, Closes, Relayed!CloseIsClean
<1>3. CASE error = "cancelled" /\ Relayed!Finish("aborted")
  BY <1>1, <1>3 DEF Relayed!TypeOK, Closes, Relayed!CloseIsClean, Relayed!Finish
<1>4. CASE error = "broken" /\ Relayed!Finish("failed")
  BY <1>1, <1>4 DEF Relayed!TypeOK, Closes, Relayed!CloseIsClean, Relayed!Finish
<1> QED
  BY <1>2, <1>3, <1>4 DEF Relayed!Ended

\* The steps that write nothing: how Close and the client's leaving go on.
LEMMA CloseKeeps ==
    RelayInv /\ (Relayed!CloseStep \/ Relayed!ClientLeaves) => RelayInv'
<1> SUFFICES ASSUME RelayInv, Relayed!CloseStep \/ Relayed!ClientLeaves PROVE RelayInv'
  OBVIOUS
<1> USE DEF Relayed!CloseStep, Relayed!CloseMarks, Relayed!CloseShuts,
        Relayed!CloseFinishes, Relayed!ClientLeaves, Relayed!Finish, Relayed!relays,
        Relayed!sender, Relayed!resend
<1>1. Relayed!TypeOK'
  BY DEF RelayInv, Relayed!TypeOK
<1>2. WritesNothing /\ UNCHANGED <<sentOn, resendPhase, err, acked>>
  BY DEF WritesNothing
<1>3. Closes'
  BY DEF RelayInv, Closes, Relayed!CloseIsClean
<1> QED
  BY <1>1, <1>2, <1>3, WritesKept, ResendsKept DEF RelayInv

LEMMA ReadsAndAsks ==
    RelayInv /\ (Relayed!UpReads \/ Relayed!UpAsks \/ Relayed!DownReads \/ Relayed!DownAsks
                 \/ Relayed!DownWrites)
        => RelayInv'
<1> SUFFICES ASSUME RelayInv,
                    Relayed!UpReads \/ Relayed!UpAsks \/ Relayed!DownReads
                    \/ Relayed!DownAsks \/ Relayed!DownWrites
             PROVE  RelayInv'
  OBVIOUS
<1>0. Relayed!TypeOK /\ Closes /\ (Relayed!Shut => closing) /\ closing \in BOOLEAN
      /\ Messages \in Nat
  BY BoundsAssumption DEF RelayInv, Closes, Relayed!TypeOK, Relayed!Shut
<1>1. UNCHANGED <<sentOn, holder, written, resendPhase, err, fired, acked, resending, closeStage>>
  BY DEF Relayed!UpReads, Relayed!UpAsks, Relayed!DownReads, Relayed!DownAsks,
     Relayed!DownWrites, Relayed!sender, Relayed!resend
<1>2. /\ upward \in {"reading", "asking", "waiting", "ended"} \/ upward' = upward
      /\ upward' \in {"reading", "asking", "waiting", "ended"} \/ upward' = upward
      /\ downward' \in {"reading", "asking", "writing", "ended"}
  BY DEF Relayed!UpReads, Relayed!UpAsks, Relayed!DownReads, Relayed!DownAsks,
     Relayed!DownWrites, RelayInv, Relayed!TypeOK
<1>3. control' \in BOOLEAN /\ number' \in 0..Messages
  <2>1. number \in 0..Messages /\ control \in BOOLEAN
    BY <1>0 DEF Relayed!TypeOK
  <2>2. control' \in {TRUE, FALSE, control}
    BY DEF Relayed!UpReads, Relayed!UpAsks, Relayed!DownReads, Relayed!DownAsks,
       Relayed!DownWrites
  <2>3. number' = number \/ (number < Messages /\ number' = number + 1)
    BY DEF Relayed!UpReads, Relayed!UpAsks, Relayed!DownReads, Relayed!DownAsks,
       Relayed!DownWrites
  <2>4. control' \in BOOLEAN
    BY <2>1, <2>2
  <2>5. number' \in 0..Messages
    BY <1>0, <2>1, <2>3
  <2> QED
    BY <2>4, <2>5
<1>4. closing' \in BOOLEAN /\ (closing => closing')
  BY <1>0 DEF Relayed!UpReads, Relayed!UpAsks, Relayed!DownReads, Relayed!DownAsks,
     Relayed!DownWrites
<1>5. \/ UNCHANGED <<wanted, outcome, broken>>
      \/ \E error \in {"end", "closed", "cancelled", "broken"} :
            Relayed!Ended(error) /\ (error = "closed" => closing)
  BY <1>0 DEF Relayed!UpReads, Relayed!UpAsks, Relayed!DownReads, Relayed!DownAsks,
     Relayed!DownWrites
<1>6. /\ wanted' \in BOOLEAN /\ broken' \in BOOLEAN
      /\ outcome' \in {"none", "completed", "aborted", "failed"}
      /\ outcome' = "failed" => broken'
  <2>1. CASE UNCHANGED <<wanted, outcome, broken>>
    BY <2>1, <1>0 DEF Relayed!TypeOK, Closes, Relayed!CloseIsClean
  <2>2. CASE ~UNCHANGED <<wanted, outcome, broken>>
    <3>1. PICK error \in {"end", "closed", "cancelled", "broken"} :
              Relayed!Ended(error) /\ (error = "closed" => closing)
      BY <1>5, <2>2
    <3> QED
      BY <1>0, <3>1, EndKeeps
  <2> QED
    BY <2>1, <2>2
<1>7. Relayed!TypeOK'
  BY <1>0, <1>1, <1>2, <1>3, <1>4, <1>6 DEF Relayed!TypeOK
<1>8. WritesNothing
  BY <1>1, <1>2 DEF WritesNothing
<1>9. Closes'
  BY <1>0, <1>1, <1>4, <1>6 DEF Closes, Relayed!CloseIsClean
<1> QED
  BY <1>1, <1>7, <1>8, <1>9, WritesKept, ResendsKept DEF RelayInv

\* Nobody holds the mutex, so nobody is half-way through a message.
LEMMA Unheld ==
    ASSUME Writes, holder = "nobody"
    PROVE  /\ upward # "writing" /\ \A r \in Resends : resendPhase[r] # "writing"
           /\ \A w \in Relayed!Writers : written[w] # 1
  BY ResendsAssumption DEF Writes, WriterHolds, Relayed!Writers, Relayed!Client

LEMMA UpLocksKeeps == RelayInv /\ Relayed!UpLocks => RelayInv'
<1> SUFFICES ASSUME RelayInv, Relayed!UpLocks PROVE RelayInv'
  OBVIOUS
<1> USE DEF Relayed!UpLocks, Relayed!Client, Relayed!Nobody, Relayed!resend
<1>1. Relayed!TypeOK'
  BY DEF RelayInv, Relayed!TypeOK
<1>2. Writes'
  <2>1. WriterHolds'
    BY Unheld, ResendsAssumption DEF RelayInv, WriterHolds
  <2> QED
    BY <2>1 DEF RelayInv, Writes, Relayed!MessagesWhole
<1>3. Closes'
  BY DEF RelayInv, Closes, Relayed!CloseIsClean
<1> QED
  BY <1>1, <1>2, <1>3, ResendsKept DEF RelayInv

\* A write of the one that holds the mutex.
LEMMA WriteKeepsWhole ==
    ASSUME RelayInv, NEW who \in Relayed!Writers, holder = who, Relayed!WritesOn(who)
    PROVE  /\ sentOn' \in Seq([from : Relayed!Writers, part : 1..2])
           /\ Relayed!MessagesWhole'
           /\ written' \in [Relayed!Writers -> 0..1]
           /\ written[who] = 0 => /\ UNCHANGED holder
                                  /\ LastIs([from |-> who, part |-> 1])'
           /\ written[who] = 1 => /\ holder' = "nobody"
                                  /\ LastIs([from |-> who, part |-> 2])'
           /\ \A w \in Relayed!Writers : written'[w] = 1 => w = who /\ written[who] = 0
           /\ \A r \in Resends : Sent(r) => Sent(r)'
<1> DEFINE piece == [from |-> who, part |-> written[who] + 1]
           Frame == [from : Relayed!Writers, part : 1..2]
<1>1. written[who] \in {0, 1} /\ written \in [Relayed!Writers -> 0..1]
  BY DEF RelayInv, Relayed!TypeOK
<1>2. sentOn \in Seq(Frame) /\ Len(sentOn) \in Nat /\ piece \in Frame
  BY <1>1 DEF RelayInv, Writes
<1>3. sentOn' = Append(sentOn, piece)
  BY DEF Relayed!WritesOn
<1> HIDE DEF piece, Frame
<1>4. /\ sentOn' \in Seq(Frame) /\ Len(sentOn') = Len(sentOn) + 1 /\ sentOn' # <<>>
      /\ sentOn'[Len(sentOn) + 1] = piece
      /\ \A i \in 1..Len(sentOn) : sentOn'[i] = sentOn[i]
  BY <1>2, <1>3
<1>6. Relayed!MessagesWhole'
  <2> SUFFICES ASSUME NEW i \in 1..Len(sentOn'), sentOn'[i].part = 2
               PROVE  i > 1 /\ sentOn'[i - 1] = [sentOn'[i] EXCEPT !.part = 1]
    BY DEF Relayed!MessagesWhole
  <2>1. CASE i \in 1..Len(sentOn)
    <3>1. sentOn[i].part = 2
      BY <1>4, <2>1
    <3>2. i > 1 /\ sentOn[i - 1] = [sentOn[i] EXCEPT !.part = 1]
      BY <2>1, <3>1 DEF RelayInv, Writes, Relayed!MessagesWhole
    <3>3. i - 1 \in 1..Len(sentOn)
      BY <1>2, <2>1, <3>2
    <3> QED
      BY <1>4, <2>1, <3>2, <3>3
  <2>2. CASE i = Len(sentOn) + 1
    <3>1. written[who] = 1
      BY <1>1, <1>4, <2>2 DEF piece
    <3>2. sentOn # <<>> /\ sentOn[Len(sentOn)] = [from |-> who, part |-> 1]
      BY <3>1 DEF RelayInv, Writes, WriterHolds, LastIs
    <3>3. Len(sentOn) \in 1..Len(sentOn)
      BY <1>2, <3>2
    <3>4. sentOn'[i - 1] = [from |-> who, part |-> 1]
      BY <1>2, <1>4, <2>2, <3>2, <3>3
    <3>5. sentOn'[i] = [from |-> who, part |-> 2]
      BY <1>4, <2>2, <3>1 DEF piece
    <3> QED
      BY <1>2, <2>2, <3>3, <3>4, <3>5
  <2> QED
    BY <1>2, <1>4, <2>1, <2>2
<1>7. /\ written' \in [Relayed!Writers -> 0..1] /\ written'[who] = 1 - written[who]
      /\ \A w \in Relayed!Writers : w # who => written'[w] = written[w]
  BY <1>1 DEF Relayed!WritesOn
<1>8. \A w \in Relayed!Writers : written'[w] = 1 => w = who /\ written[who] = 0
  <2>1. ASSUME NEW w \in Relayed!Writers, written[w] = 1 PROVE holder = w
    BY <2>1 DEF RelayInv, Writes, WriterHolds
  <2> QED
    BY <1>1, <1>7, <2>1
<1>9. ASSUME NEW r \in Resends, Sent(r) PROVE Sent(r)'
  <2>1. PICK i \in 1..Len(sentOn) : sentOn[i] = [from |-> r, part |-> 2]
    BY <1>9 DEF Sent
  <2>2. i \in 1..Len(sentOn') /\ sentOn'[i] = [from |-> r, part |-> 2]
    BY <1>2, <1>4, <2>1
  <2> QED
    BY <2>2 DEF Sent
<1>10. written[who] = 0 => UNCHANGED holder /\ LastIs([from |-> who, part |-> 1])'
  BY <1>2, <1>4 DEF piece, LastIs, Relayed!WritesOn, Relayed!Last
<1>11. written[who] = 1 => holder' = "nobody" /\ LastIs([from |-> who, part |-> 2])'
  BY <1>2, <1>4
     DEF piece, LastIs, Relayed!WritesOn, Relayed!Last, Relayed!Released, Relayed!Nobody
<1> QED
  BY <1>4, <1>6, <1>7, <1>8, <1>9, <1>10, <1>11 DEF Frame

LEMMA UpWritesKeeps == RelayInv /\ Relayed!UpWrites => RelayInv'
<1> SUFFICES ASSUME RelayInv, Relayed!UpWrites PROVE RelayInv'
  OBVIOUS
<1>0. /\ "client" \in Relayed!Writers /\ holder = "client" /\ Relayed!WritesOn("client")
      /\ "client" \notin Resends /\ "nobody" \notin Resends
      /\ written["client"] \in {0, 1}
  BY ResendsAssumption
     DEF RelayInv, Writes, WriterHolds, Relayed!UpWrites, Relayed!Client, Relayed!Writers,
         Relayed!TypeOK
<1>1. UNCHANGED <<downward, control, number, resendPhase, err, fired, acked, resending, closing,
                  closeStage, wanted, outcome, broken>>
  BY DEF Relayed!UpWrites, Relayed!resend
<1>2. /\ sentOn' \in Seq([from : Relayed!Writers, part : 1..2])
      /\ Relayed!MessagesWhole'
      /\ written' \in [Relayed!Writers -> 0..1]
      /\ written["client"] = 0 => UNCHANGED holder /\ LastIs([from |-> "client", part |-> 1])'
      /\ written["client"] = 1 => holder' = "nobody"
      /\ \A w \in Relayed!Writers : written'[w] = 1 => w = "client" /\ written["client"] = 0
      /\ \A r \in Resends : Sent(r) => Sent(r)'
  BY <1>0, WriteKeepsWhole
<1>3. upward' = IF written["client"] = 1 THEN "reading" ELSE "writing"
  BY DEF Relayed!UpWrites, Relayed!Last, Relayed!Client
<1>4. Relayed!TypeOK'
  BY <1>0, <1>1, <1>2, <1>3 DEF RelayInv, Relayed!TypeOK, Relayed!Nobody
<1>5. WriterHolds'
  <2>1. (upward = "writing" <=> holder = "client")'
    BY <1>0, <1>2, <1>3
  <2>2. ASSUME NEW r \in Resends PROVE (resendPhase[r] = "writing" <=> holder = r)'
    <3>1. resendPhase[r] # "writing"
      BY <1>0 DEF RelayInv, Writes, WriterHolds
    <3> QED
      BY <1>0, <1>1, <1>2, <3>1
  <2>3. ASSUME NEW w \in Relayed!Writers, written'[w] = 1
        PROVE  holder' = w /\ LastIs([from |-> w, part |-> 1])'
    BY <1>0, <1>2, <2>3
  <2> QED
    BY <2>1, <2>2, <2>3 DEF WriterHolds
<1>6. WrittenUnlessFailed'
  BY <1>1, <1>2 DEF RelayInv, WrittenUnlessFailed
<1>7. Closes'
  BY <1>1 DEF RelayInv, Closes, Relayed!CloseIsClean
<1> QED
  BY <1>2, <1>4, <1>5, <1>6, <1>7 DEF RelayInv, Writes

LEMMA UpFailsKeeps == RelayInv /\ Relayed!UpFails => RelayInv'
<1> SUFFICES ASSUME RelayInv, Relayed!UpFails PROVE RelayInv'
  OBVIOUS
<1>0. /\ holder = "client" /\ "client" \notin Resends /\ "nobody" \notin Resends
      /\ written \in [Relayed!Writers -> 0..1] /\ Relayed!TypeOK /\ Closes
      /\ (Relayed!Shut => closing)
  BY ResendsAssumption
     DEF RelayInv, Writes, WriterHolds, Relayed!UpFails, Relayed!TypeOK, Closes, Relayed!Shut
<1>1. /\ UNCHANGED <<downward, control, number, sentOn, resendPhase, err, fired, acked,
                     resending, closing, closeStage>>
      /\ upward' = "ended" /\ holder' = "nobody"
      /\ written' = [written EXCEPT !["client"] = 0]
  BY <1>0 DEF Relayed!UpFails, Relayed!resend, Relayed!Released, Relayed!Nobody, Relayed!Client
<1>2. /\ wanted' \in BOOLEAN /\ broken' \in BOOLEAN
      /\ outcome' \in {"none", "completed", "aborted", "failed"}
      /\ outcome' = "failed" => broken'
  <2>1. PICK error \in {"closed", "broken"} :
            Relayed!Ended(error) /\ (error = "closed" => closing)
    BY <1>0 DEF Relayed!UpFails
  <2> QED
    BY <1>0, <2>1, EndKeeps
<1>3. /\ written' \in [Relayed!Writers -> 0..1]
      /\ \A w \in Relayed!Writers : written'[w] # 1
  <2>1. written' \in [Relayed!Writers -> 0..1]
    <3>1. 0 \in 0..1
      OBVIOUS
    <3> QED
      BY <1>0, <1>1, <3>1, Zenon
  <2>2. ASSUME NEW w \in Relayed!Writers, w # "client" PROVE written[w] # 1
    BY <1>0, <2>2 DEF RelayInv, Writes, WriterHolds
  <2> QED
    BY <1>0, <1>1, <2>1, <2>2
<1>4. Relayed!TypeOK'
  BY <1>0, <1>1, <1>2, <1>3 DEF Relayed!TypeOK, Relayed!Nobody
<1>5. WriterHolds'
  <2>1. ASSUME NEW r \in Resends PROVE resendPhase'[r] # "writing" /\ holder' # r
    BY <1>0, <1>1 DEF RelayInv, Writes, WriterHolds
  <2> QED
    BY <1>1, <1>3, <2>1 DEF WriterHolds
<1>6. Writes'
  BY <1>1, <1>5 DEF RelayInv, Writes, Relayed!MessagesWhole
<1>7. Closes'
  BY <1>0, <1>1, <1>2 DEF Closes, Relayed!CloseIsClean
<1> QED
  BY <1>1, <1>4, <1>6, <1>7, ResendsKept DEF RelayInv

\* The steps of a resend that write nothing.
LEMMA ResendWaits ==
    ASSUME RelayInv, NEW r \in Resends,
           \/ Relayed!ResendArrives(r) \/ Relayed!ResendChecks(r)
           \/ Relayed!ResendReplies(r) \/ Relayed!ResendStops(r) \/ Relayed!TimerFires(r)
    PROVE  RelayInv'
<1> USE DEF Relayed!ResendArrives, Relayed!ResendChecks, Relayed!ResendReplies,
        Relayed!ResendStops, Relayed!TimerFires
<1>0. Relayed!TypeOK
  BY DEF RelayInv
<1>1. UNCHANGED <<upward, downward, control, number, sentOn, holder, written, closing,
                  closeStage, outcome, broken>>
  BY DEF Relayed!relays, Relayed!sender
<1>2. wanted' \in BOOLEAN /\ resending' \in BOOLEAN
  BY <1>0 DEF Relayed!TypeOK
<1>3. /\ err' \in [Resends -> BOOLEAN] /\ fired' \in [Resends -> BOOLEAN]
      /\ resendPhase' \in [Resends -> {"idle", "waiting", "writing", "checking", "replying",
                                       "stopping", "done"}]
      /\ acked' \in [Resends -> {"no", "ok", "error"}]
  BY <1>0 DEF Relayed!TypeOK
<1>4. Relayed!TypeOK'
  BY <1>0, <1>1, <1>2, <1>3 DEF Relayed!TypeOK
<1>5. WritesNothing
  BY <1>0, <1>1 DEF WritesNothing, Relayed!TypeOK
<1>6. WrittenUnlessFailed'
  <2> SUFFICES ASSUME NEW q \in Resends
               PROVE  /\ resendPhase'[q] \in {"checking", "replying"} /\ ~err'[q] => Sent(q)
                      /\ acked'[q] = "ok" => Sent(q)
    BY <1>1 DEF WrittenUnlessFailed, Sent
  <2>1. /\ resendPhase[q] \in {"checking", "replying"} /\ ~err[q] => Sent(q)
        /\ acked[q] = "ok" => Sent(q)
    BY DEF RelayInv, WrittenUnlessFailed
  <2>2. resendPhase'[q] \in {"checking", "replying"} /\ ~err'[q]
            => resendPhase[q] \in {"checking", "replying"} /\ ~err[q]
    BY <1>0 DEF Relayed!TypeOK
  <2>3. acked'[q] = "ok" =>
            acked[q] = "ok" \/ (resendPhase[q] = "replying" /\ ~err[q])
    BY <1>0 DEF Relayed!TypeOK
  <2> QED
    BY <2>1, <2>2, <2>3
<1>7. Closes'
  BY <1>1 DEF RelayInv, Closes, Relayed!CloseIsClean
<1> QED
  BY <1>4, <1>5, <1>6, <1>7, WritesKept DEF RelayInv

LEMMA ResendLocksKeeps ==
    ASSUME RelayInv, NEW r \in Resends, Relayed!ResendLocks(r) PROVE RelayInv'
<1>0. Relayed!TypeOK /\ r # "nobody" /\ r # "client" /\ r \in Relayed!Writers
  BY ResendsAssumption DEF RelayInv, Relayed!Writers
<1>1. /\ UNCHANGED <<upward, downward, control, number, sentOn, written, fired, acked,
                     resending, closing, closeStage, wanted, outcome, broken>>
      /\ holder = "nobody" /\ resendPhase[r] = "waiting"
  BY DEF Relayed!ResendLocks, Relayed!relays, Relayed!Nobody
<1>2. /\ upward # "writing" /\ \A q \in Resends : resendPhase[q] # "writing"
      /\ \A w \in Relayed!Writers : written[w] # 1
  BY <1>1, Unheld DEF RelayInv
<1>3. CASE closing
  <2>1. /\ resendPhase' = [resendPhase EXCEPT ![r] = "checking"]
        /\ err' = [err EXCEPT ![r] = TRUE] /\ holder' = holder
    BY <1>3 DEF Relayed!ResendLocks
  <2>2. Relayed!TypeOK'
    BY <1>0, <1>1, <2>1 DEF Relayed!TypeOK
  <2>3. WritesNothing
    BY <1>0, <1>1, <1>2, <2>1 DEF WritesNothing, Relayed!TypeOK
  <2>4. WrittenUnlessFailed'
    BY <1>0, <1>1, <2>1 DEF RelayInv, WrittenUnlessFailed, Sent, Relayed!TypeOK
  <2> QED
    BY <1>1, <2>2, <2>3, <2>4, WritesKept DEF RelayInv, Closes, Relayed!CloseIsClean
<1>4. CASE ~closing
  <2>1. /\ resendPhase' = [resendPhase EXCEPT ![r] = "writing"]
        /\ err' = err /\ holder' = r
    BY <1>4 DEF Relayed!ResendLocks
  <2>2. Relayed!TypeOK'
    BY <1>0, <1>1, <2>1 DEF Relayed!TypeOK
  <2>3. Writes'
    <3>1. WriterHolds'
      BY <1>0, <1>1, <1>2, <2>1 DEF WriterHolds, Relayed!TypeOK
    <3> QED
      BY <1>1, <3>1 DEF RelayInv, Writes, Relayed!MessagesWhole
  <2>4. WrittenUnlessFailed'
    BY <1>0, <1>1, <2>1 DEF RelayInv, WrittenUnlessFailed, Sent, Relayed!TypeOK
  <2> QED
    BY <1>1, <2>2, <2>3, <2>4 DEF RelayInv, Closes, Relayed!CloseIsClean
<1> QED
  BY <1>3, <1>4

LEMMA ResendWritesKeeps ==
    ASSUME RelayInv, NEW r \in Resends, Relayed!ResendWrites(r) PROVE RelayInv'
<1>0. /\ Relayed!TypeOK /\ r # "nobody" /\ r # "client" /\ r \in Relayed!Writers
      /\ "nobody" \notin Resends /\ written[r] \in {0, 1}
      /\ holder = r /\ Relayed!WritesOn(r) /\ resendPhase[r] = "writing"
  BY ResendsAssumption
     DEF RelayInv, Relayed!Writers, Writes, WriterHolds, Relayed!ResendWrites, Relayed!TypeOK
<1>1. /\ UNCHANGED <<upward, downward, control, number, err, fired, acked, resending, closing,
                     closeStage, wanted, outcome, broken>>
      /\ resendPhase' = [resendPhase EXCEPT ![r] =
                             IF written[r] = 1 THEN "checking" ELSE "writing"]
  BY DEF Relayed!ResendWrites, Relayed!relays, Relayed!Last
<1>2. /\ sentOn' \in Seq([from : Relayed!Writers, part : 1..2])
      /\ Relayed!MessagesWhole'
      /\ written' \in [Relayed!Writers -> 0..1]
      /\ written[r] = 0 => UNCHANGED holder /\ LastIs([from |-> r, part |-> 1])'
      /\ written[r] = 1 => holder' = "nobody" /\ LastIs([from |-> r, part |-> 2])'
      /\ \A w \in Relayed!Writers : written'[w] = 1 => w = r /\ written[r] = 0
      /\ \A q \in Resends : Sent(q) => Sent(q)'
  BY <1>0, WriteKeepsWhole
<1>3. Relayed!TypeOK'
  BY <1>0, <1>1, <1>2 DEF Relayed!TypeOK, Relayed!Nobody
<1>4. WriterHolds'
  <2>1. upward' # "writing" /\ holder' # "client"
    BY <1>0, <1>1, <1>2 DEF RelayInv, Writes, WriterHolds
  <2>2. ASSUME NEW q \in Resends PROVE (resendPhase[q] = "writing" <=> holder = q)'
    <3>1. resendPhase[q] = "writing" <=> q = r
      BY <1>0 DEF RelayInv, Writes, WriterHolds
    <3> QED
      BY <1>0, <1>1, <1>2, <3>1 DEF Relayed!TypeOK
  <2>3. ASSUME NEW w \in Relayed!Writers, written'[w] = 1
        PROVE  holder' = w /\ LastIs([from |-> w, part |-> 1])'
    BY <1>0, <1>2, <2>3
  <2> QED
    BY <2>1, <2>2, <2>3 DEF WriterHolds
<1>5. WrittenUnlessFailed'
  <2>1. written[r] = 1 => Sent(r)'
    <3> SUFFICES ASSUME written[r] = 1 PROVE Sent(r)'
      OBVIOUS
    <3>1. sentOn' # <<>> /\ sentOn'[Len(sentOn')] = [from |-> r, part |-> 2]
      BY <1>2 DEF LastIs
    <3>2. Len(sentOn') \in 1..Len(sentOn')
      BY <1>2, <3>1
    <3> QED
      BY <3>1, <3>2 DEF Sent
  <2> QED
    BY <1>0, <1>1, <1>2, <2>1 DEF RelayInv, WrittenUnlessFailed, Relayed!TypeOK
<1>6. Closes'
  BY <1>1 DEF RelayInv, Closes, Relayed!CloseIsClean
<1> QED
  BY <1>2, <1>3, <1>4, <1>5, <1>6 DEF RelayInv, Writes

LEMMA ResendFailsKeeps ==
    ASSUME RelayInv, NEW r \in Resends, Relayed!ResendFails(r) PROVE RelayInv'
<1>0. /\ Relayed!TypeOK /\ r # "nobody" /\ r # "client" /\ r \in Relayed!Writers
      /\ "nobody" \notin Resends /\ written \in [Relayed!Writers -> 0..1] /\ holder = r
  BY ResendsAssumption
     DEF RelayInv, Relayed!Writers, Writes, WriterHolds, Relayed!ResendFails, Relayed!TypeOK
<1>1. /\ UNCHANGED <<upward, downward, control, number, sentOn, fired, acked, resending,
                     closing, closeStage, wanted, outcome, broken>>
      /\ resendPhase' = [resendPhase EXCEPT ![r] = "checking"]
      /\ err' = [err EXCEPT ![r] = TRUE]
      /\ holder' = "nobody" /\ written' = [written EXCEPT ![r] = 0]
  BY <1>0 DEF Relayed!ResendFails, Relayed!relays, Relayed!Released, Relayed!Nobody
<1>2. /\ written' \in [Relayed!Writers -> 0..1]
      /\ \A w \in Relayed!Writers : written'[w] # 1
  <2>1. written' \in [Relayed!Writers -> 0..1]
    <3>1. 0 \in 0..1
      OBVIOUS
    <3> QED
      BY <1>0, <1>1, <3>1, Zenon
  <2>2. ASSUME NEW w \in Relayed!Writers, w # r PROVE written[w] # 1
    BY <1>0, <2>2 DEF RelayInv, Writes, WriterHolds
  <2> QED
    BY <1>0, <1>1, <2>1, <2>2
<1>3. Relayed!TypeOK'
  BY <1>0, <1>1, <1>2 DEF Relayed!TypeOK, Relayed!Nobody
<1>4. WriterHolds'
  <2>1. upward' # "writing" /\ holder' # "client"
    BY <1>0, <1>1 DEF RelayInv, Writes, WriterHolds
  <2>2. ASSUME NEW q \in Resends PROVE resendPhase'[q] # "writing" /\ holder' # q
    <3>1. resendPhase[q] = "writing" <=> q = r
      BY <1>0 DEF RelayInv, Writes, WriterHolds
    <3> QED
      BY <1>0, <1>1, <3>1 DEF Relayed!TypeOK
  <2> QED
    BY <1>2, <2>1, <2>2 DEF WriterHolds
<1>5. Writes'
  BY <1>1, <1>4 DEF RelayInv, Writes, Relayed!MessagesWhole
<1>6. WrittenUnlessFailed'
  BY <1>0, <1>1 DEF RelayInv, WrittenUnlessFailed, Sent, Relayed!TypeOK
<1>7. Closes'
  BY <1>1 DEF RelayInv, Closes, Relayed!CloseIsClean
<1> QED
  BY <1>3, <1>5, <1>6, <1>7 DEF RelayInv

LEMMA RelayKept == RelayInv /\ [Next]_vars => RelayInv'
<1> SUFFICES ASSUME RelayInv, [Next]_vars PROVE RelayInv'
  OBVIOUS
<1>1. CASE Relayed!Next
  BY <1>1, CloseKeeps, ReadsAndAsks, UpLocksKeeps, UpWritesKeeps, UpFailsKeeps,
     ResendWaits, ResendLocksKeeps, ResendWritesKeeps, ResendFailsKeeps
     DEF Relayed!Next
<1>2. CASE UNCHANGED relayVars
  BY <1>2, RelayStutters
<1> QED
  BY <1>1, <1>2 DEF Next, vars

\* The server of a WebSocket sees whole messages, and those that a resend reported as sent;
\* the WebSocket is reported as failed only if an end failed (sendWebSocket, transfer).
THEOREM ResendsAreWhole == FairSpec => []MessagesArrive
<1>1. RelayInv => MessagesArrive
  BY DEF RelayInv, Writes, Closes, WrittenUnlessFailed, Sent, MessagesArrive,
     Relayed!AckedIsWritten
<1> QED
  BY <1>1, RelayInitial, RelayKept, PTL DEF FairSpec

-----------------------------------------------------------------------------
(* The engine. *)

LEMMA RuntimeInitial == Init => RuntimeInv
<1> SUFFICES ASSUME Init PROVE RuntimeInv
  OBVIOUS
<1>1. Runtime!Init
  BY DEF Init
<1>2. {cancelled, ready, accepting} \subseteq BOOLEAN
  BY <1>1 DEF Runtime!Init
<1>3. Runtime!TypeOK
  BY <1>1, <1>2 DEF Runtime!Init, Runtime!TypeOK
<1> QED
  BY <1>1, <1>3 DEF Runtime!Init, RuntimeInv, AllClosed

LEMMA RuntimeStutters == RuntimeInv /\ UNCHANGED engineVars => RuntimeInv'
  BY DEF engineVars, RuntimeInv, Runtime!TypeOK, AllClosed, Runtime!Counted

\* The steps of the engine itself.
LEMMA LifeKeeps ==
    ASSUME RuntimeInv,
           \/ Runtime!Start \/ Runtime!Cancel \/ Runtime!LoopEnds \/ Runtime!LoopReturns
           \/ Runtime!AwaitFlows \/ Runtime!CloseResources \/ Runtime!AcceptEnds
           \/ \E tagged \in SUBSET Dials : Runtime!RemoveInlet(tagged)
    PROVE  RuntimeInv'
<1> USE DEF Runtime!Start, Runtime!Cancel, Runtime!LoopEnds, Runtime!LoopReturns,
        Runtime!AwaitFlows, Runtime!CloseResources, Runtime!AcceptEnds, Runtime!RemoveInlet
<1>0. Runtime!TypeOK
  BY DEF RuntimeInv
<1>1. {cancelled', ready', accepting'} \subseteq BOOLEAN
  BY <1>0 DEF Runtime!TypeOK
<1>2. UNCHANGED <<dial, flow, sides>>
  OBVIOUS
<1>3. /\ conn' \in [Dials -> {"none", "accepted", "registered", "offered", "serving",
                              "closed"}]
      /\ \A d \in Dials : conn'[d] = conn[d] \/ conn'[d] = "closed"
  BY <1>0 DEF Runtime!TypeOK, Runtime!CloseRegistered
<1>4. Runtime!TypeOK'
  BY <1>0, <1>1, <1>2, <1>3 DEF Runtime!TypeOK
<1>5. AllClosed => AllClosed'
  BY <1>3 DEF AllClosed
<1>6. Runtime!Counted' = Runtime!Counted
  BY <1>2 DEF Runtime!Counted
<1>7. /\ loop' = "starting" => ~accepting' /\ AllClosed'
      /\ loop' \in {"closing", "returned"} => cancelled'
  BY <1>5 DEF RuntimeInv
<1>8. loop' = "returned" => ~accepting' /\ AllClosed'
  <2> SUFFICES ASSUME loop' = "returned" PROVE ~accepting' /\ AllClosed'
    OBVIOUS
  <2>1. CASE Runtime!LoopReturns
    BY <2>1, <1>5 DEF AllClosed
  <2>2. CASE ~Runtime!LoopReturns
    <3>1. loop \in {"returned", "starting"} /\ (accepting' => accepting)
      BY <2>2, <1>0 DEF Runtime!TypeOK, RuntimeInv
    <3> QED
      BY <1>5, <3>1 DEF RuntimeInv
  <2> QED
    BY <2>1, <2>2
<1>9. shutdown' # "running" => loop' = "returned"
  BY <1>0 DEF RuntimeInv, Runtime!TypeOK
<1>10. shutdown' = "done" => Runtime!Counted' = {}
  BY <1>6 DEF RuntimeInv
<1> QED
  BY <1>4, <1>7, <1>8, <1>9, <1>10 DEF RuntimeInv

\* The steps of a dial and of the connection it makes.
LEMMA DialKeeps ==
    ASSUME RuntimeInv, NEW d \in Dials,
           \/ Runtime!Dial(d) \/ Runtime!DialGivesUp(d) \/ Runtime!DialOffers(d)
           \/ Runtime!DialAnswered(d) \/ Runtime!CallerCloses(d) \/ Runtime!Accept(d)
           \/ Runtime!Register(d) \/ Runtime!Prepare(d) \/ Runtime!HandOut(d)
           \/ Runtime!ServingEnds(d)
    PROVE  RuntimeInv'
<1> USE DEF Runtime!Dial, Runtime!DialGivesUp, Runtime!DialOffers, Runtime!DialAnswered,
        Runtime!CallerCloses, Runtime!Accept, Runtime!Register, Runtime!Prepare,
        Runtime!HandOut, Runtime!ServingEnds
<1>0. Runtime!TypeOK
  BY DEF RuntimeInv
<1>1. UNCHANGED <<cancelled, ready, loop, shutdown, accepting, flow, sides>>
  OBVIOUS
<1>2. dial' \in [Dials -> {"idle", "waiting", "offering", "reading", "open", "failed"}]
  BY <1>0 DEF Runtime!TypeOK
<1>3. conn' \in [Dials -> {"none", "accepted", "registered", "offered", "serving", "closed"}]
  BY <1>0 DEF Runtime!TypeOK
<1>4. Runtime!TypeOK'
  BY <1>0, <1>1, <1>2, <1>3 DEF Runtime!TypeOK
\* Without the accept loop nothing is accepted, and what is closed stays closed.
<1>5. ~accepting /\ AllClosed => AllClosed'
  BY <1>0 DEF AllClosed, Runtime!TypeOK, Runtime!Registered
<1>6. Runtime!Counted' = Runtime!Counted
  BY <1>1 DEF Runtime!Counted
<1> QED
  BY <1>1, <1>4, <1>5, <1>6 DEF RuntimeInv

\* The steps of a flow.
LEMMA FlowKeeps ==
    ASSUME RuntimeInv, NEW f \in Flows,
           \/ Runtime!FlowBegins(f) \/ Runtime!FlowAsks(f) \/ Runtime!FlowDecided(f)
           \/ Runtime!FlowEnds(f) \/ Runtime!RelayReturns(f)
           \/ \E side \in {"in", "out"} : Runtime!SideEnds(f, side)
    PROVE  RuntimeInv'
<1> USE DEF Runtime!FlowBegins, Runtime!FlowAsks, Runtime!FlowDecided, Runtime!FlowEnds,
        Runtime!RelayReturns, Runtime!SideEnds
<1>0. Runtime!TypeOK
  BY DEF RuntimeInv
<1>1. UNCHANGED <<cancelled, ready, loop, shutdown, accepting, dial, conn>>
  OBVIOUS
<1>2. flow' \in [Flows -> {"idle", "counted", "policy", "inspecting", "relaying", "ended"}]
  BY <1>0 DEF Runtime!TypeOK
<1>3. sides' \in [Flows -> SUBSET {"in", "out"}]
  BY <1>0 DEF Runtime!TypeOK
<1>4. \A g \in Flows : sides'[g] # {} => flow'[g] = "relaying"
  <2>1. \A g \in Flows : sides[g] # {} => flow[g] = "relaying"
    BY <1>0 DEF Runtime!TypeOK
  <2> SUFFICES ASSUME NEW g \in Flows, sides'[g] # {} PROVE flow'[g] = "relaying"
    OBVIOUS
  <2>2. CASE g # f
    <3>1. sides'[g] = sides[g] /\ flow'[g] = flow[g]
      BY <1>0, <2>2 DEF Runtime!TypeOK
    <3> QED
      BY <2>1, <3>1
  <2>3. CASE g = f
    BY <1>0, <2>1, <2>3 DEF Runtime!TypeOK
  <2> QED
    BY <2>2, <2>3
<1>5. Runtime!TypeOK'
  BY <1>0, <1>1, <1>2, <1>3, <1>4 DEF Runtime!TypeOK
\* Once nothing is counted and the context is done, nothing is counted any more.
<1>6. cancelled /\ Runtime!Counted = {} => Runtime!Counted' = {}
  <2> SUFFICES ASSUME cancelled, Runtime!Counted = {}, NEW g \in Flows
               PROVE  flow'[g] \notin {"counted", "policy", "inspecting", "relaying"}
    BY DEF Runtime!Counted
  <2>1. flow[g] \notin {"counted", "policy", "inspecting", "relaying"}
        /\ flow[f] \notin {"counted", "policy", "inspecting", "relaying"}
    BY DEF Runtime!Counted
  <2> QED
    BY <1>0, <2>1 DEF Runtime!TypeOK
<1>7. AllClosed' = AllClosed
  BY <1>1 DEF AllClosed
<1> QED
  BY <1>1, <1>5, <1>6, <1>7 DEF RuntimeInv

LEMMA RuntimeKept == RuntimeInv /\ [Next]_vars => RuntimeInv'
<1> SUFFICES ASSUME RuntimeInv, [Next]_vars PROVE RuntimeInv'
  OBVIOUS
<1>1. CASE Runtime!Next
  BY <1>1, LifeKeeps, DialKeeps, FlowKeeps DEF Runtime!Next
<1>2. CASE UNCHANGED engineVars
  BY <1>2, RuntimeStutters
<1> QED
  BY <1>1, <1>2 DEF Next, vars

\* Once the engine is done no connection is open and no flow runs, whatever was on its way
\* in when it was cancelled (NewEngine).
THEOREM NothingIsLeft == FairSpec => []NothingOutlivesTheEngine
<1>1. RuntimeInv => NothingOutlivesTheEngine
  BY DEF RuntimeInv, AllClosed, NothingOutlivesTheEngine, Runtime!NothingOutlivesTheEngine
<1> QED
  BY <1>1, RuntimeInitial, RuntimeKept, PTL DEF FairSpec

-----------------------------------------------------------------------------
(* Requests sent again. *)

\* What the queue of a connection holds.
Queued == ByWindow \cup ({"resume"} \X Composes)

LEMMA QueueMovesOn ==
    ASSUME commands \in Seq(Queued), commands # <<>>, commands' = Tail(commands)
    PROVE  commands' \in Seq(Queued)
  OBVIOUS

LEMMA ReplayInitial == Init => ReplayInv
<1> SUFFICES ASSUME Init PROVE ReplayInv
  OBVIOUS
<1>1. Replayed!Init
  BY DEF Init
<1>2. running \in BOOLEAN /\ commands \in Seq(Queued)
  BY <1>1 DEF Replayed!Init
<1>3. Replayed!TypeOK
  BY <1>1, <1>2 DEF Replayed!Init, Replayed!TypeOK, Queued, Replayed!Stages, Replayed!Records,
     Replayed!None
<1> QED
  BY <1>1, <1>2, <1>3, ComposesAssumption
     DEF Replayed!Init, ReplayInv, FirstInLine, Replayed!ReplayIsWhole

LEMMA ReplayStutters == ReplayInv /\ UNCHANGED replayVars => ReplayInv'
  BY DEF replayVars, ReplayInv, Replayed!TypeOK, FirstInLine, Replayed!ReplayIsWhole

\* The steps that end no compose and begin none.
LEMMA RecordsChange ==
    ASSUME ReplayInv,
           \/ Replayed!SetRecording \/ Replayed!ClearRecords \/ Replayed!StopCapture
           \/ \E c \in Composes : Replayed!RecordEnds(c) \/ Replayed!RequestTimesOut(c)
    PROVE  ReplayInv'
<1> USE DEF Replayed!SetRecording, Replayed!ClearRecords, Replayed!StopCapture,
        Replayed!RecordEnds, Replayed!RequestTimesOut
<1>0. Replayed!TypeOK
  BY DEF ReplayInv
<1>1. UNCHANGED <<commands, stage, result, composed>> /\ running' \in BOOLEAN
  BY DEF ReplayInv
<1>2. record' \in [Composes -> Replayed!Records]
  BY <1>0 DEF Replayed!TypeOK, Replayed!Records, Replayed!None
<1>3. Replayed!TypeOK'
  BY <1>0, <1>1, <1>2 DEF Replayed!TypeOK
<1>4. ASSUME NEW c \in Composes, stage[c] = "done", record[c] \in {"completed", "failed", "none"}
      PROVE  record'[c] \in {record[c], "none"}
  BY <1>0, <1>4 DEF Replayed!TypeOK, Replayed!Records, Replayed!None
<1>5. Replayed!ReplayIsWhole'
  BY ZenonT(40), <1>1, <1>4 DEF ReplayInv, Replayed!ReplayIsWhole, Replayed!None
<1> QED
  BY <1>1, <1>3, <1>5 DEF ReplayInv, FirstInLine

LEMMA QueueChanges ==
    ASSUME ReplayInv, NEW c \in Composes,
           Replayed!ComposeRequested(c) \/ Replayed!ClickContinue(c) \/ Replayed!ServeResume(c)
           \/ Replayed!SendRequest(c)
    PROVE  ReplayInv'
<1> USE DEF Replayed!ComposeRequested, Replayed!ClickContinue, Replayed!ServeResume,
        Replayed!SendRequest
<1>0. Replayed!TypeOK /\ commands \in Seq(Queued)
  BY DEF ReplayInv, Replayed!TypeOK, Queued
<1>1. UNCHANGED <<result, composed, running>>
  OBVIOUS
<1>2. /\ stage' \in [Composes -> Replayed!Stages]
      /\ record' \in [Composes -> Replayed!Records]
  BY <1>0 DEF Replayed!TypeOK, Replayed!Stages, Replayed!Records, Replayed!None
<1>3. /\ commands' \in Seq(Queued)
      /\ \A w \in ByWindow : commands # <<>> /\ Head(commands) = w
             => commands' # <<>> /\ Head(commands') = w
  <2>1. CASE commands' = commands
    BY <1>0, <2>1
  <2>2. CASE \E e \in Queued : commands' = Append(commands, e)
    BY <1>0, <2>2
  <2>3. CASE Replayed!ServeResume(c)
    <3>1. commands' \in Seq(Queued)
      BY <1>0, <2>3
    <3>2. <<"resume", c>> \notin ByWindow
      BY ComposesAssumption
    <3> QED
      BY <2>3, <3>1, <3>2
  <2>4. CASE Replayed!ComposeRequested(c)
    BY <2>1, <2>2, <2>4 DEF Queued
  <2>5. CASE Replayed!ClickContinue(c)
    BY <2>2, <2>5 DEF Queued
  <2> QED
    BY <2>1, <2>3, <2>4, <2>5
<1>4. Replayed!TypeOK'
  BY <1>0, <1>1, <1>2, <1>3 DEF Replayed!TypeOK, Queued
<1>5. ASSUME NEW b \in Composes
      PROVE  /\ stage'[b] \in {"dialled", "awaiting"} <=> stage[b] \in {"dialled", "awaiting"}
             /\ stage'[b] = "done" => stage[b] = "done"
                                      /\ (record[b] \in {"completed", "failed", "none"}
                                              => record'[b] = record[b])
  BY <1>0 DEF Replayed!TypeOK
<1>6. FirstInLine'
  BY <1>3, <1>5, ComposesAssumption DEF ReplayInv, FirstInLine
<1>7. Replayed!ReplayIsWhole'
  BY <1>1, <1>5 DEF ReplayInv, Replayed!ReplayIsWhole, Replayed!None
<1> QED
  BY <1>1, <1>4, <1>6, <1>7 DEF ReplayInv

\* The compose that is first in the queue, or none of the window's, begins.
LEMMA BeginsKeeps ==
    ASSUME ReplayInv, NEW c \in Composes, Replayed!BeginCompose(c) PROVE ReplayInv'
<1>0. Replayed!TypeOK /\ commands \in Seq(Queued) /\ running \in BOOLEAN
  BY DEF ReplayInv, Replayed!TypeOK, Queued
<1>1. /\ stage[c] = "queued" /\ UNCHANGED <<record, running>>
      /\ c \in ByWindow => commands # <<>> /\ Head(commands) = c
  BY DEF Replayed!BeginCompose
<1>2. CASE running
  <2>1. /\ stage' = [stage EXCEPT ![c] = "dialled"] /\ result' = [result EXCEPT ![c] = "none"]
        /\ composed' = composed \cup {c} /\ commands' = commands
    BY <1>2 DEF Replayed!BeginCompose, Replayed!None
  <2>2. Replayed!TypeOK'
    BY <1>0, <1>1, <2>1 DEF Replayed!TypeOK, Replayed!Stages, Replayed!None
  <2>3. FirstInLine'
    BY <1>0, <1>1, <2>1, ComposesAssumption DEF ReplayInv, FirstInLine, Replayed!TypeOK
  <2>4. Replayed!ReplayIsWhole'
    BY <1>0, <1>1, <2>1 DEF ReplayInv, Replayed!ReplayIsWhole, Replayed!TypeOK
  <2> QED
    BY <1>0, <1>1, <2>2, <2>3, <2>4 DEF ReplayInv
<1>3. CASE ~running
  <2>1. /\ stage' = [stage EXCEPT ![c] = "done"] /\ result' = [result EXCEPT ![c] = "refused"]
        /\ composed' = composed
        /\ commands' = IF c \in ByWindow THEN Tail(commands) ELSE commands
    BY <1>3 DEF Replayed!BeginCompose
  <2>2. commands' \in Seq(Queued)
    BY <1>0, <1>1, <2>1, QueueMovesOn
  <2>3. Replayed!TypeOK'
    BY <1>0, <1>1, <2>1, <2>2 DEF Replayed!TypeOK, Replayed!Stages, Queued
  <2>4. FirstInLine'
    BY <1>0, <1>1, <2>1, ComposesAssumption DEF ReplayInv, FirstInLine, Replayed!TypeOK
  <2>5. Replayed!ReplayIsWhole'
    BY <1>0, <1>1, <2>1 DEF ReplayInv, Replayed!ReplayIsWhole, Replayed!TypeOK
  <2> QED
    BY <1>0, <1>1, <2>3, <2>4, <2>5 DEF ReplayInv
<1> QED
  BY <1>2, <1>3

LEMMA ReturnsKeeps ==
    ASSUME ReplayInv, NEW c \in Composes,
           Replayed!ConnectRefused(c) \/ Replayed!Found(c) \/ Replayed!FoundTimesOut(c)
    PROVE  ReplayInv'
<1> DEFINE Value == {"refused", "completed", "failed", "timed out"}
<1>0. Replayed!TypeOK /\ commands \in Seq(Queued) /\ running \in BOOLEAN
  BY DEF ReplayInv, Replayed!TypeOK, Queued
<1>1. /\ stage[c] \in {"dialled", "awaiting"} /\ UNCHANGED running
      /\ \A b \in Composes \ {c} : record'[b] = record[b]
      /\ record' \in [Composes -> Replayed!Records]
  BY <1>0 DEF Replayed!ConnectRefused, Replayed!Found, Replayed!FoundTimesOut,
     Replayed!TypeOK, Replayed!Records, Replayed!None
<1>2. PICK value \in Value :
          /\ Replayed!Return(c, value)
          /\ value \in {"completed", "failed"} => record'[c] = value
  BY <1>0 DEF Replayed!ConnectRefused, Replayed!Found, Replayed!FoundTimesOut, Replayed!Over,
     Replayed!TypeOK
<1>3. /\ stage' = [stage EXCEPT ![c] = "done"] /\ result' = [result EXCEPT ![c] = value]
      /\ composed' = composed \ {c}
      /\ commands' = IF c \in ByWindow THEN Tail(commands) ELSE commands
  BY <1>2 DEF Replayed!Return
<1>4. c \in ByWindow => commands # <<>> /\ Head(commands) = c
  BY <1>1 DEF ReplayInv, FirstInLine
<1>5. commands' \in Seq(Queued)
  BY <1>0, <1>3, <1>4, QueueMovesOn
<1>6. Replayed!TypeOK'
  BY <1>0, <1>1, <1>3, <1>5 DEF Replayed!TypeOK, Replayed!Stages, Queued
<1>7. FirstInLine'
  BY <1>0, <1>3, <1>4, ComposesAssumption DEF ReplayInv, FirstInLine, Replayed!TypeOK
<1>8. Replayed!ReplayIsWhole'
  BY <1>0, <1>1, <1>2, <1>3 DEF ReplayInv, Replayed!ReplayIsWhole, Replayed!TypeOK
<1> QED
  BY <1>0, <1>1, <1>6, <1>7, <1>8 DEF ReplayInv

LEMMA ReplayKept == ReplayInv /\ [Next]_vars => ReplayInv'
<1> SUFFICES ASSUME ReplayInv, [Next]_vars PROVE ReplayInv'
  OBVIOUS
<1>1. CASE Replayed!Next
  BY <1>1, RecordsChange, QueueChanges, BeginsKeeps, ReturnsKeeps DEF Replayed!Next
<1>2. CASE UNCHANGED replayVars
  BY <1>2, ReplayStutters
<1> QED
  BY <1>1, <1>2 DEF Next, vars

\* A replay returns the record of its own exchange, and its port is inspected exactly as
\* long as it lasts (Engine.compose).
THEOREM ReplaysAreWhole == FairSpec => []ReplayIsWhole
<1>1. ReplayInv => ReplayIsWhole
  BY DEF ReplayInv, ReplayIsWhole
<1> QED
  BY <1>1, ReplayInitial, ReplayKept, PTL DEF FairSpec

-----------------------------------------------------------------------------
(* How many of the messages of a pipe are of some kind. *)

Places(pipeline, kind) == {i \in 1..Len(pipeline) : pipeline[i] \in kind}
Count(pipeline, kind) == Cardinality(Places(pipeline, kind))
One(m, kind) == IF m \in kind THEN 1 ELSE 0

LEMMA PlacesFinite ==
    ASSUME NEW S, NEW q \in Seq(S), NEW kind
    PROVE  IsFiniteSet(Places(q, kind)) /\ Count(q, kind) \in Nat
<1>1. IsFiniteSet(1..Len(q))
  BY FS_Interval
<1>2. IsFiniteSet(Places(q, kind))
  BY <1>1, FS_Subset DEF Places
<1> QED
  BY <1>2, FS_CardinalityType DEF Count

LEMMA CountOfNothing ==
    ASSUME NEW kind
    PROVE  Count(<<>>, kind) = 0
<1>1. Places(<<>>, kind) = {}
  BY DEF Places
<1> QED
  BY <1>1, FS_EmptySet DEF Count

LEMMA CountIsPositive ==
    ASSUME NEW S, NEW q \in Seq(S), NEW kind, NEW i \in 1..Len(q), q[i] \in kind
    PROVE  Count(q, kind) >= 1
<1>1. IsFiniteSet(Places(q, kind)) /\ Count(q, kind) \in Nat
  BY PlacesFinite
<1>2. Places(q, kind) # {}
  BY DEF Places
<1>3. Count(q, kind) # 0
  BY <1>1, <1>2, FS_EmptySet DEF Count
<1> QED
  BY <1>1, <1>3

LEMMA CountOfNone ==
    ASSUME NEW S, NEW q \in Seq(S), NEW kind, \A i \in 1..Len(q) : q[i] \notin kind
    PROVE  Count(q, kind) = 0
<1>1. Places(q, kind) = {}
  BY DEF Places
<1> QED
  BY <1>1, FS_EmptySet DEF Count

LEMMA CountAppended ==
    ASSUME NEW S, NEW q \in Seq(S), NEW m \in S, NEW kind
    PROVE  /\ Append(q, m) \in Seq(S)
           /\ Count(Append(q, m), kind) = Count(q, kind) + One(m, kind)
<1>1. /\ Append(q, m) \in Seq(S) /\ Len(Append(q, m)) = Len(q) + 1 /\ Len(q) \in Nat
      /\ Append(q, m)[Len(q) + 1] = m
      /\ \A i \in 1..Len(q) : Append(q, m)[i] = q[i]
  OBVIOUS
<1>2. IsFiniteSet(Places(q, kind)) /\ Count(q, kind) \in Nat
  BY PlacesFinite
<1>3. Len(q) + 1 \notin Places(q, kind)
  BY <1>1 DEF Places
<1>4. CASE m \in kind
  <2>1. Places(Append(q, m), kind) = Places(q, kind) \cup {Len(q) + 1}
    BY <1>1, <1>4 DEF Places
  <2> QED
    BY <1>1, <1>2, <1>3, <1>4, <2>1, FS_AddElement DEF Count, One
<1>5. CASE m \notin kind
  <2>1. Places(Append(q, m), kind) = Places(q, kind)
    BY <1>1, <1>5 DEF Places
  <2> QED
    BY <1>1, <1>2, <1>5, <2>1 DEF Count, One
<1> QED
  BY <1>4, <1>5

LEMMA CountTaken ==
    ASSUME NEW S, NEW q \in Seq(S), q # <<>>, NEW kind
    PROVE  /\ Tail(q) \in Seq(S) /\ Head(q) \in S
           /\ Count(Tail(q), kind) = Count(q, kind) - One(Head(q), kind)
<1>1. /\ Tail(q) \in Seq(S) /\ Head(q) \in S /\ Head(q) = q[1]
      /\ Len(q) \in Nat \ {0} /\ Len(Tail(q)) = Len(q) - 1
      /\ \A i \in 1..(Len(q) - 1) : Tail(q)[i] = q[i + 1]
  OBVIOUS
<1> DEFINE Rest == Places(q, kind) \ {1}
           shift == [i \in Rest |-> i - 1]
<1>2. IsFiniteSet(Places(q, kind)) /\ IsFiniteSet(Rest)
  BY PlacesFinite, FS_Subset
<1>3. shift \in Bijection(Rest, Places(Tail(q), kind))
  <2>1. \A i \in Rest : i \in 2..Len(q) /\ q[i] \in kind
    BY <1>1 DEF Places
  <2>2. \A i \in Rest : i - 1 \in Places(Tail(q), kind)
    BY <1>1, <2>1 DEF Places
  <2>3. shift \in [Rest -> Places(Tail(q), kind)]
    BY <2>2
  <2>4. \A i, j \in Rest : shift[i] = shift[j] => i = j
    BY <2>1
  <2>5. ASSUME NEW j \in Places(Tail(q), kind) PROVE \E i \in Rest : shift[i] = j
    <3>1. j \in 1..(Len(q) - 1) /\ q[j + 1] \in kind
      BY <1>1 DEF Places
    <3>2. j + 1 \in Rest
      BY <1>1, <3>1 DEF Places
    <3> QED
      BY <3>1, <3>2
  <2> HIDE DEF Rest, shift
  <2>6. shift \in Injection(Rest, Places(Tail(q), kind))
    BY <2>3, <2>4 DEF Injection, IsInjective
  <2>7. shift \in Surjection(Rest, Places(Tail(q), kind))
    BY <2>3, <2>5 DEF Surjection
  <2> QED
    BY <2>6, <2>7 DEF Bijection
<1>4. Cardinality(Rest) = Count(Tail(q), kind) /\ Cardinality(Rest) \in Nat
  BY <1>2, <1>3, FS_Bijection, FS_CardinalityType, PlacesFinite DEF Count, ExistsBijection
<1>5. CASE Head(q) \in kind
  <2>1. Places(q, kind) = Rest \cup {1} /\ 1 \notin Rest
    BY <1>1, <1>5 DEF Places
  <2> HIDE DEF Rest
  <2>2. Cardinality(Rest \cup {1}) = Cardinality(Rest) + 1
    BY <1>2, <2>1, FS_AddElement
  <2> QED
    BY <1>1, <1>4, <1>5, <2>1, <2>2 DEF Count, One
<1>6. CASE Head(q) \notin kind
  <2>1. Places(q, kind) = Rest
    BY <1>1, <1>6 DEF Places
  <2> HIDE DEF Rest
  <2> QED
    BY <1>1, <1>4, <1>6, <2>1 DEF Count, One
<1> QED
  BY <1>1, <1>5, <1>6

-----------------------------------------------------------------------------
(* The tunnel.  A stream has one token, which is a frame on its way, in the *)
(* reader's channel or in the handler's hand, or its credit on the way      *)
(* back; so nothing is overwritten, what is sent is what arrived and what   *)
(* is still coming, and what arrives after the last chunk is the end.       *)

Of(types) == [type : types, n : Nat]
ToCore == Of({"inspect", "chunk", "end", "credit"})
ToNode == Of({"connect", "chunk", "credit", "closed"})

ChunksIn == Count(toCore, Of({"chunk"}))
EndsIn == Count(toCore, Of({"end"}))
CreditsIn == Count(toCore, Of({"credit"}))
ChunksOut == Count(toNode, Of({"chunk"}))
CreditsOut == Count(toNode, Of({"credit"}))
Connects == Count(toNode, Of({"connect"}))

\* Frames that the core has taken off the pipe and not consumed: in the handler's hand, and
\* in the reader's channel.
InHand(types) == IF handler = "holding" /\ held.type \in types THEN 1 ELSE 0
InSlot(types) == IF channel # <<>> /\ channel[1].type \in types THEN 1 ELSE 0
ChunksHeld == InHand({"chunk"}) + InSlot({"chunk"})
EndsHeld == InHand({"end"}) + InSlot({"end"})

\* The tokens of the stream out, and those of the stream in.
Down == ChunksIn + EndsIn + ChunksHeld + EndsHeld + CreditsOut
Up == ChunksOut + CreditsIn + (IF token THEN 1 ELSE 0)

TunnelTyped ==
    /\ toCore \in Seq(ToCore) /\ toNode \in Seq(ToNode)
    /\ handler \in {"created", "asking", "holding", "relaying", "gone"}
    /\ pipe \in {"idle", "reading", "waiting"}
    /\ registered \in BOOLEAN /\ answered \in BOOLEAN /\ over \in BOOLEAN /\ token \in BOOLEAN
    /\ inflight \in BOOLEAN /\ ending \in BOOLEAN /\ fatal \in BOOLEAN /\ lost \in BOOLEAN
    /\ channel \in Seq(Of({"chunk", "end"})) /\ Len(channel) <= 1
    /\ handler = "holding" => held \in Of({"chunk", "end"})
    /\ client \in {"open", "left"}
    /\ pending \in 0..Uploads /\ sent \in 0..(Downloads + 1) /\ copied \in 0..sent
    /\ up \in {"none", "connecting", "open", "ended", "closed"}
    /\ socket \in {"none", "open", "destroyed"}
    /\ up = "none" <=> socket = "none"
    /\ queue \in Seq(Of({"chunk"}))

\* The handler asks once, so there is one socket to the origin.
AskedOnce ==
    /\ Connects <= 1
    /\ handler = "created" \/ Connects = 1 => up = "none"
    /\ handler = "created" => Connects = 0 /\ ~registered

\* Each direction has one frame or credit under way, and none that its writer does not
\* wait for.
OneEach ==
    /\ Down <= 1 /\ (socket = "open" /\ ~inflight => Down = 0)
    /\ Up <= 1 /\ (pipe # "waiting" => Up = 0)
    /\ handler # "relaying" => pipe = "idle"

\* Nothing goes either way before the origin is there.
OriginFirst ==
    up \in {"none", "connecting"} =>
        /\ Down = 0 /\ Up = 0 /\ pipe = "idle" /\ handler \notin {"holding", "relaying"}
        /\ queue = <<>> /\ sent = 0 /\ copied = 0 /\ ~ending

\* While the session lasts nothing is lost on the way, and the end comes last.
NothingLost ==
    ~over =>
        /\ handler \notin {"created", "gone"} => registered
        /\ handler # "gone"
        /\ sent = copied + ChunksIn + ChunksHeld + Len(queue)
        /\ ended = Tunnelled!NotEnded
EndIsLast ==
    /\ ending => up \in {"ended", "closed"}
    /\ EndsIn + EndsHeld > 0 \/ ended.how = "end" =>
           queue = <<>> /\ up \in {"ended", "closed"}
    /\ ended.how = "end" => ended.n = sent

TunnelInv ==
    TunnelTyped /\ AskedOnce /\ OneEach /\ OriginFirst /\ NothingLost /\ EndIsLast
    /\ ~fatal /\ ~lost

\* What a step does to the counts of a pipe.
LEMMA CountsAreNumbers ==
    ASSUME TunnelTyped
    PROVE  /\ ChunksIn \in Nat /\ EndsIn \in Nat /\ CreditsIn \in Nat
           /\ ChunksOut \in Nat /\ CreditsOut \in Nat /\ Connects \in Nat
  BY PlacesFinite DEF TunnelTyped, ChunksIn, EndsIn, CreditsIn, ChunksOut, CreditsOut, Connects

LEMMA CountsStay ==
    /\ UNCHANGED toCore => UNCHANGED <<ChunksIn, EndsIn, CreditsIn>>
    /\ UNCHANGED toNode => UNCHANGED <<ChunksOut, CreditsOut, Connects>>
  BY DEF ChunksIn, EndsIn, CreditsIn, ChunksOut, CreditsOut, Connects, Count, Places

LEMMA MessageKinds ==
    ASSUME NEW m, NEW types, NEW kind, m \in Of(types)
    PROVE  One(m, Of({kind})) = IF m.type = kind THEN 1 ELSE 0
  BY DEF Of, One

LEMMA CoreIsSent ==
    ASSUME TunnelTyped, NEW m \in ToCore, toCore' = Append(toCore, m)
    PROVE  /\ toCore' \in Seq(ToCore)
           /\ ChunksIn' = ChunksIn + (IF m.type = "chunk" THEN 1 ELSE 0)
           /\ EndsIn' = EndsIn + (IF m.type = "end" THEN 1 ELSE 0)
           /\ CreditsIn' = CreditsIn + (IF m.type = "credit" THEN 1 ELSE 0)
<1>1. toCore \in Seq(ToCore)
  BY DEF TunnelTyped
<1>2. \A kind : One(m, Of({kind})) = IF m.type = kind THEN 1 ELSE 0
  BY MessageKinds DEF ToCore
<1>3. ASSUME NEW kind
      PROVE  /\ toCore' \in Seq(ToCore)
             /\ Count(toCore', Of({kind})) =
                    Count(toCore, Of({kind})) + (IF m.type = kind THEN 1 ELSE 0)
  <2>1. /\ toCore' \in Seq(ToCore)
        /\ Count(toCore', Of({kind})) = Count(toCore, Of({kind})) + One(m, Of({kind}))
    BY <1>1, CountAppended
  <2> QED
    BY <1>2, <2>1
<1> QED
  BY <1>3 DEF ChunksIn, EndsIn, CreditsIn

LEMMA NodeIsSent ==
    ASSUME TunnelTyped, NEW m \in ToNode, toNode' = Append(toNode, m)
    PROVE  /\ toNode' \in Seq(ToNode)
           /\ ChunksOut' = ChunksOut + (IF m.type = "chunk" THEN 1 ELSE 0)
           /\ CreditsOut' = CreditsOut + (IF m.type = "credit" THEN 1 ELSE 0)
           /\ Connects' = Connects + (IF m.type = "connect" THEN 1 ELSE 0)
<1>1. toNode \in Seq(ToNode)
  BY DEF TunnelTyped
<1>2. \A kind : One(m, Of({kind})) = IF m.type = kind THEN 1 ELSE 0
  BY MessageKinds DEF ToNode
<1>3. ASSUME NEW kind
      PROVE  /\ toNode' \in Seq(ToNode)
             /\ Count(toNode', Of({kind})) =
                    Count(toNode, Of({kind})) + (IF m.type = kind THEN 1 ELSE 0)
  <2>1. /\ toNode' \in Seq(ToNode)
        /\ Count(toNode', Of({kind})) = Count(toNode, Of({kind})) + One(m, Of({kind}))
    BY <1>1, CountAppended
  <2> QED
    BY <1>2, <2>1
<1> QED
  BY <1>3 DEF ChunksOut, CreditsOut, Connects

LEMMA CoreTakes ==
    ASSUME TunnelTyped, toCore # <<>>, toCore' = Tail(toCore)
    PROVE  /\ toCore' \in Seq(ToCore) /\ Head(toCore) \in ToCore
           /\ ChunksIn' = ChunksIn - (IF Head(toCore).type = "chunk" THEN 1 ELSE 0)
           /\ EndsIn' = EndsIn - (IF Head(toCore).type = "end" THEN 1 ELSE 0)
           /\ CreditsIn' = CreditsIn - (IF Head(toCore).type = "credit" THEN 1 ELSE 0)
           /\ ChunksIn' \in Nat /\ EndsIn' \in Nat /\ CreditsIn' \in Nat
<1>1. toCore \in Seq(ToCore)
  BY DEF TunnelTyped
<1>2. toCore' \in Seq(ToCore) /\ Head(toCore) \in ToCore
  BY <1>1, CountTaken
<1>3. \A kind : One(Head(toCore), Of({kind})) = IF Head(toCore).type = kind THEN 1 ELSE 0
  BY <1>2, MessageKinds DEF ToCore
<1>4. ASSUME NEW kind
      PROVE  Count(toCore', Of({kind})) =
                 Count(toCore, Of({kind})) - (IF Head(toCore).type = kind THEN 1 ELSE 0)
  <2>1. Count(toCore', Of({kind})) =
            Count(toCore, Of({kind})) - One(Head(toCore), Of({kind}))
    BY <1>1, CountTaken
  <2> QED
    BY <1>3, <2>1
<1>5. \A kind : Count(toCore', Of({kind})) \in Nat
  BY <1>2, PlacesFinite
<1> QED
  BY <1>2, <1>4, <1>5 DEF ChunksIn, EndsIn, CreditsIn

LEMMA NodeTakes ==
    ASSUME TunnelTyped, toNode # <<>>, toNode' = Tail(toNode)
    PROVE  /\ toNode' \in Seq(ToNode) /\ Head(toNode) \in ToNode
           /\ ChunksOut' = ChunksOut - (IF Head(toNode).type = "chunk" THEN 1 ELSE 0)
           /\ CreditsOut' = CreditsOut - (IF Head(toNode).type = "credit" THEN 1 ELSE 0)
           /\ Connects' = Connects - (IF Head(toNode).type = "connect" THEN 1 ELSE 0)
           /\ ChunksOut' \in Nat /\ CreditsOut' \in Nat /\ Connects' \in Nat
<1>1. toNode \in Seq(ToNode)
  BY DEF TunnelTyped
<1>2. toNode' \in Seq(ToNode) /\ Head(toNode) \in ToNode
  BY <1>1, CountTaken
<1>3. \A kind : One(Head(toNode), Of({kind})) = IF Head(toNode).type = kind THEN 1 ELSE 0
  BY <1>2, MessageKinds DEF ToNode
<1>4. ASSUME NEW kind
      PROVE  Count(toNode', Of({kind})) =
                 Count(toNode, Of({kind})) - (IF Head(toNode).type = kind THEN 1 ELSE 0)
  <2>1. Count(toNode', Of({kind})) =
            Count(toNode, Of({kind})) - One(Head(toNode), Of({kind}))
    BY <1>1, CountTaken
  <2> QED
    BY <1>3, <2>1
<1>5. \A kind : Count(toNode', Of({kind})) \in Nat
  BY <1>2, PlacesFinite
<1> QED
  BY <1>2, <1>4, <1>5 DEF ChunksOut, CreditsOut, Connects

\* session.finish: `closed' adds to none of the counts.
LEMMA FinishSends ==
    ASSUME TunnelTyped, Tunnelled!FinishWith(<<>>)
    PROVE  /\ toNode' \in Seq(ToNode) /\ over'
           /\ UNCHANGED <<ChunksOut, CreditsOut, Connects>>
<1>1. toNode \in Seq(ToNode)
  BY DEF TunnelTyped
<1>2. Tunnelled!Msg("closed") \in ToNode /\ Tunnelled!Msg("closed").type = "closed"
  BY DEF Tunnelled!Msg, ToNode, Of
<1>3. over' /\ (toNode' = toNode \/ toNode' = Append(toNode, Tunnelled!Msg("closed")))
  BY <1>1, <1>2 DEF Tunnelled!FinishWith
<1> QED
  BY <1>1, <1>2, <1>3, CountsStay, NodeIsSent, CountsAreNumbers

LEMMA HeldAreNumbers ==
    /\ ChunksHeld \in 0..2 /\ EndsHeld \in 0..2
    /\ (UNCHANGED <<handler, held, channel>>) => UNCHANGED <<ChunksHeld, EndsHeld>>
  BY DEF ChunksHeld, EndsHeld, InHand, InSlot

\* The invariant in the terms of one step: what is left to show of it is arithmetic.
LEMMA TunnelArithmetic ==
    ASSUME TunnelTyped
    PROVE  /\ ChunksIn \in Nat /\ EndsIn \in Nat /\ CreditsIn \in Nat
           /\ ChunksOut \in Nat /\ CreditsOut \in Nat /\ Connects \in Nat
           /\ ChunksHeld \in Nat /\ EndsHeld \in Nat
           /\ Down = ChunksIn + EndsIn + ChunksHeld + EndsHeld + CreditsOut
           /\ Up = ChunksOut + CreditsIn + (IF token THEN 1 ELSE 0)
           /\ Down \in Nat /\ Up \in Nat /\ Len(queue) \in Nat
<1>1. ChunksHeld \in Nat /\ EndsHeld \in Nat /\ Len(queue) \in Nat
  BY HeldAreNumbers DEF TunnelTyped
<1> QED
  BY SMTT(20), <1>1, CountsAreNumbers DEF Down, Up

LEMMA TunnelInitial == Init => TunnelInv
<1> SUFFICES ASSUME Init PROVE TunnelInv
  OBVIOUS
<1>1. Tunnelled!Init \/ Tunnelled!Over
  BY DEF Init
<1>3. /\ {registered, answered, over, token, inflight, ending, fatal, lost} \subseteq BOOLEAN
      /\ ~ending /\ ~fatal /\ ~lost /\ client \in {"open", "left"}
      /\ (handler = "gone" => over)
  BY <1>1 DEF Tunnelled!Init, Tunnelled!Over
<1>4. TunnelTyped
  <2>1. Downloads \in Nat /\ Uploads \in Nat
    BY BoundsAssumption
  <2>2. /\ toCore \in Seq(ToCore) /\ toNode \in Seq(ToNode) /\ queue \in Seq(Of({"chunk"}))
        /\ channel \in Seq(Of({"chunk", "end"})) /\ Len(channel) = 0
    <3>1. toCore = <<>> /\ toNode = <<>> /\ queue = <<>> /\ channel = <<>>
      BY <1>1 DEF Tunnelled!Init, Tunnelled!Over
    <3> QED
      BY <3>1
  <2> QED
    BY <1>1, <1>3, <2>1, <2>2 DEF Tunnelled!Init, Tunnelled!Over, TunnelTyped
<1>5. /\ ChunksIn = 0 /\ EndsIn = 0 /\ CreditsIn = 0
      /\ ChunksOut = 0 /\ CreditsOut = 0 /\ Connects = 0
  <2>1. toCore = <<>> /\ toNode = <<>>
    BY <1>1 DEF Tunnelled!Init, Tunnelled!Over
  <2> QED
    BY <2>1, CountOfNothing
       DEF ChunksIn, EndsIn, CreditsIn, ChunksOut, CreditsOut, Connects
<1>6. ChunksHeld = 0 /\ EndsHeld = 0
  BY <1>1 DEF Tunnelled!Init, Tunnelled!Over, ChunksHeld, EndsHeld, InHand, InSlot
<1>7. Down = 0 /\ Up = 0
  BY <1>1, <1>5, <1>6 DEF Tunnelled!Init, Tunnelled!Over, Down, Up
<1>8. AskedOnce
  BY <1>1, <1>5 DEF Tunnelled!Init, Tunnelled!Over, AskedOnce
<1>9. OneEach /\ OriginFirst
  BY <1>1, <1>7 DEF Tunnelled!Init, Tunnelled!Over, OneEach, OriginFirst
<1>10. NothingLost
  BY <1>1, <1>5, <1>6 DEF Tunnelled!Init, Tunnelled!Over, NothingLost
<1>11. EndIsLast
  BY <1>1, <1>5, <1>6 DEF Tunnelled!Init, Tunnelled!Over, EndIsLast, Tunnelled!NotEnded
<1> QED
  BY <1>3, <1>4, <1>8, <1>9, <1>10, <1>11 DEF TunnelInv

LEMMA TunnelStutters == TunnelInv /\ UNCHANGED tunnelVars => TunnelInv'
<1> SUFFICES ASSUME TunnelInv, UNCHANGED tunnelVars PROVE TunnelInv'
  OBVIOUS
<1>1. /\ UNCHANGED <<ChunksIn, EndsIn, CreditsIn, ChunksOut, CreditsOut, Connects>>
      /\ UNCHANGED <<ChunksHeld, EndsHeld>>
  BY CountsStay, HeldAreNumbers DEF tunnelVars
<1>2. UNCHANGED <<Down, Up>>
  BY <1>1 DEF tunnelVars, Down, Up
<1>3. TunnelTyped'
  BY DEF tunnelVars, TunnelInv, TunnelTyped
<1> QED
  BY <1>1, <1>2, <1>3
     DEF tunnelVars, TunnelInv, AskedOnce, OneEach, OriginFirst, NothingLost, EndIsLast

\* The steps of the two ends, which touch neither pipe nor channel.
LEMMA EndsMove ==
    ASSUME TunnelInv,
           \/ Tunnelled!Dialled \/ Tunnelled!OriginSends \/ Tunnelled!OriginEnds
           \/ Tunnelled!OriginResets \/ Tunnelled!ClientSends \/ Tunnelled!ClientLeaves
    PROVE  TunnelInv'
<1> USE DEF Tunnelled!Dialled, Tunnelled!Connected, Tunnelled!Refused, Tunnelled!OriginSends,
        Tunnelled!OriginEnds, Tunnelled!OriginResets, Tunnelled!ClientSends,
        Tunnelled!ClientLeaves, Tunnelled!Destroyed, Tunnelled!core, Tunnelled!node,
        Tunnelled!Chunk
<1>0. TunnelTyped /\ Downloads \in Nat /\ Uploads \in Nat
  BY BoundsAssumption DEF TunnelInv
<1>1. UNCHANGED <<toCore, toNode, handler, held, registered, channel, answered, over, fatal,
                  pipe, token, copied, ended, inflight, lost>>
  OBVIOUS
<1>2. /\ UNCHANGED <<ChunksIn, EndsIn, CreditsIn, ChunksOut, CreditsOut, Connects>>
      /\ UNCHANGED <<ChunksHeld, EndsHeld>>
  BY <1>1, CountsStay, HeldAreNumbers
<1>3. UNCHANGED <<Down, Up>>
  BY <1>1, <1>2 DEF Down, Up
<1>4. queue' \in Seq(Of({"chunk"})) /\ Len(queue) \in Nat
      /\ \/ queue' = queue /\ sent' = sent
         \/ /\ up = "connecting" /\ up' = "open" /\ Len(queue') = 1 /\ sent' = 1
         \/ /\ up = "open" /\ up' = "open" /\ Len(queue') = Len(queue) + 1 /\ sent' = sent + 1
            /\ sent <= Downloads
  <2>1. queue \in Seq(Of({"chunk"})) /\ Len(queue) \in Nat /\ sent \in Nat
    BY <1>0 DEF TunnelTyped
  <2>2. Tunnelled!Chunk(0) \in Of({"chunk"}) /\ Tunnelled!Chunk(sent) \in Of({"chunk"})
    BY <2>1 DEF Of
  <2>3. CASE Tunnelled!Connected
    BY <2>1, <2>2, <2>3
  <2>4. CASE Tunnelled!OriginSends
    BY <2>1, <2>2, <2>4
  <2>5. CASE UNCHANGED <<queue, sent>>
    BY <2>1, <2>5
  <2> QED
    BY <2>3, <2>4, <2>5
<1>5. /\ up' \in {"none", "connecting", "open", "ended", "closed"}
      /\ socket' \in {"none", "open", "destroyed"}
      /\ up' = "none" <=> socket' = "none"
      /\ up = "none" <=> up' = "none"
      /\ up' = "connecting" => up = "connecting"
      /\ up \in {"ended", "closed"} => up' \in {"ended", "closed"}
      /\ socket' = "open" => socket = "open"
  BY <1>0 DEF TunnelTyped
<1>6. /\ ending' \in BOOLEAN /\ client' \in {"open", "left"} /\ pending' \in 0..Uploads
      /\ (ending' => ending \/ up' = "ended")
  <2>1. ending' = ending \/ (ending' = TRUE /\ up' = "ended")
    OBVIOUS
  <2>2. client' = client \/ client' = "left"
    OBVIOUS
  <2>3. pending' = pending \/ (pending < Uploads /\ pending' = pending + 1)
    OBVIOUS
  <2>4. ending' \in BOOLEAN
    BY <1>0, <2>1 DEF TunnelTyped
  <2>5. pending' \in 0..Uploads
    BY <1>0, <2>3 DEF TunnelTyped
  <2> QED
    BY <1>0, <2>1, <2>2, <2>4, <2>5 DEF TunnelTyped
<1> HIDE DEF Tunnelled!Dialled, Tunnelled!Connected, Tunnelled!Refused, Tunnelled!OriginSends,
        Tunnelled!OriginEnds, Tunnelled!OriginResets, Tunnelled!ClientSends,
        Tunnelled!ClientLeaves, Tunnelled!Destroyed, Tunnelled!core, Tunnelled!node,
        Tunnelled!Chunk
<1>7. sent' \in 0..(Downloads + 1) /\ copied' \in 0..sent'
  BY <1>0, <1>1, <1>4 DEF TunnelInv, TunnelTyped, OriginFirst
<1>8. TunnelTyped'
  BY <1>0, <1>1, <1>4, <1>5, <1>6, <1>7 DEF TunnelTyped
<1>9. AskedOnce'
  BY <1>1, <1>2, <1>5 DEF TunnelInv, AskedOnce
<1>10. OneEach'
  BY <1>1, <1>3, <1>5 DEF TunnelInv, OneEach
<1>11. OriginFirst'
  BY <1>0, <1>1, <1>3, <1>4, <1>5, <1>6 DEF TunnelInv, OriginFirst, TunnelTyped
<1>12. NothingLost'
  <2>1. CASE up = "connecting" /\ up' = "open" /\ Len(queue') = 1 /\ sent' = 1
    <3>1. /\ Down = 0 /\ copied = 0
      BY <2>1 DEF TunnelInv, OriginFirst
    <3>2. ChunksIn = 0 /\ ChunksHeld = 0
      BY <1>0, <3>1, TunnelArithmetic
    <3> QED
      BY <1>1, <1>2, <2>1, <3>1, <3>2 DEF TunnelInv, NothingLost
  <2>2. CASE queue' = queue /\ sent' = sent
    BY <1>1, <1>2, <2>2 DEF TunnelInv, NothingLost
  <2>3. CASE Len(queue') = Len(queue) + 1 /\ sent' = sent + 1
    <3>1. /\ ChunksIn \in Nat /\ ChunksHeld \in Nat /\ Len(queue) \in Nat
          /\ copied \in Nat /\ sent \in Nat
      BY <1>0, TunnelArithmetic DEF TunnelTyped
    <3> QED
      BY <1>1, <1>2, <2>3, <3>1 DEF TunnelInv, NothingLost
  <2> QED
    BY <1>4, <2>1, <2>2, <2>3
<1>13. EndIsLast'
  BY <1>1, <1>2, <1>4, <1>5, <1>6 DEF TunnelInv, EndIsLast
<1> QED
  BY <1>1, <1>8, <1>9, <1>10, <1>11, <1>12, <1>13 DEF TunnelInv

\* Node's writer: a chunk when it has a credit, the end after the last.
LEMMA WriterKeeps == TunnelInv /\ Tunnelled!Writes => TunnelInv'
<1> SUFFICES ASSUME TunnelInv, Tunnelled!Writes PROVE TunnelInv'
  OBVIOUS
<1>0. TunnelTyped
  BY DEF TunnelInv
<1>1. /\ UNCHANGED <<toNode, handler, held, registered, channel, answered, over, fatal,
                     pipe, token, client, pending, copied, ended, ending, sent, lost>>
      /\ socket = "open" /\ ~inflight
  BY DEF Tunnelled!Writes, Tunnelled!WriterSends, Tunnelled!WriterFinishes, Tunnelled!core
<1>2. UNCHANGED <<ChunksOut, CreditsOut, Connects, ChunksHeld, EndsHeld>>
  BY <1>1, CountsStay, HeldAreNumbers
<1>3. Down = 0 /\ ChunksIn = 0 /\ EndsIn = 0 /\ ChunksHeld = 0 /\ EndsHeld = 0
      /\ CreditsOut = 0
  BY <1>0, <1>1, TunnelArithmetic DEF TunnelInv, OneEach
<1>4. CASE Tunnelled!WriterSends
  <2>1. /\ queue # <<>> /\ toCore' = Append(toCore, Head(queue)) /\ queue' = Tail(queue)
        /\ inflight' = TRUE /\ UNCHANGED <<up, socket>>
    BY <1>4 DEF Tunnelled!WriterSends
  <2>2. /\ queue \in Seq(Of({"chunk"})) /\ Head(queue) \in Of({"chunk"})
        /\ queue' \in Seq(Of({"chunk"})) /\ Len(queue) \in Nat /\ Len(queue') = Len(queue) - 1
    BY <1>0, <2>1 DEF TunnelTyped
  <2>3. Head(queue) \in ToCore /\ Head(queue).type = "chunk"
    BY <2>2 DEF ToCore, Of
  <2>4. toCore' \in Seq(ToCore) /\ ChunksIn' = 1 /\ EndsIn' = 0 /\ CreditsIn' = CreditsIn
    BY <1>0, <1>3, <2>1, <2>3, CoreIsSent, TunnelArithmetic
  <2>5. Down' = 1 /\ Up' = Up
    BY <1>1, <1>2, <1>3, <2>4 DEF Down, Up
  <2>6. TunnelTyped'
    BY <1>0, <1>1, <2>1, <2>2, <2>4 DEF TunnelTyped
  <2>7. AskedOnce' /\ OneEach'
    BY <1>1, <1>2, <2>1, <2>5 DEF TunnelInv, AskedOnce, OneEach
  <2>8. OriginFirst'
    BY <2>1 DEF TunnelInv, OriginFirst
  <2>9. NothingLost'
    <3>1. copied \in Nat /\ sent \in Nat
      BY <1>0 DEF TunnelTyped
    <3> QED
      BY <1>1, <1>2, <1>3, <2>2, <2>4, <3>1 DEF TunnelInv, NothingLost
  <2>10. EndIsLast'
    BY <1>1, <1>2, <1>3, <2>1, <2>4 DEF TunnelInv, EndIsLast
  <2> QED
    BY <1>1, <2>6, <2>7, <2>8, <2>9, <2>10 DEF TunnelInv
<1>5. CASE Tunnelled!WriterFinishes
  <2>1. /\ queue = <<>> /\ toCore' = Append(toCore, Tunnelled!Msg("end")) /\ queue' = queue
        /\ UNCHANGED inflight /\ ending /\ socket' = "destroyed" /\ up # "none"
        /\ up' = "closed"
    BY <1>0, <1>5
       DEF Tunnelled!WriterFinishes, Tunnelled!Destroyed, Tunnelled!core, TunnelTyped
  <2>2. Tunnelled!Msg("end") \in ToCore /\ Tunnelled!Msg("end").type = "end"
    BY DEF Tunnelled!Msg, ToCore, Of
  <2>3. toCore' \in Seq(ToCore) /\ ChunksIn' = 0 /\ EndsIn' = 1 /\ CreditsIn' = CreditsIn
    BY <1>0, <1>3, <2>1, <2>2, CoreIsSent, TunnelArithmetic
  <2>4. Down' = 1 /\ Up' = Up
    BY <1>1, <1>2, <1>3, <2>3 DEF Down, Up
  <2>5. TunnelTyped'
    BY <1>0, <1>1, <2>1, <2>3 DEF TunnelTyped
  <2>6. AskedOnce'
    BY <1>1, <1>2, <2>1 DEF TunnelInv, AskedOnce
  <2>7. OneEach'
    BY <1>1, <2>1, <2>4 DEF TunnelInv, OneEach
  <2>8. OriginFirst'
    BY <2>1 DEF OriginFirst
  <2>9. NothingLost'
    BY <1>1, <1>2, <1>3, <2>1, <2>3 DEF TunnelInv, NothingLost
  <2>10. EndIsLast'
    BY <1>1, <2>1 DEF TunnelInv, EndIsLast
  <2> QED
    BY <1>1, <2>5, <2>6, <2>7, <2>8, <2>9, <2>10 DEF TunnelInv
<1> QED
  BY <1>4, <1>5 DEF Tunnelled!Writes

\* What Node reads from the core.
LEMMA NodeReceivesKeeps == TunnelInv /\ Tunnelled!NodeReceives => TunnelInv'
<1> SUFFICES ASSUME TunnelInv, Tunnelled!NodeReceives PROVE TunnelInv'
  OBVIOUS
<1> DEFINE m == Head(toNode)
<1>0. TunnelTyped
  BY DEF TunnelInv
<1>1. /\ UNCHANGED <<handler, held, registered, channel, answered, over, fatal, pipe, token,
                     client, pending, copied, ended, queue, ending, sent>>
      /\ toNode # <<>> /\ toNode' = Tail(toNode)
  BY DEF Tunnelled!NodeReceives, Tunnelled!core
<1>2. /\ toNode' \in Seq(ToNode) /\ m \in ToNode
      /\ ChunksOut' = ChunksOut - (IF m.type = "chunk" THEN 1 ELSE 0)
      /\ CreditsOut' = CreditsOut - (IF m.type = "credit" THEN 1 ELSE 0)
      /\ Connects' = Connects - (IF m.type = "connect" THEN 1 ELSE 0)
      /\ ChunksOut' \in Nat /\ CreditsOut' \in Nat /\ Connects' \in Nat
  BY <1>0, <1>1, NodeTakes
<1>3. UNCHANGED <<ChunksHeld, EndsHeld>>
  BY <1>1, HeldAreNumbers
<1>4. /\ ChunksIn \in Nat /\ EndsIn \in Nat /\ CreditsIn \in Nat
      /\ ChunksOut \in Nat /\ CreditsOut \in Nat /\ Connects \in Nat
      /\ ChunksHeld \in Nat /\ EndsHeld \in Nat
      /\ Down = ChunksIn + EndsIn + ChunksHeld + EndsHeld + CreditsOut
      /\ Up = ChunksOut + CreditsIn + (IF token THEN 1 ELSE 0)
      /\ Down \in Nat /\ Up \in Nat
  BY <1>0, TunnelArithmetic
\* What goes to the core is a credit or the answer to the connect.
<1>5. /\ toCore' \in Seq(ToCore) /\ ChunksIn' = ChunksIn /\ EndsIn' = EndsIn
      /\ CreditsIn' = CreditsIn \/ (m.type = "chunk" /\ CreditsIn' = CreditsIn + 1)
  <2>1. Tunnelled!Msg("inspect") \in ToCore /\ Tunnelled!Msg("credit") \in ToCore
        /\ Tunnelled!Msg("inspect").type = "inspect" /\ Tunnelled!Msg("credit").type = "credit"
    BY DEF Tunnelled!Msg, ToCore, Of
  <2>2. toCore \in Seq(ToCore)
    BY <1>0 DEF TunnelTyped
  <2>3. CASE UNCHANGED toCore
    BY <2>2, <2>3, CountsStay
  <2>4. CASE toCore' = Append(toCore, Tunnelled!Msg("inspect"))
    BY <1>0, <1>4, <2>1, <2>4, CoreIsSent
  <2>5. CASE toCore' = Append(toCore, Tunnelled!Msg("credit")) /\ m.type = "chunk"
    BY <1>0, <1>4, <2>1, <2>5, CoreIsSent
  <2> QED
    BY <2>3, <2>4, <2>5 DEF Tunnelled!NodeReceives
<1>6. Down' = ChunksIn' + EndsIn' + ChunksHeld' + EndsHeld' + CreditsOut'
      /\ Up' = ChunksOut' + CreditsIn' + (IF token THEN 1 ELSE 0)
  BY <1>1 DEF Down, Up
\* The socket is opened once, before anything went either way.
<1>7. CASE m.type = "connect"
  <2>0. Connects' = Connects - 1 /\ ChunksOut' = ChunksOut /\ CreditsOut' = CreditsOut
    BY <1>2, <1>4, <1>7
  <2>1. up = "none" /\ socket = "none" /\ Connects' = 0 /\ handler # "created"
    <3>1. Connects <= 1 /\ Connects' \in Nat /\ Connects \in Nat
      BY <1>2, <1>4 DEF TunnelInv, AskedOnce
    <3>2. Connects = 1 /\ Connects' = 0
      BY <2>0, <3>1
    <3> QED
      BY <1>0, <3>2 DEF TunnelInv, AskedOnce, TunnelTyped
  <2>2. Down' = 0 /\ Up' = 0 /\ Down = 0 /\ Up = 0
    <3>1. Down = 0 /\ Up = 0
      BY <2>1 DEF TunnelInv, OriginFirst
    <3>2. CreditsIn' = CreditsIn
      BY <1>5, <1>7
    <3> QED
      BY <1>3, <1>4, <1>5, <1>6, <2>0, <3>1, <3>2
  <2>3. UNCHANGED <<inflight, lost>>
        /\ ((up' = up /\ socket' = socket) \/ (up' = "connecting" /\ socket' = "open"))
    BY <1>7 DEF Tunnelled!NodeReceives
  <2>4. TunnelTyped'
    <3>1. /\ up' \in {"none", "connecting", "open", "ended", "closed"}
          /\ socket' \in {"none", "open", "destroyed"}
          /\ up' = "none" <=> socket' = "none"
      BY <2>1, <2>3
    <3>2. inflight' \in BOOLEAN /\ lost' \in BOOLEAN
      BY <1>0, <2>3 DEF TunnelTyped
    <3> QED
      BY <1>0, <1>1, <1>2, <1>5, <3>1, <3>2 DEF TunnelTyped
  <2>5. AskedOnce' /\ OneEach'
    BY <1>1, <2>1, <2>2, <2>3 DEF TunnelInv, AskedOnce, OneEach
  <2>6. OriginFirst'
    BY <1>1, <2>1, <2>2 DEF TunnelInv, OriginFirst
  <2>7. NothingLost'
    BY <1>1, <1>3, <1>5 DEF TunnelInv, NothingLost
  <2>8. EndIsLast'
    BY <1>1, <1>3, <1>4, <1>5, <2>1, <2>3 DEF TunnelInv, EndIsLast
  <2> QED
    BY <1>1, <2>3, <2>4, <2>5, <2>6, <2>7, <2>8 DEF TunnelInv
\* A chunk of the client: the socket is there, for the pipe waits for its credit.
<1>8. CASE m.type = "chunk"
  <2>1. UNCHANGED <<inflight, up, socket>>
        /\ (lost' = lost \/ lost' = (lost \/ (socket = "open" /\ up = "connecting")))
    BY <1>8 DEF Tunnelled!NodeReceives
  <2>2. Connects' = Connects /\ Down' = Down /\ Up >= 1 /\ Up' <= Up /\ Up' \in Nat
    <3>1. ChunksOut' = ChunksOut - 1 /\ CreditsOut' = CreditsOut /\ Connects' = Connects
      BY <1>2, <1>4, <1>8
    <3> QED
      BY <1>2, <1>3, <1>4, <1>5, <1>6, <3>1
  <2>3. up # "connecting" /\ up # "none"
    BY <2>2 DEF TunnelInv, OriginFirst
  <2>4. ~lost'
    BY <2>1, <2>3 DEF TunnelInv
  <2>5. TunnelTyped'
    <3>1. lost' \in BOOLEAN
      BY <1>0, <2>1 DEF TunnelTyped
    <3> QED
      BY <1>0, <1>1, <1>2, <1>5, <2>1, <3>1 DEF TunnelTyped
  <2>6. AskedOnce'
    BY <1>1, <2>1, <2>2 DEF TunnelInv, AskedOnce
  <2>7. OneEach'
    BY <1>1, <1>4, <2>1, <2>2 DEF TunnelInv, OneEach
  <2>8. OriginFirst'
    BY <2>1, <2>3 DEF OriginFirst
  <2>9. NothingLost'
    BY <1>1, <1>3, <1>5 DEF TunnelInv, NothingLost
  <2>10. EndIsLast'
    BY <1>1, <1>3, <1>5, <2>1 DEF TunnelInv, EndIsLast
  <2> QED
    BY <1>1, <2>4, <2>5, <2>6, <2>7, <2>8, <2>9, <2>10 DEF TunnelInv
\* A credit was all there was of the stream out.
<1>9. CASE m.type = "credit"
  <2>1. inflight' = FALSE /\ UNCHANGED <<up, socket, lost>>
    BY <1>9 DEF Tunnelled!NodeReceives
  <2>2. Connects' = Connects /\ Up' = Up /\ Down = 1 /\ Down' = 0
    <3>1. CreditsOut' = CreditsOut - 1 /\ ChunksOut' = ChunksOut /\ Connects' = Connects
      BY <1>2, <1>4, <1>9
    <3>2. CreditsIn' = CreditsIn /\ Down <= 1
      BY <1>5, <1>9 DEF TunnelInv, OneEach
    <3> QED
      BY <1>2, <1>3, <1>4, <1>5, <1>6, <3>1, <3>2
  <2>3. TunnelTyped'
    <3>1. inflight' \in BOOLEAN
      BY <2>1
    <3> QED
      BY <1>0, <1>1, <1>2, <1>5, <2>1, <3>1 DEF TunnelTyped
  <2>4. AskedOnce' /\ OneEach'
    BY <1>1, <2>1, <2>2 DEF TunnelInv, AskedOnce, OneEach
  <2>5. OriginFirst'
    BY <1>1, <2>1, <2>2 DEF TunnelInv, OriginFirst
  <2>6. NothingLost'
    BY <1>1, <1>3, <1>5 DEF TunnelInv, NothingLost
  <2>7. EndIsLast'
    BY <1>1, <1>3, <1>5, <2>1 DEF TunnelInv, EndIsLast
  <2> QED
    BY <1>1, <2>1, <2>3, <2>4, <2>5, <2>6, <2>7 DEF TunnelInv
<1>10. CASE m.type = "closed"
  <2>1. /\ UNCHANGED <<inflight, lost>>
        /\ (up = "none" /\ up' = "none" /\ socket' = "none")
           \/ (up # "none" /\ up' = "closed" /\ socket' = "destroyed")
    BY <1>0, <1>10 DEF Tunnelled!NodeReceives, Tunnelled!Destroyed, TunnelTyped
  <2>2. Connects' = Connects /\ Down' = Down /\ Up' = Up
    <3>1. CreditsOut' = CreditsOut /\ ChunksOut' = ChunksOut /\ Connects' = Connects
          /\ CreditsIn' = CreditsIn
      BY <1>2, <1>4, <1>5, <1>10
    <3> QED
      BY <1>2, <1>3, <1>4, <1>5, <1>6, <3>1
  <2>3. TunnelTyped'
    BY <1>0, <1>1, <1>2, <1>5, <2>1 DEF TunnelTyped
  <2>4. AskedOnce'
    BY <1>1, <2>1, <2>2 DEF TunnelInv, AskedOnce
  <2>5. OneEach'
    BY <1>1, <2>1, <2>2 DEF TunnelInv, OneEach
  <2>6. OriginFirst'
    BY <1>1, <2>1, <2>2 DEF TunnelInv, OriginFirst
  <2>7. NothingLost'
    BY <1>1, <1>3, <1>5 DEF TunnelInv, NothingLost
  <2>8. EndIsLast'
    BY <1>1, <1>3, <1>5, <2>1 DEF TunnelInv, EndIsLast
  <2> QED
    BY <1>1, <2>1, <2>3, <2>4, <2>5, <2>6, <2>7, <2>8 DEF TunnelInv
<1> QED
  BY <1>7, <1>8, <1>9, <1>10 DEF Tunnelled!NodeReceives

\* The decision of the handler of the CONNECT, up to the frame it takes off the channel.
LEMMA AskKeeps == TunnelInv /\ Tunnelled!Ask => TunnelInv'
<1> SUFFICES ASSUME TunnelInv, Tunnelled!Ask PROVE TunnelInv'
  OBVIOUS
<1>0. TunnelTyped
  BY DEF TunnelInv
<1>1. /\ UNCHANGED <<toCore, held, channel, answered, over, fatal, pipe, token, client,
                     pending, copied, ended, up, socket, queue, inflight, ending, sent, lost>>
      /\ handler = "created" /\ handler' = "asking" /\ registered' = TRUE
      /\ toNode' = Append(toNode, Tunnelled!Msg("connect"))
  BY DEF Tunnelled!Ask, Tunnelled!node
<1>2. /\ toNode' \in Seq(ToNode) /\ ChunksOut' = ChunksOut /\ CreditsOut' = CreditsOut
      /\ Connects' = Connects + 1
  <2>1. Tunnelled!Msg("connect") \in ToNode /\ Tunnelled!Msg("connect").type = "connect"
    BY DEF Tunnelled!Msg, ToNode, Of
  <2> QED
    BY <1>0, <1>1, <2>1, NodeIsSent, CountsAreNumbers
<1>3. UNCHANGED <<ChunksIn, EndsIn, CreditsIn, ChunksHeld, EndsHeld>>
  BY <1>1, CountsStay DEF ChunksHeld, EndsHeld, InHand, InSlot
<1>4. Down' = Down /\ Up' = Up
  BY <1>1, <1>2, <1>3 DEF Down, Up
<1>5. TunnelTyped'
  BY <1>0, <1>1, <1>2 DEF TunnelTyped
<1>6. AskedOnce' /\ OneEach'
  BY <1>1, <1>2, <1>4 DEF TunnelInv, AskedOnce, OneEach
<1>7. OriginFirst' /\ NothingLost' /\ EndIsLast'
  BY <1>1, <1>3, <1>4 DEF TunnelInv, OriginFirst, NothingLost, EndIsLast
<1> QED
  BY <1>1, <1>5, <1>6, <1>7 DEF TunnelInv

LEMMA EndOfSessionKeeps ==
    ASSUME TunnelInv, Tunnelled!Reject \/ Tunnelled!Inspect \/ Tunnelled!Disconnected
    PROVE  TunnelInv'
<1>0. TunnelTyped
  BY DEF TunnelInv
<1>1. /\ UNCHANGED <<toCore, held, channel, answered, fatal, pipe, token, client,
                     pending, copied, ended, up, socket, queue, inflight, ending, sent, lost>>
      /\ handler' = handler \/ (handler = "asking" /\ handler' = "gone")
  BY DEF Tunnelled!Reject, Tunnelled!Inspect, Tunnelled!Disconnected, Tunnelled!node
<1>10. over' \in BOOLEAN /\ over'
  <2>1. (over' = over /\ over) \/ over' = TRUE
    BY DEF Tunnelled!Reject, Tunnelled!Inspect, Tunnelled!Disconnected, Tunnelled!FinishWith
  <2> QED
    BY <1>0, <2>1 DEF TunnelTyped
<1>11. registered' \in BOOLEAN /\ (registered' => registered)
  <2>1. registered' = registered \/ registered' = (registered /\ over)
    BY DEF Tunnelled!Reject, Tunnelled!Inspect, Tunnelled!Disconnected, Tunnelled!FinishWith
  <2> QED
    BY <1>0, <2>1 DEF TunnelTyped
<1>2. toNode' \in Seq(ToNode) /\ UNCHANGED <<ChunksOut, CreditsOut, Connects>>
  BY <1>0, FinishSends, CountsStay
     DEF Tunnelled!Reject, Tunnelled!Inspect, Tunnelled!Disconnected, TunnelTyped
<1>3. UNCHANGED <<ChunksIn, EndsIn, CreditsIn, ChunksHeld, EndsHeld>>
  BY <1>1, CountsStay DEF ChunksHeld, EndsHeld, InHand, InSlot
<1>4. Down' = Down /\ Up' = Up
  BY <1>1, <1>2, <1>3 DEF Down, Up
<1>5. TunnelTyped'
  <2>2. handler' \in {"created", "asking", "holding", "relaying", "gone"}
        /\ (handler' = "holding" => handler = "holding")
    BY <1>0, <1>1 DEF TunnelTyped
  <2> QED
    BY <1>0, <1>1, <1>2, <1>10, <1>11, <2>2 DEF TunnelTyped
<1>6. AskedOnce'
  <2>1. Connects' = Connects
    BY <1>2
  <2> QED
    BY <1>1, <1>11, <2>1 DEF TunnelInv, AskedOnce
<1>7. OneEach' /\ OriginFirst'
  BY <1>1, <1>4 DEF TunnelInv, OneEach, OriginFirst
<1>8. NothingLost' /\ EndIsLast'
  BY <1>1, <1>3, <1>10 DEF TunnelInv, NothingLost, EndIsLast
<1>9. ~fatal' /\ ~lost'
  BY <1>1 DEF TunnelInv
<1> QED
  BY <1>5, <1>6, <1>7, <1>8, <1>9 DEF TunnelInv

\* The frame that the handler takes to see it was the only one, so the channel is free when
\* it puts it back.
LEMMA HandlerKeeps ==
    ASSUME TunnelInv, Tunnelled!TakeFirst \/ Tunnelled!PutBack
    PROVE  TunnelInv'
<1>0. TunnelTyped
  BY DEF TunnelInv
<1>1. /\ UNCHANGED <<toCore, toNode, registered, answered, over, fatal, token, client,
                     pending, copied, ended, up, socket, queue, inflight, ending, sent, lost>>
      /\ handler # "created" /\ handler' # "created"
  BY DEF Tunnelled!TakeFirst, Tunnelled!PutBack, Tunnelled!node
<1>2. UNCHANGED <<ChunksIn, EndsIn, CreditsIn, ChunksOut, CreditsOut, Connects>>
  BY <1>1, CountsStay
<1>3. CASE Tunnelled!TakeFirst
  <2>1. /\ handler = "asking" /\ handler' = "holding" /\ channel # <<>> /\ channel' = <<>>
        /\ held' = channel[1] /\ pipe' = pipe /\ channel[1] \in Of({"chunk", "end"})
    BY <1>0, <1>3 DEF Tunnelled!TakeFirst, TunnelTyped
  <2>2. /\ UNCHANGED <<ChunksHeld, EndsHeld>> /\ ChunksHeld + EndsHeld > 0
    BY <2>1 DEF ChunksHeld, EndsHeld, InHand, InSlot, Of
  <2>3. Down' = Down /\ Up' = Up /\ Down > 0
    <3>1. Down' = Down /\ Up' = Up
      BY <1>1, <1>2, <2>2 DEF Down, Up
    <3> QED
      BY SMTT(20), <1>0, <2>2, <3>1, TunnelArithmetic
  <2>4. TunnelTyped'
    BY <1>0, <1>1, <2>1 DEF TunnelTyped
  <2>5. AskedOnce' /\ OneEach'
    BY <1>1, <1>2, <2>1, <2>3 DEF TunnelInv, AskedOnce, OneEach
  <2>6. up \notin {"none", "connecting"}
    BY <2>3 DEF TunnelInv, OriginFirst
  <2>7. OriginFirst' /\ NothingLost' /\ EndIsLast'
    BY <1>1, <1>2, <2>1, <2>2, <2>6 DEF TunnelInv, OriginFirst, NothingLost, EndIsLast
  <2> QED
    BY <1>1, <2>4, <2>5, <2>7 DEF TunnelInv
<1>4. CASE Tunnelled!PutBack
  <2>1. /\ handler = "holding" /\ handler' = "relaying" /\ channel = <<>>
        /\ channel' = <<held>> /\ pipe' = "reading" /\ held' = held
        /\ held \in Of({"chunk", "end"})
    BY <1>0, <1>4 DEF Tunnelled!PutBack, TunnelTyped
  <2>2. UNCHANGED <<ChunksHeld, EndsHeld>>
    BY <2>1 DEF ChunksHeld, EndsHeld, InHand, InSlot, Of
  <2>3. Down' = Down /\ Up' = Up
    BY <1>1, <1>2, <2>2 DEF Down, Up
  <2>4. TunnelTyped'
    BY <1>0, <1>1, <2>1 DEF TunnelTyped
  <2>5. AskedOnce' /\ OneEach'
    BY <1>1, <1>2, <2>1, <2>3 DEF TunnelInv, AskedOnce, OneEach
  <2>6. up \notin {"none", "connecting"}
    BY <2>1 DEF TunnelInv, OriginFirst
  <2>7. OriginFirst' /\ NothingLost' /\ EndIsLast'
    BY <1>1, <1>2, <2>1, <2>2, <2>6 DEF TunnelInv, OriginFirst, NothingLost, EndIsLast
  <2> QED
    BY <1>1, <2>4, <2>5, <2>7 DEF TunnelInv
<1> QED
  BY <1>3, <1>4

LEMMA PipeKeeps ==
    ASSUME TunnelInv, Tunnelled!PipeReads \/ Tunnelled!PipeGoesOn
    PROVE  TunnelInv'
<1>0. TunnelTyped
  BY DEF TunnelInv
<1>1. /\ UNCHANGED <<toCore, handler, held, registered, channel, answered, over, fatal,
                     client, copied, ended, up, socket, queue, inflight, ending, sent, lost>>
      /\ pipe # "idle"
  BY DEF Tunnelled!PipeReads, Tunnelled!PipeGoesOn, Tunnelled!node
<1>2. UNCHANGED <<ChunksIn, EndsIn, CreditsIn, ChunksHeld, EndsHeld>>
  BY <1>1, CountsStay, HeldAreNumbers
<1>3. up \notin {"none", "connecting"} /\ handler = "relaying"
  BY <1>1 DEF TunnelInv, OriginFirst, OneEach
<1>4. CASE Tunnelled!PipeReads
  <2>1. /\ pipe = "reading" /\ pipe' = "waiting" /\ pending' = pending - 1 /\ pending > 0
        /\ token' = token /\ toNode' = Append(toNode, Tunnelled!Chunk(0))
    BY <1>4 DEF Tunnelled!PipeReads
  <2>2. /\ toNode' \in Seq(ToNode) /\ ChunksOut' = ChunksOut + 1
        /\ CreditsOut' = CreditsOut /\ Connects' = Connects
    <3>1. Tunnelled!Chunk(0) \in ToNode /\ Tunnelled!Chunk(0).type = "chunk"
      BY DEF Tunnelled!Chunk, ToNode, Of
    <3> QED
      BY <1>0, <2>1, <3>1, NodeIsSent, CountsAreNumbers
  <2>3. Down' = Down /\ Up' = 1
    <3>1. Up = 0
      BY <2>1 DEF TunnelInv, OneEach
    <3>2. ChunksOut = 0 /\ CreditsIn = 0 /\ ~token
      <4>1. (IF token THEN 1 ELSE 0) = 0
        BY <1>0, <3>1, TunnelArithmetic
      <4> QED
        BY <1>0, <3>1, <4>1, TunnelArithmetic
    <3> QED
      BY <1>2, <2>1, <2>2, <3>2 DEF Down, Up
  <2>4. TunnelTyped'
    <3>1. pending' \in 0..Uploads
      BY <1>0, <2>1, BoundsAssumption DEF TunnelTyped
    <3> QED
      BY <1>0, <1>1, <2>1, <2>2, <3>1 DEF TunnelTyped
  <2>5. AskedOnce' /\ OneEach'
    BY <1>1, <1>3, <2>1, <2>2, <2>3 DEF TunnelInv, AskedOnce, OneEach
  <2>6. OriginFirst' /\ NothingLost' /\ EndIsLast'
    BY <1>1, <1>2, <1>3 DEF TunnelInv, OriginFirst, NothingLost, EndIsLast
  <2> QED
    BY <1>1, <2>4, <2>5, <2>6 DEF TunnelInv
<1>5. CASE Tunnelled!PipeGoesOn
  <2>1. /\ token /\ token' = FALSE /\ pipe' = "reading" /\ UNCHANGED <<toNode, pending>>
    BY <1>5 DEF Tunnelled!PipeGoesOn
  <2>2. UNCHANGED <<ChunksOut, CreditsOut, Connects>>
    BY <2>1, CountsStay
  <2>3. Down' = Down /\ Up' = 0
    <3>1. ChunksOut = 0 /\ CreditsIn = 0
      BY SMTT(20), <1>0, <2>1, TunnelArithmetic DEF TunnelInv, OneEach
    <3> QED
      BY <1>2, <2>1, <2>2, <3>1 DEF Down, Up
  <2>4. TunnelTyped'
    <3>1. token' \in BOOLEAN
      BY <2>1
    <3> QED
      BY <1>0, <1>1, <2>1, <3>1 DEF TunnelTyped
  <2>5. AskedOnce' /\ OneEach'
    BY <1>1, <1>3, <2>1, <2>2, <2>3 DEF TunnelInv, AskedOnce, OneEach
  <2>6. OriginFirst' /\ NothingLost' /\ EndIsLast'
    BY <1>1, <1>2, <1>3 DEF TunnelInv, OriginFirst, NothingLost, EndIsLast
  <2> QED
    BY <1>1, <2>4, <2>5, <2>6 DEF TunnelInv
<1> QED
  BY <1>4, <1>5

\* Peer.Receive: a frame finds its reader's channel free, and a credit the channel of its
\* writer.
LEMMA CoreReceivesKeeps == TunnelInv /\ Tunnelled!CoreReceives => TunnelInv'
<1> SUFFICES ASSUME TunnelInv, Tunnelled!CoreReceives PROVE TunnelInv'
  OBVIOUS
<1> DEFINE m == Head(toCore)
           takes == m.type \in {"chunk", "end"} /\ registered /\ ~over
           credits == m.type = "credit" /\ pipe # "idle" /\ ~over
<1>0. TunnelTyped
  BY DEF TunnelInv
<1>1. /\ UNCHANGED <<toNode, handler, held, registered, over, pipe, client, pending, copied,
                     ended, up, socket, queue, inflight, ending, sent, lost>>
      /\ toCore # <<>> /\ toCore' = Tail(toCore)
  BY DEF Tunnelled!CoreReceives, Tunnelled!node
<1>2. /\ channel' = IF takes /\ channel = <<>> THEN <<m>> ELSE channel
      /\ token' = (token \/ credits)
      /\ answered' = (answered \/ m.type = "inspect")
      /\ fatal' = ((takes /\ channel # <<>>) \/ (credits /\ token))
  BY DEF Tunnelled!CoreReceives
<1> HIDE DEF takes, credits
<1>3. /\ toCore' \in Seq(ToCore) /\ m \in ToCore
      /\ ChunksIn' = ChunksIn - (IF m.type = "chunk" THEN 1 ELSE 0)
      /\ EndsIn' = EndsIn - (IF m.type = "end" THEN 1 ELSE 0)
      /\ CreditsIn' = CreditsIn - (IF m.type = "credit" THEN 1 ELSE 0)
      /\ ChunksIn' \in Nat /\ EndsIn' \in Nat /\ CreditsIn' \in Nat
  BY <1>0, <1>1, CoreTakes
<1>4. UNCHANGED <<ChunksOut, CreditsOut, Connects>>
  BY <1>1, CountsStay
<1>5. /\ ChunksIn \in Nat /\ EndsIn \in Nat /\ CreditsIn \in Nat
      /\ ChunksOut \in Nat /\ CreditsOut \in Nat
      /\ ChunksHeld \in Nat /\ EndsHeld \in Nat
      /\ Down = ChunksIn + EndsIn + ChunksHeld + EndsHeld + CreditsOut
      /\ Up = ChunksOut + CreditsIn + (IF token THEN 1 ELSE 0)
      /\ Down \in Nat /\ Up \in Nat
  BY <1>0, TunnelArithmetic
<1>6. answered' \in BOOLEAN /\ token' \in BOOLEAN /\ fatal' \in BOOLEAN
  BY <1>0, <1>2 DEF TunnelTyped
<1>11. Down' \in Nat /\ Up' \in Nat
  <2>1. /\ ChunksIn' \in Nat /\ EndsIn' \in Nat /\ CreditsIn' \in Nat
        /\ ChunksHeld' \in Nat /\ EndsHeld' \in Nat /\ (IF token' THEN 1 ELSE 0) \in Nat
        /\ ChunksOut' \in Nat /\ CreditsOut' \in Nat
    BY <1>3, <1>4, <1>5 DEF ChunksHeld, EndsHeld, InHand, InSlot
  <2>2. PICK a, b, c, d, e, f, g, h \in Nat :
            /\ ChunksIn' = a /\ EndsIn' = b /\ CreditsIn' = c
            /\ ChunksHeld' = d /\ EndsHeld' = e /\ (IF token' THEN 1 ELSE 0) = f
            /\ ChunksOut' = g /\ CreditsOut' = h
    BY <2>1
  <2> QED
    BY <2>2 DEF Down, Up
<1>7. ASSUME TunnelTyped', OneEach', NothingLost', EndIsLast', Down' = 0 => Down = 0 \/ over,
             Down' <= Down, Up' <= Up, ~fatal'
      PROVE  TunnelInv'
  <2>1. AskedOnce'
    <3>1. Connects' = Connects
      BY <1>4
    <3> QED
      BY <1>1, <3>1 DEF TunnelInv, AskedOnce
  <2>2. OriginFirst'
    BY <1>1, <1>5, <1>7, <1>11 DEF TunnelInv, OriginFirst
  <2> QED
    BY <1>1, <1>7, <2>1, <2>2 DEF TunnelInv
\* The answer to the connect says nothing of either stream.
<1>8. CASE m.type = "inspect"
  <2>1. /\ UNCHANGED <<ChunksIn, EndsIn, CreditsIn>> /\ ~fatal'
        /\ channel' = channel /\ token' = token
    <3>1. ~takes /\ ~credits
      BY <1>8 DEF takes, credits
    <3>2. token' = token
      BY <1>0, <1>2, <3>1 DEF TunnelTyped
    <3>3. channel' = channel /\ ~fatal'
      BY <1>2, <3>1
    <3>4. ChunksIn' = ChunksIn /\ EndsIn' = EndsIn /\ CreditsIn' = CreditsIn
      BY <1>3, <1>5, <1>8
    <3> QED
      BY <3>2, <3>3, <3>4
  <2>2. UNCHANGED <<ChunksHeld, EndsHeld>>
    BY <1>1, <2>1, HeldAreNumbers
  <2>3. Down' = Down /\ Up' = Up
    BY <1>4, <2>1, <2>2 DEF Down, Up
  <2>4. TunnelTyped'
    BY <1>0, <1>1, <1>3, <1>6, <2>1 DEF TunnelTyped
  <2>5. OneEach' /\ NothingLost' /\ EndIsLast'
    BY <1>1, <2>1, <2>2, <2>3 DEF TunnelInv, OneEach, NothingLost, EndIsLast
  <2> QED
    BY <1>5, <1>7, <2>1, <2>3, <2>4, <2>5
<1>9. CASE m.type = "credit"
  <2>1. /\ ChunksIn' = ChunksIn /\ EndsIn' = EndsIn /\ CreditsIn' = CreditsIn - 1
        /\ channel' = channel /\ CreditsIn >= 1
    BY <1>2, <1>3, <1>5, <1>9 DEF takes
  <2>2. UNCHANGED <<ChunksHeld, EndsHeld>>
    BY <1>1, <2>1, HeldAreNumbers
  <2>3. Up = 1 /\ ChunksOut = 0 /\ CreditsIn = 1 /\ ~token /\ pipe = "waiting"
    <3>1. Up >= 1 /\ Up <= 1
      BY <1>5, <2>1 DEF TunnelInv, OneEach
    <3>2. (IF token THEN 1 ELSE 0) = 0 /\ ChunksOut = 0 /\ CreditsIn = 1 /\ Up = 1
      BY <1>0, <1>5, <2>1, <3>1 DEF TunnelTyped
    <3> QED
      BY <3>2 DEF TunnelInv, OneEach
  <2>4. ~fatal'
    BY <1>2, <1>9, <2>3 DEF takes
  <2>5. Down' = Down /\ Up' \in Nat /\ Up' <= 1
    <3>1. Down' = Down
      BY <1>4, <2>1, <2>2 DEF Down
    <3>2. Up' = 0 + 0 + (IF token' THEN 1 ELSE 0)
      BY <1>4, <2>1, <2>3 DEF Up
    <3> QED
      BY <3>1, <3>2
  <2>6. TunnelTyped'
    BY <1>0, <1>1, <1>3, <1>6, <2>1 DEF TunnelTyped
  <2>7. OneEach'
    BY <1>1, <2>3, <2>5 DEF TunnelInv, OneEach
  <2>8. NothingLost' /\ EndIsLast'
    BY <1>1, <2>1, <2>2 DEF TunnelInv, NothingLost, EndIsLast
  <2> QED
    BY <1>5, <1>7, <2>3, <2>4, <2>5, <2>6, <2>7, <2>8
\* A frame: while the session lasts its reader is registered, for it came from the origin.
<1>10. CASE m.type \in {"chunk", "end"}
  <2>1. /\ CreditsIn' = CreditsIn /\ token' = token /\ ~credits
        /\ Up' = Up
    <3>1. CreditsIn' = CreditsIn /\ ~credits
      BY <1>3, <1>5, <1>10 DEF credits
    <3>2. token' = token
      BY <1>0, <1>2, <3>1 DEF TunnelTyped
    <3> QED
      BY <1>4, <3>1, <3>2 DEF Up
  <2>2. /\ ChunksIn + EndsIn = 1 /\ ChunksHeld = 0 /\ EndsHeld = 0 /\ CreditsOut = 0
        /\ Down = 1
        /\ (m.type = "chunk" /\ ChunksIn = 1 /\ EndsIn = 0)
           \/ (m.type = "end" /\ ChunksIn = 0 /\ EndsIn = 1)
    <3>1. Down <= 1
      BY DEF TunnelInv, OneEach
    <3>2. (m.type = "chunk" /\ ChunksIn >= 1) \/ (m.type = "end" /\ EndsIn >= 1)
      BY <1>3, <1>5, <1>10
    <3> QED
      BY <1>5, <3>1, <3>2
  <2>3. channel = <<>> /\ handler # "holding"
    <3>1. /\ InHand({"chunk"}) = 0 /\ InHand({"end"}) = 0
          /\ InSlot({"chunk"}) = 0 /\ InSlot({"end"}) = 0
      <4>1. /\ InHand({"chunk"}) \in 0..1 /\ InHand({"end"}) \in 0..1
            /\ InSlot({"chunk"}) \in 0..1 /\ InSlot({"end"}) \in 0..1
        BY DEF InHand, InSlot
      <4> QED
        BY <2>2, <4>1 DEF ChunksHeld, EndsHeld
    <3>2. channel # <<>> => channel[1] \in Of({"chunk", "end"})
      BY <1>0 DEF TunnelTyped
    <3>3. handler = "holding" => held \in Of({"chunk", "end"})
      BY <1>0 DEF TunnelTyped
    <3> QED
      BY <3>1, <3>2, <3>3 DEF InHand, InSlot, Of
  <2>4. ~over => registered
    <3>1. up # "none"
      BY <2>2 DEF TunnelInv, OriginFirst
    <3> QED
      BY <3>1 DEF TunnelInv, NothingLost, AskedOnce
  <2>5. ~fatal'
    BY <1>2, <2>1, <2>3
  <2>6. ChunksIn' = 0 /\ EndsIn' = 0
    BY <1>3, <2>2
  <2>7. CASE over
    <3>1. channel' = channel
      BY <1>2, <2>7 DEF takes
    <3>2. ChunksHeld' = 0 /\ EndsHeld' = 0
      BY <1>1, <2>2, <3>1, HeldAreNumbers
    <3>3. Down' = 0
      BY <1>4, <2>2, <2>6, <3>2 DEF Down
    <3>4. TunnelTyped'
      BY <1>0, <1>1, <1>3, <1>6, <3>1 DEF TunnelTyped
    <3>5. OneEach' /\ NothingLost'
      BY <1>1, <2>1, <2>7, <3>3 DEF TunnelInv, OneEach, NothingLost
    <3>6. EndIsLast'
      BY <1>1, <2>6, <3>2 DEF TunnelInv, EndIsLast
    <3> QED
      BY <1>5, <1>7, <2>1, <2>2, <2>5, <2>7, <3>3, <3>4, <3>5, <3>6
  <2>8. CASE ~over
    <3>1. channel' = <<m>> /\ m \in Of({"chunk", "end"})
      BY <1>2, <1>3, <1>10, <2>3, <2>4, <2>8 DEF takes, ToCore, Of
    <3>2. ChunksHeld' = ChunksIn /\ EndsHeld' = EndsIn
      BY <1>1, <2>2, <2>3, <3>1 DEF ChunksHeld, EndsHeld, InHand, InSlot
    <3>3. Down' = 1
      BY <1>4, <2>2, <2>6, <3>2 DEF Down
    <3>4. TunnelTyped'
      <4>1. channel' \in Seq(Of({"chunk", "end"})) /\ Len(channel') <= 1
        BY <3>1
      <4> QED
        BY <1>0, <1>1, <1>3, <1>6, <4>1 DEF TunnelTyped
    <3>5. OneEach'
      BY <1>1, <2>1, <2>2, <3>3 DEF TunnelInv, OneEach
    <3>6. NothingLost'
      <4>1. copied \in Nat /\ sent \in Nat /\ Len(queue) \in Nat
        BY <1>0 DEF TunnelTyped
      <4> QED
        BY <1>1, <1>5, <2>2, <2>6, <3>2, <4>1 DEF TunnelInv, NothingLost
    <3>7. EndIsLast'
      BY <1>1, <2>2, <2>6, <3>2 DEF TunnelInv, EndIsLast
    <3> QED
      BY <1>5, <1>7, <2>1, <2>2, <2>5, <3>3, <3>4, <3>5, <3>6, <3>7
  <2> QED
    BY <2>7, <2>8
<1> QED
  BY <1>3, <1>8, <1>9, <1>10 DEF ToCore, Of

\* What is written to the client was counted once, and the end closes the count.
LEMMA CopyKeeps == TunnelInv /\ Tunnelled!Copy => TunnelInv'
<1> SUFFICES ASSUME TunnelInv, Tunnelled!Copy PROVE TunnelInv'
  OBVIOUS
<1> DEFINE m == Head(channel)
<1>0. TunnelTyped
  BY DEF TunnelInv
<1>1. /\ UNCHANGED <<toCore, handler, held, answered, fatal, pipe, token, client, pending,
                     up, socket, queue, inflight, ending, sent, lost>>
      /\ handler = "relaying" /\ ~over /\ ended = Tunnelled!NotEnded
      /\ channel # <<>> /\ channel' = <<>>
  BY DEF Tunnelled!Copy, Tunnelled!node
<1>2. UNCHANGED <<ChunksIn, EndsIn, CreditsIn>>
  BY <1>1, CountsStay
<1>3. /\ ChunksIn \in Nat /\ EndsIn \in Nat /\ CreditsOut \in Nat
      /\ ChunksHeld \in Nat /\ EndsHeld \in Nat /\ Len(queue) \in Nat
      /\ Down = ChunksIn + EndsIn + ChunksHeld + EndsHeld + CreditsOut
      /\ Down <= 1 /\ copied \in Nat /\ sent \in Nat
  BY <1>0, TunnelArithmetic DEF TunnelInv, OneEach, TunnelTyped
<1>4. /\ m = channel[1] /\ m \in Of({"chunk", "end"})
  BY <1>0, <1>1 DEF TunnelTyped
<1>5. ChunksHeld' = 0 /\ EndsHeld' = 0
  BY <1>1 DEF ChunksHeld, EndsHeld, InHand, InSlot
<1>6. up \notin {"none", "connecting"}
  BY <1>1 DEF TunnelInv, OriginFirst
<1>7. sent = copied + ChunksIn + ChunksHeld + Len(queue)
  BY <1>1 DEF TunnelInv, NothingLost
<1>8. CASE m.type = "chunk"
  <2>1. ChunksHeld = 1 /\ EndsHeld = 0
    BY <1>1, <1>4, <1>8 DEF ChunksHeld, EndsHeld, InHand, InSlot
  <2>2. ChunksIn = 0 /\ EndsIn = 0 /\ CreditsOut = 0 /\ copied + 1 <= sent
        /\ sent = copied + 1 + Len(queue)
    BY <1>3, <1>7, <2>1
  <2>3. Tunnelled!Msg("credit") \in ToNode /\ Tunnelled!Msg("credit").type = "credit"
        /\ Tunnelled!Msg("closed") \in ToNode /\ Tunnelled!Msg("closed").type = "closed"
    BY DEF Tunnelled!Msg, ToNode, Of
  <2>4. /\ toNode' \in Seq(ToNode) /\ ChunksOut' = ChunksOut /\ Connects' = Connects
        /\ CreditsOut' = 1
        /\ \/ copied' = copied + 1 /\ UNCHANGED <<over, registered, ended>>
           \/ /\ copied' = copied /\ ended' = [how |-> "failed", n |-> copied]
              /\ over' = TRUE /\ registered' = FALSE
    <3>1. CASE /\ toNode' = Append(toNode, Tunnelled!Msg("credit"))
               /\ copied' = copied + 1 /\ UNCHANGED <<over, registered, ended>>
      BY <1>0, <2>2, <2>3, <3>1, NodeIsSent, CountsAreNumbers
    <3>2. CASE /\ Tunnelled!FinishWith(<<Tunnelled!Msg("credit")>>)
               /\ copied' = copied /\ ended' = [how |-> "failed", n |-> copied]
      <4>1. toNode \in Seq(ToNode)
        BY <1>0 DEF TunnelTyped
      <4>2. toNode' = Append(Append(toNode, Tunnelled!Msg("credit")), Tunnelled!Msg("closed"))
            /\ over' = TRUE /\ registered' = FALSE
        <5>1. toNode' = toNode \o <<Tunnelled!Msg("credit")>> \o <<Tunnelled!Msg("closed")>>
          BY <1>1, <3>2 DEF Tunnelled!FinishWith
        <5>2. over' = TRUE /\ registered' = FALSE
          BY <1>1, <3>2 DEF Tunnelled!FinishWith
        <5> HIDE DEF Tunnelled!Msg
        <5> QED
          BY <2>3, <4>1, <5>1, <5>2
      <4>3. /\ toNode' \in Seq(ToNode)
            /\ \A kind : Count(toNode', kind) =
                   Count(toNode, kind) + One(Tunnelled!Msg("credit"), kind)
                                       + One(Tunnelled!Msg("closed"), kind)
        <5> DEFINE q == Append(toNode, Tunnelled!Msg("credit"))
        <5>1. q \in Seq(ToNode) /\ toNode' \in Seq(ToNode)
          BY <2>3, <4>1, <4>2
        <5>2. ASSUME NEW kind
              PROVE  Count(toNode', kind) = Count(toNode, kind)
                         + One(Tunnelled!Msg("credit"), kind)
                         + One(Tunnelled!Msg("closed"), kind)
          <6>1. Count(q, kind) = Count(toNode, kind) + One(Tunnelled!Msg("credit"), kind)
            BY <2>3, <4>1, CountAppended
          <6> HIDE DEF q
          <6>2. Count(Append(q, Tunnelled!Msg("closed")), kind) =
                    Count(q, kind) + One(Tunnelled!Msg("closed"), kind)
            BY <2>3, <5>1, CountAppended
          <6> QED
            BY <4>2, <6>1, <6>2 DEF q
        <5> QED
          BY <5>1, <5>2
      <4>4. /\ One(Tunnelled!Msg("credit"), Of({"chunk"})) = 0
            /\ One(Tunnelled!Msg("credit"), Of({"credit"})) = 1
            /\ One(Tunnelled!Msg("credit"), Of({"connect"})) = 0
            /\ One(Tunnelled!Msg("closed"), Of({"chunk"})) = 0
            /\ One(Tunnelled!Msg("closed"), Of({"credit"})) = 0
            /\ One(Tunnelled!Msg("closed"), Of({"connect"})) = 0
        BY <2>3, MessageKinds DEF ToNode
      <4>5. ChunksOut' = ChunksOut /\ CreditsOut' = 1 /\ Connects' = Connects
        BY <1>0, <2>2, <4>3, <4>4, CountsAreNumbers DEF ChunksOut, CreditsOut, Connects
      <4> QED
        BY <3>2, <4>2, <4>3, <4>5
    <3> QED
      BY <1>8, <3>1, <3>2 DEF Tunnelled!Copy
  <2>5. Down' = 1 /\ Up' = Up /\ Down = 1
    BY <1>1, <1>2, <1>3, <1>5, <2>1, <2>2, <2>4 DEF Down, Up
  <2>6. TunnelTyped'
    <3>1. copied' \in 0..sent'
      BY <1>1, <1>3, <2>2, <2>4
    <3>2. over' \in BOOLEAN /\ registered' \in BOOLEAN
      BY <1>0, <2>4 DEF TunnelTyped
    <3>3. channel' \in Seq(Of({"chunk", "end"})) /\ Len(channel') = 0
      BY <1>1
    <3> QED
      BY <1>0, <1>1, <2>4, <3>1, <3>2, <3>3 DEF TunnelTyped
  <2>7. AskedOnce' /\ OneEach' /\ OriginFirst'
    BY <1>1, <1>6, <2>4, <2>5 DEF TunnelInv, AskedOnce, OneEach, OriginFirst
  <2>8. NothingLost'
    <3>1. CASE over' = TRUE
      BY <3>1 DEF NothingLost
    <3>2. CASE copied' = copied + 1 /\ UNCHANGED <<over, registered, ended>>
      <4>1. sent' = copied' + ChunksIn' + ChunksHeld' + Len(queue')
        BY <1>1, <1>2, <1>3, <1>5, <2>2, <3>2
      <4> QED
        BY <1>1, <3>2, <4>1 DEF TunnelInv, NothingLost
    <3> QED
      BY <2>4, <3>1, <3>2
  <2>9. EndIsLast'
    <3>1. ended'.how # "end"
      BY <1>1, <2>4 DEF Tunnelled!NotEnded
    <3> QED
      BY <1>1, <1>2, <1>5, <2>2, <3>1 DEF TunnelInv, EndIsLast
  <2> QED
    BY <1>1, <2>6, <2>7, <2>8, <2>9 DEF TunnelInv
<1>9. CASE m.type = "end"
  <2>1. ChunksHeld = 0 /\ EndsHeld = 1
    BY <1>1, <1>4, <1>9 DEF ChunksHeld, EndsHeld, InHand, InSlot
  <2>2. ChunksIn = 0 /\ EndsIn = 0 /\ CreditsOut = 0 /\ Down = 1
    BY <1>3, <2>1
  <2>3. queue = <<>> /\ up \in {"ended", "closed"}
    BY <2>1, <2>2 DEF TunnelInv, EndIsLast
  <2>4. copied = sent
    BY <1>3, <1>7, <2>1, <2>2, <2>3
  <2>5. /\ copied' = copied /\ ended' = [how |-> "end", n |-> copied]
        /\ Tunnelled!FinishWith(<<>>) /\ over' = TRUE /\ registered' = FALSE
    BY <1>1, <1>9 DEF Tunnelled!Copy, Tunnelled!FinishWith
  <2>6. toNode' \in Seq(ToNode) /\ UNCHANGED <<ChunksOut, CreditsOut, Connects>>
    BY <1>0, <2>5, FinishSends
  <2>7. Down' = 0 /\ Up' = Up
    BY <1>1, <1>2, <1>5, <2>2, <2>6 DEF Down, Up
  <2>8. TunnelTyped'
    <3>1. over' \in BOOLEAN /\ registered' \in BOOLEAN
      BY <2>5
    <3>2. channel' \in Seq(Of({"chunk", "end"})) /\ Len(channel') = 0
      BY <1>1
    <3> QED
      BY <1>0, <1>1, <2>5, <2>6, <3>1, <3>2 DEF TunnelTyped
  <2>9. AskedOnce'
    <3>1. Connects' = Connects
      BY <2>6
    <3> QED
      BY <1>1, <2>5, <3>1 DEF TunnelInv, AskedOnce
  <2>10. OneEach' /\ OriginFirst' /\ NothingLost'
    BY <1>1, <1>6, <2>5, <2>7 DEF TunnelInv, OneEach, OriginFirst, NothingLost
  <2>11. EndIsLast'
    BY <1>1, <2>3, <2>4, <2>5 DEF TunnelInv, EndIsLast
  <2> QED
    BY <1>1, <2>8, <2>9, <2>10, <2>11 DEF TunnelInv
<1> QED
  BY <1>4, <1>8, <1>9 DEF Of

LEMMA TunnelKept == TunnelInv /\ [Next]_vars => TunnelInv'
<1> SUFFICES ASSUME TunnelInv, [Next]_vars PROVE TunnelInv'
  OBVIOUS
<1>1. Tunnelled!Next \/ UNCHANGED tunnelVars
  BY DEF Next, vars
<1> QED
  BY <1>1, TunnelStutters, AskKeeps, EndOfSessionKeeps, HandlerKeeps, CoreReceivesKeeps,
     CopyKeeps, PipeKeeps, NodeReceivesKeeps, WriterKeeps, EndsMove
     DEF Tunnelled!Next, Tunnelled!CoreStep, Tunnelled!NodeStep, Tunnelled!Writes,
         Tunnelled!Dialled

\* What the properties ask of it.
LEMMA TunnelServes ==
    TunnelInv => /\ Tunnelled!TypeOK /\ Tunnelled!CreditsSuffice
                 /\ Tunnelled!EndIsComplete /\ Tunnelled!UploadsAwaitTheOrigin
<1> SUFFICES ASSUME TunnelInv
             PROVE  /\ Tunnelled!TypeOK /\ Tunnelled!CreditsSuffice
                    /\ Tunnelled!EndIsComplete /\ Tunnelled!UploadsAwaitTheOrigin
  OBVIOUS
<1>0. TunnelTyped /\ ~fatal /\ ~lost
  BY DEF TunnelInv
<1>1. Tunnelled!TypeOK
  <2>1. /\ \A i \in 1..Len(toCore) : toCore[i].type \in {"inspect", "chunk", "end", "credit"}
        /\ \A i \in 1..Len(toNode) :
               toNode[i].type \in {"connect", "chunk", "credit", "closed"}
    <3>1. /\ \A i \in 1..Len(toCore) : toCore[i] \in ToCore
          /\ \A i \in 1..Len(toNode) : toNode[i] \in ToNode
      BY <1>0 DEF TunnelTyped
    <3> QED
      BY <3>1 DEF ToCore, ToNode, Of
  <2>2. {registered, answered, over, fatal, token, inflight, ending, lost} \subseteq BOOLEAN
    BY <1>0 DEF TunnelTyped
  <2> QED
    BY <1>0, <2>1, <2>2 DEF TunnelTyped, Tunnelled!TypeOK
<1>2. handler = "holding" => channel = <<>>
  <2> SUFFICES ASSUME handler = "holding", channel # <<>> PROVE FALSE
    OBVIOUS
  <2>1. held \in Of({"chunk", "end"}) /\ channel[1] \in Of({"chunk", "end"})
    BY <1>0 DEF TunnelTyped
  <2>2. ChunksHeld + EndsHeld = 2
    BY <2>1 DEF ChunksHeld, EndsHeld, InHand, InSlot, Of
  <2>3. Down <= 1
    BY DEF TunnelInv, OneEach
  <2> QED
    BY SMTT(20), <1>0, <2>2, <2>3, TunnelArithmetic
<1> QED
  BY <1>0, <1>1, <1>2
     DEF TunnelInv, EndIsLast, Tunnelled!CreditsSuffice, Tunnelled!EndIsComplete,
         Tunnelled!UploadsAwaitTheOrigin

=============================================================================
