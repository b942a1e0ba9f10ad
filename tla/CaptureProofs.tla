---------------------------- MODULE CaptureProofs ----------------------------
(***************************************************************************)
(* Proofs about Capture, for any number of requests and any limits: its    *)
(* type invariant, that the list never holds more records than allowed nor *)
(* bytes of a record it does not hold, that no record is pending once its  *)
(* session is over, and that what is shown as paused can be continued.     *)
(*                                                                         *)
(* The last one is the hard one.  The breakpoint waits under an id, ids    *)
(* come again with each core, and a callback that waited for a body goes   *)
(* on to hold without a look at what the id names by then.  It is right    *)
(* because of the event loop: a callback whose body is there continues     *)
(* before anything but frames of the same read, so the core that numbered  *)
(* its session is still the one that runs, and numbers no other session    *)
(* the same; and a body that is not there yet dies with its session.       *)
(***************************************************************************)
EXTENDS Capture, SequenceTheorems, FiniteSetTheorems, TLAPS

\* The event loop is free only when no callback can continue.
Drained == turn = "free" => Quiet

\* What has no id has not begun.
Unnamed ==
    \A s \in Sessions :
        id[s] = None =>
            /\ ~live[s] /\ call[s] = "none" /\ body[s] = "none"
            /\ subject[s] = None /\ paused[s] = "no"

\* The list holds one record for an id.
OnePerId ==
    /\ \A r \in ToSet(kept) : id[r] # None
    /\ \A r1, r2 \in ToSet(kept) : id[r1] = id[r2] => r1 = r2

\* The core that runs numbered the sessions that are live and those whose callback
\* reads a body or has just read it, and has passed their numbers.
Reading(s) == call[s] = "body" /\ body[s] \in {"open", "ended"}
Numbered ==
    IF Receiving
    THEN \A s \in Sessions : live[s] \/ Reading(s) => id[s] < next
    ELSE \A s \in Sessions : ~live[s]

\* A body that is being read belongs to a live session.
ReadIsLive == \A s \in Sessions : body[s] = "open" => live[s]

\* A callback works on a record of its id, and one that waits has such a record.
SubjectIsNamesake ==
    \A s \in Sessions :
        /\ subject[s] # None => id[subject[s]] = id[s]
        /\ call[s] \in {"body", "held", "resumed", "aborted"} => subject[s] # None

\* What the engine holds under an id is a callback of that id that waits.
HolderWaits ==
    \A i \in Ids : holds[i] # None => call[holds[i]] = "held" /\ id[holds[i]] = i

\* While a callback reads the body it will show, the list has no other record of
\* its id.
ClaimIsUndisputed ==
    \A s \in Sessions : Reading(s) =>
        \A r \in ToSet(kept) : id[r] = id[s] => r = subject[s]

\* What is shown as paused is what the callback held under its id works on, or one
\* about to continue.
Freed(r) == \E c \in Sessions : subject[c] = r /\ call[c] \in {"resumed", "aborted"}
Held(r) == holds[id[r]] # None /\ subject[holds[id[r]]] = r
PausedIsHeld == \A r \in ToSet(kept) : paused[r] # "no" => Held(r) \/ Freed(r)

IInv ==
    /\ TypeOK
    /\ KeptWithinLimit /\ PendingIsLive
    /\ Drained /\ Unnamed /\ OnePerId /\ Numbered /\ ReadIsLive
    /\ SubjectIsNamesake /\ HolderWaits /\ ClaimIsUndisputed /\ PausedIsHeld

-----------------------------------------------------------------------------
(* The operators on the list of records. *)

LEMMA RequestsType == Requests \in Nat /\ Limits \subseteq Nat \ {0}
  BY RequestsAssumption, LimitsAssumption

\* Engine.delete takes the records of D out of the list, and no others.
LEMMA WithoutProperties ==
    ASSUME NEW S, NEW q \in Seq(S), NEW D
    PROVE  /\ Without(q, D) \in Seq(S)
           /\ Len(Without(q, D)) <= Len(q)
           /\ ToSet(Without(q, D)) = ToSet(q) \ D
<1> DEFINE left == {k \in DOMAIN q : q[k] \notin D}
           place(k) == Cardinality({l \in left : l <= k})
           n == Cardinality(left)
           at(j) == CHOOSE k \in left : place(k) = j
           p == [k \in left |-> place(k)]
<1>1. DOMAIN q = 1..Len(q) /\ Len(q) \in Nat
  OBVIOUS
<1>2. IsFiniteSet(left) /\ n \in Nat /\ n <= Len(q)
  <2>1. IsFiniteSet(1..Len(q)) /\ Cardinality(1..Len(q)) = Len(q)
    BY SMTT(20), <1>1, FS_Interval
  <2>2. left \in SUBSET (1..Len(q))
    BY <1>1
  <2> HIDE DEF left
  <2> QED
    BY <2>1, <2>2, FS_Subset, FS_CardinalityType
<1>3. \A k \in left : place(k) \in 1..n
  <2> SUFFICES ASSUME NEW k \in left PROVE place(k) \in 1..n
    OBVIOUS
  <2> DEFINE low == {l \in left : l <= k}
  <2>1. low \in SUBSET left /\ k \in low
    BY <1>1
  <2> HIDE DEF low
  <2>2. IsFiniteSet(low) /\ Cardinality(low) <= n /\ Cardinality(low) \in Nat
    BY <1>2, <2>1, FS_Subset, FS_CardinalityType
  <2>3. Cardinality(low) # 0
    BY <2>1, <2>2, FS_EmptySet
  <2> QED
    BY <1>2, <2>2, <2>3 DEF low
<1>4. \A k, l \in left : k < l => place(k) < place(l)
  <2> SUFFICES ASSUME NEW k \in left, NEW l \in left, k < l
               PROVE  place(k) < place(l)
    OBVIOUS
  <2> DEFINE low(m) == {x \in left : x <= m}
  <2>1. low(k) \in SUBSET low(l) /\ l \in low(l) /\ l \notin low(k) /\ low(l) \in SUBSET left
    BY <1>1
  <2>2. place(k) = Cardinality(low(k)) /\ place(l) = Cardinality(low(l))
    OBVIOUS
  <2> HIDE DEF low, place
  <2>3. IsFiniteSet(low(l)) /\ IsFiniteSet(low(k))
    BY <1>2, <2>1, FS_Subset
  <2>4. /\ Cardinality(low(k)) <= Cardinality(low(l))
        /\ Cardinality(low(k)) # Cardinality(low(l))
        /\ Cardinality(low(k)) \in Nat /\ Cardinality(low(l)) \in Nat
    BY <2>1, <2>3, FS_Subset, FS_CardinalityType
  <2> QED
    BY <2>2, <2>4
<1>5. \A k \in left : p[k] = place(k)
  OBVIOUS
<1>6. \A j \in 1..n : \E k \in left : place(k) = j
  <2>1. p \in Injection(left, 1..n)
    <3>1. p \in [left -> 1..n]
      BY <1>3
    <3>2. ASSUME NEW k \in left, NEW l \in left, p[k] = p[l] PROVE k = l
      <4>1. k \in Nat /\ l \in Nat
        BY <1>1
      <4> HIDE DEF place, left, p
      <4>2. place(k) = place(l) /\ place(k) \in Nat
        BY <3>2, <1>3, <1>5
      <4> QED
        BY <4>1, <4>2, <1>4
    <3> QED
      BY <3>1, <3>2 DEF Injection, IsInjective
  <2>2. IsFiniteSet(1..n) /\ Cardinality(1..n) = n
    BY <1>2, FS_Interval
  <2> HIDE DEF n, p
  <2>3. p \in Surjection(left, 1..n)
    BY <2>1, <2>2, FS_Injection DEF n
  <2> QED
    BY <2>3, <1>5 DEF Surjection, n
<1>7. \A j \in 1..n : at(j) \in left /\ place(at(j)) = j
  BY <1>6
<1>8. \A k \in left : at(place(k)) = k
  <2> SUFFICES ASSUME NEW k \in left PROVE at(place(k)) = k
    OBVIOUS
  <2>1. place(k) \in 1..n
    BY <1>3
  <2>2. at(place(k)) \in left /\ place(at(place(k))) = place(k)
    BY <2>1, <1>7
  <2>3. at(place(k)) \in Nat /\ k \in Nat
    BY <2>2, <1>1
  <2> HIDE DEF place, at, left, n
  <2> QED
    BY <2>1, <2>2, <2>3, <1>4
<1>9. Without(q, D) = [j \in 1..n |-> q[at(j)]]
  BY DEF Without
<1> HIDE DEF place, at
<1>10. Without(q, D) \in Seq(S) /\ Len(Without(q, D)) = n /\ DOMAIN Without(q, D) = 1..n
  BY <1>1, <1>2, <1>7, <1>9
<1>11. \A j \in 1..n : Without(q, D)[j] \in ToSet(q) \ D
  BY <1>7, <1>9 DEF ToSet
<1>12. \A k \in left : Without(q, D)[place(k)] = q[k] /\ place(k) \in 1..n
  BY <1>3, <1>8, <1>9
<1>13. ToSet(Without(q, D)) = ToSet(q) \ D
  <2> HIDE DEF n, p
  <2> QED
    BY <1>10, <1>11, <1>12 DEF ToSet
<1> QED
  BY <1>2, <1>10, <1>13

\* Engine.enforceEntryLimit leaves records of the list, and at most as many as allowed.
LEMMA NewestProperties ==
    ASSUME NEW S, NEW q \in Seq(S), NEW n \in Nat
    PROVE  /\ Newest(q, n) \in Seq(S)
           /\ Len(Newest(q, n)) <= n
           /\ ToSet(Newest(q, n)) \subseteq ToSet(q)
<1>1. Len(q) \in Nat /\ DOMAIN q = 1..Len(q) /\ \A k \in 1..Len(q) : q[k] \in S
  OBVIOUS
<1>2. CASE Len(q) <= n
  BY <1>2 DEF Newest
<1>3. CASE Len(q) > n
  <2> DEFINE m == Len(q) - n + 1
             w == SubSeq(q, m, Len(q))
  <2>1. m \in 1..Len(q) + 1 /\ Newest(q, n) = w
    BY <1>1, <1>3 DEF Newest
  <2>2. \A k \in m..Len(q) : q[k] \in S
    BY <1>1, <2>1
  <2>3. w \in Seq(S) /\ Len(w) = n /\ \A k \in 1..n : w[k] = q[m + k - 1]
    BY <1>1, <1>3, <2>1, <2>2, SubSeqProperties
  <2>4. \A k \in 1..n : m + k - 1 \in DOMAIN q
    BY <1>1, <2>1
  <2>5. DOMAIN w = 1..n
    BY <2>3
  <2> HIDE DEF m, w
  <2> QED
    BY SMTT(20), <2>1, <2>3, <2>4, <2>5 DEF ToSet
<1> QED
  BY <1>1, <1>2, <1>3

\* Map.set leaves the record s under i, and what stood under other ids.
LEMMA PutProperties ==
    ASSUME NEW q \in Seq(Sessions), NEW s \in Sessions, NEW i
    PROVE  /\ Put(q, s, i) \in Seq(Sessions)
           /\ ToSet(Put(q, s, i)) = {r \in ToSet(q) : id[r] # i} \cup {s}
<1>1. Len(q) \in Nat /\ DOMAIN q = 1..Len(q) /\ \A k \in 1..Len(q) : q[k] \in Sessions
  OBVIOUS
<1>2. CASE \E k \in DOMAIN q : id[q[k]] = i
  <2> DEFINE w == [k \in DOMAIN q |-> IF id[q[k]] = i THEN s ELSE q[k]]
  <2>1. Put(q, s, i) = w
    BY <1>2 DEF Put
  <2>2. w \in Seq(Sessions)
    BY <1>1
  <2>3. ToSet(w) = {r \in ToSet(q) : id[r] # i} \cup {s}
    BY <1>2 DEF ToSet
  <2> QED
    BY <2>1, <2>2, <2>3
<1>3. CASE ~\E k \in DOMAIN q : id[q[k]] = i
  <2> DEFINE w == Append(q, s)
  <2>1. Put(q, s, i) = w
    BY <1>3 DEF Put
  <2>2. w \in Seq(Sessions) /\ Len(w) = Len(q) + 1 /\ DOMAIN w = 1..Len(q) + 1
    BY <1>1
  <2>3. w[Len(q) + 1] = s /\ \A k \in 1..Len(q) : w[k] = q[k]
    BY <1>1
  <2>4. \A r \in ToSet(q) : id[r] # i
    BY <1>3 DEF ToSet
  <2>5. ToSet(w) = ToSet(q) \cup {s}
    <3> HIDE DEF w
    <3> QED
      BY <1>1, <2>2, <2>3 DEF ToSet
  <2> QED
    BY <2>1, <2>2, <2>4, <2>5
<1> QED
  BY <1>2, <1>3

-----------------------------------------------------------------------------
(* The inductive invariant. *)

LEMMA Domains ==
    /\ None \notin Sessions /\ None \notin Ids /\ None \in Nat
    /\ Sessions \subseteq Nat /\ Ids \subseteq Nat
    /\ \A i \in Ids : i + 1 \in 1..Requests + 1
  BY RequestsType DEF Sessions, Ids, None

LEMMA RecordsAreNamed == IInv => \A r \in ToSet(kept) : r \in Sessions /\ id[r] \in Ids
<1> SUFFICES ASSUME IInv, NEW r \in ToSet(kept) PROVE r \in Sessions /\ id[r] \in Ids
  OBVIOUS
<1>1. r \in Sessions
  BY DEF IInv, TypeOK, ToSet
<1> QED
  BY <1>1 DEF IInv, TypeOK, OnePerId

LEMMA TurnDrains == FrameTurn \/ TaskTurn \/ turn' = (IF Quiet' THEN "free" ELSE "micro")
                       => Drained' /\ turn' \in {"free", "core", "micro"}
  BY DEF FrameTurn, TaskTurn, Drained

LEMMA InitHolds == Init => IInv
<1> SUFFICES ASSUME Init PROVE IInv
  OBVIOUS
<1> USE DEF Init
<1>1. TypeOK
  BY RequestsType DEF TypeOK, Phases
<1>2. ToSet(kept) = {} /\ Len(kept) = 0
  BY DEF ToSet
<1>3. KeptWithinLimit /\ PendingIsLive /\ OnePerId /\ PausedIsHeld
  BY <1>2, RequestsType DEF KeptWithinLimit, PendingIsLive, OnePerId, PausedIsHeld
<1>4. Drained /\ Unnamed /\ Numbered /\ ReadIsLive
  BY DEF Drained, Quiet, Runnable, Unnamed, Numbered, Receiving, ReadIsLive
<1>5. SubjectIsNamesake /\ HolderWaits /\ ClaimIsUndisputed
  BY DEF SubjectIsNamesake, HolderWaits, ClaimIsUndisputed, Reading
<1> QED
  BY <1>1, <1>3, <1>4, <1>5 DEF IInv

LEMMA RequestArrivesKeeps ==
    ASSUME IInv, NEW s \in Sessions, RequestArrives(s)
    PROVE  IInv'
<1> USE Domains
<1>1. PICK i \in Ids : i >= next /\ id' = [id EXCEPT ![s] = i] /\ next' = i + 1
  BY DEF RequestArrives
<1>2. /\ Receiving /\ Receiving' /\ mode' = mode /\ id[s] = None
      /\ live' = [live EXCEPT ![s] = TRUE]
      /\ UNCHANGED <<recording, limit, phase, paused, holds, lost>>
      /\ FrameTurn
  BY DEF RequestArrives, Receiving
<1>3. id \in [Sessions -> Ids \cup {None}] /\ id'[s] = i
  BY <1>1 DEF IInv, TypeOK
<1>4. PICK breakpoints \in SUBSET Phases :
        /\ matched' = IF breakpoints = {} THEN matched
                      ELSE [matched EXCEPT ![id'[s]] = breakpoints]
        /\ IF recording /\ "request" \in breakpoints
           THEN /\ call' = [call EXCEPT ![s] = "body"]
                /\ body' = [body EXCEPT ![s] = "open"]
           ELSE /\ call' = [call EXCEPT ![s] = "relaying"]
                /\ UNCHANGED body
  BY DEF RequestArrives
<1>5. /\ call' \in [Sessions ->
             {"none", "body", "held", "resumed", "aborted", "relaying", "over"}]
      /\ body' \in [Sessions -> {"none", "open", "ended", "destroyed"}]
      /\ matched' \in [Ids -> SUBSET Phases]
      /\ \A c \in Sessions : c # s => call'[c] = call[c] /\ body'[c] = body[c]
      /\ call'[s] \in {"body", "relaying"}
      /\ call'[s] = "body" => recording
      /\ body'[s] = "open" => recording
  BY <1>2, <1>3, <1>4 DEF IInv, TypeOK, Unnamed, Phases
<1> DEFINE all == Put(kept, s, i)
<1>6. IF recording
      THEN /\ kept' = Newest(all, limit)
           /\ captures' = captures \ (IdsOf(all) \ IdsOf(kept'))
           /\ tx' = [tx EXCEPT ![s] = "pending"]
           /\ subject' = [subject EXCEPT ![s] = s]
      ELSE UNCHANGED <<kept, captures, tx, subject>>
  BY <1>3 DEF RequestArrives
<1>7. limit \in Nat /\ Len(kept) <= limit /\ kept \in Seq(Sessions)
  BY RequestsType DEF IInv, TypeOK, KeptWithinLimit
<1>8. all \in Seq(Sessions) /\ ToSet(all) = {r \in ToSet(kept) : id[r] # i} \cup {s}
  BY <1>7, PutProperties
<1>9. /\ kept' \in Seq(Sessions) /\ Len(kept') <= limit
      /\ recording => ToSet(kept') \subseteq ToSet(all)
      /\ ~recording => ToSet(kept') = ToSet(kept)
  <2> HIDE DEF all
  <2> QED
    BY <1>6, <1>7, <1>8, NewestProperties
<1>10. s \notin ToSet(kept) /\ ToSet(kept) \subseteq Sessions /\ \A r \in ToSet(kept) : id[r] # None
  BY <1>2, <1>7 DEF IInv, OnePerId, ToSet
<1>11. \A r \in ToSet(kept') :
           \/ r = s /\ recording
           \/ r \in ToSet(kept) /\ r # s /\ (recording => id[r] # i)
  BY <1>8, <1>9, <1>10
<1>12. /\ id'[s] = i /\ live'[s]
       /\ recording => subject'[s] = s
       /\ \A c \in Sessions : c # s =>
              id'[c] = id[c] /\ live'[c] = live[c] /\ subject'[c] = subject[c] /\ tx'[c] = tx[c]
       /\ ~recording => subject' = subject /\ tx' = tx
  BY <1>1, <1>2, <1>3, <1>6 DEF IInv, TypeOK
<1>13. /\ ~live[s] /\ call[s] = "none" /\ body[s] = "none"
       /\ subject[s] = None /\ paused[s] = "no"
  BY <1>2 DEF IInv, Unnamed
<1>14. TypeOK'
  <2>1. next' \in 1..Requests + 1 /\ id' \in [Sessions -> Ids \cup {None}]
    BY <1>1, <1>3
  <2>2. /\ subject' \in [Sessions -> Sessions \cup {None}]
        /\ tx' \in [Sessions -> {"none", "pending", "settled"}]
        /\ captures' \subseteq Ids
    <3>1. CASE recording
      <4>1. captures' \subseteq captures
        BY <3>1, <1>6
      <4>2. subject' = [subject EXCEPT ![s] = s] /\ tx' = [tx EXCEPT ![s] = "pending"]
        BY <3>1, <1>6
      <4> QED
        BY <4>1, <4>2 DEF IInv, TypeOK
    <3>2. CASE ~recording
      BY <3>2, <1>6 DEF IInv, TypeOK
    <3> QED
      BY <3>1, <3>2
  <2>3. turn' \in {"free", "core", "micro"}
    BY <1>2, TurnDrains
  <2> QED
    BY <1>2, <1>5, <1>9, <2>1, <2>2, <2>3 DEF IInv, TypeOK
<1>15. KeptWithinLimit'
  <2>1. captures' \subseteq {id'[r] : r \in ToSet(kept')}
    <3>1. CASE recording
      <4>1. \A j \in captures : \E r \in ToSet(kept) : id[r] = j
        BY DEF IInv, KeptWithinLimit
      <4>2. \A r \in ToSet(kept) : \E r2 \in ToSet(all) : id'[r2] = id[r]
        BY <1>8, <1>10, <1>12
      <4>3. IdsOf(all) = {id'[r] : r \in ToSet(all)} /\ IdsOf(kept') = {id'[r] : r \in ToSet(kept')}
        BY DEF IdsOf, ToSet
      <4> HIDE DEF all
      <4>4. captures \subseteq IdsOf(all)
        BY <4>1, <4>2, <4>3
      <4> QED
        BY <3>1, <1>6, <4>3, <4>4
    <3>2. CASE ~recording
      <4>1. \A r \in ToSet(kept) : id'[r] = id[r]
        BY <1>10, <1>12
      <4>2. captures' = captures /\ ToSet(kept') = ToSet(kept)
        BY <3>2, <1>6
      <4> QED
        BY <4>1, <4>2 DEF IInv, KeptWithinLimit
    <3> QED
      BY <3>1, <3>2
  <2> QED
    BY <1>2, <1>9, <2>1 DEF KeptWithinLimit
<1>16. PendingIsLive'
  <2> SUFFICES ASSUME NEW c \in ToSet(kept'), tx'[c] = "pending"
               PROVE  live'[c] \/ mode' = "unbound" \/ c \in lost'
    BY DEF PendingIsLive
  <2>1. CASE c = s
    BY <2>1, <1>12
  <2>2. CASE c # s
    <3>1. c \in ToSet(kept) /\ c \in Sessions
      BY <2>2, <1>10, <1>11
    <3>2. tx'[c] = tx[c] /\ live'[c] = live[c]
      BY <2>2, <3>1, <1>12
    <3>3. tx[c] = "pending" => live[c] \/ mode = "unbound" \/ c \in lost
      BY <3>1 DEF IInv, PendingIsLive
    <3> QED
      BY <1>2, <3>2, <3>3
  <2> QED
    BY <2>1, <2>2
<1>17. Unnamed'
  BY <1>2, <1>5, <1>12 DEF IInv, Unnamed
<1>18. OnePerId'
  BY <1>10, <1>11, <1>12 DEF IInv, OnePerId
<1>19. Numbered'
  <2>1. next \in Nat /\ i \in Nat /\ i >= next /\ next' = i + 1
    BY <1>1 DEF IInv, TypeOK
  <2> SUFFICES ASSUME NEW c \in Sessions, live'[c] \/ Reading(c)' PROVE id'[c] < next'
    BY <1>2 DEF Numbered
  <2>2. CASE c = s
    BY <2>1, <2>2, <1>12
  <2>3. CASE c # s
    <3>1. (live[c] \/ Reading(c)) /\ id'[c] = id[c] /\ id[c] \in Nat
      BY ZenonT(40), <2>3, <1>3, <1>5, <1>12 DEF Reading
    <3>2. id[c] < next
      BY <1>2, <3>1 DEF IInv, Numbered
    <3> QED
      BY <2>1, <3>1, <3>2
  <2> QED
    BY <2>2, <2>3
<1>20. ReadIsLive'
  BY <1>5, <1>12 DEF IInv, ReadIsLive
<1>21. SubjectIsNamesake'
  <2> SUFFICES ASSUME NEW c \in Sessions
               PROVE  /\ subject'[c] # None => id'[subject'[c]] = id'[c]
                      /\ call'[c] \in {"body", "held", "resumed", "aborted"} => subject'[c] # None
    BY DEF SubjectIsNamesake
  <2>1. /\ subject[c] # None => id[subject[c]] = id[c] /\ subject[c] \in Sessions
        /\ call[c] \in {"body", "held", "resumed", "aborted"} => subject[c] # None
    BY DEF IInv, TypeOK, SubjectIsNamesake
  <2>2. CASE c = s
    BY <2>2, <1>5, <1>12, <1>13
  <2>3. CASE c # s
    <3>1. subject[c] # s
      BY <2>1, <2>3, <1>2, <1>13 DEF IInv, Unnamed
    <3> QED
      BY <2>1, <2>3, <3>1, <1>5, <1>12
  <2> QED
    BY <2>2, <2>3
<1>22. HolderWaits'
  <2> SUFFICES ASSUME NEW j \in Ids, holds[j] # None
               PROVE  call'[holds[j]] = "held" /\ id'[holds[j]] = j
    BY <1>2 DEF HolderWaits
  <2>1. call[holds[j]] = "held" /\ id[holds[j]] = j /\ holds[j] \in Sessions
    BY DEF IInv, TypeOK, HolderWaits
  <2>2. holds[j] # s
    BY <2>1, <1>13
  <2> QED
    BY <2>1, <2>2, <1>5, <1>12
<1>23. ClaimIsUndisputed'
  <2> SUFFICES ASSUME NEW c \in Sessions, Reading(c)', NEW r \in ToSet(kept'), id'[r] = id'[c]
               PROVE  r = subject'[c]
    BY DEF ClaimIsUndisputed
  <2>1. r \in Sessions /\ id[c] \in Nat
    BY <1>3, <1>10, <1>11
  <2>2. CASE c = s
    <3>1. recording
      BY <2>2, <1>5 DEF Reading
    <3> QED
      BY <2>1, <2>2, <3>1, <1>11, <1>12
  <2>3. CASE c # s
    <3>1. Reading(c) /\ id'[c] = id[c] /\ subject'[c] = subject[c]
      BY <2>3, <1>5, <1>12 DEF Reading
    <3>2. id[c] < next /\ next \in Nat
      BY <1>2, <3>1 DEF IInv, TypeOK, Numbered
    <3>3. r # s
      BY <1>1, <1>12, <2>1, <3>1, <3>2
    <3>4. r \in ToSet(kept) /\ id[r] = id[c]
      BY <2>1, <3>1, <3>3, <1>11, <1>12
    <3>5. ClaimIsUndisputed
      BY DEF IInv
    <3>6. r = subject[c]
      BY <3>1, <3>4, <3>5 DEF ClaimIsUndisputed
    <3> QED
      BY <3>1, <3>6
  <2> QED
    BY <2>2, <2>3
<1>24. PausedIsHeld'
  <2> SUFFICES ASSUME NEW r \in ToSet(kept'), paused[r] # "no" PROVE Held(r)' \/ Freed(r)'
    BY <1>2 DEF PausedIsHeld
  <2>1. r \in ToSet(kept) /\ r # s /\ r \in Sessions /\ id'[r] = id[r] /\ id[r] \in Ids
    BY <1>3, <1>10, <1>11, <1>12, <1>13
  <2>2. CASE Held(r)
    <3>0. holds \in [Ids -> Sessions \cup {None}] /\ HolderWaits
      BY DEF IInv, TypeOK
    <3>1. holds[id[r]] \in Sessions /\ call[holds[id[r]]] = "held"
      BY <2>1, <2>2, <3>0 DEF HolderWaits, Held
    <3>2. holds[id[r]] # s
      BY <3>1, <1>13
    <3> QED
      BY <2>1, <2>2, <3>1, <3>2, <1>2, <1>12 DEF Held
  <2>3. CASE Freed(r)
    BY <2>3, <1>5, <1>12, <1>13 DEF Freed
  <2> QED
    BY <2>1, <2>2, <2>3 DEF IInv, PausedIsHeld
<1> QED
  BY <1>2, <1>14, <1>15, <1>16, <1>17, <1>18, <1>19, <1>20, <1>21, <1>22, <1>23, <1>24,
     TurnDrains DEF IInv

\* What an action leaves standing that changes no callback and adds no record.
Callbacks == <<id, live, call, body, subject, paused, holds>>

LEMMA CallbacksStand ==
    ASSUME IInv, UNCHANGED Callbacks, ToSet(kept') \subseteq ToSet(kept)
    PROVE  /\ Unnamed' /\ OnePerId' /\ ReadIsLive' /\ SubjectIsNamesake'
           /\ HolderWaits' /\ ClaimIsUndisputed' /\ PausedIsHeld'
<1> USE DEF Callbacks
<1>1. Unnamed' /\ ReadIsLive' /\ SubjectIsNamesake' /\ HolderWaits'
  BY DEF IInv, Unnamed, ReadIsLive, SubjectIsNamesake, HolderWaits
<1>2. OnePerId' /\ ClaimIsUndisputed'
  BY DEF IInv, OnePerId, ClaimIsUndisputed, Reading
<1>3. PausedIsHeld'
  BY DEF IInv, PausedIsHeld, Held, Freed
<1> QED
  BY <1>1, <1>2, <1>3

\* Sessions that end and what the engine lets go of: a held callback that loses its
\* place under the id is about to continue.
LEMMA EndStands ==
    ASSUME IInv, NEW D \in SUBSET Sessions, NEW R \in SUBSET Ids, End(D, R),
           UNCHANGED <<id, subject, paused>>, ToSet(kept') \subseteq ToSet(kept)
    PROVE  /\ Unnamed' /\ OnePerId' /\ ReadIsLive' /\ SubjectIsNamesake'
           /\ HolderWaits' /\ ClaimIsUndisputed' /\ PausedIsHeld'
           /\ live' \in [Sessions -> BOOLEAN]
           /\ body' \in [Sessions -> {"none", "open", "ended", "destroyed"}]
           /\ holds' \in [Ids -> Sessions \cup {None}]
           /\ call' \in [Sessions ->
                  {"none", "body", "held", "resumed", "aborted", "relaying", "over"}]
           /\ \A s \in Sessions : live'[s] <=> live[s] /\ s \notin D
           /\ \A s \in Sessions : Reading(s)' => Reading(s)
<1> USE Domains
<1>1. /\ live' \in [Sessions -> BOOLEAN]
      /\ body' \in [Sessions -> {"none", "open", "ended", "destroyed"}]
      /\ holds' \in [Ids -> Sessions \cup {None}]
      /\ call' \in [Sessions ->
             {"none", "body", "held", "resumed", "aborted", "relaying", "over"}]
  BY DEF IInv, TypeOK, End
<1>2. \A s \in Sessions :
          /\ live'[s] <=> live[s] /\ s \notin D
          /\ body'[s] = IF s \in D /\ body[s] = "open" THEN "destroyed" ELSE body[s]
          /\ (\E i \in R : holds[i] = s) => call'[s] = "aborted"
          /\ ~(\E i \in R : holds[i] = s) =>
                 call'[s] = IF s \in D /\ call[s] = "relaying" THEN "over" ELSE call[s]
  BY DEF End
<1>3. \A i \in Ids : holds'[i] = IF i \in R THEN None ELSE holds[i]
  BY DEF End
<1>4. \A i \in Ids : holds[i] # None =>
          holds[i] \in Sessions /\ call[holds[i]] = "held" /\ id[holds[i]] = i
  BY DEF IInv, TypeOK, HolderWaits
<1>5. \A s \in Sessions : call'[s] \in {"body", "held", "none"} => call'[s] = call[s]
  BY <1>2
<1>6. \A s \in Sessions : Reading(s)' => Reading(s)
  BY <1>2, <1>5 DEF Reading
<1>7. \A s \in Sessions : call[s] = "none" => call'[s] = "none"
  BY <1>2, <1>4
<1>8. Unnamed'
  BY <1>2, <1>7 DEF IInv, Unnamed
<1>9. OnePerId'
  BY DEF IInv, OnePerId
<1>10. ReadIsLive'
  BY <1>2 DEF IInv, ReadIsLive
<1>11. SubjectIsNamesake'
  <2> SUFFICES ASSUME NEW s \in Sessions
               PROVE  /\ subject[s] # None => id[subject[s]] = id[s]
                      /\ call'[s] \in {"body", "held", "resumed", "aborted"} => subject[s] # None
    BY DEF SubjectIsNamesake
  <2>1. CASE \E i \in R : holds[i] = s
    BY <2>1, <1>4 DEF IInv, SubjectIsNamesake
  <2>2. CASE ~\E i \in R : holds[i] = s
    BY <2>2, <1>2 DEF IInv, SubjectIsNamesake
  <2> QED
    BY <2>1, <2>2
<1>12. HolderWaits'
  <2> SUFFICES ASSUME NEW j \in Ids, holds'[j] # None
               PROVE  call'[holds'[j]] = "held" /\ id[holds'[j]] = j
    BY DEF HolderWaits
  <2>1. j \notin R /\ holds'[j] = holds[j] /\ holds[j] # None
    BY <1>3
  <2>2. holds[j] \in Sessions /\ call[holds[j]] = "held" /\ id[holds[j]] = j
    BY <2>1, <1>4
  <2>3. ~\E i \in R : holds[i] = holds[j]
    BY <2>1, <2>2, <1>4
  <2> QED
    BY <2>1, <2>2, <2>3, <1>2
<1>13. ClaimIsUndisputed'
  BY <1>6 DEF IInv, ClaimIsUndisputed
<1>14. PausedIsHeld'
  <2> SUFFICES ASSUME NEW r \in ToSet(kept), paused[r] # "no" PROVE Held(r)' \/ Freed(r)'
    BY DEF PausedIsHeld
  <2>1. id[r] \in Ids
    BY RecordsAreNamed
  <2>2. CASE Held(r) /\ id[r] \in R
    <3>1. call'[holds[id[r]]] = "aborted" /\ holds[id[r]] \in Sessions
      BY <2>1, <2>2, <1>2, <1>4 DEF Held
    <3> QED
      BY <2>2, <3>1 DEF Held, Freed
  <2>3. CASE Held(r) /\ id[r] \notin R
    BY <2>1, <2>3, <1>3 DEF Held
  <2>4. CASE Freed(r)
    <3>1. PICK c \in Sessions : subject[c] = r /\ call[c] \in {"resumed", "aborted"}
      BY <2>4 DEF Freed
    <3>2. call'[c] \in {"resumed", "aborted"}
      BY <3>1, <1>2
    <3> QED
      BY <3>1, <3>2 DEF Freed
  <2> QED
    BY <2>2, <2>3, <2>4 DEF IInv, PausedIsHeld
<1> QED
  BY <1>1, <1>2, <1>6, <1>8, <1>9, <1>10, <1>11, <1>12, <1>13, <1>14

\* Engine.finish settles exactly the pending records of the list under the ids of I.
LEMMA FinishSettles ==
    ASSUME IInv, NEW I, Finish(I)
    PROVE  /\ tx' \in [Sessions -> {"none", "pending", "settled"}]
           /\ \A r \in ToSet(kept) : tx'[r] = "pending" => tx[r] = "pending" /\ id[r] \notin I
<1>1. tx' \in [Sessions -> {"none", "pending", "settled"}]
  BY DEF IInv, TypeOK, Finish
<1>2. \A r \in ToSet(kept) : r \in Sessions /\ (id[r] \in I <=> r \in Records(I))
  BY DEF IInv, TypeOK, Records, ToSet
<1> QED
  BY <1>1, <1>2 DEF Finish

-----------------------------------------------------------------------------
(* The frames of the core. *)

LEMMA BodyEndsKeeps ==
    ASSUME IInv, NEW s \in Sessions, BodyEnds(s)
    PROVE  IInv'
<1>1. /\ body[s] = "open" /\ body' = [body EXCEPT ![s] = "ended"]
      /\ UNCHANGED <<mode, next, recording, limit, id, live, call, phase, subject, tx, paused,
                     kept, holds, matched, captures, lost>>
      /\ FrameTurn
  BY DEF BodyEnds
<1>2. body'[s] = "ended" /\ \A c \in Sessions : c # s => body'[c] = body[c]
  BY <1>1 DEF IInv, TypeOK
<1>3. TypeOK' /\ Drained'
  BY <1>1, TurnDrains DEF IInv, TypeOK
<1>4. KeptWithinLimit' /\ PendingIsLive' /\ OnePerId'
  BY <1>1 DEF IInv, KeptWithinLimit, PendingIsLive, OnePerId
<1>5. Unnamed' /\ ReadIsLive' /\ SubjectIsNamesake' /\ HolderWaits'
  BY <1>1, <1>2 DEF IInv, Unnamed, ReadIsLive, SubjectIsNamesake, HolderWaits
<1>6. \A c \in Sessions : Reading(c)' => Reading(c)
  BY <1>1, <1>2 DEF Reading
<1>7. Numbered' /\ ClaimIsUndisputed'
  BY <1>1, <1>6 DEF IInv, Numbered, Receiving, ClaimIsUndisputed
<1>8. PausedIsHeld'
  BY <1>1 DEF IInv, PausedIsHeld, Held, Freed
<1> QED
  BY <1>3, <1>4, <1>5, <1>7, <1>8 DEF IInv

LEMMA RecordProperties ==
    ASSUME IInv, NEW i
    PROVE  /\ Record(i) # None => Record(i) \in ToSet(kept) /\ id[Record(i)] = i
           /\ \A r \in ToSet(kept) : id[r] = i => r = Record(i)
           /\ Record(i) \in Sessions \cup {None}
<1>1. \A r \in ToSet(kept) : r # None
  BY RecordsAreNamed, Domains
<1>2. CASE Records({i}) = {}
  BY <1>2 DEF Record, Records
<1>3. CASE Records({i}) # {}
  <2>1. Record(i) \in Records({i})
    BY <1>3 DEF Record
  <2> QED
    BY <2>1, RecordsAreNamed DEF Records, IInv, OnePerId
<1> QED
  BY <1>2, <1>3

LEMMA ResponseArrivesKeeps ==
    ASSUME IInv, NEW s \in Sessions, ResponseArrives(s)
    PROVE  IInv'
<1> USE Domains
<1> DEFINE found == Record(id[s])
<1>1. /\ live[s] /\ call[s] = "relaying" /\ Receiving
      /\ phase' = [phase EXCEPT ![s] = "response"]
      /\ subject' = [subject EXCEPT ![s] = found]
      /\ UNCHANGED <<mode, next, recording, limit, id, live, tx, paused, kept,
                     holds, matched, captures, lost>>
      /\ FrameTurn
  BY DEF ResponseArrives
<1>2. \/ found # None /\ call' = [call EXCEPT ![s] = "body"] /\ body' = [body EXCEPT ![s] = "open"]
      \/ UNCHANGED <<call, body>>
  BY DEF ResponseArrives
<1>3. /\ found \in Sessions \cup {None}
      /\ found # None => found \in ToSet(kept) /\ id[found] = id[s]
      /\ \A r \in ToSet(kept) : id[r] = id[s] => r = found
  BY RecordProperties
<1> HIDE DEF found
<1>4. /\ subject'[s] = found
      /\ \/ call'[s] = "body" /\ body'[s] = "open" /\ found # None
         \/ call'[s] = call[s] /\ body'[s] = body[s]
      /\ \A c \in Sessions : c # s =>
             subject'[c] = subject[c] /\ call'[c] = call[c] /\ body'[c] = body[c]
  BY <1>1, <1>2 DEF IInv, TypeOK
<1>5. TypeOK' /\ Drained'
  <2>1. phase' \in [Sessions -> Phases] /\ subject' \in [Sessions -> Sessions \cup {None}]
    BY <1>1, <1>3 DEF IInv, TypeOK, Phases
  <2>2. call' \in [Sessions ->
             {"none", "body", "held", "resumed", "aborted", "relaying", "over"}]
        /\ body' \in [Sessions -> {"none", "open", "ended", "destroyed"}]
    BY <1>2 DEF IInv, TypeOK
  <2> QED
    BY <1>1, <2>1, <2>2, TurnDrains DEF IInv, TypeOK
<1>6. KeptWithinLimit' /\ PendingIsLive' /\ OnePerId'
  BY <1>1 DEF IInv, KeptWithinLimit, PendingIsLive, OnePerId
<1>7. Unnamed'
  BY <1>1, <1>4 DEF IInv, Unnamed
<1>8. Numbered' /\ ReadIsLive'
  <2>1. \A c \in Sessions : Reading(c)' => live[c] \/ Reading(c)
    BY <1>1, <1>4 DEF Reading
  <2> QED
    BY <1>1, <1>4, <2>1 DEF IInv, Numbered, Receiving, ReadIsLive
<1>9. SubjectIsNamesake'
  BY <1>1, <1>3, <1>4 DEF IInv, SubjectIsNamesake
<1>10. HolderWaits'
  <2> SUFFICES ASSUME NEW j \in Ids, holds[j] # None
               PROVE  call'[holds[j]] = "held" /\ id[holds[j]] = j
    BY <1>1 DEF HolderWaits
  <2>1. call[holds[j]] = "held" /\ id[holds[j]] = j /\ holds[j] \in Sessions
    BY DEF IInv, TypeOK, HolderWaits
  <2> QED
    BY <2>1, <1>1, <1>4
<1>11. ClaimIsUndisputed'
  <2> SUFFICES ASSUME NEW c \in Sessions, Reading(c)', NEW r \in ToSet(kept), id[r] = id[c]
               PROVE  r = subject'[c]
    BY <1>1 DEF ClaimIsUndisputed
  <2>1. CASE c = s
    BY <2>1, <1>3, <1>4
  <2>2. CASE c # s
    <3>1. Reading(c) /\ subject'[c] = subject[c]
      BY <2>2, <1>4 DEF Reading
    <3> QED
      BY <3>1 DEF IInv, ClaimIsUndisputed
  <2> QED
    BY <2>1, <2>2
<1>12. PausedIsHeld'
  <2> SUFFICES ASSUME NEW r \in ToSet(kept), paused[r] # "no" PROVE Held(r)' \/ Freed(r)'
    BY <1>1 DEF PausedIsHeld
  <2>1. CASE Held(r)
    <3>1. holds[id[r]] \in Sessions /\ call[holds[id[r]]] = "held"
      BY <2>1, RecordsAreNamed DEF IInv, TypeOK, HolderWaits, Held
    <3> QED
      BY <2>1, <3>1, <1>1, <1>4 DEF Held
  <2>2. CASE Freed(r)
    BY <2>2, <1>1, <1>4 DEF Freed
  <2> QED
    BY <2>1, <2>2 DEF IInv, PausedIsHeld
<1> QED
  BY <1>5, <1>6, <1>7, <1>8, <1>9, <1>10, <1>11, <1>12 DEF IInv

\* The sessions D are over: nothing of theirs stays pending.
LEMMA EndedKeeps ==
    ASSUME IInv, Receiving, NEW D \in SUBSET Sessions, \A s \in D : live[s], Ended(D),
           UNCHANGED <<next, recording, limit, id, phase, subject, paused, kept, lost>>,
           mode' = mode \/ (mode' \in {"off", "wedged"} /\ D = {s \in Sessions : live[s]}),
           Drained', turn' \in {"free", "core", "micro"}
    PROVE  IInv'
<1> DEFINE I == {id[s] : s \in D}
<1>1. /\ End(D, I)
      /\ matched' = [i \in Ids |-> IF i \in I THEN {} ELSE matched[i]]
      /\ captures' = captures \ I
      /\ Finish(I)
  BY DEF Ended, Settle
<1>2. I \in SUBSET Ids
  BY DEF IInv, TypeOK, Unnamed
<1>3. \A s \in D : id[s] \in I
  OBVIOUS
<1> HIDE DEF I
<1>4. /\ Unnamed' /\ OnePerId' /\ ReadIsLive' /\ SubjectIsNamesake'
      /\ HolderWaits' /\ ClaimIsUndisputed' /\ PausedIsHeld'
      /\ live' \in [Sessions -> BOOLEAN]
      /\ body' \in [Sessions -> {"none", "open", "ended", "destroyed"}]
      /\ holds' \in [Ids -> Sessions \cup {None}]
      /\ call' \in [Sessions ->
             {"none", "body", "held", "resumed", "aborted", "relaying", "over"}]
      /\ \A s \in Sessions : live'[s] <=> live[s] /\ s \notin D
      /\ \A s \in Sessions : Reading(s)' => Reading(s)
  BY <1>1, <1>2, EndStands
<1>5. /\ tx' \in [Sessions -> {"none", "pending", "settled"}]
      /\ \A r \in ToSet(kept) : tx'[r] = "pending" => tx[r] = "pending" /\ id[r] \notin I
  BY <1>1, FinishSettles
<1>6. TypeOK'
  <2>1. matched' \in [Ids -> SUBSET Phases] /\ captures' \subseteq Ids
    BY <1>1 DEF IInv, TypeOK
  <2> QED
    BY <1>4, <1>5, <2>1 DEF IInv, TypeOK
<1>7. KeptWithinLimit'
  BY <1>1 DEF IInv, KeptWithinLimit
<1>8. PendingIsLive'
  <2> SUFFICES ASSUME NEW r \in ToSet(kept), tx'[r] = "pending" PROVE live'[r] \/ r \in lost
    BY DEF PendingIsLive
  <2>1. r \in Sessions /\ tx[r] = "pending" /\ r \notin D
    BY <1>3, <1>5, RecordsAreNamed
  <2> QED
    BY <2>1, <1>4 DEF IInv, PendingIsLive, Receiving
<1>9. Numbered'
  <2>1. CASE mode' = mode
    BY <2>1, <1>4 DEF IInv, Numbered, Receiving
  <2>2. CASE mode' \in {"off", "wedged"} /\ D = {s \in Sessions : live[s]}
    BY <2>2, <1>4 DEF Numbered, Receiving
  <2> QED
    BY <2>1, <2>2
<1> QED
  BY <1>4, <1>6, <1>7, <1>8, <1>9 DEF IInv

LEMMA SessionEndsKeeps ==
    ASSUME IInv, NEW s \in Sessions, SessionEnds(s)
    PROVE  IInv'
<1> DEFINE D == {s}
<1>1. /\ Receiving /\ live[s] /\ Ended(D)
      /\ UNCHANGED <<mode, next, recording, limit, id, phase, subject, paused, kept, lost>>
      /\ FrameTurn
  BY DEF SessionEnds
<1>2. D \in SUBSET Sessions /\ \A c \in D : live[c]
  BY <1>1
<1>3. Drained' /\ turn' \in {"free", "core", "micro"} /\ mode' = mode
  BY <1>1, TurnDrains
<1> HIDE DEF D
<1> QED
  BY <1>1, <1>2, <1>3, EndedKeeps

LEMMA CoreExitsKeeps ==
    ASSUME IInv, CoreExits
    PROVE  IInv'
<1> DEFINE D == {s \in Sessions : live[s]}
<1>1. /\ Receiving /\ mode' \in {"off", "wedged"} /\ Ended(D)
      /\ UNCHANGED <<next, recording, limit, id, phase, subject, paused, kept, lost>>
      /\ TaskTurn
  BY DEF CoreExits
<1>2. D \in SUBSET Sessions /\ \A s \in D : live[s]
  OBVIOUS
<1> QED
  BY <1>1, <1>2, EndedKeeps, TurnDrains

-----------------------------------------------------------------------------
(* Callbacks that continue, and bytes that pass. *)

LEMMA HoldKeeps ==
    ASSUME IInv, NEW s \in Sessions, Hold(s),
           UNCHANGED <<mode, next, recording, limit, id, phase, body, subject, kept, lost>>,
           Drained', turn' \in {"free", "core", "micro"}
    PROVE  IInv'
<1> USE Domains
<1>1. /\ call[s] = "body" /\ body[s] = "ended" /\ Reading(s)
      /\ paused' = [paused EXCEPT ![subject[s]] = phase[s]]
      /\ holds' = [holds EXCEPT ![id[s]] = s]
      /\ call' = [call EXCEPT ![s] = "held"]
      /\ UNCHANGED <<live, matched, captures, tx>>
  BY DEF Hold, Reading
<1>2. id[s] \in Ids /\ subject[s] \in Sessions /\ id[subject[s]] = id[s]
  BY <1>1 DEF IInv, TypeOK, Unnamed, SubjectIsNamesake
<1>3. /\ call'[s] = "held"
      /\ \A c \in Sessions : c # s => call'[c] = call[c]
      /\ holds'[id[s]] = s
      /\ \A j \in Ids : j # id[s] => holds'[j] = holds[j]
      /\ \A r \in Sessions : r # subject[s] => paused'[r] = paused[r]
  BY <1>1, <1>2 DEF IInv, TypeOK
<1>4. TypeOK'
  <2>1. paused' \in [Sessions -> {"no"} \cup Phases]
    BY <1>1, <1>2 DEF IInv, TypeOK, Phases
  <2> QED
    BY <1>1, <1>2, <2>1 DEF IInv, TypeOK
<1>5. KeptWithinLimit' /\ PendingIsLive' /\ OnePerId'
  BY <1>1 DEF IInv, KeptWithinLimit, PendingIsLive, OnePerId
<1>6. Unnamed'
  BY <1>1, <1>2, <1>3 DEF IInv, Unnamed
<1>7. \A c \in Sessions : Reading(c)' => Reading(c)
  BY <1>3 DEF Reading
<1>8. Numbered' /\ ReadIsLive' /\ ClaimIsUndisputed' /\ SubjectIsNamesake'
  BY <1>1, <1>3, <1>7
     DEF IInv, Numbered, Receiving, ReadIsLive, ClaimIsUndisputed, SubjectIsNamesake
<1>9. HolderWaits'
  <2> SUFFICES ASSUME NEW j \in Ids, holds'[j] # None
               PROVE  call'[holds'[j]] = "held" /\ id[holds'[j]] = j
    BY DEF HolderWaits
  <2>1. CASE j = id[s]
    BY <2>1, <1>3
  <2>2. CASE j # id[s]
    <3>1. holds'[j] = holds[j] /\ holds[j] \in Sessions
      BY <2>2, <1>3 DEF IInv, TypeOK
    <3>2. call[holds[j]] = "held" /\ id[holds[j]] = j
      BY <3>1 DEF IInv, HolderWaits
    <3> QED
      BY <2>2, <3>1, <3>2, <1>3
  <2> QED
    BY <2>1, <2>2
<1>10. PausedIsHeld'
  <2> SUFFICES ASSUME NEW r \in ToSet(kept), paused'[r] # "no" PROVE Held(r)' \/ Freed(r)'
    BY DEF PausedIsHeld
  <2>1. r \in Sessions /\ id[r] \in Ids
    BY RecordsAreNamed
  <2>2. CASE id[r] = id[s]
    <3>1. r = subject[s]
      BY <2>2, <1>1 DEF IInv, ClaimIsUndisputed
    <3> QED
      BY <2>2, <3>1, <1>2, <1>3 DEF Held
  <2>3. CASE id[r] # id[s]
    <3>1. paused[r] # "no" /\ holds'[id[r]] = holds[id[r]]
      BY <2>1, <2>3, <1>2, <1>3
    <3>2. CASE Held(r)
      BY <3>1, <3>2 DEF Held
    <3>3. CASE Freed(r)
      BY <3>3, <1>1, <1>3 DEF Freed
    <3> QED
      BY <3>1, <3>2, <3>3 DEF IInv, PausedIsHeld
  <2> QED
    BY <2>2, <2>3
<1> QED
  BY <1>4, <1>5, <1>6, <1>8, <1>9, <1>10 DEF IInv

LEMMA ProceedKeeps ==
    ASSUME IInv, NEW s \in Sessions, Proceed(s),
           UNCHANGED <<mode, next, recording, limit, id, phase, body, subject, kept, lost>>,
           Drained', turn' \in {"free", "core", "micro"}
    PROVE  IInv'
<1> USE Domains
<1>1. /\ call[s] \in {"resumed", "aborted"}
      /\ paused' = [paused EXCEPT ![subject[s]] = "no"]
      /\ call' = [call EXCEPT ![s] =
                     IF call[s] = "resumed" /\ live[s] THEN "relaying" ELSE "over"]
      /\ UNCHANGED <<live, holds, matched, captures, tx>>
  BY DEF Proceed
<1>2. subject[s] \in Sessions
  BY <1>1 DEF IInv, TypeOK, SubjectIsNamesake
<1>3. /\ call'[s] \in {"relaying", "over"}
      /\ \A c \in Sessions : c # s => call'[c] = call[c]
      /\ paused'[subject[s]] = "no"
      /\ \A r \in Sessions : r # subject[s] => paused'[r] = paused[r]
  BY <1>1, <1>2 DEF IInv, TypeOK
<1>4. TypeOK'
  <2>1. paused' \in [Sessions -> {"no"} \cup Phases]
    BY <1>1 DEF IInv, TypeOK
  <2>2. call' \in [Sessions ->
             {"none", "body", "held", "resumed", "aborted", "relaying", "over"}]
    BY <1>1 DEF IInv, TypeOK
  <2> QED
    BY <1>1, <2>1, <2>2 DEF IInv, TypeOK
<1>5. KeptWithinLimit' /\ PendingIsLive' /\ OnePerId'
  BY <1>1 DEF IInv, KeptWithinLimit, PendingIsLive, OnePerId
<1>6. Unnamed'
  BY <1>1, <1>3 DEF IInv, Unnamed
<1>7. \A c \in Sessions : Reading(c)' => Reading(c)
  BY <1>3 DEF Reading
<1>8. Numbered' /\ ReadIsLive' /\ ClaimIsUndisputed' /\ SubjectIsNamesake'
  BY <1>1, <1>3, <1>7
     DEF IInv, Numbered, Receiving, ReadIsLive, ClaimIsUndisputed, SubjectIsNamesake
<1>9. HolderWaits'
  BY <1>1, <1>3 DEF IInv, TypeOK, HolderWaits
<1>10. PausedIsHeld'
  <2> SUFFICES ASSUME NEW r \in ToSet(kept), paused'[r] # "no" PROVE Held(r)' \/ Freed(r)'
    BY DEF PausedIsHeld
  <2>1. r \in Sessions /\ r # subject[s] /\ paused[r] # "no"
    BY <1>3, RecordsAreNamed
  <2>2. CASE Held(r)
    BY <2>2, <1>1 DEF Held
  <2>3. CASE Freed(r)
    BY <2>1, <2>3, <1>3 DEF Freed
  <2> QED
    BY <2>1, <2>2, <2>3 DEF IInv, PausedIsHeld
<1> QED
  BY <1>4, <1>5, <1>6, <1>8, <1>9, <1>10 DEF IInv

LEMMA ContinueKeeps ==
    ASSUME IInv, NEW s \in Sessions, Continue(s)
    PROVE  IInv'
<1>1. /\ Hold(s) \/ Proceed(s)
      /\ UNCHANGED <<mode, next, recording, limit, id, phase, body, subject, kept, lost>>
      /\ Drained' /\ turn' \in {"free", "core", "micro"}
  BY TurnDrains DEF Continue
<1> QED
  BY <1>1, HoldKeeps, ProceedKeeps

LEMMA DataTappedKeeps ==
    ASSUME IInv, NEW s \in Sessions, DataTapped(s)
    PROVE  IInv'
<1>1. /\ Record(id[s]) # None
      /\ captures' = captures \cup {id[s]}
      /\ UNCHANGED <<mode, next, recording, limit, id, live, call, phase, body, subject,
                     tx, paused, kept, holds, matched, lost>>
      /\ FrameTurn
  BY DEF DataTapped
<1>2. \E r \in ToSet(kept) : id[r] = id[s]
  BY <1>1, RecordProperties
<1>3. id[s] \in Ids
  BY <1>2, RecordsAreNamed
<1>4. TypeOK'
  BY <1>1, <1>3, TurnDrains DEF IInv, TypeOK
<1>5. KeptWithinLimit'
  BY <1>1, <1>2 DEF IInv, KeptWithinLimit
<1>6. PendingIsLive' /\ Numbered'
  BY <1>1 DEF IInv, PendingIsLive, Numbered, Receiving, Reading
<1>7. UNCHANGED Callbacks /\ ToSet(kept') \subseteq ToSet(kept)
  BY <1>1 DEF Callbacks
<1> QED
  BY <1>1, <1>4, <1>5, <1>6, <1>7, CallbacksStand, TurnDrains DEF IInv

LEMMA ResponseEndsKeeps ==
    ASSUME IInv, NEW s \in Sessions, ResponseEnds(s)
    PROVE  IInv'
<1> DEFINE I == {id[r] : r \in {s}} \cap {id[r] : r \in ToSet(kept)}
<1>1. /\ call[s] = "relaying"
      /\ call' = [call EXCEPT ![s] = "over"]
      /\ Settle(I)
      /\ UNCHANGED <<mode, next, recording, limit, id, live, phase, body, subject, paused,
                     kept, holds, lost>>
      /\ TaskTurn
  BY DEF ResponseEnds, Answered
<1> HIDE DEF I
<1>2. call'[s] = "over" /\ \A c \in Sessions : c # s => call'[c] = call[c]
  BY <1>1 DEF IInv, TypeOK
<1>3. /\ tx' \in [Sessions -> {"none", "pending", "settled"}]
      /\ \A r \in ToSet(kept) : tx'[r] = "pending" => tx[r] = "pending"
  BY <1>1, FinishSettles DEF Settle
<1>4. TypeOK' /\ Drained'
  BY <1>1, <1>3, TurnDrains DEF IInv, TypeOK, Settle
<1>5. KeptWithinLimit'
  <2>1. \A r \in ToSet(kept) : r \in Sessions
    BY RecordsAreNamed
  <2> QED
    BY <1>1, <2>1 DEF IInv, KeptWithinLimit, Settle
<1>6. PendingIsLive' /\ OnePerId'
  BY <1>1, <1>3 DEF IInv, PendingIsLive, OnePerId
<1>7. Unnamed' /\ ReadIsLive' /\ SubjectIsNamesake'
  BY <1>1, <1>2 DEF IInv, Unnamed, ReadIsLive, SubjectIsNamesake
<1>8. \A c \in Sessions : Reading(c)' => Reading(c)
  BY <1>1, <1>2 DEF Reading
<1>9. Numbered' /\ ClaimIsUndisputed'
  BY <1>1, <1>8 DEF IInv, Numbered, Receiving, ClaimIsUndisputed
<1>10. HolderWaits'
  BY <1>1, <1>2 DEF IInv, TypeOK, HolderWaits
<1>11. PausedIsHeld'
  BY <1>1, <1>2 DEF IInv, PausedIsHeld, Held, Freed
<1> QED
  BY <1>4, <1>5, <1>6, <1>7, <1>9, <1>10, <1>11 DEF IInv

-----------------------------------------------------------------------------
(* The calls of the clients, and the life of the core. *)

LEMMA ResumeKeeps ==
    ASSUME IInv, NEW i \in Ids, Resume(i)
    PROVE  IInv'
<1> USE Domains
<1> DEFINE s == holds[i]
<1>1. /\ s # None
      /\ holds' = [holds EXCEPT ![i] = None]
      /\ UNCHANGED <<sessionVars, recording, limit, kept, captures>>
      /\ TaskTurn
  BY DEF Resume
<1>2. PICK way \in {"resumed", "aborted"} : call' = [call EXCEPT ![s] = way]
  BY DEF Resume
<1>3. s \in Sessions /\ call[s] = "held" /\ id[s] = i
  BY <1>1 DEF IInv, TypeOK, HolderWaits
<1> HIDE DEF s
<1>4. /\ call'[s] \in {"resumed", "aborted"}
      /\ \A c \in Sessions : c # s => call'[c] = call[c]
      /\ holds'[i] = None /\ \A j \in Ids : j # i => holds'[j] = holds[j]
  BY <1>1, <1>2, <1>3 DEF IInv, TypeOK
<1>5. UNCHANGED <<mode, next, id, live, phase, body, subject, tx, paused, matched, lost>>
  BY <1>1 DEF sessionVars
<1>6. TypeOK' /\ Drained'
  BY <1>1, <1>2, <1>5, TurnDrains DEF IInv, TypeOK
<1>7. KeptWithinLimit' /\ PendingIsLive' /\ OnePerId'
  BY <1>1, <1>5 DEF IInv, KeptWithinLimit, PendingIsLive, OnePerId
<1>8. Unnamed' /\ ReadIsLive' /\ SubjectIsNamesake'
  BY <1>3, <1>4, <1>5 DEF IInv, Unnamed, ReadIsLive, SubjectIsNamesake
<1>9. \A c \in Sessions : Reading(c)' => Reading(c)
  BY <1>4, <1>5 DEF Reading
<1>10. Numbered' /\ ClaimIsUndisputed'
  BY <1>1, <1>5, <1>9 DEF IInv, Numbered, Receiving, ClaimIsUndisputed
<1>11. HolderWaits'
  <2> SUFFICES ASSUME NEW j \in Ids, holds'[j] # None
               PROVE  call'[holds'[j]] = "held" /\ id'[holds'[j]] = j
    BY DEF HolderWaits
  <2>1. j # i /\ holds'[j] = holds[j] /\ holds[j] \in Sessions
    BY <1>4 DEF IInv, TypeOK
  <2>2. call[holds[j]] = "held" /\ id[holds[j]] = j
    BY <2>1 DEF IInv, HolderWaits
  <2> QED
    BY <2>1, <2>2, <1>3, <1>4, <1>5
<1>12. PausedIsHeld'
  <2> SUFFICES ASSUME NEW r \in ToSet(kept), paused[r] # "no" PROVE Held(r)' \/ Freed(r)'
    BY <1>1, <1>5 DEF PausedIsHeld
  <2>1. id[r] \in Ids
    BY RecordsAreNamed
  <2>2. CASE Held(r) /\ id[r] = i
    BY <2>2, <1>3, <1>4, <1>5 DEF Held, Freed, s
  <2>3. CASE Held(r) /\ id[r] # i
    BY <2>1, <2>3, <1>4, <1>5 DEF Held
  <2>4. CASE Freed(r)
    BY <2>4, <1>3, <1>4, <1>5 DEF Freed
  <2> QED
    BY <2>2, <2>3, <2>4 DEF IInv, PausedIsHeld
<1> QED
  BY <1>6, <1>7, <1>8, <1>10, <1>11, <1>12 DEF IInv

\* Engine.delete and Engine.clear: what waits under the ids of R is let go of, and
\* the records that go are all those under the ids whose bytes go.
LEMMA RemovalKeeps ==
    ASSUME IInv, NEW R \in SUBSET Ids, End({}, R),
           UNCHANGED <<mode, next, id, phase, subject, tx, paused, matched, recording, limit,
                     lost>>,
           kept' \in Seq(Sessions), Len(kept') <= Len(kept), ToSet(kept') \subseteq ToSet(kept),
           captures' \subseteq captures, captures' \subseteq {id[r] : r \in ToSet(kept')},
           Drained', turn' \in {"free", "core", "micro"}
    PROVE  IInv'
<1> DEFINE D == {}
<1>1. End(D, R) /\ D \in SUBSET Sessions
  OBVIOUS
<1>2. /\ Unnamed' /\ OnePerId' /\ ReadIsLive' /\ SubjectIsNamesake'
      /\ HolderWaits' /\ ClaimIsUndisputed' /\ PausedIsHeld'
      /\ live' \in [Sessions -> BOOLEAN]
      /\ body' \in [Sessions -> {"none", "open", "ended", "destroyed"}]
      /\ holds' \in [Ids -> Sessions \cup {None}]
      /\ call' \in [Sessions ->
             {"none", "body", "held", "resumed", "aborted", "relaying", "over"}]
      /\ \A s \in Sessions : live'[s] <=> live[s] /\ s \notin D
      /\ \A s \in Sessions : Reading(s)' => Reading(s)
  <2> HIDE DEF D
  <2> QED
    BY <1>1, EndStands
<1>3. \A s \in Sessions : live'[s] <=> live[s]
  BY <1>2
<1>4. TypeOK'
  BY <1>2 DEF IInv, TypeOK
<1>5. KeptWithinLimit'
  <2>1. Len(kept) \in Nat /\ Len(kept') \in Nat /\ limit \in Nat
    BY RequestsType DEF IInv, TypeOK
  <2> QED
    BY <2>1 DEF IInv, KeptWithinLimit
<1>6. PendingIsLive'
  BY <1>3, RecordsAreNamed DEF IInv, PendingIsLive
<1>7. Numbered'
  BY <1>2, <1>3 DEF IInv, Numbered, Receiving
<1> QED
  BY <1>2, <1>4, <1>5, <1>6, <1>7 DEF IInv

LEMMA DeleteKeeps ==
    ASSUME IInv, NEW S \in SUBSET Sessions, Delete(S)
    PROVE  IInv'
<1> DEFINE R == {id[s] : s \in S}
<1>1. /\ S \subseteq ToSet(kept)
      /\ End({}, R)
      /\ kept' = Without(kept, S)
      /\ captures' = captures \ R
      /\ UNCHANGED <<mode, next, id, phase, subject, tx, paused, matched, recording, limit,
                     lost>>
      /\ TaskTurn
  BY DEF Delete
<1>2. R \in SUBSET Ids
  BY <1>1, RecordsAreNamed
<1>3. /\ kept' \in Seq(Sessions) /\ Len(kept') <= Len(kept)
      /\ ToSet(kept') = ToSet(kept) \ S
  BY <1>1, WithoutProperties DEF IInv, TypeOK
<1>4. captures' \subseteq {id[r] : r \in ToSet(kept')}
  <2> SUFFICES ASSUME NEW j \in captures, j \notin R
               PROVE  \E r \in ToSet(kept) \ S : id[r] = j
    BY <1>1, <1>3
  <2> QED
    BY DEF IInv, KeptWithinLimit
<1> HIDE DEF R
<1> QED
  BY <1>1, <1>2, <1>3, <1>4, RemovalKeeps, TurnDrains

LEMMA ClearKeeps ==
    ASSUME IInv, Clear
    PROVE  IInv'
<1>1. /\ End({}, Ids) /\ kept' = <<>> /\ captures' = {}
      /\ UNCHANGED <<mode, next, id, phase, subject, tx, paused, matched, recording, limit,
                     lost>>
      /\ TaskTurn
  BY DEF Clear
<1>2. kept' \in Seq(Sessions) /\ Len(kept') <= Len(kept) /\ ToSet(kept') = {}
  BY <1>1 DEF IInv, TypeOK, ToSet
<1>3. Ids \in SUBSET Ids
  OBVIOUS
<1> QED
  BY <1>1, <1>2, <1>3, RemovalKeeps, TurnDrains

\* Engine.stop lets go of everything held; then the inlet, and with it every session,
\* goes.  Without a core to take it the stop throws after the first.
LEMMA StopKeeps ==
    ASSUME IInv, StopBegins \/ InletRemoved \/ StopFails
    PROVE  IInv'
<1> DEFINE D == IF InletRemoved THEN Sessions ELSE {}
           R == IF InletRemoved THEN {} ELSE Ids
<1>1. /\ End(D, R) /\ D \in SUBSET Sessions /\ R \in SUBSET Ids
      /\ UNCHANGED <<next, id, phase, subject, tx, paused, matched,
                     recording, limit, kept, captures, lost>>
      /\ TaskTurn
      /\ \/ mode \in {"on", "refused"} /\ mode' = "stopping" /\ D = {}
         \/ mode = "stopping" /\ mode' = "unbound" /\ D = Sessions
         \/ mode' = mode /\ mode \in {"failing", "wedged"} /\ D = {}
  <2>1. CASE StopBegins
    BY <2>1 DEF StopBegins, InletRemoved
  <2>2. CASE InletRemoved
    BY <2>2 DEF InletRemoved
  <2>3. CASE StopFails
    BY <2>3 DEF StopFails, InletRemoved, sessionVars
  <2> QED
    BY <2>1, <2>2, <2>3
<1> HIDE DEF D, R
<1>2. /\ Unnamed' /\ OnePerId' /\ ReadIsLive' /\ SubjectIsNamesake'
      /\ HolderWaits' /\ ClaimIsUndisputed' /\ PausedIsHeld'
      /\ live' \in [Sessions -> BOOLEAN]
      /\ body' \in [Sessions -> {"none", "open", "ended", "destroyed"}]
      /\ holds' \in [Ids -> Sessions \cup {None}]
      /\ call' \in [Sessions ->
             {"none", "body", "held", "resumed", "aborted", "relaying", "over"}]
      /\ \A s \in Sessions : live'[s] <=> live[s] /\ s \notin D
      /\ \A s \in Sessions : Reading(s)' => Reading(s)
  BY <1>1, EndStands
<1>3. TypeOK' /\ Drained'
  BY <1>1, <1>2, TurnDrains DEF IInv, TypeOK
<1>4. KeptWithinLimit'
  BY <1>1 DEF IInv, KeptWithinLimit
<1>5. PendingIsLive'
  BY <1>1, <1>2, RecordsAreNamed DEF IInv, PendingIsLive
<1>6. Numbered'
  BY <1>1, <1>2 DEF IInv, Numbered, Receiving
<1> QED
  BY <1>2, <1>3, <1>4, <1>5, <1>6 DEF IInv

\* A stop with no capture lets go of what is held and settles every record.
LEMMA StopNothingKeeps ==
    ASSUME IInv, StopNothing
    PROVE  IInv'
<1> DEFINE D == {}
           I == {id[s] : s \in ToSet(kept)}
<1>1. /\ End(D, Ids) /\ D \in SUBSET Sessions /\ Ids \in SUBSET Ids
      /\ mode = "off" /\ Finish(I) /\ captures' = {} /\ lost' = {}
      /\ UNCHANGED <<mode, next, id, phase, subject, paused, matched, recording, limit, kept>>
      /\ TaskTurn
  BY DEF StopNothing
<1> HIDE DEF D
<1>2. /\ Unnamed' /\ OnePerId' /\ ReadIsLive' /\ SubjectIsNamesake'
      /\ HolderWaits' /\ ClaimIsUndisputed' /\ PausedIsHeld'
      /\ live' \in [Sessions -> BOOLEAN]
      /\ body' \in [Sessions -> {"none", "open", "ended", "destroyed"}]
      /\ holds' \in [Ids -> Sessions \cup {None}]
      /\ call' \in [Sessions ->
             {"none", "body", "held", "resumed", "aborted", "relaying", "over"}]
      /\ \A s \in Sessions : live'[s] <=> live[s] /\ s \notin D
  BY <1>1, EndStands
<1>3. /\ tx' \in [Sessions -> {"none", "pending", "settled"}]
      /\ \A r \in ToSet(kept) : tx'[r] # "pending"
  <2>1. \A r \in ToSet(kept) : id[r] \in I
    OBVIOUS
  <2> HIDE DEF I
  <2> QED
    BY <1>1, <2>1, FinishSettles
<1> HIDE DEF I
<1>4. TypeOK' /\ Drained'
  BY <1>1, <1>2, <1>3, TurnDrains DEF IInv, TypeOK
<1>5. KeptWithinLimit' /\ PendingIsLive'
  BY <1>1, <1>3 DEF IInv, KeptWithinLimit, PendingIsLive
<1>6. Numbered'
  BY <1>1, <1>2 DEF IInv, Numbered, Receiving
<1> QED
  BY <1>2, <1>4, <1>5, <1>6 DEF IInv

\* A failed stop or start leaves no session: what it does not settle is accounted for.
LEMMA CutKeeps ==
    ASSUME IInv, RemoveTimesOut \/ StartFails
    PROVE  IInv'
<1> DEFINE D == Sessions
           R == {}
           relayed == {s \in Sessions : live[s] /\ call[s] = "relaying" /\ phase[s] = "response"}
           I == {id[s] : s \in relayed} \cap {id[r] : r \in ToSet(kept)}
<1>1. /\ End(D, R) /\ D \in SUBSET Sessions /\ R \in SUBSET Ids
      /\ Settle(I)
      /\ lost' = lost \cup {s \in Sessions : live[s] /\ s \notin relayed}
      /\ UNCHANGED <<next, id, phase, subject, paused, recording, limit, kept>>
      /\ TaskTurn
      /\ \/ mode = "stopping" /\ mode' = "failing"
         \/ mode \in {"refused", "wedged"} /\ mode' = "off"
  BY DEF RemoveTimesOut, StartFails, Cut, Answered
<1>2. \A r \in ToSet(kept) : r \in relayed => id[r] \in I
  OBVIOUS
<1>3. relayed \subseteq Sessions
  OBVIOUS
<1> HIDE DEF R, I, relayed
<1>4. /\ Unnamed' /\ OnePerId' /\ ReadIsLive' /\ SubjectIsNamesake'
      /\ HolderWaits' /\ ClaimIsUndisputed' /\ PausedIsHeld'
      /\ live' \in [Sessions -> BOOLEAN]
      /\ body' \in [Sessions -> {"none", "open", "ended", "destroyed"}]
      /\ holds' \in [Ids -> Sessions \cup {None}]
      /\ call' \in [Sessions ->
             {"none", "body", "held", "resumed", "aborted", "relaying", "over"}]
      /\ \A s \in Sessions : live'[s] <=> live[s] /\ s \notin D
      /\ \A s \in Sessions : Reading(s)' => Reading(s)
  <2> HIDE DEF D
  <2> QED
    BY <1>1, EndStands
<1>5. \A s \in Sessions : ~live'[s]
  BY <1>4
<1> HIDE DEF D
<1>6. /\ tx' \in [Sessions -> {"none", "pending", "settled"}]
      /\ \A r \in ToSet(kept) : tx'[r] = "pending" => tx[r] = "pending" /\ id[r] \notin I
  BY <1>1, FinishSettles DEF Settle
<1>7. TypeOK' /\ Drained'
  <2>1. matched' \in [Ids -> SUBSET Phases] /\ captures' \subseteq Ids /\ lost' \subseteq Sessions
    BY <1>1 DEF Settle, IInv, TypeOK
  <2> QED
    BY <1>1, <1>4, <1>6, <2>1, TurnDrains DEF IInv, TypeOK
<1>8. KeptWithinLimit'
  BY <1>1 DEF Settle, IInv, KeptWithinLimit
<1>9. PendingIsLive'
  <2> SUFFICES ASSUME NEW r \in ToSet(kept), tx'[r] = "pending" PROVE r \in lost'
    BY <1>1 DEF PendingIsLive
  <2>1. r \in Sessions /\ tx[r] = "pending" /\ r \notin relayed
    BY <1>2, <1>6, RecordsAreNamed
  <2>2. live[r] \/ r \in lost
    BY <1>1, <2>1 DEF IInv, PendingIsLive
  <2> QED
    BY <1>1, <2>1, <2>2
<1>10. Numbered'
  BY <1>1, <1>4, <1>5 DEF IInv, Numbered, Receiving
<1> QED
  BY <1>4, <1>7, <1>8, <1>9, <1>10 DEF IInv

\* The other calls, and the ends of the core's life, change no callback.
LEMMA SettingsKeep ==
    ASSUME IInv, ToggleRecording \/ ChangeLimit \/ Start \/ StopEnds \/ RemoveRefused
    PROVE  IInv'
<1>1. UNCHANGED Callbacks /\ TaskTurn
  BY DEF Callbacks, ToggleRecording, ChangeLimit, Start, StopEnds, RemoveRefused, sessionVars
<1>2. Drained' /\ turn' \in {"free", "core", "micro"}
  BY <1>1, TurnDrains
<1>3. limit \in Nat /\ kept \in Seq(Sessions) /\ Limits \subseteq Nat
  BY RequestsType DEF IInv, TypeOK
<1>4. CASE ToggleRecording
  <2>1. TypeOK' /\ KeptWithinLimit' /\ PendingIsLive' /\ Numbered'
    BY <1>2, <1>4 DEF ToggleRecording, sessionVars, IInv, TypeOK, KeptWithinLimit,
                      PendingIsLive, Numbered, Receiving, Reading
  <2>2. ToSet(kept') \subseteq ToSet(kept)
    BY <1>4 DEF ToggleRecording
  <2> QED
    BY <1>1, <1>2, <2>1, <2>2, CallbacksStand DEF IInv
<1>5. CASE ChangeLimit
  <2>1. limit' \in Nat /\ limit' \in Limits
    BY <1>3, <1>5 DEF ChangeLimit
  <2>2. kept' \in Seq(Sessions) /\ Len(kept') <= limit' /\ ToSet(kept') \subseteq ToSet(kept)
    BY <1>3, <1>5, <2>1, NewestProperties DEF ChangeLimit
  <2>3. captures' = captures \cap {id[s] : s \in ToSet(kept')}
    BY <1>5 DEF ChangeLimit
  <2>4. UNCHANGED <<mode, next, id, live, phase, body, subject, tx, paused, matched, call,
                    recording, holds, lost>>
    BY <1>5 DEF ChangeLimit, sessionVars
  <2>5. TypeOK' /\ KeptWithinLimit'
    BY <1>2, <2>1, <2>2, <2>3, <2>4 DEF IInv, TypeOK, KeptWithinLimit
  <2>6. PendingIsLive' /\ Numbered'
    BY <2>2, <2>4 DEF IInv, PendingIsLive, Numbered, Receiving, Reading
  <2> QED
    BY <1>1, <1>2, <2>2, <2>5, <2>6, CallbacksStand DEF IInv
<1>6. CASE Start
  <2>1. /\ mode \in {"off", "refused"} /\ mode' = "on"
        /\ next' = IF mode = "off" THEN 1 ELSE next
        /\ UNCHANGED <<id, live, phase, body, subject, tx, paused, matched, call,
                       recording, limit, kept, holds, captures, lost>>
    BY <1>6 DEF Start
  <2>2. TypeOK' /\ KeptWithinLimit' /\ PendingIsLive'
    BY <1>2, <2>1, RequestsType DEF IInv, TypeOK, KeptWithinLimit, PendingIsLive
  <2>3. ASSUME mode = "off" PROVE Numbered'
    <3>1. \A s \in Sessions : ~live[s]
      BY <2>3 DEF IInv, Numbered, Receiving
    <3>2. \A s \in Sessions : ~Reading(s)
      <4>1. \A s \in Sessions : ~Runnable(s)
        BY <1>1 DEF IInv, Drained, Quiet, TaskTurn
      <4> QED
        BY <3>1, <4>1 DEF Reading, Runnable, IInv, ReadIsLive
    <3> QED
      BY <2>1, <3>1, <3>2 DEF Numbered, Reading
  <2>4. ASSUME mode = "refused" PROVE Numbered'
    BY <2>1, <2>4 DEF IInv, Numbered, Receiving, Reading
  <2>5. ToSet(kept') \subseteq ToSet(kept)
    BY <2>1
  <2> QED
    BY <1>1, <1>2, <2>1, <2>2, <2>3, <2>4, <2>5, CallbacksStand DEF IInv
<1>7. CASE StopEnds
  <2> DEFINE I == {id[s] : s \in ToSet(kept)}
  <2>1. /\ mode = "unbound" /\ mode' = "off" /\ Finish(I) /\ captures' = {}
        /\ lost' = {}
        /\ UNCHANGED <<next, id, live, phase, body, subject, paused, matched,
                       call, recording, limit, kept, holds>>
    BY <1>7 DEF StopEnds
  <2>2. /\ tx' \in [Sessions -> {"none", "pending", "settled"}]
        /\ \A r \in ToSet(kept) : tx'[r] # "pending"
    <3>1. \A r \in ToSet(kept) : id[r] \in I
      OBVIOUS
    <3> HIDE DEF I
    <3> QED
      BY <2>1, <3>1, FinishSettles
  <2>3. TypeOK' /\ KeptWithinLimit' /\ PendingIsLive'
    BY <1>2, <2>1, <2>2 DEF IInv, TypeOK, KeptWithinLimit, PendingIsLive
  <2>4. Numbered'
    BY <2>1 DEF IInv, Numbered, Receiving
  <2>5. ToSet(kept') \subseteq ToSet(kept)
    BY <2>1
  <2> QED
    BY <1>1, <1>2, <2>3, <2>4, <2>5, CallbacksStand DEF IInv
<1>8. CASE RemoveRefused
  <2>1. TypeOK' /\ KeptWithinLimit' /\ PendingIsLive' /\ Numbered'
    BY <1>2, <1>8 DEF RemoveRefused, IInv, TypeOK, KeptWithinLimit, PendingIsLive, Numbered,
                      Receiving, Reading
  <2>2. ToSet(kept') \subseteq ToSet(kept)
    BY <1>8 DEF RemoveRefused
  <2> QED
    BY <1>1, <1>2, <2>1, <2>2, CallbacksStand DEF IInv
<1> QED
  BY <1>4, <1>5, <1>6, <1>7, <1>8

-----------------------------------------------------------------------------
(* The theorems. *)

LEMMA StepKeeps == IInv /\ [Next]_vars => IInv'
<1> SUFFICES ASSUME IInv, [Next]_vars PROVE IInv'
  OBVIOUS
<1>1. ASSUME NEW s \in Sessions, RequestArrives(s) PROVE IInv'
  BY <1>1, RequestArrivesKeeps
<1>2. ASSUME NEW s \in Sessions, BodyEnds(s) PROVE IInv'
  BY <1>2, BodyEndsKeeps
<1>3. ASSUME NEW s \in Sessions, ResponseArrives(s) PROVE IInv'
  BY <1>3, ResponseArrivesKeeps
<1>4. ASSUME NEW s \in Sessions, SessionEnds(s) PROVE IInv'
  BY <1>4, SessionEndsKeeps
<1>5. ASSUME NEW s \in Sessions, Continue(s) PROVE IInv'
  BY <1>5, ContinueKeeps
<1>6. ASSUME NEW s \in Sessions, DataTapped(s) PROVE IInv'
  BY <1>6, DataTappedKeeps
<1>7. ASSUME NEW s \in Sessions, ResponseEnds(s) PROVE IInv'
  BY <1>7, ResponseEndsKeeps
<1>8. ASSUME NEW i \in Ids, Resume(i) PROVE IInv'
  BY <1>8, ResumeKeeps
<1>9. ASSUME NEW S \in SUBSET Sessions, Delete(S) PROVE IInv'
  BY <1>9, DeleteKeeps
<1>10. CASE Clear
  BY <1>10, ClearKeeps
<1>11. CASE ToggleRecording \/ ChangeLimit \/ Start \/ StopEnds \/ RemoveRefused
  BY <1>11, SettingsKeep
<1>12. CASE StopBegins \/ InletRemoved \/ StopFails \/ StopNothing
  BY <1>12, StopKeeps, StopNothingKeeps
<1>13. CASE CoreExits \/ RemoveTimesOut \/ StartFails
  BY <1>13, CoreExitsKeeps, CutKeeps
<1>14. CASE UNCHANGED vars
  <2>1. UNCHANGED Callbacks /\ ToSet(kept') \subseteq ToSet(kept)
    BY <1>14 DEF vars, Callbacks
  <2>2. TypeOK' /\ KeptWithinLimit' /\ PendingIsLive' /\ Numbered' /\ Drained'
    BY <1>14 DEF vars, IInv, TypeOK, KeptWithinLimit, PendingIsLive, Numbered, Receiving,
                 Reading, Drained, Quiet, Runnable
  <2> QED
    BY <2>1, <2>2, CallbacksStand DEF IInv
<1> QED
  BY <1>1, <1>2, <1>3, <1>4, <1>5, <1>6, <1>7, <1>8, <1>9, <1>10, <1>11, <1>12, <1>13, <1>14
     DEF Next

\* What the engine holds, keeps and waits for stays consistent through every callback, every
\* call of a window and every core: the strengthening the theorems below follow from.
THEOREM CaptureInvariant == Spec => []IInv
  BY InitHolds, StepKeeps, PTL DEF Spec

\* The variables of the engine and the inspector keep their types.
THEOREM CaptureTyped == Spec => []TypeOK
<1>1. IInv => TypeOK
  BY DEF IInv
<1> QED
  BY <1>1, CaptureInvariant, PTL

\* Whatever joins, leaves or lowers the limit, Engine.enforceEntryLimit keeps the list
\* within the setting, and captured bytes only stay with a record of the list.
THEOREM CaptureBounded == Spec => []KeptWithinLimit
<1>1. IInv => KeptWithinLimit
  BY DEF IInv
<1> QED
  BY <1>1, CaptureInvariant, PTL

\* However a session ends, over any number of lives of the core, its record is not left
\* pending (Engine.closed, Engine.failure, the end of Engine.stop): only what a core was at
\* that was killed because its inlet would not go may be, until a stop succeeds.
THEOREM CaptureSettled == Spec => []PendingIsLive
<1>1. IInv => PendingIsLive
  BY DEF IInv
<1> QED
  BY <1>1, CaptureInvariant, PTL

\* What Engine.waitForResume shows as paused can be continued: ids that come again with
\* the next core never leave a paused record without the callback that holds it.
THEOREM CapturePaused == Spec => []PausedCanContinue
<1>1. IInv => PausedCanContinue
  BY DEF IInv, PausedIsHeld, Held, Freed, PausedCanContinue
<1> QED
  BY <1>1, CaptureInvariant, PTL
=============================================================================
