-------------------------- MODULE WindowPartsProofs --------------------------
(***************************************************************************)
(* What holds of a window and its agent, for any agents, windows, records  *)
(* and bounds.                                                             *)
(*                                                                         *)
(* The window (AgentWindow).  Every step of the session and of the agent   *)
(* `Acts': it writes lines that tell what changed of the records, or that  *)
(* a snapshot is needed, and one result for the request it answers.  The   *)
(* invariant WInv says what these lines, and those the window read, make   *)
(* of its mirror and of its calls.                                         *)
(*                                                                         *)
(* The endpoint (AgentEndpoint).  Its invariant EInv adds to the types     *)
(* that only a process that listens, or stops, has clients.                *)
(***************************************************************************)
EXTENDS WindowParts, SequenceTheorems, FiniteSetTheorems, TLAPS

-----------------------------------------------------------------------------
(* Lines and requests. *)

LEMMA LineTypes ==
    ASSUME NEW m \in Window!Lines
    PROVE  /\ m.type = "transaction" => m.id \in Ids /\ m.status \in Window!Statuses
           /\ m.type = "removed" => m.ids \in SUBSET Ids
           /\ m.type = "state" => m.state \in Window!States
           /\ m.type = "result" => m \in Window!Results
           /\ m.type = "reset" => m = Window!Reset
  BY DEF Window!Lines, Window!Results, Window!Reset

LEMMA ResultTypes ==
    ASSUME NEW m \in Window!Results
    PROVE  /\ m.type = "result" /\ m.method \in Window!Methods /\ m.ok \in BOOLEAN
           /\ m.state \in Window!States /\ m.records \in Window!Records
           /\ m \in Window!Lines
  BY DEF Window!Lines, Window!Results

LEMMA NewLines ==
    ASSUME NEW i \in Ids, NEW st \in Window!Statuses, NEW S \in SUBSET Ids,
           NEW s \in Window!States, NEW r \in Window!Records, NEW method \in Window!Methods,
           state \in Window!States
    PROVE  /\ Window!Transaction(i, st) \in Window!Lines
           /\ Window!Removed(S) \in Window!Lines
           /\ Window!Reset \in Window!Lines
           /\ Window!State(s) \in Window!Lines
           /\ Window!Result(method, s, r) \in Window!Lines
           /\ Window!Error(method) \in Window!Lines
<1>1. Window!NoRecords \in Window!Records
  BY DEF Window!NoRecords, Window!Records, Window!Statuses
<1> QED
  BY <1>1 DEF Window!Lines, Window!Results, Window!Transaction, Window!Removed,
              Window!Reset, Window!State, Window!Result, Window!Error

LEMMA RequestTypes ==
    ASSUME NEW r \in Window!Requests
    PROVE  /\ r.method \in Window!Methods
           /\ r.method = "record" => r.value \in BOOLEAN
           /\ r.method = "delete" => r.ids \in SUBSET Ids
           /\ r.method = "resume" => r.id \in Ids
  BY DEF Window!Requests, Window!Calls, Window!Methods, Window!Snapshots

LEMMA NewRequests ==
    /\ \A m \in {"hello", "snapshot", "resync"} : [method |-> m] \in Window!Requests
    /\ Window!Calls \subseteq Window!Requests
  BY DEF Window!Requests, Window!Snapshots

\* The last line of q about record i says v.
Last(q, i, v) ==
    \E k \in DOMAIN q :
        /\ Window!About(q[k], i) /\ Window!Says(q[k], i) = v
        /\ \A l \in DOMAIN q : l > k => ~Window!About(q[l], i)

\* No line of q is about record i.
Silent(q, i) == \A k \in DOMAIN q : ~Window!About(q[k], i)

LEMMA AboutConcat ==
    ASSUME NEW S, NEW p \in Seq(S), NEW q \in Seq(S), NEW i, NEW v
    PROVE  /\ Last(q, i, v) => Last(p \o q, i, v)
           /\ Last(p, i, v) /\ Silent(q, i) => Last(p \o q, i, v)
           /\ Silent(p, i) /\ Silent(q, i) => Silent(p \o q, i)
<1> DEFINE w == p \o q
<1>1. /\ DOMAIN p = 1..Len(p) /\ DOMAIN q = 1..Len(q) /\ DOMAIN w = 1..Len(p) + Len(q)
      /\ Len(p) \in Nat /\ Len(q) \in Nat
  OBVIOUS
<1>2. /\ \A k \in 1..Len(p) : w[k] = p[k]
      /\ \A k \in 1..Len(q) : w[Len(p) + k] = q[k]
  OBVIOUS
<1>3. \A k \in 1..Len(p) + Len(q) : k \in 1..Len(p) \/ \E l \in 1..Len(q) : k = Len(p) + l
  <2> SUFFICES ASSUME NEW k \in 1..Len(p) + Len(q), k \notin 1..Len(p)
               PROVE  \E l \in 1..Len(q) : k = Len(p) + l
    OBVIOUS
  <2>1. k - Len(p) \in 1..Len(q) /\ k = Len(p) + (k - Len(p))
    BY <1>1
  <2> QED
    BY <2>1
<1> HIDE DEF w
<1>4. ASSUME Last(q, i, v) PROVE Last(w, i, v)
  <2>1. PICK k \in 1..Len(q) :
            /\ Window!About(q[k], i) /\ Window!Says(q[k], i) = v
            /\ \A l \in 1..Len(q) : l > k => ~Window!About(q[l], i)
    BY <1>1, <1>4 DEF Last
  <2>2. Len(p) + k \in DOMAIN w /\ w[Len(p) + k] = q[k]
    BY <1>1, <1>2
  <2>3. ASSUME NEW l \in DOMAIN w, l > Len(p) + k PROVE ~Window!About(w[l], i)
    <3>1. PICK j \in 1..Len(q) : l = Len(p) + j
      BY <1>1, <1>3, <2>3
    <3>2. j > k /\ w[l] = q[j]
      BY <1>1, <1>2, <2>3, <3>1
    <3> QED
      BY <2>1, <3>2
  <2> QED
    BY <2>1, <2>2, <2>3 DEF Last
<1>5. ASSUME Last(p, i, v), Silent(q, i) PROVE Last(w, i, v)
  <2>1. PICK k \in 1..Len(p) :
            /\ Window!About(p[k], i) /\ Window!Says(p[k], i) = v
            /\ \A l \in 1..Len(p) : l > k => ~Window!About(p[l], i)
    BY <1>1, <1>5 DEF Last
  <2>2. k \in DOMAIN w /\ w[k] = p[k]
    BY <1>1, <1>2
  <2>3. ASSUME NEW l \in DOMAIN w, l > k PROVE ~Window!About(w[l], i)
    BY <1>1, <1>2, <1>3, <1>5, <2>1, <2>3 DEF Silent
  <2> QED
    BY <2>1, <2>2, <2>3 DEF Last
<1>6. ASSUME Silent(p, i), Silent(q, i) PROVE Silent(w, i)
  BY <1>1, <1>2, <1>3, <1>6 DEF Silent
<1> QED
  BY <1>4, <1>5, <1>6 DEF w

\* Engine.publish, for several records: each has its line, and no other has one.
LEMMA PublishedProperties ==
    ASSUME NEW S \in SUBSET Ids, NEW st \in Window!Statuses
    PROVE  LET q == Window!Published(S, st) IN
           /\ q \in Seq(Window!Lines)
           /\ \A k \in DOMAIN q : q[k].type = "transaction"
           /\ \A i \in S : Last(q, i, st)
           /\ \A i \in Ids \ S : Silent(q, i)
<1> DEFINE n == Cardinality(S)
           f == Window!SetToSeq(S)
           q == Window!Published(S, st)
<1>1. IsFiniteSet(S) /\ n \in Nat
  BY IdsAssumption, FS_Subset, FS_CardinalityType
<1>2. f \in Injection(1..n, S)
  <2>1. \E g \in [1..n -> S] : IsInjective(g)
    BY <1>1, FS_CardinalityType DEF ExistsBijection, Bijection, Injection
  <2> QED
    BY <2>1 DEF Window!SetToSeq, Injection, Window!IsInjective, IsInjective,
                Window!Cardinality, Cardinality
<1>3. q = [k \in 1..n |-> Window!Transaction(f[k], st)]
  BY DEF Window!Published, Window!Cardinality, Cardinality
<1>4. IsFiniteSet(1..n) /\ Cardinality(1..n) = n
  BY <1>1, FS_Interval
<1> HIDE DEF f, n, q
<1>5. f \in Surjection(1..n, S)
  BY <1>1, <1>2, <1>4, FS_Injection DEF n
<1>6. /\ \A k \in 1..n : f[k] \in S
      /\ \A k, l \in 1..n : f[k] = f[l] => k = l
      /\ \A i \in S : \E k \in 1..n : f[k] = i
  BY <1>2, <1>5 DEF Injection, IsInjective, Surjection
<1>7. DOMAIN q = 1..n /\ \A k \in 1..n : q[k] = Window!Transaction(f[k], st)
  BY <1>3
<1>8. \A k \in 1..n : q[k] \in Window!Lines
  BY <1>6, <1>7 DEF Window!Lines, Window!Transaction
<1>9. q \in Seq(Window!Lines)
  BY <1>1, <1>3, <1>7, <1>8
<1>10. \A k \in 1..n : q[k].type = "transaction" /\ q[k].id = f[k] /\ q[k].status = st
  BY <1>7 DEF Window!Transaction
<1>11. \A k \in 1..n, i \in Ids : Window!About(q[k], i) <=> f[k] = i
  BY <1>10 DEF Window!About, Window!IsSnapshot
<1>12. ASSUME NEW i \in S PROVE Last(q, i, st)
  <2>1. PICK k \in 1..n : f[k] = i
    BY <1>6
  <2>2. Window!About(q[k], i) /\ Window!Says(q[k], i) = st
    BY <1>10, <1>11, <2>1 DEF Window!Says
  <2>3. \A l \in 1..n : l > k => ~Window!About(q[l], i)
    BY <1>6, <1>11, <2>1
  <2> QED
    BY <1>7, <2>2, <2>3 DEF Last
<1>13. \A i \in Ids \ S : Silent(q, i)
  BY <1>6, <1>7, <1>11 DEF Silent
<1> QED
  BY <1>7, <1>9, <1>10, <1>12, <1>13 DEF q

-----------------------------------------------------------------------------
(* What the agent does to the records, and the lines that tell of it. *)

\* The lines say what record i is now, or it did not change.
Changed(q, i) == Last(q, i, records'[i]) \/ (Silent(q, i) /\ records'[i] = records[i])

\* The lines say what every record that changed is now, and nothing else of any; or
\* they say that a snapshot is needed.
Tells(q) ==
    \/ \A i \in Ids : Changed(q, i)
    \/ /\ \E k \in DOMAIN q : q[k] = Window!Reset
       /\ \A k \in DOMAIN q : ~Window!IsSnapshot(q[k])

\* The lines say what every record is.
Complete(q) == \A i \in Ids : Last(q, i, records'[i])

\* A request for a snapshot is on its way.
Asked(q) == \E k \in DOMAIN q : q[k].method \in Window!Snapshots

\* Nothing is asked of the agent but a greeting.
Greeting ==
    serving = Window!Nothing /\ \A k \in DOMAIN toAgent : toAgent[k].method = "hello"

\* The first of the calls is answered, and it was no greeting on its way.
Closes(method) ==
    /\ Window!Behind # <<>> /\ Head(Window!Behind) = method
    /\ Window!Behind' = Tail(Window!Behind)
    /\ ~Greeting

\* The last line is the result of a call, and no other is a result.
Closing(q, method) ==
    /\ Len(q) \in DOMAIN q
    /\ Window!IsResult(q[Len(q)]) /\ q[Len(q)].method = method
    /\ \A k \in DOMAIN q : k # Len(q) => ~Window!IsResult(q[k])

\* The lines hold a result when the step answers a call, and none otherwise.
Responds(q) ==
    \/ /\ Window!Behind' = Window!Behind
       /\ \A k \in DOMAIN q : ~Window!IsResult(q[k])
    \/ \E method : Closes(method) /\ Closing(q, method)

\* A step of the agent that writes the lines q.
Acts(q) ==
    /\ q \in Seq(Window!Lines)
    /\ toWindow' = IF attached' THEN toWindow \o q ELSE toWindow
    /\ records' \in Window!Records /\ state' \in Window!States
    /\ serving' \in Window!Requests \cup {Window!Nothing}
    /\ toAgent' \in Seq(Window!Requests)
    /\ attached' \in BOOLEAN /\ (attached => attached')
    /\ attached' = attached \/ (q = <<>> /\ toAgent # <<>>)
    /\ UNCHANGED Window!windowVars
    /\ \A k \in DOMAIN q : Window!IsSnapshot(q[k]) => q[k].ok
    /\ attached => Tells(q)
    /\ attached /\ Asked(toAgent) => Asked(toAgent') \/ Complete(q)
    /\ Responds(q)
    /\ Greeting /\ ~attached' => UNCHANGED <<serving, toAgent>>

\* Lines without results, and no call is begun.
LEMMA Unanswered ==
    ASSUME UNCHANGED <<serving, toAgent>>, NEW q, \A k \in DOMAIN q : ~Window!IsResult(q[k])
    PROVE  Responds(q)
  BY DEF Responds, Window!Behind, Window!MethodsOf

LEMMA NoSnapshot ==
    ASSUME NEW m, ~Window!IsResult(m)
    PROVE  ~Window!IsSnapshot(m)
  BY DEF Window!IsResult, Window!IsSnapshot

\* Lines that tell nothing of the records: no snapshot is among them.
Idle(q) ==
    /\ q \in Seq(Window!Lines)
    /\ \A i \in Ids : Silent(q, i)
    /\ \A k \in DOMAIN q : ~Window!IsSnapshot(q[k])

LEMMA IdleLine ==
    ASSUME NEW m \in Window!Lines, m.type \in {"state", "reset"}
                                     \/ (m.type = "result" /\ m.method \notin Window!Snapshots)
    PROVE  ~Window!IsSnapshot(m) /\ \A i : ~Window!About(m, i)
  BY DEF Window!About, Window!IsSnapshot

LEMMA IdleTuples ==
    /\ Idle(<<>>)
    /\ \A m1 \in Window!Lines :
          ~Window!IsSnapshot(m1) /\ (\A i : ~Window!About(m1, i)) => Idle(<<m1>>)
    /\ \A m1, m2 \in Window!Lines :
          /\ ~Window!IsSnapshot(m1) /\ (\A i : ~Window!About(m1, i))
          /\ ~Window!IsSnapshot(m2) /\ (\A i : ~Window!About(m2, i))
          => Idle(<<m1, m2>>)
  BY DEF Idle, Silent

\* What says nothing can be appended to what tells of the records.
LEMMA IdleConcat ==
    ASSUME NEW p \in Seq(Window!Lines), NEW t, Idle(t),
           \A k \in DOMAIN p : ~Window!IsSnapshot(p[k])
    PROVE  /\ p \o t \in Seq(Window!Lines)
           /\ \A k \in DOMAIN (p \o t) : ~Window!IsSnapshot((p \o t)[k])
           /\ \A i \in Ids : Changed(p, i) => Changed(p \o t, i)
<1> DEFINE q == p \o t
<1>1. t \in Seq(Window!Lines)
  BY DEF Idle
<1>2. /\ DOMAIN q = 1..Len(p) + Len(t) /\ DOMAIN p = 1..Len(p) /\ DOMAIN t = 1..Len(t)
      /\ Len(p) \in Nat /\ Len(t) \in Nat
      /\ \A k \in DOMAIN q : q[k] = IF k <= Len(p) THEN p[k] ELSE t[k - Len(p)]
  BY <1>1
<1>3. \A k \in DOMAIN q : k <= Len(p) \/ k - Len(p) \in DOMAIN t
  BY <1>2
<1>4. \A k \in DOMAIN q : ~Window!IsSnapshot(q[k])
  <2> HIDE DEF q
  <2> QED
    BY <1>2, <1>3 DEF Idle
<1>5. ASSUME NEW i \in Ids, Changed(p, i) PROVE Changed(q, i)
  BY <1>1, <1>5, AboutConcat DEF Changed, Idle
<1> QED
  BY <1>1, <1>4, <1>5

\* enforceEntryLimit and Engine.publish: the records of E went.
LEMMA EvictedProperties ==
    ASSUME NEW E \in SUBSET Ids
    PROVE  /\ Window!Evicted(E) \in Seq(Window!Lines)
           /\ \A i \in E : Last(Window!Evicted(E), i, "none")
           /\ \A i \in Ids \ E : Silent(Window!Evicted(E), i)
           /\ \A k \in DOMAIN Window!Evicted(E) : ~Window!IsResult(Window!Evicted(E)[k])
<1> DEFINE m == Window!Removed(E)
<1>1. m \in Window!Lines /\ m.type = "removed" /\ m.ids = E
  BY DEF Window!Lines, Window!Removed
<1>2. \A i \in Ids : Window!About(m, i) <=> i \in E
  BY <1>1 DEF Window!About, Window!IsSnapshot
<1>3. Window!Evicted(E) = IF E = {} THEN <<>> ELSE <<m>>
  BY DEF Window!Evicted
<1>4. ~Window!IsResult(m) /\ \A i : Window!Says(m, i) = "none"
  BY <1>1 DEF Window!IsResult, Window!Says
<1> HIDE DEF m
<1>5. CASE E = {}
  BY <1>3, <1>5 DEF Silent
<1>6. CASE E # {}
  <2>1. Window!Evicted(E) = <<m>>
    BY <1>3, <1>6
  <2>2. <<m>> \in Seq(Window!Lines) /\ DOMAIN <<m>> = {1} /\ <<m>>[1] = m
    BY <1>1
  <2> QED
    BY <2>1, <2>2, <1>2, <1>4 DEF Last, Silent
<1> QED
  BY <1>5, <1>6

LEMMA AddedActs ==
    ASSUME Window!TypeOK, NEW i \in Ids, Window!Added(i)
    PROVE  \E q : Acts(q)
<1>1. PICK E \in SUBSET (Window!Present \cup {i}) :
          /\ records' = [Window!Without(E) EXCEPT ![i] = IF i \in E THEN "none" ELSE "pending"]
          /\ Window!Send(Window!Evicted(E)
                           \o (IF i \in E THEN <<>> ELSE <<Window!Transaction(i, "pending")>>))
  BY DEF Window!Added
<1>2. /\ UNCHANGED <<state, attached, serving, toAgent>> /\ UNCHANGED Window!windowVars
  BY DEF Window!Added, Window!Changes
<1> DEFINE p == Window!Evicted(E)
           t == IF i \in E THEN <<>> ELSE <<Window!Transaction(i, "pending")>>
           q == p \o t
<1>3. E \in SUBSET Ids
  BY DEF Window!Present
<1>4. /\ p \in Seq(Window!Lines)
      /\ \A j \in E : Last(p, j, "none")
      /\ \A j \in Ids \ E : Silent(p, j)
      /\ \A k \in DOMAIN p : ~Window!IsResult(p[k])
  BY <1>3, EvictedProperties
<1>5. /\ t \in Seq(Window!Lines)
      /\ i \notin E => Last(t, i, "pending")
      /\ \A j \in Ids : j # i \/ i \in E => Silent(t, j)
      /\ \A k \in DOMAIN t : ~Window!IsResult(t[k])
  <2> DEFINE m == Window!Transaction(i, "pending")
  <2>1. /\ m \in Window!Lines /\ ~Window!IsResult(m) /\ Window!Says(m, i) = "pending"
        /\ \A j \in Ids : Window!About(m, j) <=> j = i
    BY DEF Window!Transaction, Window!Lines, Window!Statuses, Window!IsSnapshot,
           Window!IsResult,            Window!Says, Window!About
  <2> HIDE DEF m
  <2>2. <<m>> \in Seq(Window!Lines) /\ DOMAIN <<m>> = {1} /\ <<m>>[1] = m
    BY <2>1
  <2>3. CASE i \in E
    BY <2>3 DEF Silent
  <2>4. CASE i \notin E
    <3>1. t = <<m>>
      BY <2>4 DEF m
    <3> HIDE DEF t
    <3> QED
      BY <2>1, <2>2, <2>4, <3>1 DEF Last, Silent
  <2> QED
    BY <2>3, <2>4
<1>6. toWindow' = IF attached' THEN toWindow \o q ELSE toWindow
  BY <1>1 DEF Window!Send
<1> HIDE DEF p, t
<1>7. q \in Seq(Window!Lines) /\ \A k \in DOMAIN q : ~Window!IsResult(q[k])
  <2>1. /\ DOMAIN q = 1..Len(p) + Len(t) /\ DOMAIN p = 1..Len(p) /\ DOMAIN t = 1..Len(t)
        /\ Len(p) \in Nat /\ Len(t) \in Nat
        /\ \A k \in DOMAIN q : q[k] = IF k <= Len(p) THEN p[k] ELSE t[k - Len(p)]
    BY <1>4, <1>5
  <2>2. \A k \in DOMAIN q : k <= Len(p) \/ k - Len(p) \in DOMAIN t
    BY <2>1
  <2> QED
    BY <1>4, <1>5, <2>1, <2>2
<1>8. /\ records' \in Window!Records
      /\ \A j \in Ids : records'[j] = IF j \in E THEN "none" ELSE IF j = i THEN "pending" ELSE records[j]
  BY <1>1 DEF Window!TypeOK, Window!Records, Window!Statuses, Window!Without
<1>9. Tells(q)
  <2> SUFFICES ASSUME NEW j \in Ids
               PROVE  Last(q, j, records'[j]) \/ (Silent(q, j) /\ records'[j] = records[j])
    BY DEF Tells, Changed
  <2>1. CASE j \in E
    BY <2>1, <1>4, <1>5, <1>8, AboutConcat
  <2>2. CASE j \notin E /\ j = i
    BY <2>2, <1>4, <1>5, <1>8, AboutConcat
  <2>3. CASE j \notin E /\ j # i
    BY <2>3, <1>4, <1>5, <1>8, AboutConcat
  <2> QED
    BY <2>1, <2>2, <2>3
<1> HIDE DEF q
<1> QED
  BY <1>2, <1>6, <1>7, <1>8, <1>9, Unanswered, NoSnapshot DEF Acts, Window!TypeOK

\* The records that end when the core does.
LEMMA FinishedChanges ==
    ASSUME Window!TypeOK, records' = Window!Finished
    PROVE  LET p == Window!Published(Window!Unfinished, "done") IN
           /\ p \in Seq(Window!Lines)
           /\ \A k \in DOMAIN p : ~Window!IsResult(p[k])
           /\ \A i \in Ids : Changed(p, i)
           /\ records' \in Window!Records
<1> DEFINE p == Window!Published(Window!Unfinished, "done")
           S == Window!Unfinished
<1>1. S \in SUBSET Ids /\ "done" \in Window!Statuses
  BY DEF Window!Unfinished, Window!Statuses
<1>2. /\ p \in Seq(Window!Lines)
      /\ \A k \in DOMAIN p : p[k].type = "transaction"
      /\ \A i \in S : Last(p, i, "done")
      /\ \A i \in Ids \ S : Silent(p, i)
  BY <1>1, PublishedProperties
<1>3. /\ \A i \in Ids : records'[i] = IF i \in S THEN "done" ELSE records[i]
      /\ records' \in Window!Records
  BY DEF Window!Finished, Window!TypeOK, Window!Records, Window!Statuses
<1> HIDE DEF p, S
<1>4. \A i \in Ids : Changed(p, i)
  BY <1>2, <1>3 DEF Changed
<1>5. \A k \in DOMAIN p : ~Window!IsResult(p[k])
  BY <1>2 DEF Window!IsResult
<1> QED
  BY <1>2, <1>3, <1>4, <1>5 DEF p

LEMMA ProgressesActs ==
    ASSUME Window!TypeOK, NEW i \in Ids, NEW st \in Window!Statuses, Window!Progresses(i, st)
    PROVE  \E q : Acts(q)
<1> DEFINE m == Window!Transaction(i, st)
           q == <<m>>
<1>1. /\ records' = [records EXCEPT ![i] = st]
      /\ toWindow' = IF attached' THEN toWindow \o q ELSE toWindow
      /\ UNCHANGED <<state, attached, serving, toAgent>> /\ UNCHANGED Window!windowVars
  BY DEF Window!Progresses, Window!Changes, Window!Send
<1>2. /\ m \in Window!Lines /\ ~Window!IsResult(m) /\ Window!Says(m, i) = st
      /\ \A j \in Ids : Window!About(m, j) <=> j = i
  BY DEF Window!Transaction, Window!Lines, Window!IsSnapshot, Window!IsResult,
         Window!Says, Window!About
<1> HIDE DEF m
<1>3. q \in Seq(Window!Lines) /\ DOMAIN q = {1} /\ q[1] = m
  BY <1>2
<1>4. /\ records' \in Window!Records
      /\ \A j \in Ids : records'[j] = IF j = i THEN st ELSE records[j]
  BY <1>1 DEF Window!TypeOK, Window!Records
<1> HIDE DEF q
<1>5. Tells(q)
  BY <1>2, <1>3, <1>4 DEF Tells, Changed, Last, Silent
<1> QED
  BY <1>1, <1>2, <1>3, <1>4, <1>5, Unanswered, NoSnapshot DEF Acts, Window!TypeOK

LEMMA CoreExitsActs ==
    ASSUME Window!TypeOK, Window!CoreExits
    PROVE  \E q : Acts(q)
<1> DEFINE p == Window!Published(Window!Unfinished, "done")
           m == Window!State(state')
           t == <<Window!Reset, m>>
           q == t \o p
<1>1. /\ state' = [state EXCEPT !.running = FALSE]
      /\ records' = Window!Finished
      /\ toWindow' = IF attached' THEN toWindow \o q ELSE toWindow
      /\ UNCHANGED <<attached, serving, toAgent>> /\ UNCHANGED Window!windowVars
  BY DEF Window!CoreExits, Window!Changes, Window!Send
<1>2. /\ p \in Seq(Window!Lines)
      /\ \A k \in DOMAIN p : ~Window!IsResult(p[k])
      /\ records' \in Window!Records
  BY <1>1, FinishedChanges
<1>3. state' \in Window!States
  BY <1>1 DEF Window!TypeOK, Window!States
<1>4. m \in Window!Lines /\ Window!Reset \in Window!Lines
      /\ ~Window!IsResult(m) /\ ~Window!IsResult(Window!Reset)
  BY <1>3 DEF Window!State, Window!Reset, Window!Lines, Window!IsResult
<1> HIDE DEF p, m
<1>5. q \in Seq(Window!Lines) /\ 1 \in DOMAIN q /\ q[1] = Window!Reset
  BY <1>2, <1>4
<1>6. \A k \in DOMAIN q : ~Window!IsResult(q[k])
  <2>1. /\ DOMAIN q = 1..2 + Len(p) /\ DOMAIN p = 1..Len(p) /\ Len(p) \in Nat
        /\ \A k \in DOMAIN q : q[k] = IF k <= 2 THEN t[k] ELSE p[k - 2]
    BY <1>2, <1>4
  <2>2. \A k \in DOMAIN q : k = 1 \/ k = 2 \/ k - 2 \in DOMAIN p
    BY <2>1
  <2>3. t[1] = Window!Reset /\ t[2] = m
    OBVIOUS
  <2> HIDE DEF q, t
  <2> QED
    BY <1>2, <1>4, <2>1, <2>2, <2>3
<1> HIDE DEF q
<1> QED
  BY <1>1, <1>2, <1>3, <1>5, <1>6, Unanswered, NoSnapshot DEF Acts, Tells, Window!TypeOK

\* What is taken off the requests, when it asks for no snapshot.
LEMMA TakenRequest ==
    ASSUME Window!TypeOK, toAgent # <<>>, Head(toAgent).method \notin Window!Snapshots
    PROVE  /\ Head(toAgent) \in Window!Requests
           /\ Tail(toAgent) \in Seq(Window!Requests)
           /\ Asked(toAgent) => Asked(Tail(toAgent))
<1> DEFINE t == Tail(toAgent)
<1>1. toAgent \in Seq(Window!Requests)
  BY DEF Window!TypeOK
<1>2. /\ Head(toAgent) = toAgent[1] /\ Head(toAgent) \in Window!Requests
      /\ t \in Seq(Window!Requests) /\ Len(t) = Len(toAgent) - 1 /\ Len(toAgent) \in Nat
      /\ \A k \in 1..Len(t) : t[k] = toAgent[k + 1]
  BY <1>1
<1>3. ASSUME Asked(toAgent) PROVE Asked(t)
  <2>1. PICK k \in 1..Len(toAgent) : toAgent[k].method \in Window!Snapshots
    BY <1>1, <1>3 DEF Asked
  <2>2. k # 1
    BY <1>2, <2>1
  <2>3. k - 1 \in 1..Len(t) /\ t[k - 1] = toAgent[k]
    BY <1>2, <2>2
  <2>4. DOMAIN t = 1..Len(t)
    BY <1>2
  <2> HIDE DEF t
  <2> QED
    BY <2>1, <2>3, <2>4 DEF Asked
<1> QED
  BY <1>2, <1>3

\* The methods of requests, taken off one by one.
LEMMA MethodsTaken ==
    ASSUME NEW s \in Seq(Window!Requests)
    PROVE  /\ Window!MethodsOf(s) \in Seq(Window!Methods)
           /\ Len(Window!MethodsOf(s)) = Len(s)
           /\ s # <<>> =>
                 /\ Window!MethodsOf(s) # <<>>
                 /\ Head(Window!MethodsOf(s)) = Head(s).method
                 /\ Tail(Window!MethodsOf(s)) = Window!MethodsOf(Tail(s))
                 /\ Window!MethodsOf(s) = <<Head(s).method>> \o Window!MethodsOf(Tail(s))
<1> DEFINE q == Window!MethodsOf(s)
           t == Window!MethodsOf(Tail(s))
<1>1. q = [k \in 1..Len(s) |-> s[k].method]
  BY DEF Window!MethodsOf
<1>2. \A k \in 1..Len(s) : s[k].method \in Window!Methods
  BY RequestTypes
<1>3. q \in Seq(Window!Methods) /\ Len(q) = Len(s)
  BY <1>1, <1>2
<1>4. ASSUME s # <<>>
      PROVE  /\ q # <<>> /\ Head(q) = Head(s).method
             /\ Tail(q) = t /\ q = <<Head(s).method>> \o t
  <2>1. Len(s) \in Nat \ {0} /\ Len(Tail(s)) = Len(s) - 1
        /\ \A k \in 1..Len(s) - 1 : Tail(s)[k] = s[k + 1]
    BY <1>4
  <2>2. t = [k \in 1..Len(s) - 1 |-> s[k + 1].method]
    BY <2>1 DEF Window!MethodsOf
  <2>3. Tail(q) = [k \in 1..Len(s) - 1 |-> s[k + 1].method]
    BY <1>1, <1>3, <2>1
  <2>4. q # <<>> /\ Head(q) = Head(s).method
    BY <1>1, <1>3, <1>4, <2>1
  <2>5. q = <<Head(q)>> \o Tail(q)
    BY <1>3, <2>4
  <2> QED
    BY <2>2, <2>3, <2>4, <2>5
<1> QED
  BY <1>3, <1>4

\* Requests are not Nothing.
LEMMA Handed ==
    ASSUME Window!TypeOK
    PROVE  /\ serving # Window!Nothing => serving.method \in Window!Methods
           /\ serving.method \in Window!Methods => serving # Window!Nothing
  BY RequestTypes DEF Window!TypeOK, Window!Nothing, Window!Methods

LEMMA BehindType ==
    ASSUME Window!TypeOK
    PROVE  /\ Window!Behind \in Seq(Window!Methods)
           /\ Window!Behind = <<>> => serving = Window!Nothing /\ toAgent = <<>>
<1>1. toAgent \in Seq(Window!Requests)
  BY DEF Window!TypeOK
<1> DEFINE q == Window!MethodsOf(toAgent)
<1>2. q \in Seq(Window!Methods) /\ Len(q) = Len(toAgent)
  BY <1>1, MethodsTaken
<1>3. Window!Behind = (IF serving = Window!Nothing THEN <<>> ELSE <<serving.method>>) \o q
  BY DEF Window!Behind
<1>4. serving # Window!Nothing => serving.method \in Window!Methods
  BY Handed
<1> HIDE DEF q
<1>5. CASE serving = Window!Nothing
  <2>1. Window!Behind = q
    BY <1>2, <1>3, <1>5
  <2> QED
    BY <1>1, <1>2, <1>5, <2>1
<1>6. CASE serving # Window!Nothing
  <2>1. Window!Behind = <<serving.method>> \o q
    BY <1>3, <1>6
  <2> QED
    BY <1>2, <1>4, <1>6, <2>1
<1> QED
  BY <1>5, <1>6

\* A request that is made is the last one to be answered.
LEMMA BehindAppend ==
    ASSUME Window!TypeOK, NEW r \in Window!Requests, serving' = serving,
           toAgent' = Append(toAgent, r)
    PROVE  Window!Behind' = Append(Window!Behind, r.method)
<1>1. toAgent \in Seq(Window!Requests) /\ r.method \in Window!Methods
  BY RequestTypes DEF Window!TypeOK
<1> DEFINE q == Window!MethodsOf(toAgent)
           z == Window!MethodsOf(Append(toAgent, r))
           a == IF serving = Window!Nothing THEN <<>> ELSE <<serving.method>>
<1>2. q \in Seq(Window!Methods) /\ Len(q) = Len(toAgent)
  BY <1>1, MethodsTaken
<1>3. z = Append(q, r.method)
  BY <1>1 DEF Window!MethodsOf
<1>4. a \in Seq(Window!Methods)
  BY Handed
<1>5. Window!Behind = a \o q /\ Window!Behind' = a \o z
  BY DEF Window!Behind, Window!MethodsOf
<1> HIDE DEF a, q, z
<1>6. a \o Append(q, r.method) = Append(a \o q, r.method)
  BY <1>1, <1>2, <1>4
<1> QED
  BY <1>3, <1>5, <1>6

LEMMA EndsCloses ==
    ASSUME Window!TypeOK, NEW method \in Window!Methods, Window!Ends(method)
    PROVE  Closes(method)
<1>1. serving.method = method /\ serving' = Window!Nothing /\ toAgent' = toAgent
  BY DEF Window!Ends
<1>2. serving # Window!Nothing
  BY <1>1, Handed
<1> DEFINE q == Window!MethodsOf(toAgent)
<1>3. q \in Seq(Window!Methods)
  BY MethodsTaken DEF Window!TypeOK
<1>4. Window!Behind = <<method>> \o q /\ Window!Behind' = <<>> \o q
  BY <1>1, <1>2 DEF Window!Behind, Window!MethodsOf
<1> HIDE DEF q
<1>5. <<method>> \o q # <<>> /\ Head(<<method>> \o q) = method /\ Tail(<<method>> \o q) = q
      /\ <<>> \o q = q
  BY <1>3
<1> QED
  BY <1>2, <1>4, <1>5 DEF Closes, Greeting

LEMMA ServesCloses ==
    ASSUME Window!TypeOK, NEW method \in Window!Methods \ {"hello"}, Window!Serves(method)
    PROVE  Closes(method)
<1>1. /\ serving = Window!Nothing /\ serving' = serving
      /\ toAgent # <<>> /\ toAgent' = Tail(toAgent) /\ Head(toAgent).method = method
      /\ toAgent \in Seq(Window!Requests)
  BY DEF Window!Serves, Window!Due, Window!TypeOK
<1> DEFINE q == Window!MethodsOf(toAgent)
           t == Window!MethodsOf(Tail(toAgent))
<1>2. /\ q \in Seq(Window!Methods) /\ q # <<>> /\ Head(q) = method /\ Tail(q) = t
      /\ t \in Seq(Window!Methods)
  <2>1. Tail(toAgent) \in Seq(Window!Requests)
    BY <1>1
  <2> QED
    BY <1>1, <2>1, MethodsTaken
<1>3. Window!Behind = <<>> \o q /\ Window!Behind' = <<>> \o t
  BY <1>1 DEF Window!Behind, Window!MethodsOf
<1>4. 1 \in DOMAIN toAgent /\ toAgent[1] = Head(toAgent)
  BY <1>1
<1>5. ~Greeting
  BY <1>1, <1>4 DEF Greeting
<1> HIDE DEF q, t
<1> QED
  BY <1>2, <1>3, <1>5 DEF Closes

\* What is in front of the lines of an answer, without results.
LEMMA Responding ==
    ASSUME NEW p \in Seq(Window!Lines), \A k \in DOMAIN p : ~Window!IsResult(p[k]),
           NEW t \in Seq(Window!Lines), Responds(t)
    PROVE  Responds(p \o t)
<1> DEFINE q == p \o t
<1>1. /\ DOMAIN q = 1..Len(p) + Len(t) /\ DOMAIN p = 1..Len(p) /\ DOMAIN t = 1..Len(t)
      /\ Len(p) \in Nat /\ Len(t) \in Nat /\ Len(q) = Len(p) + Len(t)
      /\ \A k \in DOMAIN q : q[k] = IF k <= Len(p) THEN p[k] ELSE t[k - Len(p)]
  OBVIOUS
<1>2. \A k \in DOMAIN q : k <= Len(p) \/ k - Len(p) \in DOMAIN t
  BY <1>1
<1> HIDE DEF q
<1>3. CASE \A k \in DOMAIN t : ~Window!IsResult(t[k])
  <2>1. \A k \in DOMAIN q : ~Window!IsResult(q[k])
    BY <1>1, <1>2, <1>3
  <2>2. ASSUME NEW method, Closing(t, method) PROVE FALSE
    BY <1>3, <2>2 DEF Closing
  <2> QED
    BY <2>1, <2>2 DEF Responds, q
<1>4. ASSUME NEW method, Closes(method), Closing(t, method) PROVE Responds(q)
  <2>1. Len(t) \in DOMAIN t /\ Len(q) \in DOMAIN q /\ q[Len(q)] = t[Len(t)]
    BY <1>1, <1>4 DEF Closing
  <2>2. \A k \in DOMAIN q : k # Len(q) => ~Window!IsResult(q[k])
    BY <1>1, <1>2, <1>4 DEF Closing
  <2> QED
    BY <1>4, <2>1, <2>2 DEF Closing, Responds
<1> QED
  BY <1>3, <1>4 DEF Responds, q

\* Lines of two parts: what changed, and what tells nothing of the records.
LEMMA ConcatActs ==
    ASSUME Window!TypeOK,
           NEW p \in Seq(Window!Lines), \A k \in DOMAIN p : ~Window!IsResult(p[k]),
           \A i \in Ids : Changed(p, i),
           NEW t, Idle(t),
           toWindow' = IF attached' THEN toWindow \o (p \o t) ELSE toWindow,
           records' \in Window!Records, state' \in Window!States,
           serving' \in Window!Requests \cup {Window!Nothing},
           UNCHANGED <<attached, toAgent>>, UNCHANGED Window!windowVars,
           Responds(p \o t), Greeting => UNCHANGED serving
    PROVE  Acts(p \o t)
<1>1. /\ p \o t \in Seq(Window!Lines)
      /\ \A k \in DOMAIN (p \o t) : ~Window!IsSnapshot((p \o t)[k])
      /\ \A i \in Ids : Changed(p \o t, i)
  BY IdleConcat, NoSnapshot
<1> DEFINE q == p \o t
<1> HIDE DEF q
<1>2. Tells(q)
  BY <1>1 DEF Tells, q
<1> QED
  BY <1>1, <1>2 DEF Acts, q, Window!TypeOK

\* Lines that tell nothing of the records, which stay as they are.
LEMMA IdleActs ==
    ASSUME Window!TypeOK, NEW q, Idle(q),
           toWindow' = IF attached' THEN toWindow \o q ELSE toWindow,
           records' = records, state' \in Window!States,
           serving' \in Window!Requests \cup {Window!Nothing},
           toAgent' \in Seq(Window!Requests), Asked(toAgent) => Asked(toAgent'),
           attached' \in BOOLEAN, attached => attached',
           attached' = attached \/ (q = <<>> /\ toAgent # <<>>),
           UNCHANGED Window!windowVars,
           Responds(q), Greeting /\ ~attached' => UNCHANGED <<serving, toAgent>>
    PROVE  Acts(q)
<1>1. Tells(q)
  BY DEF Tells, Changed, Idle
<1> QED
  BY <1>1 DEF Acts, Idle, Window!TypeOK

\* A reset, and lines that tell nothing.
LEMMA ResetActs ==
    ASSUME Window!TypeOK, NEW q \in Seq(Window!Lines), 1 \in DOMAIN q, q[1] = Window!Reset,
           \A k \in DOMAIN q : ~Window!IsSnapshot(q[k]),
           toWindow' = IF attached' THEN toWindow \o q ELSE toWindow,
           records' \in Window!Records, state' \in Window!States,
           toAgent' \in Seq(Window!Requests), Asked(toAgent) => Asked(toAgent'),
           UNCHANGED <<attached, serving>>, UNCHANGED Window!windowVars,
           Responds(q), Greeting => UNCHANGED toAgent
    PROVE  Acts(q)
<1>1. Tells(q)
  BY DEF Tells
<1> QED
  BY <1>1 DEF Acts, Window!TypeOK

LEMMA OtherDeletesActs ==
    ASSUME Window!TypeOK, NEW S \in SUBSET Ids, Window!OtherDeletes(S)
    PROVE  \E q : Acts(q)
<1> DEFINE m == Window!State(state)
           q == <<Window!Reset, m>>
<1>1. /\ records' = Window!Without(S)
      /\ toWindow' = IF attached' THEN toWindow \o q ELSE toWindow
      /\ UNCHANGED <<state, attached, serving, toAgent>> /\ UNCHANGED Window!windowVars
  BY DEF Window!OtherDeletes, Window!Changes, Window!Send
<1>2. records' \in Window!Records
  BY <1>1 DEF Window!TypeOK, Window!Records, Window!Statuses, Window!Without
<1>3. m \in Window!Lines /\ Window!Reset \in Window!Lines
      /\ ~Window!IsResult(m) /\ ~Window!IsResult(Window!Reset)
  BY DEF Window!State, Window!Reset, Window!Lines, Window!IsResult, Window!TypeOK
<1> HIDE DEF m
<1>4. q \in Seq(Window!Lines) /\ DOMAIN q = {1, 2} /\ q[1] = Window!Reset /\ q[2] = m
  BY <1>3
<1> HIDE DEF q
<1>5. Acts(q)
  BY <1>1, <1>2, <1>3, <1>4, ResetActs, Unanswered, NoSnapshot DEF Window!TypeOK
<1> QED
  BY <1>5

LEMMA OtherSetsActs ==
    ASSUME Window!TypeOK, NEW s \in Window!States, Window!OtherSets(s)
    PROVE  \E q : Acts(q)
<1> DEFINE p == IF s.running THEN <<>> ELSE Window!Published(Window!Unfinished, "done")
           m == Window!State(s)
           t == <<m>>
<1>1. /\ state' = s
      /\ records' = IF s.running THEN records ELSE Window!Finished
      /\ toWindow' = IF attached' THEN toWindow \o (p \o t) ELSE toWindow
      /\ UNCHANGED <<attached, serving, toAgent>> /\ UNCHANGED Window!windowVars
  BY DEF Window!OtherSets, Window!Changes, Window!Send
<1>2. /\ p \in Seq(Window!Lines)
      /\ \A k \in DOMAIN p : ~Window!IsResult(p[k])
      /\ \A i \in Ids : Changed(p, i)
      /\ records' \in Window!Records
  <2>1. CASE s.running
    BY <2>1, <1>1 DEF Changed, Silent, Window!TypeOK
  <2>2. CASE ~s.running
    BY <2>2, <1>1, FinishedChanges
  <2> QED
    BY <2>1, <2>2
<1>3. m \in Window!Lines /\ m.type = "state"
  BY DEF Window!State, Window!Lines
<1> HIDE DEF p, m
<1>4. Idle(t)
  BY <1>3, IdleLine, IdleTuples
<1>5. \A k \in DOMAIN t : ~Window!IsResult(t[k])
  BY <1>3 DEF Window!IsResult
<1> HIDE DEF t
<1>6. Responds(p \o t)
  BY <1>1, <1>2, <1>4, <1>5, Unanswered, Responding DEF Idle
<1>7. Acts(p \o t)
  BY <1>1, <1>2, <1>4, <1>6, ConcatActs DEF Window!TypeOK
<1> QED
  BY <1>7

LEMMA SessionEndsActs ==
    ASSUME Window!TypeOK, Window!SessionEnds
    PROVE  \E q : Acts(q)
<1>1. <<>> \in Seq(Window!Lines) /\ toWindow = <<>>
  BY DEF Window!TypeOK, Window!SessionEnds
<1>2. records' \in Window!Records /\ state' \in Window!States
  BY DEF Window!SessionEnds, Window!NoRecords, Window!Records, Window!Statuses, Window!States
<1>3. ~attached /\ UNCHANGED <<attached, serving, toAgent, toWindow>>
      /\ UNCHANGED Window!windowVars
  BY DEF Window!SessionEnds, Window!wireVars
<1>4. Acts(<<>>)
  BY <1>1, <1>2, <1>3, Unanswered DEF Acts, Window!TypeOK
<1> QED
  BY <1>4

LEMMA BeginsActs ==
    ASSUME Window!TypeOK, Window!Begins
    PROVE  \E q : Acts(q)
<1>1. /\ toAgent # <<>> /\ Head(toAgent).method \notin Window!Snapshots
      /\ serving' = Head(toAgent) /\ toAgent' = Tail(toAgent)
      /\ attached' = (attached \/ serving'.method = "hello")
      /\ UNCHANGED <<records, state, toWindow>> /\ UNCHANGED Window!windowVars
  BY DEF Window!Begins, Window!Due, Window!Snapshots
<1>2. toWindow \in Seq(Window!Lines) /\ (~attached => toWindow = <<>>)
  BY DEF Window!TypeOK
<1>3. toWindow \o <<>> = toWindow
  BY <1>2
<1>4. toWindow' = IF attached' THEN toWindow \o <<>> ELSE toWindow
  BY <1>1, <1>3
<1>5. attached' \in BOOLEAN /\ (attached => attached')
  BY <1>1 DEF Window!TypeOK
<1>6. Idle(<<>>)
  BY IdleTuples
\* The call in hand is still to be answered.
<1>7. Window!Behind' = Window!Behind
  <2> DEFINE s == Window!MethodsOf(toAgent)
             t == Window!MethodsOf(Tail(toAgent))
  <2>1. serving = Window!Nothing /\ toAgent \in Seq(Window!Requests)
    BY DEF Window!Begins, Window!Due, Window!TypeOK
  <2>2. s \in Seq(Window!Methods) /\ s = <<Head(toAgent).method>> \o t
    BY <1>1, <2>1, MethodsTaken
  <2>3. serving' # Window!Nothing
    BY <1>1, TakenRequest, RequestTypes DEF Window!Nothing, Window!Methods
  <2>4. Window!Behind = <<>> \o s /\ Window!Behind' = <<Head(toAgent).method>> \o t
    BY <1>1, <2>1, <2>3 DEF Window!Behind, Window!MethodsOf
  <2> HIDE DEF s, t
  <2> QED
    BY <2>2, <2>4
<1>8. Responds(<<>>)
  BY <1>7 DEF Responds
<1>9. Greeting => attached'
  <2>1. 1 \in DOMAIN toAgent /\ toAgent[1] = Head(toAgent)
    BY <1>1 DEF Window!TypeOK
  <2> QED
    BY <1>1, <2>1 DEF Greeting
<1>10. Acts(<<>>)
  BY <1>1, <1>4, <1>5, <1>6, <1>8, <1>9, TakenRequest, IdleActs DEF Window!TypeOK
<1> QED
  BY <1>10

LEMMA ConfiguredActs ==
    ASSUME Window!TypeOK, NEW method \in {"hello", "settings"}, Window!Configured(method)
    PROVE  \E q : Acts(q)
<1>1. PICK E \in SUBSET Window!Present :
          /\ records' = Window!Without(E)
          /\ Window!Send(Window!Evicted(E)
                \o <<Window!State(state), Window!Result(method, state, Window!NoRecords)>>)
  BY DEF Window!Configured
<1> DEFINE p == Window!Evicted(E)
           m1 == Window!State(state)
           m2 == Window!Result(method, state, Window!NoRecords)
           t == <<m1, m2>>
<1>2. /\ toWindow' = IF attached' THEN toWindow \o (p \o t) ELSE toWindow
      /\ serving' = Window!Nothing
      /\ UNCHANGED <<state, attached, toAgent>> /\ UNCHANGED Window!windowVars
  BY <1>1 DEF Window!Configured, Window!Ends, Window!Send
<1>3. E \in SUBSET Ids
  BY DEF Window!Present
<1>4. /\ p \in Seq(Window!Lines)
      /\ \A j \in E : Last(p, j, "none")
      /\ \A j \in Ids \ E : Silent(p, j)
      /\ \A k \in DOMAIN p : ~Window!IsResult(p[k])
  BY <1>3, EvictedProperties
<1>5. /\ records' \in Window!Records
      /\ \A j \in Ids : records'[j] = IF j \in E THEN "none" ELSE records[j]
  BY <1>1 DEF Window!TypeOK, Window!Records, Window!Statuses, Window!Without
<1>6. \A j \in Ids : Changed(p, j)
  <2> HIDE DEF p
  <2> QED
    BY <1>4, <1>5 DEF Changed
<1>7. /\ m1 \in Window!Lines /\ m1.type = "state"
      /\ m2 \in Window!Lines /\ m2.type = "result" /\ m2.method = method
  BY DEF Window!State, Window!Lines, Window!Result, Window!Results, Window!Methods,
         Window!NoRecords, Window!Records, Window!Statuses, Window!TypeOK
<1>8. method \notin Window!Snapshots
  BY DEF Window!Snapshots
<1> HIDE DEF p, m1, m2
<1>9. Idle(t)
  BY <1>7, <1>8, IdleLine, IdleTuples
<1>10. Closing(t, method)
  BY <1>7 DEF Closing, Window!IsResult
<1> HIDE DEF t
<1>11. Closes(method)
  BY EndsCloses DEF Window!Configured, Window!Methods
<1>12. Responds(p \o t)
  BY <1>4, <1>9, <1>10, <1>11, Responding DEF Responds, Idle
<1>13. Acts(p \o t)
  BY <1>2, <1>4, <1>5, <1>6, <1>9, <1>11, <1>12, ConcatActs DEF Window!TypeOK, Closes
<1> QED
  BY <1>13

\* The lines that answer a call that asks for no snapshot, after one of the state.
LEMMA AnswerLines ==
    ASSUME NEW s \in Window!States, NEW method \in Window!Methods \ Window!Snapshots,
           state \in Window!States
    PROVE  /\ Idle(<<Window!State(s), Window!Result(method, s, Window!NoRecords)>>)
           /\ Idle(<<Window!Result(method, s, Window!NoRecords)>>)
           /\ Idle(<<Window!Error(method)>>)
           /\ Closing(<<Window!State(s), Window!Result(method, s, Window!NoRecords)>>, method)
           /\ Closing(<<Window!Result(method, s, Window!NoRecords)>>, method)
           /\ Closing(<<Window!Error(method)>>, method)
<1> DEFINE m1 == Window!State(s)
           m2 == Window!Result(method, s, Window!NoRecords)
           m3 == Window!Error(method)
<1>1. /\ m1 \in Window!Lines /\ m1.type = "state"
      /\ m2 \in Window!Lines /\ m2.type = "result" /\ m2.method = method
      /\ m3 \in Window!Lines /\ m3.type = "result" /\ m3.method = method
  BY DEF Window!State, Window!Lines, Window!Result, Window!Error, Window!Results,
         Window!Methods, Window!NoRecords, Window!Records, Window!Statuses
<1> HIDE DEF m1, m2, m3
<1>2. \A m \in {m1, m2, m3} : ~Window!IsSnapshot(m) /\ \A i : ~Window!About(m, i)
  BY <1>1, IdleLine
<1>3. Idle(<<m1, m2>>) /\ Idle(<<m2>>) /\ Idle(<<m3>>)
  BY <1>1, <1>2, IdleTuples
<1>4. Closing(<<m1, m2>>, method) /\ Closing(<<m2>>, method) /\ Closing(<<m3>>, method)
  BY <1>1 DEF Closing, Window!IsResult
<1> QED
  BY <1>3, <1>4 DEF m1, m2, m3

LEMMA StartedActs ==
    ASSUME Window!TypeOK, Window!Started
    PROVE  \E q : Acts(q)
<1>1. /\ records' = records /\ serving' = Window!Nothing
      /\ UNCHANGED <<attached, toAgent>> /\ UNCHANGED Window!windowVars
  BY DEF Window!Started, Window!Ends
<1>2. "start" \in Window!Methods \ Window!Snapshots
  BY DEF Window!Methods, Window!Snapshots
<1> DEFINE q1 == <<Window!State(state'), Window!Result("start", state', Window!NoRecords)>>
           q2 == <<Window!Error("start")>>
<1>3. \/ /\ state' = [state EXCEPT !.running = TRUE]
         /\ toWindow' = IF attached' THEN toWindow \o q1 ELSE toWindow
      \/ /\ state' = state
         /\ toWindow' = IF attached' THEN toWindow \o q2 ELSE toWindow
  BY DEF Window!Started, Window!Send
<1>4. state' \in Window!States
  BY <1>3 DEF Window!TypeOK, Window!States
<1>5. Idle(q1) /\ Idle(q2) /\ Closing(q1, "start") /\ Closing(q2, "start")
  BY <1>2, <1>4, AnswerLines DEF Window!TypeOK
<1> HIDE DEF q1, q2
<1>6. Closes("start")
  BY EndsCloses DEF Window!Started, Window!Methods
<1>7. Responds(q1) /\ Responds(q2) /\ ~Greeting
  BY <1>5, <1>6 DEF Responds, Closes
<1>8. Acts(q1) \/ Acts(q2)
  BY <1>1, <1>3, <1>4, <1>5, <1>7, IdleActs DEF Window!TypeOK
<1> QED
  BY <1>8

LEMMA StopBeginsActs ==
    ASSUME Window!TypeOK, Window!StopBegins
    PROVE  \E q : Acts(q)
<1>1. /\ state' = [state EXCEPT !.running = FALSE]
      /\ UNCHANGED <<records, attached, serving, toAgent, toWindow>>
      /\ UNCHANGED Window!windowVars
  BY DEF Window!StopBegins, Window!wireVars
<1>2. state' \in Window!States
  BY <1>1 DEF Window!TypeOK, Window!States
<1>3. toWindow' = IF attached' THEN toWindow \o <<>> ELSE toWindow
  BY <1>1 DEF Window!TypeOK
<1>4. Responds(<<>>)
  BY <1>1, Unanswered
<1>5. Acts(<<>>)
  BY <1>1, <1>2, <1>3, <1>4, IdleTuples, IdleActs DEF Window!TypeOK
<1> QED
  BY <1>5

LEMMA StoppedActs ==
    ASSUME Window!TypeOK, Window!Stopped
    PROVE  \E q : Acts(q)
<1> DEFINE p == Window!Published(Window!Unfinished, "done")
           t == <<Window!State(state), Window!Result("stop", state, Window!NoRecords)>>
<1>1. /\ records' = Window!Finished /\ serving' = Window!Nothing
      /\ toWindow' = IF attached' THEN toWindow \o (p \o t) ELSE toWindow
      /\ UNCHANGED <<state, attached, toAgent>> /\ UNCHANGED Window!windowVars
  BY DEF Window!Stopped, Window!Ends, Window!Send
<1>2. /\ p \in Seq(Window!Lines)
      /\ \A k \in DOMAIN p : ~Window!IsResult(p[k])
      /\ \A i \in Ids : Changed(p, i)
      /\ records' \in Window!Records
  BY <1>1, FinishedChanges
<1>3. Idle(t) /\ Closing(t, "stop")
  BY AnswerLines DEF Window!Methods, Window!Snapshots, Window!TypeOK
<1> HIDE DEF p, t
<1>4. Closes("stop")
  BY EndsCloses DEF Window!Stopped, Window!Methods
<1>5. Responds(p \o t)
  BY <1>2, <1>3, <1>4, Responding DEF Responds, Idle
<1>6. Acts(p \o t)
  BY <1>1, <1>2, <1>3, <1>4, <1>5, ConcatActs DEF Window!TypeOK, Closes
<1> QED
  BY <1>6

LEMMA ComposedActs ==
    ASSUME Window!TypeOK, Window!Composed
    PROVE  \E q : Acts(q)
<1> DEFINE q1 == <<Window!Result("compose", state, Window!NoRecords)>>
           q2 == <<Window!Error("compose")>>
<1>1. /\ serving' = Window!Nothing /\ UNCHANGED <<records, state>>
      /\ UNCHANGED <<attached, toAgent>> /\ UNCHANGED Window!windowVars
      /\ \/ toWindow' = IF attached' THEN toWindow \o q1 ELSE toWindow
         \/ toWindow' = IF attached' THEN toWindow \o q2 ELSE toWindow
  BY DEF Window!Composed, Window!Ends, Window!Send
<1>2. Idle(q1) /\ Idle(q2) /\ Closing(q1, "compose") /\ Closing(q2, "compose")
  BY AnswerLines DEF Window!TypeOK, Window!Methods, Window!Snapshots
<1> HIDE DEF q1, q2
<1>3. Closes("compose")
  BY EndsCloses DEF Window!Composed, Window!Methods
<1>4. Responds(q1) /\ Responds(q2) /\ ~Greeting
  BY <1>2, <1>3 DEF Responds, Closes
<1>5. Acts(q1) \/ Acts(q2)
  BY <1>1, <1>2, <1>4, IdleActs DEF Window!TypeOK
<1> QED
  BY <1>5

LEMMA SnapshotActs ==
    ASSUME Window!TypeOK, NEW method \in Window!Snapshots, Window!Snapshot(method)
    PROVE  \E q : Acts(q)
<1> DEFINE m == Window!Result(method, state, records)
           q == <<m>>
<1>1. /\ toAgent # <<>> /\ toAgent' = Tail(toAgent)
      /\ toWindow' = IF attached' THEN toWindow \o q ELSE toWindow
      /\ UNCHANGED <<records, state, attached, serving>> /\ UNCHANGED Window!windowVars
  BY DEF Window!Snapshot, Window!Serves, Window!Due, Window!Send
<1>2. m \in Window!Lines /\ Window!IsSnapshot(m) /\ m.ok /\ m.type = "result"
      /\ m.records = records /\ m.method = method
  BY DEF Window!Result, Window!Lines, Window!Results, Window!IsSnapshot, Window!Snapshots,
         Window!Methods, Window!TypeOK
<1> HIDE DEF m
<1>3. q \in Seq(Window!Lines) /\ DOMAIN q = {1} /\ q[1] = m
  BY <1>2
<1> HIDE DEF q
<1>4. \A i \in Ids : Last(q, i, records'[i])
  BY <1>1, <1>2, <1>3 DEF Last, Window!About, Window!Says
<1>5. Complete(q) /\ Tells(q)
  BY <1>4 DEF Complete, Tells, Changed
<1>6. toAgent' \in Seq(Window!Requests)
  BY <1>1 DEF Window!TypeOK
<1>7. Closes(method)
  BY ServesCloses DEF Window!Snapshot, Window!Snapshots, Window!Methods
<1>8. Len(q) = 1
  BY <1>2 DEF q
<1>9. Responds(q) /\ ~Greeting
  BY <1>2, <1>3, <1>7, <1>8 DEF Responds, Closes, Closing, Window!IsResult
<1>10. Acts(q)
  BY <1>1, <1>2, <1>3, <1>5, <1>6, <1>9 DEF Acts, Window!TypeOK
<1> QED
  BY <1>10

LEMMA RecordingActs ==
    ASSUME Window!TypeOK, Window!Recording
    PROVE  \E q : Acts(q)
<1> DEFINE q == <<Window!State(state'), Window!Result("record", state', Window!NoRecords)>>
<1>1. /\ toAgent # <<>> /\ Head(toAgent).method = "record" /\ toAgent' = Tail(toAgent)
      /\ state' = [state EXCEPT !.recording = Head(toAgent).value]
      /\ toWindow' = IF attached' THEN toWindow \o q ELSE toWindow
      /\ UNCHANGED <<records, attached, serving>> /\ UNCHANGED Window!windowVars
  BY DEF Window!Recording, Window!Serves, Window!Due, Window!Send
<1>2. "record" \in Window!Methods \ Window!Snapshots
  BY DEF Window!Methods, Window!Snapshots
<1>3. /\ toAgent' \in Seq(Window!Requests)
      /\ Asked(toAgent) => Asked(toAgent')
      /\ Head(toAgent).value \in BOOLEAN
  BY <1>1, <1>2, TakenRequest, RequestTypes
<1>4. state' \in Window!States
  BY <1>1, <1>3 DEF Window!TypeOK, Window!States
<1>5. Idle(q) /\ Closing(q, "record")
  BY <1>2, <1>4, AnswerLines DEF Window!TypeOK
<1> HIDE DEF q
<1>6. Closes("record")
  BY ServesCloses DEF Window!Recording, Window!Methods
<1>7. Responds(q) /\ ~Greeting
  BY <1>5, <1>6 DEF Responds, Closes
<1>8. Acts(q)
  BY <1>1, <1>3, <1>4, <1>5, <1>7, IdleActs DEF Window!TypeOK
<1> QED
  BY <1>8

LEMMA DeletedActs ==
    ASSUME Window!TypeOK, Window!Deleted
    PROVE  \E q : Acts(q)
<1> DEFINE m1 == Window!State(state)
           m2 == Window!Result("delete", state, Window!NoRecords)
           q == <<Window!Reset, m1, m2>>
<1>1. /\ toAgent # <<>> /\ Head(toAgent).method = "delete" /\ toAgent' = Tail(toAgent)
      /\ records' = Window!Without(Head(toAgent).ids)
      /\ toWindow' = IF attached' THEN toWindow \o q ELSE toWindow
      /\ UNCHANGED <<state, attached, serving>> /\ UNCHANGED Window!windowVars
  BY DEF Window!Deleted, Window!Serves, Window!Due, Window!Send
<1>2. "delete" \in Window!Methods \ Window!Snapshots
  BY DEF Window!Methods, Window!Snapshots
<1>3. /\ toAgent' \in Seq(Window!Requests)
      /\ Asked(toAgent) => Asked(toAgent')
  BY <1>1, <1>2, TakenRequest
<1>4. records' \in Window!Records
  BY <1>1 DEF Window!TypeOK, Window!Records, Window!Statuses, Window!Without
<1>5. /\ m1 \in Window!Lines /\ ~Window!IsSnapshot(m1) /\ ~Window!IsResult(m1)
      /\ m2 \in Window!Lines /\ ~Window!IsSnapshot(m2)
      /\ Window!IsResult(m2) /\ m2.method = "delete"
      /\ Window!Reset \in Window!Lines
      /\ ~Window!IsSnapshot(Window!Reset) /\ ~Window!IsResult(Window!Reset)
  BY <1>2 DEF Window!State, Window!Lines, Window!Result, Window!Results, Window!Methods,
         Window!NoRecords, Window!Records, Window!Statuses, Window!TypeOK,
         Window!IsSnapshot, Window!IsResult, Window!Reset
<1> HIDE DEF m1, m2
<1>6. /\ q \in Seq(Window!Lines) /\ DOMAIN q = {1, 2, 3} /\ Len(q) = 3
      /\ q[1] = Window!Reset /\ q[2] = m1 /\ q[3] = m2
  BY <1>5
<1> HIDE DEF q
<1>7. Closes("delete")
  BY ServesCloses DEF Window!Deleted, Window!Methods
<1>8. Responds(q) /\ ~Greeting
  BY <1>5, <1>6, <1>7 DEF Responds, Closes, Closing
<1>9. Acts(q)
  BY <1>1, <1>3, <1>4, <1>5, <1>6, <1>8, ResetActs DEF Window!TypeOK
<1> QED
  BY <1>9

LEMMA ResumedActs ==
    ASSUME Window!TypeOK, Window!Resumed
    PROVE  \E q : Acts(q)
<1> DEFINE i == Head(toAgent).id
           m == Window!Transaction(i, "pending")
           r == Window!Result("resume", state, Window!NoRecords)
           q1 == <<m, r>>
           q2 == <<Window!Error("resume")>>
<1>1. /\ toAgent # <<>> /\ Head(toAgent).method = "resume" /\ toAgent' = Tail(toAgent)
      /\ UNCHANGED <<state, attached, serving>> /\ UNCHANGED Window!windowVars
      /\ IF records[i] = "paused"
         THEN /\ records' = [records EXCEPT ![i] = "pending"]
              /\ toWindow' = IF attached' THEN toWindow \o q1 ELSE toWindow
         ELSE /\ records' = records
              /\ toWindow' = IF attached' THEN toWindow \o q2 ELSE toWindow
  BY DEF Window!Resumed, Window!Serves, Window!Due, Window!Send
<1>2. "resume" \in Window!Methods \ Window!Snapshots
  BY DEF Window!Methods, Window!Snapshots
<1>3. /\ toAgent' \in Seq(Window!Requests)
      /\ Asked(toAgent) => Asked(toAgent')
      /\ i \in Ids
  BY <1>1, <1>2, TakenRequest, RequestTypes
<1>4. Closes("resume")
  BY ServesCloses DEF Window!Resumed, Window!Methods
<1>5. CASE records[i] # "paused"
  <2>1. Idle(q2) /\ Closing(q2, "resume")
    BY <1>2, AnswerLines DEF Window!TypeOK
  <2> HIDE DEF q2
  <2>2. Acts(q2)
    BY <1>1, <1>3, <1>5, <1>4, <2>1, IdleActs DEF Window!TypeOK, Responds, Closes
  <2> QED
    BY <2>2
<1>6. CASE records[i] = "paused"
  <2>1. /\ m \in Window!Lines /\ ~Window!IsResult(m) /\ Window!Says(m, i) = "pending"
        /\ \A j \in Ids : Window!About(m, j) <=> j = i
    BY <1>3 DEF Window!Transaction, Window!Lines, Window!IsSnapshot, Window!IsResult, Window!Says,
                Window!About, Window!Statuses
  <2>2. /\ r \in Window!Lines /\ r.type = "result" /\ r.method = "resume"
    BY <1>2 DEF Window!Lines, Window!Result, Window!Results, Window!Methods,
           Window!NoRecords, Window!Records, Window!Statuses, Window!TypeOK
  <2> HIDE DEF m, r
  <2>3. ~Window!IsSnapshot(r) /\ \A j : ~Window!About(r, j)
    BY <1>2, <2>2, IdleLine
  <2>4. q1 \in Seq(Window!Lines) /\ DOMAIN q1 = {1, 2} /\ Len(q1) = 2 /\ q1[1] = m /\ q1[2] = r
    BY <2>1, <2>2
  <2>5. /\ records' \in Window!Records
        /\ \A j \in Ids : records'[j] = IF j = i THEN "pending" ELSE records[j]
    BY <1>1, <1>6 DEF Window!TypeOK, Window!Records, Window!Statuses
  <2> HIDE DEF q1, i
  <2>6. Last(q1, i, "pending")
    BY <1>3, <2>1, <2>3, <2>4 DEF Last
  <2>7. \A j \in Ids : j # i => Silent(q1, j)
    BY <2>1, <2>3, <2>4 DEF Silent
  <2>8. \A k \in DOMAIN q1 : ~Window!IsSnapshot(q1[k])
    BY <2>1, <2>3, <2>4, NoSnapshot
  <2>9. Tells(q1)
    BY <2>5, <2>6, <2>7 DEF Tells, Changed
  <2>10. Responds(q1) /\ ~Greeting
    BY <1>4, <2>1, <2>2, <2>4 DEF Responds, Closes, Closing, Window!IsResult
  <2>11. Acts(q1)
    BY <1>1, <1>3, <1>6, <2>4, <2>5, <2>8, <2>9, <2>10 DEF Acts, Window!TypeOK
  <2> QED
    BY <2>11
<1> QED
  BY <1>5, <1>6

\* Every step of the session and of the agent.
LEMMA SessionOrServeActs ==
    ASSUME Window!TypeOK, Window!Session \/ Window!Serve
    PROVE  \E q : Acts(q)
<1>1. CASE Window!Session
  BY <1>1, AddedActs, ProgressesActs, CoreExitsActs, SessionEndsActs, OtherDeletesActs,
     OtherSetsActs DEF Window!Session
<1>2. CASE Window!Serve
  BY <1>2, BeginsActs, ConfiguredActs, StartedActs, StopBeginsActs, StoppedActs,
     ComposedActs, SnapshotActs, RecordingActs, DeletedActs, ResumedActs DEF Window!Serve
<1> QED
  BY <1>1, <1>2

-----------------------------------------------------------------------------
(* Calls and results. *)

\* How many results there are among the lines, one by one.
LEMMA Counts ==
    ASSUME NEW q
    PROVE  /\ \A k \in Nat : Window!Answers(q, k) \in Nat
           /\ Window!Answers(q, 0) = 0
           /\ \A k \in Nat : Window!Answers(q, k + 1) =
                 Window!Answers(q, k) + (IF Window!IsResult(q[k + 1]) THEN 1 ELSE 0)
           /\ \A j, k \in Nat : j <= k => Window!Answers(q, j) <= Window!Answers(q, k)
           /\ \A j, k \in Nat :
                 j <= k /\ (\A l \in j + 1..k : ~Window!IsResult(q[l]))
                 => Window!Answers(q, k) = Window!Answers(q, j)
<1> DEFINE S(k) == {l \in 1..k : Window!IsResult(q[l])}
<1>1. \A k : Window!Answers(q, k) = Cardinality(S(k))
  BY DEF Window!Answers, Window!Cardinality, Cardinality
<1>2. \A k \in Nat : IsFiniteSet(S(k)) /\ Cardinality(S(k)) \in Nat
  <2> SUFFICES ASSUME NEW k \in Nat PROVE IsFiniteSet(S(k)) /\ Cardinality(S(k)) \in Nat
    OBVIOUS
  <2>1. IsFiniteSet(1..k) /\ S(k) \in SUBSET (1..k)
    BY FS_Interval
  <2> QED
    BY <2>1, FS_Subset, FS_CardinalityType
<1>3. S(0) = {}
  OBVIOUS
<1>4. ASSUME NEW k \in Nat
      PROVE  Cardinality(S(k + 1)) =
                Cardinality(S(k)) + (IF Window!IsResult(q[k + 1]) THEN 1 ELSE 0)
  <2>1. CASE Window!IsResult(q[k + 1])
    <3>1. S(k + 1) = S(k) \cup {k + 1} /\ k + 1 \notin S(k)
      BY <2>1
    <3> QED
      BY <1>2, <2>1, <3>1, FS_AddElement
  <2>2. CASE ~Window!IsResult(q[k + 1])
    <3>1. S(k + 1) = S(k)
      BY <2>2
    <3> QED
      BY <1>2, <2>2, <3>1
  <2> QED
    BY <2>1, <2>2
<1>5. ASSUME NEW j \in Nat, NEW k \in Nat, j <= k
      PROVE  Cardinality(S(j)) <= Cardinality(S(k))
  <2>1. S(j) \in SUBSET S(k)
    BY <1>5
  <2> QED
    BY <1>2, <2>1, FS_Subset
<1>6. ASSUME NEW j \in Nat, NEW k \in Nat, j <= k, \A l \in j + 1..k : ~Window!IsResult(q[l])
      PROVE  S(k) = S(j)
  BY <1>6
<1> HIDE DEF S
<1>7. \A k \in Nat : Window!Answers(q, k) \in Nat
  BY <1>1, <1>2
<1>8. Window!Answers(q, 0) = 0
  BY <1>1, <1>3, FS_EmptySet
<1>9. ASSUME NEW k \in Nat
      PROVE  Window!Answers(q, k + 1) =
                Window!Answers(q, k) + (IF Window!IsResult(q[k + 1]) THEN 1 ELSE 0)
  BY <1>1, <1>4
<1>10. ASSUME NEW j \in Nat, NEW k \in Nat, j <= k
       PROVE  Window!Answers(q, j) <= Window!Answers(q, k)
  BY <1>1, <1>5, <1>10
<1>11. ASSUME NEW j \in Nat, NEW k \in Nat, j <= k, \A l \in j + 1..k : ~Window!IsResult(q[l])
       PROVE  Window!Answers(q, k) = Window!Answers(q, j)
  BY <1>1, <1>6, <1>11
<1> QED
  BY <1>7, <1>8, <1>9, <1>10, <1>11

LEMMA SameCounts ==
    ASSUME NEW p, NEW q, NEW k \in Nat, \A l \in 1..k : p[l] = q[l]
    PROVE  Window!Answers(p, k) = Window!Answers(q, k)
<1>1. {l \in 1..k : Window!IsResult(p[l])} = {l \in 1..k : Window!IsResult(q[l])}
  OBVIOUS
<1> QED
  BY <1>1 DEF Window!Answers

\* The count when the first line is taken off.
LEMMA TailCounts ==
    ASSUME NEW q, NEW t, NEW k \in Nat, \A l \in 1..k : t[l] = q[l + 1]
    PROVE  Window!Answers(q, k + 1) =
              Window!Answers(t, k) + (IF Window!IsResult(q[1]) THEN 1 ELSE 0)
<1> DEFINE S == {l \in 1..k : Window!IsResult(t[l])}
           T == {l \in 2..k + 1 : Window!IsResult(q[l])}
           U == {l \in 1..k + 1 : Window!IsResult(q[l])}
           f == [l \in S |-> l + 1]
<1>1. Window!Answers(q, k + 1) = Cardinality(U) /\ Window!Answers(t, k) = Cardinality(S)
  BY DEF Window!Answers, Window!Cardinality, Cardinality
<1>2. IsFiniteSet(S)
  BY FS_Interval, FS_Subset
<1>3. f \in Bijection(S, T)
  <2>1. f \in [S -> T]
    OBVIOUS
  <2>2. \A a, b \in S : f[a] = f[b] => a = b
    OBVIOUS
  <2>3. \A b \in T : \E a \in S : f[a] = b
    <3> SUFFICES ASSUME NEW b \in T PROVE \E a \in S : f[a] = b
      OBVIOUS
    <3>1. b - 1 \in 1..k /\ t[b - 1] = q[b] /\ (b - 1) + 1 = b
      OBVIOUS
    <3>2. b - 1 \in S
      BY <3>1
    <3>3. f[b - 1] = b
      BY <3>1, <3>2
    <3> QED
      BY <3>2, <3>3
  <2> HIDE DEF f, S, T
  <2> QED
    BY <2>1, <2>2, <2>3 DEF Bijection, Injection, Surjection, IsInjective
<1>4. IsFiniteSet(T) /\ Cardinality(T) = Cardinality(S)
  <2> HIDE DEF f, S, T
  <2> QED
    BY <1>2, <1>3, FS_Bijection DEF ExistsBijection
<1>5. CASE Window!IsResult(q[1])
  <2>1. U = T \cup {1} /\ 1 \notin T
    BY <1>5
  <2>2. Cardinality(S) \in Nat
    BY <1>2, FS_CardinalityType
  <2> HIDE DEF S, T, U
  <2> QED
    BY <1>1, <1>4, <1>5, <2>1, <2>2, FS_AddElement
<1>6. CASE ~Window!IsResult(q[1])
  <2>1. U = T
    BY <1>6
  <2>2. Cardinality(S) \in Nat
    BY <1>2, FS_CardinalityType
  <2> HIDE DEF S, T, U
  <2> QED
    BY <1>1, <1>4, <1>6, <2>1, <2>2
<1> QED
  BY <1>5, <1>6

\* CallsMatched, of any lines, calls in progress, and calls to be answered.
Matched(w, p, b) ==
    /\ Len(p) = Window!Answers(w, Len(w)) + Len(b)
    /\ \A k \in DOMAIN w : Window!IsResult(w[k]) => p[Window!Answers(w, k)] = w[k].method
    /\ \A k \in DOMAIN b : p[Window!Answers(w, Len(w)) + k] = b[k]

\* The number of a result, of a sequence of lines.
LEMMA ResultNumbers ==
    ASSUME NEW w \in Seq(Window!Lines), NEW k \in DOMAIN w, Window!IsResult(w[k])
    PROVE  Window!Answers(w, k) \in 1..Window!Answers(w, Len(w))
<1>1. k - 1 \in Nat /\ k \in Nat /\ k = (k - 1) + 1 /\ k <= Len(w) /\ Len(w) \in Nat
  OBVIOUS
<1>2. /\ Window!Answers(w, k) = Window!Answers(w, k - 1) + 1
      /\ Window!Answers(w, k - 1) \in Nat
      /\ Window!Answers(w, Len(w)) \in Nat
      /\ Window!Answers(w, k) <= Window!Answers(w, Len(w))
  BY <1>1, Counts
<1> QED
  BY <1>2

\* A call is made.
LEMMA CallMatched ==
    ASSUME NEW w \in Seq(Window!Lines), NEW p \in Seq(Window!Methods),
           NEW b \in Seq(Window!Methods), NEW m \in Window!Methods, Matched(w, p, b)
    PROVE  Matched(w, Append(p, m), Append(b, m))
<1> DEFINE a == Window!Answers(w, Len(w))
           p1 == Append(p, m)
           b1 == Append(b, m)
<1>1. a \in Nat
  BY Counts
<1>2. /\ Len(p1) = Len(p) + 1 /\ Len(b1) = Len(b) + 1
      /\ Len(p) \in Nat /\ Len(b) \in Nat
      /\ \A k \in 1..Len(p) : p1[k] = p[k]
      /\ p1[Len(p) + 1] = m
      /\ DOMAIN b = 1..Len(b) /\ DOMAIN b1 = 1..Len(b) + 1
      /\ \A k \in 1..Len(b) : b1[k] = b[k]
      /\ b1[Len(b) + 1] = m
  OBVIOUS
<1>3. Len(p) = a + Len(b)
  BY DEF Matched
<1>4. \A k \in DOMAIN w : Window!IsResult(w[k]) => Window!Answers(w, k) \in 1..a
  BY ResultNumbers
<1>5. /\ \A k \in DOMAIN w : Window!IsResult(w[k]) => p[Window!Answers(w, k)] = w[k].method
      /\ \A k \in DOMAIN b : p[a + k] = b[k]
  BY DEF Matched
<1> HIDE DEF a, p1, b1
<1>6. \A k \in DOMAIN w : Window!IsResult(w[k]) => p1[Window!Answers(w, k)] = w[k].method
  BY <1>1, <1>2, <1>3, <1>4, <1>5
<1>7. \A k \in DOMAIN b1 : p1[a + k] = b1[k]
  BY <1>1, <1>2, <1>3, <1>5
<1>8. Len(p1) = a + Len(b1)
  BY <1>1, <1>2, <1>3
<1> QED
  BY <1>6, <1>7, <1>8 DEF Matched, a, p1, b1

\* Lines are written, without a result or with that of the first call.
LEMMA LinesMatched ==
    ASSUME NEW w \in Seq(Window!Lines), NEW q \in Seq(Window!Lines),
           NEW p \in Seq(Window!Methods), NEW b \in Seq(Window!Methods), Matched(w, p, b)
    PROVE  /\ (\A k \in DOMAIN q : ~Window!IsResult(q[k])) => Matched(w \o q, p, b)
           /\ b # <<>> /\ Closing(q, Head(b)) => Matched(w \o q, p, Tail(b))
<1> DEFINE z == w \o q
           a == Window!Answers(w, Len(w))
<1>1. /\ DOMAIN w = 1..Len(w) /\ DOMAIN q = 1..Len(q) /\ DOMAIN z = 1..Len(w) + Len(q)
      /\ Len(z) = Len(w) + Len(q) /\ Len(w) \in Nat /\ Len(q) \in Nat
      /\ \A k \in 1..Len(w) : z[k] = w[k]
      /\ \A k \in 1..Len(q) : z[Len(w) + k] = q[k]
      /\ \A k \in DOMAIN z : z[k] = IF k <= Len(w) THEN w[k] ELSE q[k - Len(w)]
  OBVIOUS
<1>2. \A k \in DOMAIN z : k \in DOMAIN w \/ k - Len(w) \in DOMAIN q
  BY <1>1
<1>3. /\ Len(p) = a + Len(b)
      /\ \A k \in DOMAIN w : Window!IsResult(w[k]) => p[Window!Answers(w, k)] = w[k].method
      /\ \A k \in DOMAIN b : p[a + k] = b[k]
  BY DEF Matched
<1> HIDE DEF z
<1>4. \A k \in 0..Len(w) : Window!Answers(z, k) = Window!Answers(w, k)
  <2> SUFFICES ASSUME NEW k \in 0..Len(w)
               PROVE  Window!Answers(z, k) = Window!Answers(w, k)
    OBVIOUS
  <2>1. k \in Nat /\ \A l \in 1..k : z[l] = w[l]
    BY <1>1
  <2> QED
    BY <2>1, SameCounts
<1>5. \A k \in DOMAIN w : Window!IsResult(z[k]) => p[Window!Answers(z, k)] = z[k].method
  BY <1>1, <1>3, <1>4
<1>6. Window!Answers(z, Len(w)) = a /\ a \in Nat
  BY <1>1, <1>4, Counts
<1> HIDE DEF a
<1>7. ASSUME \A k \in DOMAIN q : ~Window!IsResult(q[k]) PROVE Matched(z, p, b)
  <2>1. \A l \in Len(w) + 1..Len(z) : ~Window!IsResult(z[l])
    <3> SUFFICES ASSUME NEW l \in Len(w) + 1..Len(z) PROVE ~Window!IsResult(z[l])
      OBVIOUS
    <3>1. l \in DOMAIN z /\ l \notin DOMAIN w /\ ~(l <= Len(w))
      BY <1>1
    <3> QED
      BY <1>1, <1>2, <1>7, <3>1
  <2>2. Window!Answers(z, Len(z)) = a
    <3>1. Len(w) \in Nat /\ Len(z) \in Nat /\ Len(w) <= Len(z)
      BY <1>1
    <3> QED
      BY <1>6, <2>1, <3>1, Counts
  <2>3. ASSUME NEW k \in DOMAIN z, Window!IsResult(z[k])
        PROVE  p[Window!Answers(z, k)] = z[k].method
    <3>1. CASE k \in DOMAIN w
      BY <1>5, <2>3, <3>1
    <3>2. CASE k \notin DOMAIN w
      <4>1. k \in Len(w) + 1..Len(z)
        BY <1>1, <3>2
      <4> QED
        BY <2>1, <2>3, <4>1
    <3> QED
      BY <3>1, <3>2
  <2> QED
    BY <1>3, <2>2, <2>3 DEF Matched
<1>8. ASSUME b # <<>>, Closing(q, Head(b)) PROVE Matched(z, p, Tail(b))
  <2> DEFINE n == Len(z)
             t == Tail(b)
  <2>1. /\ Len(q) \in Nat \ {0} /\ n \in Nat \ {0} /\ n - 1 \in Nat /\ Len(w) <= n - 1
        /\ (n - 1) + 1 = n
    BY <1>1, <1>8 DEF Closing
  <2>2. Window!IsResult(z[n]) /\ z[n].method = Head(b)
    BY <1>1, <1>8, <2>1 DEF Closing
  <2>3. \A k \in DOMAIN z : k > Len(w) /\ k # n => ~Window!IsResult(z[k])
    BY <1>1, <1>2, <1>8 DEF Closing
  <2>4. Window!Answers(z, n - 1) = a
    <3>1. \A l \in Len(w) + 1..n - 1 : ~Window!IsResult(z[l])
      <4> SUFFICES ASSUME NEW l \in Len(w) + 1..n - 1 PROVE ~Window!IsResult(z[l])
        OBVIOUS
      <4>1. l \in DOMAIN z /\ l > Len(w) /\ l # n
        BY <1>1, <2>1
      <4> QED
        BY <2>3, <4>1
    <3> QED
      BY ZenonT(40), <1>1, <1>6, <2>1, <3>1, Counts
  <2>5. Window!Answers(z, n) = a + 1
    BY <2>1, <2>2, <2>4, Counts
  <2>6. /\ Len(b) \in Nat \ {0} /\ Len(t) = Len(b) - 1 /\ Head(b) = b[1]
        /\ DOMAIN b = 1..Len(b) /\ DOMAIN t = 1..Len(b) - 1
        /\ \A k \in 1..Len(b) - 1 : t[k] = b[k + 1]
    BY <1>8
  <2>7. p[a + 1] = z[n].method
    BY <1>3, <2>2, <2>6
  <2>8. \A k \in DOMAIN z : Window!IsResult(z[k]) => p[Window!Answers(z, k)] = z[k].method
    BY <1>1, <1>2, <1>5, <2>1, <2>3, <2>5, <2>7
  <2>9. \A k \in DOMAIN t : p[(a + 1) + k] = t[k]
    BY SMTT(20), <1>3, <1>6, <2>6
  <2>10. Len(p) = (a + 1) + Len(t)
    BY <1>3, <1>6, <2>6
  <2> HIDE DEF t
  <2> QED
    BY <2>5, <2>8, <2>9, <2>10 DEF Matched, t
<1> QED
  BY <1>7, <1>8 DEF z

\* The first line is read: nobody waits for it, or the oldest call does.
LEMMA TakenMatched ==
    ASSUME NEW w \in Seq(Window!Lines), w # <<>>,
           NEW p \in Seq(Window!Methods), NEW b \in Seq(Window!Methods), Matched(w, p, b)
    PROVE  /\ ~Window!IsResult(Head(w)) => Matched(Tail(w), p, b)
           /\ Window!IsResult(Head(w)) =>
                 /\ p # <<>> /\ Head(p) = Head(w).method
                 /\ Matched(Tail(w), Tail(p), b)
<1> DEFINE t == Tail(w)
           a == Window!Answers(w, Len(w))
           c == Window!Answers(t, Len(t))
<1>1. /\ Len(t) \in Nat /\ Len(w) = Len(t) + 1 /\ t \in Seq(Window!Lines)
      /\ DOMAIN w = 1..Len(w) /\ DOMAIN t = 1..Len(t)
      /\ \A k \in 1..Len(t) : t[k] = w[k + 1]
      /\ Head(w) = w[1]
  OBVIOUS
<1>2. /\ Len(p) = a + Len(b)
      /\ \A k \in DOMAIN w : Window!IsResult(w[k]) => p[Window!Answers(w, k)] = w[k].method
      /\ \A k \in DOMAIN b : p[a + k] = b[k]
  BY DEF Matched
<1> HIDE DEF t
<1>3. \A k \in 0..Len(t) : Window!Answers(w, k + 1) =
         Window!Answers(t, k) + (IF Window!IsResult(w[1]) THEN 1 ELSE 0)
  <2> SUFFICES ASSUME NEW k \in 0..Len(t)
               PROVE  Window!Answers(w, k + 1) =
                        Window!Answers(t, k) + (IF Window!IsResult(w[1]) THEN 1 ELSE 0)
    OBVIOUS
  <2>1. k \in Nat /\ \A l \in 1..k : t[l] = w[l + 1]
    BY <1>1
  <2> QED
    BY <2>1, TailCounts
<1>4. a = c + (IF Window!IsResult(w[1]) THEN 1 ELSE 0) /\ c \in Nat
  BY <1>1, <1>3, Counts
<1>5. \A k \in DOMAIN t : Window!IsResult(t[k]) => Window!Answers(t, k) \in 1..c
  BY <1>1, ResultNumbers
<1>6. \A k \in DOMAIN t : k + 1 \in DOMAIN w /\ t[k] = w[k + 1]
  BY <1>1
<1>7. ASSUME ~Window!IsResult(w[1]) PROVE Matched(t, p, b)
  <2>1. a = c
    BY <1>4, <1>7
  <2>2. \A k \in DOMAIN t : Window!IsResult(t[k]) => Window!Answers(w, k + 1) = Window!Answers(t, k)
    BY <1>1, <1>3, <1>5, <1>7
  <2>3. \A k \in DOMAIN t : Window!IsResult(t[k]) => p[Window!Answers(t, k)] = t[k].method
    BY <1>2, <1>6, <2>2
  <2> QED
    BY <1>2, <2>1, <2>3 DEF Matched
<1>8. ASSUME Window!IsResult(w[1])
      PROVE  p # <<>> /\ Head(p) = Head(w).method /\ Matched(t, Tail(p), b)
  <2> DEFINE r == Tail(p)
  <2>1. a = c + 1
    BY <1>4, <1>8
  <2>2. Window!Answers(w, 1) = 1
    <3>1. Window!Answers(w, 0 + 1) = Window!Answers(w, 0) + 1
      BY <1>8, Counts
    <3> QED
      BY <3>1, Counts
  <2>3. p # <<>> /\ Head(p) = w[1].method
    <3>1. p[1] = w[1].method
      <4>1. 1 \in DOMAIN w
        BY <1>1
      <4> QED
        BY <1>2, <1>8, <2>2, <4>1
    <3>2. Len(p) # 0
      BY <1>2, <1>4, <2>1
    <3> QED
      BY <3>1, <3>2
  <2>4. /\ Len(r) = Len(p) - 1 /\ Len(p) \in Nat
        /\ \A k \in 1..Len(p) - 1 : r[k] = p[k + 1]
    BY <2>3
  <2> HIDE DEF r
  <2>5. Len(r) = c + Len(b)
    BY <1>2, <1>4, <2>1, <2>4
  <2>6. ASSUME NEW k \in DOMAIN t, Window!IsResult(t[k])
        PROVE  r[Window!Answers(t, k)] = t[k].method
    <3>1. Window!Answers(w, k + 1) = Window!Answers(t, k) + 1
      BY <1>1, <1>3, <1>8, <2>6
    <3>2. Window!Answers(t, k) \in 1..c
      BY <1>5, <2>6
    <3>3. c <= Len(p) - 1
      BY <1>2, <1>4, <2>1
    <3>4. r[Window!Answers(t, k)] = p[Window!Answers(t, k) + 1]
      BY <1>4, <2>4, <3>2, <3>3
    <3> QED
      BY <1>2, <1>6, <2>6, <3>1, <3>4
  <2> HIDE DEF a, c
  <2>7. ASSUME NEW k \in DOMAIN b PROVE r[c + k] = b[k]
    <3>1. DOMAIN b = 1..Len(b) /\ Len(b) \in Nat
      OBVIOUS
    <3>2. c \in Nat /\ a = c + 1
      BY <1>4, <2>1
    <3>3. k \in Nat /\ 1 <= k /\ k <= Len(b)
      BY <2>7, <3>1
    <3>4. Len(p) - 1 = c + Len(b)
      BY <2>4, <2>5
    <3>5. c + k \in 1..Len(p) - 1
      BY <3>1, <3>2, <3>3, <3>4
    <3>6. (c + k) + 1 = a + k
      BY <3>2, <3>3
    <3>7. r[c + k] = p[(c + k) + 1]
      BY <2>4, <3>5
    <3> QED
      BY <1>2, <2>7, <3>6, <3>7
  <2> QED
    BY <1>1, <2>3, <2>5, <2>6, <2>7 DEF Matched, r, c
<1> QED
  BY <1>1, <1>7, <1>8 DEF t

-----------------------------------------------------------------------------
(* The invariant of the window. *)

\* No lines wait for a reset.
NoResetFrom(k) == \A l \in DOMAIN toWindow : l >= k => toWindow[l] # Window!Reset

\* MirrorFollows promises something: a snapshot on its way that nothing outdates, or none
\* that is still needed.  A snapshot that was read counts before its caller continues.
Current ==
    \/ \E k \in DOMAIN toWindow : Window!IsSnapshot(toWindow[k]) /\ NoResetFrom(k)
    \/ /\ greeting = "ready" \/ \E k \in DOMAIN resolved : resolved[k].method = "snapshot"
       /\ NoResetFrom(1)
       /\ ~Asked(toAgent)

\* The last line about each record says what it is, and without one the mirror does.
Follows ==
    \A i \in Ids :
        \/ Last(toWindow, i, records[i])
        \/ Silent(toWindow, i) /\ mirror[i] = records[i]

SnapshotsSucceed == \A k \in DOMAIN toWindow : Window!IsSnapshot(toWindow[k]) => toWindow[k].ok

\* What the window knows of the session it knows from a socket that gets its events, and
\* it asks for nothing but a greeting before; without a socket it waits for nothing.
Attached ==
    /\ (greeting \in {"mirroring", "ready"} \/ resolved # <<>>) => attached
    /\ ~attached => Greeting
    /\ greeting = "none" => ~attached /\ pending = <<>>

WInv ==
    /\ Window!TypeOK
    /\ SnapshotsSucceed
    /\ Attached
    /\ Matched(toWindow, pending, Window!Behind)
    /\ Current => Follows

LEMMA InitWInv == Window!Init => WInv
<1> SUFFICES ASSUME Window!Init PROVE WInv
  OBVIOUS
<1>1. toWindow = <<>> /\ toAgent = <<>> /\ resolved = <<>> /\ pending = <<>> /\ chunk = 0
      /\ greeting = "none" /\ attached = FALSE /\ serving = Window!Nothing
  BY DEF Window!Init
<1>2. records \in Window!Records /\ mirror \in Window!Records
      /\ state \in Window!States /\ shown \in Window!States
  BY DEF Window!Init, Window!NoRecords, Window!Records, Window!Statuses, Window!States
<1>3. /\ toAgent \in Seq(Window!Requests) /\ toWindow \in Seq(Window!Lines)
      /\ pending \in Seq(Window!Methods) /\ resolved \in Seq(Window!Results)
  BY <1>1
<1>4. chunk \in 0..Len(toWindow)
  BY <1>1
<1>5. Window!TypeOK
  BY <1>1, <1>2, <1>3, <1>4 DEF Window!TypeOK
<1>6. Window!Behind = <<>>
  BY <1>1 DEF Window!Behind, Window!MethodsOf
<1>7. Matched(<<>>, <<>>, <<>>)
  BY Counts DEF Matched
<1> QED
  BY <1>1, <1>5, <1>6, <1>7 DEF WInv, SnapshotsSucceed, Attached, Current, Greeting

\* The session or the agent does something, and writes lines that tell of it.
LEMMA ActsKeeps ==
    ASSUME WInv, NEW q, Acts(q)
    PROVE  WInv'
<1>1. /\ toWindow \in Seq(Window!Lines) /\ q \in Seq(Window!Lines)
      /\ attached \in BOOLEAN /\ attached' \in BOOLEAN
      /\ attached => attached'
      /\ attached' = attached \/ (q = <<>> /\ toAgent # <<>>)
      /\ ~attached => toWindow = <<>>
      /\ toWindow' = IF attached' THEN toWindow \o q ELSE toWindow
      /\ chunk \in 0..Len(toWindow)
  BY DEF WInv, Window!TypeOK, Acts
<1>2. /\ greeting' = greeting /\ pending' = pending /\ mirror' = mirror
      /\ shown' = shown /\ chunk' = chunk /\ resolved' = resolved
  BY DEF Acts, Window!windowVars
<1>3. ~attached => toWindow' = <<>>
  BY <1>1
<1>4. /\ toWindow' \in Seq(Window!Lines) /\ Len(toWindow) <= Len(toWindow')
      /\ ~attached' => toWindow' = <<>>
  BY <1>1
<1>5. chunk' \in 0..Len(toWindow')
  BY <1>1, <1>2, <1>4
<1>6. Window!TypeOK'
  BY <1>2, <1>4, <1>5 DEF WInv, Window!TypeOK, Acts
<1> DEFINE b == Window!Behind
<1>7. /\ b \in Seq(Window!Methods) /\ pending \in Seq(Window!Methods)
      /\ Matched(toWindow, pending, b)
      /\ b = <<>> => toAgent = <<>>
  BY BehindType DEF WInv, Window!TypeOK
\* A socket that is not connected has nothing to answer.
<1>8. Attached'
  <2>1. ~attached' => Greeting'
    <3>1. ASSUME ~attached' PROVE UNCHANGED <<serving, toAgent>> /\ Greeting
      BY <1>1, <3>1 DEF WInv, Attached, Acts
    <3> QED
      BY <3>1 DEF Greeting
  <2>2. greeting = "none" => pending = <<>> /\ ~attached /\ toAgent = <<>>
    <3>1. ASSUME pending = <<>> PROVE b = <<>>
      <4>1. /\ Len(pending) = Window!Answers(toWindow, Len(toWindow)) + Len(b)
            /\ Window!Answers(toWindow, Len(toWindow)) \in Nat
        BY <1>1, <1>7, Counts DEF Matched
      <4> HIDE DEF b
      <4>2. Len(b) = 0
        BY <1>7, <3>1, <4>1
      <4> QED
        BY <1>7, <4>2
    <3> QED
      BY <1>7, <3>1 DEF WInv, Attached
  <2> QED
    BY <1>1, <1>2, <2>1, <2>2 DEF WInv, Attached
<1>9. CASE ~attached
  <2>1. ~Current'
    BY <1>2, <1>3, <1>9 DEF Current, WInv, Attached
  <2>2. SnapshotsSucceed'
    BY <1>3, <1>9 DEF SnapshotsSucceed
  <2>3. Window!Behind' = b
    BY <1>9 DEF WInv, Attached, Acts, Responds, Closes
  <2>4. toWindow' = toWindow
    BY <1>1, <1>3, <1>9
  <2>5. Matched(toWindow', pending', Window!Behind')
    BY <1>2, <1>7, <2>3, <2>4
  <2> QED
    BY <1>6, <1>8, <2>1, <2>2, <2>5 DEF WInv
<1>10. CASE attached
  <2> DEFINE w == toWindow \o q
  <2>1. toWindow' = w
    BY <1>1, <1>10
  <2>2. /\ DOMAIN toWindow = 1..Len(toWindow) /\ DOMAIN q = 1..Len(q)
        /\ DOMAIN w = 1..Len(toWindow) + Len(q)
        /\ Len(toWindow) \in Nat /\ Len(q) \in Nat
        /\ \A k \in 1..Len(toWindow) : w[k] = toWindow[k]
        /\ \A k \in 1..Len(q) : w[Len(toWindow) + k] = q[k]
        /\ \A k \in DOMAIN w : w[k] = IF k <= Len(toWindow) THEN toWindow[k]
                                                            ELSE q[k - Len(toWindow)]
    BY <1>1
  <2>3. \A k \in DOMAIN w : k \in DOMAIN toWindow \/ k - Len(toWindow) \in DOMAIN q
    BY <2>2
  <2> HIDE DEF w
  <2>4. SnapshotsSucceed'
    BY <2>1, <2>2, <2>3 DEF WInv, SnapshotsSucceed, Acts
  <2>5. Tells(q) /\ (Asked(toAgent) => Asked(toAgent') \/ Complete(q))
    BY <1>10 DEF Acts
  \* It is enough that the mirror followed, and that the lines tell what changed.
  <2>6. ASSUME Current, \A i \in Ids : Changed(q, i) PROVE Follows'
    <3> SUFFICES ASSUME NEW i \in Ids
                 PROVE  \/ Last(w, i, records'[i])
                        \/ Silent(w, i) /\ mirror[i] = records'[i]
      BY <1>2, <2>1 DEF Follows
    <3>1. \/ Last(toWindow, i, records[i])
          \/ Silent(toWindow, i) /\ mirror[i] = records[i]
      BY <2>6 DEF WInv, Follows
    <3>2. Last(q, i, records'[i]) \/ (Silent(q, i) /\ records'[i] = records[i])
      BY <2>6 DEF Changed
    <3>3. Last(q, i, records'[i]) => Last(w, i, records'[i])
      BY <1>1, AboutConcat DEF w
    <3>4. Last(toWindow, i, records[i]) /\ Silent(q, i) => Last(w, i, records[i])
      BY <1>1, AboutConcat DEF w
    <3>5. Silent(toWindow, i) /\ Silent(q, i) => Silent(w, i)
      BY <1>1, AboutConcat DEF w
    <3> QED
      BY <3>1, <3>2, <3>3, <3>4, <3>5
  <2>7. ASSUME \A i \in Ids : Last(q, i, records'[i]) PROVE Follows'
    BY <1>1, <2>1, <2>7, AboutConcat DEF Follows, w
  <2>8. ASSUME NEW k \in DOMAIN w, Window!IsSnapshot(w[k]), NoResetFrom(k)'
        PROVE  Follows'
    <3>1. \A l \in DOMAIN w : l >= k => w[l] # Window!Reset
      BY <2>1, <2>8 DEF NoResetFrom
    <3>2. CASE k \in DOMAIN toWindow
      <4>1. \A l \in DOMAIN toWindow : l \in DOMAIN w /\ w[l] = toWindow[l]
        BY <2>2
      <4>2. Window!IsSnapshot(toWindow[k]) /\ NoResetFrom(k)
        BY <2>8, <3>1, <3>2, <4>1 DEF NoResetFrom
      <4>3. Current
        BY <3>2, <4>2 DEF Current
      <4>4. \A l \in DOMAIN q : q[l] # Window!Reset
        <5> SUFFICES ASSUME NEW l \in DOMAIN q PROVE q[l] # Window!Reset
          OBVIOUS
        <5>1. Len(toWindow) + l \in DOMAIN w /\ Len(toWindow) + l >= k
          BY <2>2, <3>2
        <5> QED
          BY <2>2, <3>1, <5>1
      <4>5. \A i \in Ids : Changed(q, i)
        BY <2>5, <4>4 DEF Tells
      <4> QED
        BY <2>6, <4>3, <4>5
    <3>3. CASE k \notin DOMAIN toWindow
      <4>1. k - Len(toWindow) \in DOMAIN q /\ Window!IsSnapshot(q[k - Len(toWindow)])
        BY <2>2, <2>3, <2>8, <3>3
      <4>2. \A i \in Ids : Changed(q, i)
        BY <2>5, <4>1 DEF Tells
      <4>3. \A i \in Ids : ~Silent(q, i)
        BY <4>1 DEF Silent, Window!About
      <4> QED
        BY <2>7, <4>2, <4>3 DEF Changed
    <3> QED
      BY <3>2, <3>3
  <2>9. ASSUME greeting = "ready" \/ \E k \in DOMAIN resolved : resolved[k].method = "snapshot",
               NoResetFrom(1)', ~Asked(toAgent')
        PROVE  Follows'
    <3>1. \A l \in DOMAIN w : w[l] # Window!Reset
      BY <2>1, <2>2, <2>9 DEF NoResetFrom
    <3>2. CASE Asked(toAgent)
      <4>1. \A i \in Ids : Last(q, i, records'[i])
        BY <2>5, <2>9, <3>2 DEF Complete
      <4> QED
        BY <2>7, <4>1
    <3>3. CASE ~Asked(toAgent)
      <4>1. NoResetFrom(1)
        BY <2>2, <3>1 DEF NoResetFrom
      <4>2. Current
        BY <2>9, <3>3, <4>1 DEF Current
      <4>3. \A l \in DOMAIN q : q[l] # Window!Reset
        <5> SUFFICES ASSUME NEW l \in DOMAIN q PROVE q[l] # Window!Reset
          OBVIOUS
        <5>1. Len(toWindow) + l \in DOMAIN w
          BY <2>2
        <5> QED
          BY <2>2, <3>1, <5>1
      <4>4. \A i \in Ids : Changed(q, i)
        BY <2>5, <4>3 DEF Tells
      <4> QED
        BY <2>6, <4>2, <4>4
    <3> QED
      BY <3>2, <3>3
  <2>10. Current' => Follows'
    <3>1. Current' =>
            \/ \E k \in DOMAIN w : Window!IsSnapshot(w[k]) /\ NoResetFrom(k)'
            \/ /\ greeting = "ready" \/ \E k \in DOMAIN resolved : resolved[k].method = "snapshot"
               /\ NoResetFrom(1)' /\ ~Asked(toAgent')
      BY <1>2, <2>1 DEF Current
    <3> QED
      BY <2>8, <2>9, <3>1
  <2>11. Matched(w, pending, Window!Behind')
    <3>1. CASE /\ Window!Behind' = b
               /\ \A k \in DOMAIN q : ~Window!IsResult(q[k])
      BY <1>1, <1>7, <3>1, LinesMatched DEF w
    <3>2. ASSUME NEW method, Closes(method), Closing(q, method)
          PROVE  Matched(w, pending, Window!Behind')
      BY <1>1, <1>7, <3>2, LinesMatched DEF w, Closes
    <3> QED
      BY <3>1, <3>2 DEF Acts, Responds
  <2>12. Matched(toWindow', pending', Window!Behind')
    BY <1>2, <2>1, <2>11
  <2> QED
    BY <1>6, <1>8, <2>4, <2>10, <2>12 DEF WInv
<1> QED
  BY <1>1, <1>9, <1>10

\* The first line is taken off.
LEMMA ReadFacts ==
    ASSUME WInv, NEW type, Window!Reads(type)
    PROVE  /\ DOMAIN toWindow = 1..Len(toWindow) /\ DOMAIN toWindow' = 1..Len(toWindow')
           /\ Len(toWindow') \in Nat /\ Len(toWindow) = Len(toWindow') + 1
           /\ toWindow' \in Seq(Window!Lines)
           /\ \A k \in DOMAIN toWindow' :
                 k + 1 \in DOMAIN toWindow /\ toWindow'[k] = toWindow[k + 1]
           /\ 1 \in DOMAIN toWindow /\ Head(toWindow) = toWindow[1]
           /\ Head(toWindow) \in Window!Lines /\ Head(toWindow).type = type
           /\ \A k \in DOMAIN toWindow : k = 1 \/ k - 1 \in DOMAIN toWindow'
           /\ chunk' \in 0..Len(toWindow')
           /\ attached
           /\ UNCHANGED <<records, state, attached, serving, greeting>>
<1>1. toWindow \in Seq(Window!Lines) /\ toWindow # <<>> /\ toWindow' = Tail(toWindow)
      /\ chunk \in 0..Len(toWindow) /\ Head(toWindow).type = type
      /\ chunk' \in (IF chunk > 0 THEN {chunk - 1} ELSE 0 .. Len(toWindow) - 1)
      /\ UNCHANGED <<records, state, attached, serving, greeting>>
      /\ attached
  BY DEF WInv, Window!TypeOK, Window!Reads, Window!agentVars
<1>2. /\ Len(toWindow') \in Nat /\ Len(toWindow) = Len(toWindow') + 1
      /\ toWindow' \in Seq(Window!Lines)
      /\ \A k \in 1..Len(toWindow') : toWindow'[k] = toWindow[k + 1]
      /\ Head(toWindow) = toWindow[1] /\ Head(toWindow) \in Window!Lines
  BY <1>1
<1>3. DOMAIN toWindow = 1..Len(toWindow) /\ DOMAIN toWindow' = 1..Len(toWindow')
  BY <1>1, <1>2
<1>4. chunk' \in 0..Len(toWindow')
  BY <1>1, <1>2
<1> QED
  BY <1>1, <1>2, <1>3, <1>4

\* What a line says of the records is what the mirror shows when the line is read.
LEMMA ReadFollows ==
    ASSUME WInv, NEW type, Window!Reads(type), Follows,
           \A i \in Ids : mirror'[i] = IF Window!About(Head(toWindow), i)
                                      THEN Window!Says(Head(toWindow), i) ELSE mirror[i]
    PROVE  Follows'
<1> DEFINE w == toWindow'
<1>1. /\ DOMAIN toWindow = 1..Len(toWindow) /\ DOMAIN w = 1..Len(w)
      /\ Len(w) \in Nat
      /\ \A k \in DOMAIN w : k + 1 \in DOMAIN toWindow /\ w[k] = toWindow[k + 1]
      /\ 1 \in DOMAIN toWindow /\ Head(toWindow) = toWindow[1]
      /\ \A k \in DOMAIN toWindow : k = 1 \/ k - 1 \in DOMAIN w
      /\ records' = records
  BY ReadFacts
<1> HIDE DEF w
<1> SUFFICES ASSUME NEW i \in Ids
             PROVE  Last(w, i, records[i]) \/ (Silent(w, i) /\ mirror'[i] = records[i])
  BY <1>1 DEF Follows, w
<1>2. CASE Last(toWindow, i, records[i])
  <2>1. PICK k \in DOMAIN toWindow :
            /\ Window!About(toWindow[k], i) /\ Window!Says(toWindow[k], i) = records[i]
            /\ \A l \in DOMAIN toWindow : l > k => ~Window!About(toWindow[l], i)
    BY <1>2 DEF Last
  <2>2. CASE k = 1
    <3>1. mirror'[i] = records[i]
      BY <1>1, <2>1, <2>2
    <3>2. \A l \in DOMAIN w : ~Window!About(w[l], i)
      BY <1>1, <2>1, <2>2
    <3> QED
      BY <3>1, <3>2 DEF Silent
  <2>3. CASE k # 1
    <3>1. k - 1 \in DOMAIN w /\ w[k - 1] = toWindow[k]
      BY <1>1, <2>3
    <3>2. \A l \in DOMAIN w : l > k - 1 => ~Window!About(w[l], i)
      BY <1>1, <2>1
    <3> QED
      BY <2>1, <3>1, <3>2 DEF Last
  <2> QED
    BY <2>2, <2>3
<1>3. CASE Silent(toWindow, i) /\ mirror[i] = records[i]
  BY <1>1, <1>3 DEF Silent
<1> QED
  BY <1>2, <1>3 DEF Follows

\* Of what is still on its way after a line was read, nothing less is promised before.
LEMMA ReadCurrent ==
    ASSUME WInv, NEW type, Window!Reads(type), Current',
           \/ Asked(toAgent')
           \/ /\ Head(toWindow) # Window!Reset /\ toAgent' = toAgent
              /\ \/ resolved' = resolved
                 \/ /\ Head(toWindow) \in Window!Results
                    /\ resolved' = Append(resolved, Head(toWindow))
    PROVE  Current
<1> DEFINE w == toWindow'
<1>1. /\ DOMAIN toWindow = 1..Len(toWindow) /\ DOMAIN w = 1..Len(w)
      /\ Len(w) \in Nat
      /\ \A k \in DOMAIN w : k + 1 \in DOMAIN toWindow /\ w[k] = toWindow[k + 1]
      /\ 1 \in DOMAIN toWindow /\ Head(toWindow) = toWindow[1]
      /\ \A k \in DOMAIN toWindow : k = 1 \/ k - 1 \in DOMAIN w
      /\ greeting' = greeting
  BY ReadFacts
<1> HIDE DEF w
<1>2. ASSUME NEW k \in DOMAIN w, Window!IsSnapshot(w[k]), NoResetFrom(k)' PROVE Current
  <2>1. k + 1 \in DOMAIN toWindow /\ Window!IsSnapshot(toWindow[k + 1])
    BY <1>1, <1>2
  <2>2. \A l \in DOMAIN w : l >= k => w[l] # Window!Reset
    BY <1>2 DEF NoResetFrom, w
  <2>3. NoResetFrom(k + 1)
    BY <1>1, <2>2 DEF NoResetFrom
  <2> QED
    BY <2>1, <2>3 DEF Current
<1>3. CASE \E k \in DOMAIN w : Window!IsSnapshot(w[k]) /\ NoResetFrom(k)'
  BY <1>2, <1>3
<1>4. CASE /\ greeting = "ready" \/ \E k \in DOMAIN resolved' : resolved'[k].method = "snapshot"
           /\ NoResetFrom(1)' /\ ~Asked(toAgent')
  <2>1. \A l \in DOMAIN w : w[l] # Window!Reset
    BY <1>1, <1>4 DEF NoResetFrom, w
  <2>2. NoResetFrom(1)
    BY <1>1, <1>4, <2>1 DEF NoResetFrom
  <2>3. ~Asked(toAgent)
    BY <1>4
  <2>4. CASE greeting = "ready" \/ \E k \in DOMAIN resolved : resolved[k].method = "snapshot"
    BY <2>2, <2>3, <2>4 DEF Current
  <2>5. CASE ~(greeting = "ready" \/ \E k \in DOMAIN resolved : resolved[k].method = "snapshot")
    <3>1. /\ Head(toWindow) \in Window!Results
          /\ resolved' = Append(resolved, Head(toWindow))
          /\ resolved \in Seq(Window!Results)
      BY <1>4, <2>5 DEF WInv, Window!TypeOK
    <3>2. Head(toWindow).method = "snapshot"
      <4>1. PICK k \in DOMAIN resolved' : resolved'[k].method = "snapshot"
        BY <1>4, <2>5
      <4>2. k \in DOMAIN resolved => resolved'[k] = resolved[k]
        BY <3>1
      <4>3. k \notin DOMAIN resolved => resolved'[k] = Head(toWindow)
        BY <3>1
      <4> QED
        BY <2>5, <4>1, <4>2, <4>3
    <3>3. Window!IsSnapshot(toWindow[1])
      BY <1>1, <3>1, <3>2, ResultTypes DEF Window!IsSnapshot, Window!Snapshots
    <3> QED
      BY <1>1, <2>2, <3>3 DEF Current
  <2> QED
    BY <2>4, <2>5
<1> QED
  BY <1>1, <1>3, <1>4 DEF Current, w

LEMMA ReadKeeps ==
    ASSUME WInv, Window!Read
    PROVE  WInv'
<1> DEFINE h == Head(toWindow)
<1>1. PICK type \in {"transaction", "removed", "state", "reset", "result"} :
          /\ Window!Reads(type)
          /\ type = "transaction" => Window!ReadTransaction
          /\ type = "removed" => Window!ReadRemoved
          /\ type = "state" => Window!ReadState
          /\ type = "reset" => Window!ReadReset
          /\ type = "result" => Window!ReadResult
  BY DEF Window!Read, Window!ReadTransaction, Window!ReadRemoved, Window!ReadState,
         Window!ReadReset, Window!ReadResult
<1>2. /\ h \in Window!Lines /\ h.type = type /\ h = toWindow[1] /\ 1 \in DOMAIN toWindow
      /\ toWindow' \in Seq(Window!Lines)
      /\ \A k \in DOMAIN toWindow' :
                 k + 1 \in DOMAIN toWindow /\ toWindow'[k] = toWindow[k + 1]
      /\ chunk' \in 0..Len(toWindow')
      /\ attached
      /\ UNCHANGED <<records, state, attached, serving, greeting>>
  BY <1>1, ReadFacts
<1>3. /\ type = "transaction" => h.id \in Ids /\ h.status \in Window!Statuses
      /\ type = "state" => h.state \in Window!States
      /\ type = "result" => h \in Window!Results
      /\ type = "reset" => h = Window!Reset
  BY <1>2, LineTypes
<1>4. type # "reset" => h # Window!Reset
  BY <1>2 DEF Window!Reset
<1>5. h \in Window!Results /\ Window!IsSnapshot(h) => h.ok
  BY <1>2 DEF WInv, SnapshotsSucceed
<1>6. /\ mirror \in Window!Records /\ shown \in Window!States
      /\ toAgent \in Seq(Window!Requests) /\ pending \in Seq(Window!Methods)
      /\ resolved \in Seq(Window!Results)
  BY DEF WInv, Window!TypeOK
<1>7. SnapshotsSucceed'
  BY <1>2 DEF WInv, SnapshotsSucceed
<1>8. Attached'
  BY <1>2 DEF WInv, Attached
<1> DEFINE b == Window!Behind
<1>9. /\ b \in Seq(Window!Methods) /\ Matched(toWindow, pending, b)
       /\ toWindow \in Seq(Window!Lines) /\ toWindow # <<>> /\ toWindow' = Tail(toWindow)
  BY <1>1, BehindType DEF WInv, Window!TypeOK, Window!Reads
<1>10. /\ ~Window!IsResult(h) => Matched(toWindow', pending, b)
       /\ Window!IsResult(h) => pending # <<>> /\ Matched(toWindow', Tail(pending), b)
  BY <1>6, <1>9, TakenMatched
\* The result of a snapshot replaces the mirror, and nothing else of a result does.
<1>11. type = "result" =>
          /\ pending' = Tail(pending) /\ toAgent' = toAgent
          /\ IF h.ok /\ h.method \in Window!Snapshots
             THEN mirror' = h.records /\ shown' = h.state
             ELSE mirror' = mirror /\ shown' = shown
          /\ resolved' = IF h.ok THEN Append(resolved, h) ELSE resolved
  BY <1>1 DEF Window!ReadResult, Window!Replace
<1>12. type = "transaction" =>
          /\ mirror' = [mirror EXCEPT ![h.id] = h.status]
          /\ UNCHANGED <<toAgent, pending, shown, resolved>>
  BY <1>1 DEF Window!ReadTransaction
<1>13. type = "removed" =>
          /\ mirror' = [i \in Ids |-> IF i \in h.ids THEN "none" ELSE mirror[i]]
          /\ UNCHANGED <<toAgent, pending, shown, resolved>>
  BY <1>1 DEF Window!ReadRemoved
<1>14. type = "state" => shown' = h.state /\ UNCHANGED <<toAgent, pending, mirror, resolved>>
  BY <1>1 DEF Window!ReadState
<1>15. type = "reset" =>
          /\ pending' = Append(pending, "resync")
          /\ toAgent' = Append(toAgent, [method |-> "resync"])
          /\ UNCHANGED <<mirror, shown, resolved>>
  BY <1>1 DEF Window!ReadReset, Window!Request
<1>16. /\ toAgent' \in Seq(Window!Requests) /\ pending' \in Seq(Window!Methods)
       /\ resolved' \in Seq(Window!Results)
  <2>1. [method |-> "resync"] \in Window!Requests /\ "resync" \in Window!Methods
    BY NewRequests DEF Window!Methods
  <2>2. type = "result" => pending # <<>> /\ Tail(pending) \in Seq(Window!Methods)
    BY <1>2, <1>6, <1>10 DEF Window!IsResult
  <2>3. CASE type = "reset"
    <3> DEFINE r == [method |-> "resync"]
    <3>1. toAgent' = Append(toAgent, r) /\ pending' = Append(pending, "resync")
          /\ resolved' = resolved
      BY <1>15, <2>3
    <3> HIDE DEF r
    <3>2. toAgent' \in Seq(Window!Requests)
      BY <1>6, <2>1, <3>1 DEF r
    <3>3. pending' \in Seq(Window!Methods)
      BY <1>6, <2>1, <3>1
    <3> QED
      BY <1>6, <3>1, <3>2, <3>3
  <2>4. CASE type = "result"
    <3> HIDE DEF h
    <3>1. h \in Window!Results /\ resolved \in Seq(Window!Results)
      BY <1>3, <1>6, <2>4
    <3>2. resolved' \in Seq(Window!Results)
      <4>1. CASE h.ok
        BY <1>11, <2>4, <3>1, <4>1
      <4>2. CASE ~h.ok
        BY <1>11, <2>4, <3>1, <4>2
      <4> QED
        BY <4>1, <4>2
    <3> QED
      BY <1>6, <1>11, <2>2, <2>4, <3>2
  <2>5. CASE type \in {"transaction", "removed", "state"}
    BY <1>6, <1>12, <1>13, <1>14, <2>5
  <2> QED
    BY <1>1, <2>3, <2>4, <2>5
<1>17. mirror' \in Window!Records /\ shown' \in Window!States
  <2>1. type = "result" => h.records \in Window!Records /\ h.state \in Window!States
    BY <1>3, ResultTypes
  <2> HIDE DEF h
  <2>2. CASE type = "transaction"
    BY <1>3, <1>6, <1>12, <2>2 DEF Window!Records
  <2>3. CASE type = "removed"
    BY <1>6, <1>13, <2>3 DEF Window!Records, Window!Statuses
  <2>4. CASE type \in {"state", "reset", "result"}
    BY <1>3, <1>6, <1>11, <1>14, <1>15, <2>1, <2>4
  <2> QED
    BY <1>1, <2>2, <2>3, <2>4
<1>18. Window!TypeOK'
  BY <1>2, <1>16, <1>17 DEF WInv, Window!TypeOK
<1>19. \A i \in Ids : mirror'[i] = IF Window!About(h, i) THEN Window!Says(h, i) ELSE mirror[i]
  <2> SUFFICES ASSUME NEW i \in Ids
               PROVE  mirror'[i] = IF Window!About(h, i) THEN Window!Says(h, i) ELSE mirror[i]
    OBVIOUS
  <2>1. h.type = type
    BY <1>2
  <2>2. type = "result" => (Window!IsSnapshot(h) <=> h.ok /\ h.method \in Window!Snapshots)
    BY <1>3, <1>5, <2>1 DEF Window!IsSnapshot
  <2> HIDE DEF h
  <2>3. CASE type = "transaction"
    BY <1>6, <1>12, <2>1, <2>3 DEF Window!About, Window!Says, Window!IsSnapshot, Window!Records
  <2>4. CASE type = "removed"
    BY <1>13, <2>1, <2>4 DEF Window!About, Window!Says, Window!IsSnapshot
  <2>5. CASE type \in {"state", "reset"}
    BY <1>14, <1>15, <2>1, <2>5 DEF Window!About, Window!IsSnapshot
  <2>6. CASE type = "result"
    BY <1>11, <2>1, <2>2, <2>6 DEF Window!About, Window!Says
  <2> QED
    BY <1>1, <2>3, <2>4, <2>5, <2>6
<1>20. \/ Asked(toAgent')
       \/ /\ h # Window!Reset /\ toAgent' = toAgent
          /\ \/ resolved' = resolved
             \/ h \in Window!Results /\ resolved' = Append(resolved, h)
  <2>1. type = "reset" => Asked(toAgent')
    <3>1. type = "reset" => /\ Len(toAgent) + 1 \in DOMAIN toAgent'
                            /\ toAgent'[Len(toAgent) + 1].method = "resync"
      BY <1>6, <1>15
    <3> QED
      BY <3>1 DEF Asked, Window!Snapshots
  <2> HIDE DEF h
  <2> QED
    BY <1>1, <1>3, <1>4, <1>11, <1>12, <1>13, <1>14, <2>1
<1>21. Current' => Current
  BY <1>1, <1>20, ReadCurrent
<1>22. Current' => Follows'
  BY <1>1, <1>19, <1>21, ReadFollows DEF WInv
<1>23. Matched(toWindow', pending', Window!Behind')
  <2>1. CASE type = "result"
    <3>1. Window!Behind' = b
      BY <1>2, <1>11, <2>1 DEF Window!Behind, Window!MethodsOf
    <3> QED
      BY <1>2, <1>11, <1>10, <2>1, <3>1 DEF Window!IsResult
  <2>2. CASE type = "reset"
    <3>1. ~Window!IsResult(h)
      BY <1>2, <2>2 DEF Window!IsResult
    <3>2. Window!Behind' = Append(b, "resync")
      <4> DEFINE r == [method |-> "resync"]
      <4>1. r \in Window!Requests /\ r.method = "resync"
        BY NewRequests
      <4>2. serving' = serving /\ toAgent' = Append(toAgent, r) /\ Window!TypeOK
        BY <1>2, <1>15, <2>2 DEF WInv
      <4> HIDE DEF r
      <4> QED
        BY <4>1, <4>2, BehindAppend
    <3>3. Matched(toWindow', Append(pending, "resync"), Append(b, "resync"))
      BY <1>2, <1>6, <1>9, <1>10, <3>1, CallMatched DEF Window!Methods
    <3> QED
      BY <1>15, <2>2, <3>2, <3>3
  <2>3. CASE type \in {"transaction", "removed", "state"}
    <3>1. ~Window!IsResult(h)
      BY <1>2, <2>3 DEF Window!IsResult
    <3>2. Window!Behind' = b /\ pending' = pending
      BY <1>2, <1>12, <1>13, <1>14, <2>3 DEF Window!Behind, Window!MethodsOf
    <3> QED
      BY <1>10, <3>1, <3>2
  <2> QED
    BY <1>1, <2>1, <2>2, <2>3
<1> QED
  BY <1>7, <1>8, <1>18, <1>22, <1>23 DEF WInv

\* What the window asks, while it knows of the session or greets, changes nothing else.
LEMMA CallKeeps ==
    ASSUME WInv, NEW r \in Window!Calls, Window!Call(r)
    PROVE  WInv'
<1>1. /\ greeting = "ready"
      /\ pending' = Append(pending, r.method) /\ toAgent' = Append(toAgent, r)
      /\ UNCHANGED <<records, state, attached, serving, toWindow, greeting, mirror, shown,
                     chunk, resolved>>
  BY DEF Window!Call, Window!Request, Window!agentVars
<1>2. r \in Window!Requests /\ r.method \in Window!Methods
      /\ r.method \notin Window!Snapshots
  BY DEF Window!Requests, Window!Calls, Window!Methods, Window!Snapshots
<1>3. /\ toAgent \in Seq(Window!Requests) /\ pending \in Seq(Window!Methods)
      /\ toWindow \in Seq(Window!Lines)
      /\ Window!TypeOK /\ Matched(toWindow, pending, Window!Behind) /\ attached
  BY <1>1 DEF WInv, Window!TypeOK, Attached
<1>4. Window!TypeOK'
  <2>1. toAgent' \in Seq(Window!Requests) /\ pending' \in Seq(Window!Methods)
    BY <1>1, <1>2, <1>3
  <2> QED
    BY <1>1, <1>3, <2>1 DEF Window!TypeOK
<1>5. Matched(toWindow', pending', Window!Behind')
  BY <1>1, <1>2, <1>3, BehindType, BehindAppend, CallMatched
<1>6. Current' => Current
  <2>1. Asked(toAgent) => Asked(toAgent')
    <3>1. \A k \in DOMAIN toAgent : k \in DOMAIN toAgent' /\ toAgent'[k] = toAgent[k]
      BY <1>1, <1>3
    <3> QED
      BY <3>1 DEF Asked
  <2> QED
    BY <1>1, <2>1 DEF Current, NoResetFrom
<1>7. Follows => Follows'
  BY <1>1 DEF Follows
<1>8. Attached'
  BY <1>1, <1>3 DEF WInv, Attached
<1> QED
  BY <1>1, <1>4, <1>5, <1>6, <1>7, <1>8 DEF WInv, SnapshotsSucceed

LEMMA ConnectKeeps ==
    ASSUME WInv, Window!Connect
    PROVE  WInv'
<1> DEFINE r == [method |-> "hello"]
<1>1. /\ greeting = "none" /\ greeting' = "hello"
      /\ pending' = Append(pending, "hello") /\ toAgent' = Append(toAgent, r)
      /\ UNCHANGED <<records, state, attached, serving, toWindow, mirror, shown,
                     chunk, resolved>>
  BY DEF Window!Connect, Window!Request, Window!agentVars
<1>2. r \in Window!Requests /\ r.method = "hello" /\ "hello" \in Window!Methods
  BY NewRequests DEF Window!Methods
<1> HIDE DEF r
<1>3. /\ toAgent \in Seq(Window!Requests) /\ pending \in Seq(Window!Methods)
      /\ toWindow \in Seq(Window!Lines) /\ toWindow = <<>> /\ resolved = <<>>
      /\ Window!TypeOK /\ Matched(toWindow, pending, Window!Behind)
      /\ ~attached /\ Greeting
  BY <1>1 DEF WInv, Window!TypeOK, Attached
<1>4. /\ toAgent' \in Seq(Window!Requests) /\ pending' \in Seq(Window!Methods)
      /\ \A k \in DOMAIN toAgent' :
             \/ k \in DOMAIN toAgent /\ toAgent'[k] = toAgent[k]
             \/ toAgent'[k] = r
  BY <1>1, <1>2, <1>3
<1>5. Window!TypeOK'
  BY <1>1, <1>3, <1>4 DEF Window!TypeOK
<1>6. Matched(toWindow', pending', Window!Behind')
  BY <1>1, <1>2, <1>3, BehindType, BehindAppend, CallMatched
<1>7. Greeting'
  BY <1>1, <1>2, <1>3, <1>4 DEF Greeting
<1>8. Attached'
  BY <1>1, <1>3, <1>7 DEF Attached
<1>9. ~Current' /\ SnapshotsSucceed'
  BY <1>1, <1>3 DEF Current, SnapshotsSucceed
<1> QED
  BY <1>5, <1>6, <1>8, <1>9 DEF WInv

LEMMA ContinueKeeps ==
    ASSUME WInv, Window!Continue
    PROVE  WInv'
<1> DEFINE m == Head(resolved)
           r == [method |-> "snapshot"]
<1>1. /\ resolved # <<>> /\ resolved' = Tail(resolved)
      /\ shown' = IF m.method \in Window!Applied \cup {"hello"} THEN m.state ELSE shown
      /\ greeting' = CASE m.method = "hello" -> "mirroring"
                       [] m.method = "snapshot" -> "ready"
                       [] OTHER -> greeting
      /\ IF m.method = "hello"
         THEN pending' = Append(pending, "snapshot") /\ toAgent' = Append(toAgent, r)
         ELSE pending' = pending /\ toAgent' = toAgent
      /\ UNCHANGED <<records, state, attached, serving, toWindow, mirror, chunk>>
  BY DEF Window!Continue, Window!Request, Window!agentVars
<1>2. /\ resolved \in Seq(Window!Results) /\ Window!TypeOK /\ attached
      /\ toAgent \in Seq(Window!Requests) /\ pending \in Seq(Window!Methods)
      /\ toWindow \in Seq(Window!Lines) /\ Matched(toWindow, pending, Window!Behind)
      /\ greeting # "none" /\ greeting \in {"hello", "mirroring", "ready"}
  BY <1>1 DEF WInv, Window!TypeOK, Attached
<1>3. /\ m \in Window!Results /\ m.state \in Window!States
      /\ resolved' \in Seq(Window!Results)
      /\ m = resolved[1] /\ 1 \in DOMAIN resolved
      /\ \A k \in DOMAIN resolved' : k + 1 \in DOMAIN resolved /\ resolved'[k] = resolved[k + 1]
  <2>1. m \in Window!Results /\ m = resolved[1] /\ 1 \in DOMAIN resolved
    BY <1>1, <1>2
  <2>2. m.state \in Window!States
    BY <2>1, ResultTypes
  <2>3. /\ resolved' \in Seq(Window!Results)
        /\ \A k \in DOMAIN resolved' : k + 1 \in DOMAIN resolved /\ resolved'[k] = resolved[k + 1]
    BY <1>1, <1>2
  <2> QED
    BY <2>1, <2>2, <2>3
<1>4. r \in Window!Requests /\ r.method = "snapshot" /\ "snapshot" \in Window!Methods
      /\ "snapshot" \in Window!Snapshots
  BY NewRequests DEF Window!Methods, Window!Snapshots
<1> HIDE DEF m, r
<1>5. /\ toAgent' \in Seq(Window!Requests) /\ pending' \in Seq(Window!Methods)
      /\ shown' \in Window!States /\ greeting' \in {"hello", "mirroring", "ready"}
  <2>1. toAgent' \in Seq(Window!Requests) /\ pending' \in Seq(Window!Methods)
    <3>1. CASE m.method = "hello"
      <4>1. Append(toAgent, r) \in Seq(Window!Requests)
        BY <1>2, <1>4
      <4>2. Append(pending, "snapshot") \in Seq(Window!Methods)
        BY <1>2, <1>4
      <4> QED
        BY <1>1, <3>1, <4>1, <4>2
    <3>2. CASE m.method # "hello"
      BY <1>1, <1>2, <3>2
    <3> QED
      BY <3>1, <3>2
  <2>2. shown' \in Window!States
    BY <1>1, <1>2, <1>3 DEF Window!TypeOK
  <2>3. greeting' \in {"hello", "mirroring", "ready"}
    BY <1>1, <1>2
  <2> QED
    BY <2>1, <2>2, <2>3
<1>6. Window!TypeOK'
  BY <1>1, <1>2, <1>3, <1>5 DEF Window!TypeOK
<1>7. Matched(toWindow', pending', Window!Behind')
  <2>1. CASE m.method = "hello"
    BY <1>1, <1>2, <1>4, <2>1, BehindType, BehindAppend, CallMatched
  <2>2. CASE m.method # "hello"
    BY <1>1, <1>2, <2>2 DEF Window!Behind, Window!MethodsOf
  <2> QED
    BY <2>1, <2>2
<1>8. Attached'
  BY <1>1, <1>2, <1>5 DEF Attached
\* The snapshot whose caller continues was read before, and counted then.
<1>9. Current' => Current
  <2>1. m.method = "hello" => Asked(toAgent')
    <3>1. ASSUME m.method = "hello"
          PROVE  Len(toAgent) + 1 \in DOMAIN toAgent' /\ toAgent'[Len(toAgent) + 1] = r
      BY <1>1, <1>2, <3>1
    <3> QED
      BY <1>4, <3>1 DEF Asked
  <2>2. CASE \E k \in DOMAIN toWindow' : Window!IsSnapshot(toWindow'[k]) /\ NoResetFrom(k)'
    BY <1>1, <2>2 DEF Current, NoResetFrom
  <2>3. CASE /\ greeting' = "ready" \/ \E k \in DOMAIN resolved' : resolved'[k].method = "snapshot"
             /\ NoResetFrom(1)' /\ ~Asked(toAgent')
    <3>1. m.method # "hello" /\ toAgent' = toAgent
      BY <1>1, <2>1, <2>3
    <3>2. greeting = "ready" \/ \E k \in DOMAIN resolved : resolved[k].method = "snapshot"
      BY <1>1, <1>3, <2>3, <3>1
    <3>3. NoResetFrom(1)
      BY <1>1, <2>3 DEF NoResetFrom
    <3> QED
      BY <2>3, <3>1, <3>2, <3>3 DEF Current
  <2> QED
    BY <2>2, <2>3 DEF Current
<1>10. Follows => Follows'
  BY <1>1 DEF Follows
<1> QED
  BY <1>1, <1>6, <1>7, <1>8, <1>9, <1>10 DEF WInv, SnapshotsSucceed

LEMMA DisconnectedKeeps ==
    ASSUME WInv, Window!Disconnected, resolved = <<>>, chunk = 0
    PROVE  WInv'
<1>1. /\ greeting' = "none" /\ pending' = <<>>
      /\ shown' = [shown EXCEPT !.running = FALSE]
      /\ attached' = FALSE /\ serving' = Window!Nothing
      /\ toAgent' = <<>> /\ toWindow' = <<>>
      /\ records' = records /\ state' = state /\ mirror' = mirror
      /\ chunk' = 0 /\ resolved' = <<>>
  BY DEF Window!Disconnected
<1>2. shown' \in Window!States
  BY <1>1 DEF WInv, Window!TypeOK, Window!States
<1>3. /\ toAgent' \in Seq(Window!Requests) /\ toWindow' \in Seq(Window!Lines)
      /\ pending' \in Seq(Window!Methods) /\ resolved' \in Seq(Window!Results)
      /\ chunk' \in 0..Len(toWindow')
  BY <1>1
<1>4. Window!TypeOK'
  BY <1>1, <1>2, <1>3 DEF WInv, Window!TypeOK
<1>5. Window!Behind' = <<>>
  BY <1>1 DEF Window!Behind, Window!MethodsOf
<1>6. Matched(<<>>, <<>>, <<>>)
  BY Counts DEF Matched
<1>7. Attached' /\ SnapshotsSucceed' /\ ~Current'
  BY <1>1 DEF Attached, Greeting, SnapshotsSucceed, Current
<1> QED
  BY <1>1, <1>4, <1>5, <1>6, <1>7 DEF WInv

LEMMA NextWInv ==
    ASSUME WInv, Window!Next
    PROVE  WInv'
<1>1. CASE Window!Session \/ Window!Serve
  BY <1>1, SessionOrServeActs, ActsKeeps DEF WInv
<1>2. CASE Window!Connect
  BY <1>2, ConnectKeeps
<1>3. CASE \E r \in Window!Calls : Window!Call(r)
  BY <1>3, CallKeeps
<1>4. CASE Window!Read
  BY <1>4, ReadKeeps
<1>5. CASE Window!Continue
  BY <1>5, ContinueKeeps
<1>6. CASE Window!Disconnect \/ Window!TimesOut
  BY <1>6, DisconnectedKeeps DEF Window!Disconnect, Window!TimesOut
<1> QED
  BY <1>1, <1>2, <1>3, <1>4, <1>5, <1>6 DEF Window!Next

LEMMA StutterWInv ==
    ASSUME WInv, UNCHANGED windowVars
    PROVE  WInv'
  BY DEF WInv, windowVars, Window!TypeOK, SnapshotsSucceed, Attached, Greeting,
         Window!Behind, Window!MethodsOf, Current, NoResetFrom, Follows

-----------------------------------------------------------------------------
(* The theorems of the window. *)

\* The largest of some indices is the last one.
LEMMA MaxLast ==
    ASSUME NEW S, NEW k \in S, S \subseteq Nat, \A l \in S : ~(l > k)
    PROVE  Window!Max(S) = k
<1>1. \A l \in S : k >= l
  OBVIOUS
<1>2. ASSUME NEW x \in S, \A l \in S : x >= l PROVE x = k
  BY <1>1, <1>2
<1> QED
  BY <1>1, <1>2 DEF Window!Max

LEMMA WInvMirror == WInv => MirrorFollows
<1> SUFFICES ASSUME WInv, Window!Fresh, NEW i \in Ids
             PROVE  LET about == {k \in DOMAIN toWindow : Window!About(toWindow[k], i)} IN
                    IF about = {} THEN mirror[i] = records[i]
                    ELSE Window!Says(toWindow[Window!Max(about)], i) = records[i]
  BY DEF MirrorFollows, Window!MirrorFollows
<1> DEFINE about == {k \in DOMAIN toWindow : Window!About(toWindow[k], i)}
<1>1. DOMAIN toWindow = 1..Len(toWindow) /\ Len(toWindow) \in Nat
  BY DEF WInv, Window!TypeOK
<1>2. Current
  <2>1. ASSUME NEW k \in DOMAIN toWindow, Window!IsSnapshot(toWindow[k]),
               \A l \in k .. Len(toWindow) : toWindow[l] # Window!Reset
        PROVE  Current
    <3>1. NoResetFrom(k)
      BY <1>1, <2>1 DEF NoResetFrom
    <3> QED
      BY <2>1, <3>1 DEF Current
  <2>2. ASSUME greeting = "ready",
               \A k \in DOMAIN toWindow : toWindow[k] # Window!Reset,
               \A k \in DOMAIN toAgent : toAgent[k].method \notin Window!Snapshots
        PROVE  Current
    BY <2>2 DEF Current, NoResetFrom, Asked
  <2> QED
    BY <2>1, <2>2 DEF Window!Fresh
<1>3. Last(toWindow, i, records[i]) \/ (Silent(toWindow, i) /\ mirror[i] = records[i])
  BY <1>2 DEF WInv, Follows
<1>4. CASE Last(toWindow, i, records[i])
  <2>1. PICK k \in DOMAIN toWindow :
            /\ Window!About(toWindow[k], i) /\ Window!Says(toWindow[k], i) = records[i]
            /\ \A l \in DOMAIN toWindow : l > k => ~Window!About(toWindow[l], i)
    BY <1>4 DEF Last
  <2>2. k \in about /\ about \subseteq Nat /\ \A l \in about : ~(l > k)
    BY <1>1, <2>1
  <2> HIDE DEF about
  <2>3. Window!Max(about) = k
    BY <2>2, MaxLast
  <2> QED
    BY <2>1, <2>2, <2>3 DEF about
<1>5. CASE Silent(toWindow, i) /\ mirror[i] = records[i]
  BY <1>5 DEF Silent
<1> QED
  BY <1>3, <1>4, <1>5

LEMMA WInvCalls == WInv => CallsMatched
  BY DEF WInv, Matched, CallsMatched, Window!CallsMatched

\* Whatever the session, the agent and the window do, and whenever the connection goes,
\* the mirror shows what the agent has once the lines on their way are read.
THEOREM WindowMirror == FairSpec => []MirrorFollows
<1>1. Init => WInv
  BY InitWInv DEF Init
<1>2. WInv /\ [Next]_vars => WInv'
  BY NextWInv, StutterWInv DEF Next, vars
<1> QED
  BY <1>1, <1>2, WInvMirror, PTL DEF FairSpec

\* Every call of the window has one request, or one result, on its way, in their order.
THEOREM WindowCalls == FairSpec => []CallsMatched
<1>1. Init => WInv
  BY InitWInv DEF Init
<1>2. WInv /\ [Next]_vars => WInv'
  BY NextWInv, StutterWInv DEF Next, vars
<1> QED
  BY <1>1, <1>2, WInvCalls, PTL DEF FairSpec

-----------------------------------------------------------------------------
(* The invariant of the endpoint: its agents, and its windows. *)

\* A process has clients only once it listens, and then a timer runs unless it has some.
AgentsInv ==
    /\ file \in Agents \cup {NoAgent, "stale"}
    /\ phase \in [Agents -> Endpoint!Phases]
    /\ recent \in [Agents -> BOOLEAN] /\ staged \in [Agents -> Windows \cup {NoWindow}]
    /\ promoted \in [Agents -> BOOLEAN] /\ asked \in [Agents -> BOOLEAN]
    /\ clients \in [Agents -> SUBSET Windows] /\ exitTimer \in [Agents -> BOOLEAN]
    /\ \A a \in Agents : phase[a] = "listening" => (exitTimer[a] <=> clients[a] = {})
    /\ \A a \in Agents : phase[a] \notin {"listening", "stopping"} => clients[a] = {}

LinkedStages == {"greeting", "ready", "staging", "checking", "retiring", "promoting"}
RetiringStages == {"staging", "checking", "retiring"}

\* A window has a socket, and one to return to, exactly where it uses them.
WindowsInv ==
    /\ stage \in [Windows -> Endpoint!Stages]
    /\ link \in [Windows -> Agents \cup {NoAgent}]
    /\ previous \in [Windows -> Agents \cup {NoAgent}]
    /\ \A w \in Windows : link[w] # NoAgent <=> stage[w] \in LinkedStages
    /\ \A w \in Windows : previous[w] # NoAgent <=> stage[w] \in RetiringStages

EInv == AgentsInv /\ WindowsInv

LEMMA EInvType == EInv => Endpoint!TypeOK
  BY DEF EInv, AgentsInv, WindowsInv, LinkedStages, RetiringStages, Endpoint!TypeOK,
         Endpoint!Accepts, Endpoint!Upgrading

LEMMA InitEInv == Endpoint!Init => EInv
  BY NamesAssumption DEF Endpoint!Init, EInv, AgentsInv, WindowsInv, LinkedStages,
         RetiringStages, Endpoint!Phases, Endpoint!Stages, Endpoint!Upgrading

LEMMA GoneKeeps ==
    ASSUME EInv, NEW a \in Agents, NEW left \in Agents \cup {NoAgent, "stale"},
           Endpoint!Gone(a, left)
    PROVE  EInv'
<1>1. AgentsInv'
  BY DEF EInv, AgentsInv, Endpoint!Gone, Endpoint!Phases
<1>2. WindowsInv'
  BY DEF EInv, WindowsInv, Endpoint!Gone, Endpoint!windowVars
<1> QED
  BY <1>1, <1>2 DEF EInv

LEMMA ListeningKeeps ==
    ASSUME EInv, NEW a \in Agents, phase[a] \in {"starting", "refused"},
           file' \in {file, a}, Endpoint!Listening(a)
    PROVE  EInv'
<1>1. AgentsInv'
  BY DEF EInv, AgentsInv, Endpoint!Listening, Endpoint!Phases
<1>2. WindowsInv'
  BY DEF EInv, WindowsInv, Endpoint!Listening, Endpoint!windowVars
<1> QED
  BY <1>1, <1>2 DEF EInv

LEMMA StopAgentKeeps ==
    ASSUME EInv, NEW a \in Agents, Endpoint!StopAgent(a)
    PROVE  EInv'
<1>1. AgentsInv'
  BY DEF EInv, AgentsInv, Endpoint!StopAgent, Endpoint!Phases
<1>2. WindowsInv'
  BY DEF EInv, WindowsInv, Endpoint!StopAgent, Endpoint!windowVars
<1> QED
  BY <1>1, <1>2 DEF EInv

LEMMA ClientClosesKeeps ==
    ASSUME EInv, NEW a \in Agents, NEW w \in Windows, Endpoint!ClientCloses(a, w)
    PROVE  EInv'
<1>1. AgentsInv'
  BY DEF EInv, AgentsInv, Endpoint!ClientCloses, Endpoint!Accepts, Endpoint!Alive
<1>2. WindowsInv'
  BY DEF EInv, WindowsInv, Endpoint!ClientCloses, Endpoint!windowVars
<1> QED
  BY <1>1, <1>2 DEF EInv

\* The probe of a file that exists begins, or is answered.
LEMMA ProbeKeeps ==
    ASSUME EInv, NEW a \in Agents, phase[a] \notin {"listening", "stopping"},
           NEW p \in {"probing", "answered", "refused"}, phase' = [phase EXCEPT ![a] = p],
           UNCHANGED <<file, recent, staged, promoted, clients, exitTimer, asked>>,
           UNCHANGED Endpoint!windowVars
    PROVE  EInv'
<1>1. AgentsInv'
  BY DEF EInv, AgentsInv, Endpoint!Phases
<1>2. WindowsInv'
  BY DEF EInv, WindowsInv, Endpoint!windowVars
<1> QED
  BY <1>1, <1>2 DEF EInv

LEMMA AgentStepKeeps ==
    ASSUME EInv, NEW a \in Agents,
           Endpoint!AgentStep(a) \/ Endpoint!Signalled(a) \/ Endpoint!Kill(a)
    PROVE  EInv'
<1>1. CASE Endpoint!CheckFile(a)
  <2>1. CASE file' = file /\ Endpoint!Listening(a)
    BY <1>1, <2>1, ListeningKeeps DEF Endpoint!CheckFile
  <2>2. CASE file' = a /\ Endpoint!Listening(a)
    BY <1>1, <2>2, ListeningKeeps DEF Endpoint!CheckFile
  <2>3. CASE /\ phase' = [phase EXCEPT ![a] = "probing"]
             /\ UNCHANGED <<file, recent, staged, promoted, clients, exitTimer, asked,
                            Endpoint!windowVars>>
    BY <1>1, <2>3, ProbeKeeps DEF Endpoint!CheckFile
  <2> QED
    BY <1>1, <2>1, <2>2, <2>3 DEF Endpoint!CheckFile
<1>2. CASE Endpoint!Probe(a)
  <2>1. CASE phase' = [phase EXCEPT ![a] = "answered"]
    BY <1>2, <2>1, ProbeKeeps DEF Endpoint!Probe
  <2>2. CASE phase' = [phase EXCEPT ![a] = "refused"]
    BY <1>2, <2>2, ProbeKeeps DEF Endpoint!Probe
  <2> QED
    BY <1>2, <2>1, <2>2 DEF Endpoint!Probe
<1>3. CASE Endpoint!Yield(a) \/ Endpoint!Exit(a) \/ Endpoint!Kill(a)
  <2>1. file \in Agents \cup {NoAgent, "stale"}
    BY DEF EInv, AgentsInv
  <2> QED
    BY <1>3, <2>1, GoneKeeps DEF Endpoint!Yield, Endpoint!Exit, Endpoint!Kill
<1>4. CASE Endpoint!Reclaim(a)
  BY <1>4, ListeningKeeps, StopAgentKeeps DEF Endpoint!Reclaim
<1>5. CASE Endpoint!ExitTimerFires(a) \/ Endpoint!ServeShutdown(a) \/ Endpoint!Signalled(a)
  BY <1>5, StopAgentKeeps DEF Endpoint!ExitTimerFires, Endpoint!ServeShutdown,
     Endpoint!Signalled
<1>6. CASE \E w \in Windows : Endpoint!ClientCloses(a, w)
  BY <1>6, ClientClosesKeeps
<1> QED
  BY <1>1, <1>2, <1>3, <1>4, <1>5, <1>6 DEF Endpoint!AgentStep

\* A window goes on, with the sockets it has there.
LEMMA GoesKeeps ==
    ASSUME EInv, NEW w \in Windows, NEW next \in Endpoint!Stages,
           NEW socket \in Agents \cup {NoAgent}, NEW retiring \in Agents \cup {NoAgent},
           socket # NoAgent <=> next \in LinkedStages,
           retiring # NoAgent <=> next \in RetiringStages,
           Endpoint!Goes(w, next, socket, retiring)
    PROVE  WindowsInv'
  BY DEF EInv, WindowsInv, Endpoint!Goes

LEMMA DialedKeeps ==
    ASSUME EInv, NEW w \in Windows, NEW a \in Agents, Endpoint!Dialed(w, a)
    PROVE  AgentsInv'
  BY DEF EInv, AgentsInv, Endpoint!Dialed, Endpoint!Accepts

LEMMA SpawnKeeps ==
    ASSUME EInv, NEW w \in Windows, NEW a \in Agents, NEW owner \in Windows \cup {NoWindow},
           Endpoint!Spawn(a, w, owner)
    PROVE  AgentsInv'
  BY DEF EInv, AgentsInv, Endpoint!Spawn, Endpoint!Alive, Endpoint!Phases

LEMMA SameAgents ==
    ASSUME EInv, UNCHANGED Endpoint!agentVars
    PROVE  AgentsInv'
  BY DEF EInv, AgentsInv, Endpoint!agentVars

LEMMA WindowStepKeeps ==
    ASSUME EInv, NEW w \in Windows,
           \/ Endpoint!Connect(w) \/ Endpoint!Poll(w) \/ Endpoint!Greeted(w)
           \/ Endpoint!Lost(w) \/ Endpoint!UpgradeStep(w) \/ Endpoint!CloseWindow(w)
    PROVE  EInv'
<1>1. /\ link[w] \in Agents \cup {NoAgent} /\ previous[w] \in Agents \cup {NoAgent}
      /\ link[w] # NoAgent <=> stage[w] \in LinkedStages
      /\ previous[w] # NoAgent <=> stage[w] \in RetiringStages
      /\ \A a \in Agents : a # NoAgent
  BY NamesAssumption DEF EInv, WindowsInv
<1> USE DEF LinkedStages, RetiringStages
<1>2. CASE Endpoint!Connect(w)
  <2>1. CASE file \in Agents /\ Endpoint!Dialed(w, file) /\ Endpoint!Goes(w, "greeting", file, NoAgent)
    BY <1>1, <2>1, DialedKeeps, GoesKeeps DEF EInv, Endpoint!Stages
  <2>2. CASE \E a \in Agents : /\ Endpoint!Spawn(a, w, NoWindow)
                              /\ Endpoint!Goes(w, "polling", NoAgent, NoAgent)
    BY <1>1, <2>2, SpawnKeeps, GoesKeeps DEF EInv, Endpoint!Stages
  <2> QED
    BY <1>2, <2>1, <2>2 DEF Endpoint!Connect
<1>3. CASE Endpoint!Poll(w)
  <2>1. CASE file \in Agents /\ Endpoint!Dialed(w, file) /\ Endpoint!Goes(w, "greeting", file, NoAgent)
    BY <1>1, <2>1, DialedKeeps, GoesKeeps DEF EInv, Endpoint!Stages
  <2>2. CASE Endpoint!Goes(w, "idle", NoAgent, NoAgent) /\ UNCHANGED Endpoint!agentVars
    BY <1>1, <2>2, SameAgents, GoesKeeps DEF EInv, Endpoint!Stages
  <2> QED
    BY <1>3, <2>1, <2>2 DEF Endpoint!Poll
<1>4. CASE Endpoint!Greeted(w)
  <2>1. stage[w] = "greeting" /\ link[w] \in Agents
    BY <1>1, <1>4 DEF Endpoint!Greeted
  <2>2. CASE \E b \in Agents : /\ Endpoint!Spawn(b, w, w)
                              /\ Endpoint!Goes(w, "staging", b, link[w])
    BY <1>1, <2>1, <2>2, SpawnKeeps, GoesKeeps DEF EInv, Endpoint!Stages, Endpoint!Upgrading
  <2>3. CASE Endpoint!Goes(w, "ready", link[w], NoAgent) /\ UNCHANGED Endpoint!agentVars
    BY <1>1, <2>1, <2>3, SameAgents, GoesKeeps DEF EInv, Endpoint!Stages
  <2> QED
    BY <1>4, <2>2, <2>3 DEF Endpoint!Greeted
<1>5. CASE Endpoint!Lost(w)
  BY <1>1, <1>5, SameAgents, GoesKeeps DEF EInv, Endpoint!Stages, Endpoint!Lost
<1>6. CASE Endpoint!CloseWindow(w)
  BY <1>1, <1>6, SameAgents, GoesKeeps DEF EInv, Endpoint!Stages, Endpoint!CloseWindow
<1>7. CASE Endpoint!Staged(w)
  <2>1. /\ link[w] \in Agents /\ previous[w] \in Agents /\ Endpoint!Dialed(w, link[w])
        /\ Endpoint!Goes(w, "checking", link[w], previous[w])
    BY <1>1, <1>7 DEF Endpoint!Staged
  <2> QED
    BY <1>1, <2>1, DialedKeeps, GoesKeeps DEF EInv, Endpoint!Stages, Endpoint!Upgrading
<1>8. CASE Endpoint!Checked(w)
  <2>1. link[w] \in Agents /\ previous[w] \in Agents
    BY <1>1, <1>8 DEF Endpoint!Checked
  <2>2. asked' \in [Agents -> BOOLEAN]
    BY <1>8, <2>1 DEF Endpoint!Checked, EInv, AgentsInv, Endpoint!Accepts
  <2>3. AgentsInv'
    BY <1>8, <2>2 DEF Endpoint!Checked, EInv, AgentsInv
  <2>4. \/ Endpoint!Goes(w, "retiring", link[w], previous[w])
        \/ Endpoint!Goes(w, "promoting", link[w], NoAgent)
    BY <1>8 DEF Endpoint!Checked
  <2> QED
    BY <1>1, <2>1, <2>3, <2>4, GoesKeeps DEF EInv, Endpoint!Stages, Endpoint!Upgrading
<1>9. CASE Endpoint!Retired(w)
  <2>1. link[w] \in Agents
    BY <1>1, <1>9 DEF Endpoint!Retired
  <2> QED
    BY <1>1, <1>9, <2>1, SameAgents, GoesKeeps DEF Endpoint!Retired, EInv, Endpoint!Stages,
       Endpoint!Upgrading
<1>10. CASE Endpoint!UpgradeFails(w)
  <2>1. /\ previous[w] \in Agents
        /\ \/ Endpoint!Goes(w, "ready", previous[w], NoAgent)
           \/ Endpoint!Goes(w, "waiting", NoAgent, NoAgent)
           \/ Endpoint!Goes(w, "idle", NoAgent, NoAgent)
    BY <1>1, <1>10 DEF Endpoint!UpgradeFails
  <2>2. AgentsInv'
    BY <1>10, SameAgents DEF Endpoint!UpgradeFails
  <2> QED
    BY <1>1, <2>1, <2>2, GoesKeeps DEF EInv, Endpoint!Stages
<1>11. CASE Endpoint!Promoted(w)
  <2>1. link[w] \in Agents /\ Endpoint!Goes(w, "ready", link[w], NoAgent)
    BY <1>1, <1>11 DEF Endpoint!Promoted
  <2>2. AgentsInv'
    BY <1>11, <2>1 DEF Endpoint!Promoted, EInv, AgentsInv
  <2> QED
    BY <1>1, <2>1, <2>2, GoesKeeps DEF EInv, Endpoint!Stages
<1>12. CASE Endpoint!PromoteFails(w)
  <2>1. \/ Endpoint!Goes(w, "waiting", NoAgent, NoAgent)
        \/ Endpoint!Goes(w, "idle", NoAgent, NoAgent)
    BY <1>12 DEF Endpoint!PromoteFails
  <2>2. AgentsInv'
    BY <1>12, SameAgents DEF Endpoint!PromoteFails
  <2> QED
    BY <1>1, <2>1, <2>2, GoesKeeps DEF EInv, Endpoint!Stages
<1> QED
  BY <1>2, <1>3, <1>4, <1>5, <1>6, <1>7, <1>8, <1>9, <1>10, <1>11, <1>12
     DEF Endpoint!UpgradeStep

LEMMA StutterEInv ==
    ASSUME EInv, UNCHANGED endpointVars
    PROVE  EInv'
  BY DEF EInv, AgentsInv, WindowsInv, endpointVars

\* Every variable has its type; a running agent leaves when its timer fires unless it has
\* a client, an upgrade has a socket to return to, and a socket nobody greeted on gets no
\* line.
THEOREM WindowPartsTyped == FairSpec => []TypeOK
<1> DEFINE Inv == EInv /\ WInv
<1>1. Init => Inv
  BY InitWInv, InitEInv DEF Init
<1>2. Inv /\ [Next]_vars => Inv'
  <2> SUFFICES ASSUME Inv, [Next]_vars PROVE Inv'
    OBVIOUS
  <2>1. CASE part = "endpoint" /\ Endpoint!Next /\ UNCHANGED <<part, windowVars>>
    BY <2>1, AgentStepKeeps, WindowStepKeeps, StutterWInv DEF Endpoint!Next
  <2>2. CASE part = "window" /\ Window!Next /\ UNCHANGED <<part, endpointVars>>
    BY <2>2, NextWInv, StutterEInv
  <2>3. CASE UNCHANGED vars
    BY <2>3, StutterWInv, StutterEInv DEF vars
  <2> QED
    BY <2>1, <2>2, <2>3 DEF Next
<1>3. Inv => TypeOK
  BY EInvType DEF WInv, TypeOK
<1> QED
  BY <1>1, <1>2, <1>3, PTL DEF FairSpec
=============================================================================
