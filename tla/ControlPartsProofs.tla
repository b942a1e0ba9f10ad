---------------------------- MODULE ControlPartsProofs ----------------------------
(***************************************************************************)
(* Proofs about the parts of ControlParts: for each the invariant that it  *)
(* keeps, why it begins with it and why every step keeps it, and what      *)
(* follows from it.  AgentPartsProofs puts them together.                  *)
(***************************************************************************)
EXTENDS ControlParts, Sequences, FiniteSets, FiniteSetTheorems, FunctionTheorems, TLAPS

-----------------------------------------------------------------------------
(* Numbers and sets. *)

LEMMA Successor ==
    ASSUME NEW n \in Nat
    PROVE  n + 1 \in Nat /\ n + 1 # 0
OBVIOUS

\* Every part counts alike.
LEMMA Cardinalities ==
    ASSUME NEW S
    PROVE  /\ Routed!Cardinality(S) = Cardinality(S) /\ Mcp!Cardinality(S) = Cardinality(S)
           /\ Listing!Cardinality(S) = Cardinality(S)
BY DEF Cardinality, Routed!Cardinality, Mcp!Cardinality, Listing!Cardinality

-----------------------------------------------------------------------------
(* Sequences. *)

LEMMA Added ==
    ASSUME NEW S, NEW s \in Seq(S), NEW e \in S
    PROVE  /\ Append(s, e) \in Seq(S) /\ Append(s, e) # <<>>
           /\ Append(s, e)[Len(Append(s, e))] = e
OBVIOUS

LEMMA Taken ==
    ASSUME NEW S, NEW s \in Seq(S), s # <<>>
    PROVE  /\ Head(s) \in S /\ Tail(s) \in Seq(S)
           /\ Tail(s) = <<>> => Head(s) = s[Len(s)]
           /\ Tail(s) # <<>> => Tail(s)[Len(Tail(s))] = s[Len(s)]
<1> DEFINE t == Tail(s)
<1>1. Len(s) \in Nat /\ Len(s) # 0 /\ Head(s) = s[1] /\ Head(s) \in S OBVIOUS
<1>2. t \in Seq(S) /\ Len(t) = Len(s) - 1 OBVIOUS
<1>3. \A k \in 1 .. Len(s) - 1 : t[k] = s[k + 1] OBVIOUS
<1> HIDE DEF t
<1>4. ASSUME t = <<>> PROVE Head(s) = s[Len(s)]
  <2>1. Len(t) = 0 BY <1>4
  <2>2. Len(s) = 1 BY <2>1, <1>1, <1>2
  <2> QED BY <2>2, <1>1
<1>5. ASSUME t # <<>> PROVE t[Len(t)] = s[Len(s)]
  <2>1. Len(t) # 0 BY <1>2, <1>5
  <2>2. Len(t) \in 1 .. Len(s) - 1 /\ Len(t) + 1 = Len(s) BY <2>1, <1>1, <1>2
  <2> QED BY <2>2, <1>3
<1> QED BY <1>1, <1>2, <1>4, <1>5 DEF t

LEMMA ShortLists ==
    ASSUME NEW S
    PROVE  <<>> \in Seq(S) /\ \A e \in S : <<e>> \in Seq(S)
OBVIOUS

LEMMA Joined ==
    ASSUME NEW S, NEW s \in Seq(S), NEW t \in Seq(S)
    PROVE  /\ s \o t \in Seq(S) /\ Len(s \o t) = Len(s) + Len(t)
           /\ \A k \in 1 .. Len(s \o t) :
                  (s \o t)[k] = IF k <= Len(s) THEN s[k] ELSE t[k - Len(s)]
OBVIOUS

LEMMA Cut ==
    ASSUME NEW S, NEW s \in Seq(S), NEW a \in Nat, a >= 1, NEW b \in 0 .. Len(s)
    PROVE  /\ SubSeq(s, a, b) \in Seq(S)
           /\ Len(SubSeq(s, a, b)) = IF a <= b THEN b - a + 1 ELSE 0
           /\ \A i \in 1 .. Len(SubSeq(s, a, b)) : SubSeq(s, a, b)[i] = s[a + i - 1]
OBVIOUS

LEMMA Replaced ==
    ASSUME NEW S, NEW s \in Seq(S), NEW i \in 1 .. Len(s), NEW e \in S
    PROVE  [s EXCEPT ![i] = e] \in Seq(S)
OBVIOUS

\* What is left when one element is taken out.
LEMMA TakenOut ==
    ASSUME NEW S, NEW s \in Seq(S), NEW i \in 1 .. Len(s)
    PROVE  LET t == SubSeq(s, 1, i - 1) \o SubSeq(s, i + 1, Len(s)) IN
           /\ t \in Seq(S) /\ Len(t) = Len(s) - 1
           /\ \A k \in 1 .. Len(t) : t[k] = s[IF k < i THEN k ELSE k + 1]
<1> DEFINE a == SubSeq(s, 1, i - 1)
           b == SubSeq(s, i + 1, Len(s))
           t == a \o b
<1>1. i \in Nat /\ Len(s) \in Nat /\ i >= 1 /\ i <= Len(s) OBVIOUS
<1>2. a \in Seq(S) /\ Len(a) = i - 1 /\ \A k \in 1 .. i - 1 : a[k] = s[k] BY <1>1
<1>3. b \in Seq(S) /\ Len(b) = Len(s) - i BY <1>1
<1>4. \A k \in 1 .. Len(s) - i : b[k] = s[i + k] BY <1>1
<1> HIDE DEF a, b
<1>5. t \in Seq(S) /\ Len(t) = Len(a) + Len(b) BY <1>2, <1>3
<1>6. Len(t) = Len(s) - 1 BY <1>1, <1>2, <1>3, <1>5
<1>7. ASSUME NEW k \in 1 .. Len(t) PROVE t[k] = s[IF k < i THEN k ELSE k + 1]
  <2>1. CASE k < i
    <3>1. k \in 1 .. i - 1 BY <2>1, <1>1, <1>6
    <3> QED BY <3>1, <2>1, <1>2, <1>3
  <2>2. CASE ~(k < i)
    <3>1. k - (i - 1) \in 1 .. Len(s) - i /\ i + (k - (i - 1)) = k + 1 BY <2>2, <1>1, <1>6
    <3>2. t[k] = b[k - (i - 1)] BY <3>1, <2>2, <1>1, <1>2, <1>3, <1>6
    <3> QED BY <3>1, <3>2, <2>2, <1>4
  <2> QED BY <2>1, <2>2
<1> QED BY <1>5, <1>6, <1>7 DEF a, b

\* The places of a list that has one element more are those of the list without it, and that.
LEMMA OnePlace ==
    ASSUME NEW N \in Nat, NEW i \in 1 .. N + 1, NEW P \in SUBSET (1 .. N + 1),
           NEW Q \in SUBSET (1 .. N),
           \A n \in 1 .. N : n \in Q <=> (IF n < i THEN n ELSE n + 1) \in P
    PROVE  /\ Cardinality(P) \in Nat /\ Cardinality(Q) \in Nat
           /\ Cardinality(P) = Cardinality(Q) + (IF i \in P THEN 1 ELSE 0)
<1> DEFINE rest == P \ {i}
           move == [n \in Q |-> IF n < i THEN n ELSE n + 1]
<1>1. IsFiniteSet(P) /\ IsFiniteSet(Q)
  <2>1. IsFiniteSet(1 .. N) /\ IsFiniteSet(1 .. N + 1) BY FS_Interval
  <2> QED BY <2>1, FS_Subset
<1>2. move \in Bijection(Q, rest)
  <2>1. i \in Nat /\ \A n \in Q : n \in Nat /\ n \in 1 .. N OBVIOUS
  <2>2. \A n \in Q : move[n] \in rest BY <2>1
  <2>3. move \in [Q -> rest] BY <2>2
  <2>4. \A m, n \in Q : move[m] = move[n] => m = n BY <2>1
  <2>5. ASSUME NEW p \in rest PROVE \E n \in Q : move[n] = p
    <3>1. p \in Nat /\ p >= 1 /\ p <= N + 1 /\ p # i BY <2>1
    <3>2. CASE p < i
      <4>1. p \in 1 .. N BY <3>1, <3>2, <2>1
      <4>2. p \in Q BY <4>1, <3>2
      <4> QED BY <4>2, <3>2
    <3>3. CASE ~(p < i)
      <4>1. p - 1 \in 1 .. N /\ ~(p - 1 < i) /\ p - 1 + 1 = p BY <3>1, <3>3, <2>1
      <4>2. p - 1 \in Q BY <4>1
      <4> QED BY <4>1, <4>2
    <3> QED BY <3>2, <3>3
  <2> HIDE DEF move, rest
  <2>6. move \in Injection(Q, rest) BY <2>3, <2>4 DEF Injection, IsInjective
  <2>7. move \in Surjection(Q, rest) BY <2>3, <2>5 DEF Surjection
  <2> QED BY <2>6, <2>7 DEF Bijection
<1>3. IsFiniteSet(rest) /\ Cardinality(rest) = Cardinality(Q)
  <2>1. IsFiniteSet(rest) BY <1>1, FS_Subset
  <2> HIDE DEF move, rest
  <2> QED BY <1>1, <1>2, <2>1, FS_Bijection DEF ExistsBijection
<1>4. Cardinality(P) \in Nat /\ Cardinality(Q) \in Nat BY <1>1, FS_CardinalityType
<1>5. CASE i \in P
  <2>1. P = rest \cup {i} /\ i \notin rest BY <1>5
  <2> HIDE DEF rest
  <2>2. Cardinality(rest \cup {i}) = Cardinality(rest) + 1
    BY <2>1, <1>3, FS_AddElement
  <2>3. Cardinality(P) = Cardinality(rest) + 1 BY <2>1, <2>2
  <2>4. Cardinality(P) = Cardinality(Q) + 1 BY <2>3, <1>3
  <2> QED BY <2>4, <1>4, <1>5
<1>6. CASE i \notin P
  <2>1. P = rest BY <1>6
  <2>2. Cardinality(P) = Cardinality(Q) BY <2>1, <1>3
  <2> QED BY <2>2, <1>4, <1>6
<1> QED BY <1>4, <1>5, <1>6

-----------------------------------------------------------------------------
(* RootIdentity. *)

\* The files are written in one order, so that a certificate there is one with its key; what
\* is derived from it is there only with it, and whoever holds an identity holds that one.
RootInv ==
    /\ files \in [{"certificate", "key", "bundle", "truststore"} -> Nat]
    /\ minted \in Nat /\ up \in BOOLEAN /\ making \in {"no", "computed", "key written"}
    /\ stage \in [Windows -> {"idle", "waiting", "loaded", "bundled", "ready"}]
    /\ root \in [Windows -> [certificate : Nat, key : Nat]]
    /\ making # "no" => up /\ files.certificate = 0
    /\ making = "key written" => files.key = minted /\ minted # 0
    /\ files.certificate # 0 => files.key = files.certificate
    /\ files.bundle \in {0, files.certificate} /\ files.truststore \in {0, files.certificate}
    /\ ~up => \A s \in Windows : stage[s] = "idle"
    /\ \A s \in Windows :
           /\ stage[s] = "waiting" => making # "no"
           /\ stage[s] \in {"loaded", "bundled", "ready"} =>
                  /\ files.certificate # 0
                  /\ root[s].certificate = files.certificate /\ root[s].key = files.certificate
           /\ stage[s] \in {"bundled", "ready"} => files.bundle = files.certificate
           /\ stage[s] = "ready" => files.truststore = files.certificate

LEMMA RootBegins == ASSUME Rooted!Init PROVE RootInv
BY DEF Rooted!Init, RootInv, Rooted!NoFiles, Rooted!Nobody, Rooted!Missing

LEMMA RootHolds == ASSUME RootInv PROVE Rooted!RootIsTrusted
BY DEF RootInv, Rooted!RootIsTrusted

LEMMA RootSteps ==
    ASSUME RootInv, Rooted!Next \/ UNCHANGED rootedVars
    PROVE  RootInv'
<1>0. /\ files.certificate \in Nat /\ files.key \in Nat /\ minted \in Nat
      /\ minted + 1 \in Nat /\ minted + 1 # 0
  <2>1. minted \in Nat /\ files.certificate \in Nat /\ files.key \in Nat BY DEF RootInv
  <2> QED BY <2>1, Successor
<1>1. ASSUME NEW s \in Windows, Rooted!Load(s) PROVE RootInv'
  <2>1. CASE files.certificate # 0 /\ files.key # 0
    <3>1. /\ root' = [root EXCEPT ![s] = [certificate |-> files.certificate, key |-> files.key]]
          /\ stage' = [stage EXCEPT ![s] = "loaded"]
          /\ UNCHANGED <<files, up, making, minted>> /\ up
      BY <1>1, <2>1 DEF Rooted!Load, Rooted!Missing, Rooted!Holds
    <3> QED BY <3>1, <2>1, <1>0 DEF RootInv
  <2>2. CASE ~(files.certificate # 0 /\ files.key # 0)
    <3>1. /\ stage' = [stage EXCEPT ![s] = "waiting"] /\ making' # "no"
          /\ making' = IF making = "no" THEN "computed" ELSE making
          /\ UNCHANGED <<files, up, root, minted>> /\ up
      BY <1>1, <2>2 DEF Rooted!Load, Rooted!Missing
    <3>2. files.certificate = 0 BY <2>2 DEF RootInv
    <3> QED BY <3>1, <3>2 DEF RootInv
  <2> QED BY <2>1, <2>2
<1>2. ASSUME NEW s \in Windows, Rooted!EnsureBundle(s) PROVE RootInv'
  BY <1>2 DEF Rooted!EnsureBundle, RootInv
<1>3. ASSUME NEW s \in Windows, Rooted!EnsureTruststore(s) PROVE RootInv'
  BY <1>3 DEF Rooted!EnsureTruststore, RootInv, Rooted!Missing
<1>4. CASE Rooted!WriteKey
  BY <1>4, <1>0 DEF Rooted!WriteKey, RootInv
<1>5. CASE Rooted!WriteCertificate
  BY <1>5, <1>0 DEF Rooted!WriteCertificate, RootInv, Rooted!Holds
<1>6. CASE Rooted!GenerateFails
  BY <1>6 DEF Rooted!GenerateFails, RootInv
<1>7. CASE Rooted!Kill
  BY <1>7 DEF Rooted!Kill, RootInv, Rooted!Nobody, Rooted!Missing
<1>8. CASE Rooted!StartAgent
  BY <1>8 DEF Rooted!StartAgent, RootInv
<1>9. CASE Rooted!DeleteFiles
  <2>1. /\ files' \in [{"certificate", "key", "bundle", "truststore"} -> Nat]
        /\ files'.certificate = 0 /\ files'.bundle = 0 /\ files'.truststore = 0
    BY <1>9 DEF Rooted!DeleteFiles, Rooted!NoFiles, Rooted!Missing
  <2>2. ~up /\ minted' \in Nat /\ UNCHANGED <<up, making, stage, root>>
    BY <1>9, <1>0 DEF Rooted!DeleteFiles
  <2>3. making = "no" /\ \A s \in Windows : stage[s] = "idle"
    BY <2>2 DEF RootInv
  <2> QED BY <2>1, <2>2, <2>3 DEF RootInv
<1>10. CASE UNCHANGED rootedVars
  BY <1>10 DEF rootedVars, RootInv
<1> QED BY <1>1, <1>2, <1>3, <1>4, <1>5, <1>6, <1>7, <1>8, <1>9, <1>10 DEF Rooted!Next

-----------------------------------------------------------------------------
(* CaptureGate. *)

Commands == [add : SUBSET {"anchor", "mark"}, drop : SUBSET {"anchor", "mark"}, may : BOOLEAN]
Jobs == [operation : Gate!Operations, by : {"user", "start"}, left : Seq(Commands),
         begun : BOOLEAN]

\* Only the first of the chain may have begun.
Chained(c) == c \in Seq(Jobs) /\ \A k \in DOMAIN c : c[k].begun => k = 1

\* What was observed last is what the store says, unless something happened since; and a
\* start that goes on has seen the certificate trusted.
GateInv ==
    /\ Chained(chain)
    /\ half = FALSE
    /\ ~drifted /\ status # "unknown" => status = Gate!Observed
    /\ starting = "start" => vetted

\* A job of an operation starts with all the steps of it to come.
LEMMA JobIsNew ==
    ASSUME NEW operation \in Gate!Operations, NEW by \in {"user", "start"}
    PROVE  Gate!Job(operation, by) \in Jobs /\ ~Gate!Job(operation, by).begun
<1>1. \A what \in SUBSET {"anchor", "mark"} :
          /\ Gate!Adds(what) \in Commands /\ Gate!Drops(what) \in Commands
          /\ [Gate!Drops(what) EXCEPT !.may = TRUE] \in Commands
  BY DEF Gate!Adds, Gate!Drops, Commands
<1>2. /\ {"anchor"} \in SUBSET {"anchor", "mark"} /\ {"mark"} \in SUBSET {"anchor", "mark"}
      /\ {"anchor", "mark"} \in SUBSET {"anchor", "mark"}
  OBVIOUS
<1>3. Gate!Steps(operation) \in Seq(Commands)
  <2>1. \A x, y \in Commands : <<x>> \in Seq(Commands) /\ <<x, y>> \in Seq(Commands)
    OBVIOUS
  <2>2. <<>> \in Seq(Commands) OBVIOUS
  <2> HIDE DEF Commands
  <2> QED BY <1>1, <1>2, <2>1, <2>2 DEF Gate!Steps, Gate!Operations
<1> QED BY <1>3 DEF Gate!Job, Jobs

LEMMA ChainGrows ==
    ASSUME NEW c, Chained(c), NEW job \in Jobs, ~job.begun
    PROVE  Chained(Append(c, job))
BY DEF Chained

LEMMA ChainShrinks ==
    ASSUME NEW c, Chained(c), c # <<>>
    PROVE  Chained(Tail(c))
<1>1. /\ c \in Seq(Jobs) /\ Tail(c) \in Seq(Jobs) /\ Len(Tail(c)) = Len(c) - 1
      /\ \A k \in 1 .. Len(Tail(c)) : Tail(c)[k] = c[k + 1] /\ k + 1 \in 1 .. Len(c)
  BY DEF Chained
<1>2. ASSUME NEW k \in DOMAIN Tail(c) PROVE ~Tail(c)[k].begun
  BY <1>1, <1>2 DEF Chained
<1> QED BY <1>1, <1>2 DEF Chained

LEMMA ChainGoesOn ==
    ASSUME NEW c, Chained(c), c # <<>>, NEW job \in Jobs
    PROVE  Chained(<<job>> \o Tail(c))
<1>1. /\ c \in Seq(Jobs) /\ Tail(c) \in Seq(Jobs) /\ Len(Tail(c)) = Len(c) - 1
      /\ \A k \in 1 .. Len(Tail(c)) : Tail(c)[k] = c[k + 1] /\ k + 1 \in 1 .. Len(c)
  BY DEF Chained
<1> DEFINE d == <<job>> \o Tail(c)
<1>2. /\ d \in Seq(Jobs) /\ Len(d) = Len(c)
      /\ \A k \in 1 .. Len(d) : k # 1 => (d[k] = c[k] /\ k \in 1 .. Len(c))
  BY <1>1
<1>3. ASSUME NEW k \in DOMAIN d, d[k].begun PROVE k = 1
  BY <1>2, <1>3, c \in Seq(Jobs) DEF Chained
<1> QED BY <1>2, <1>3 DEF Chained

LEMMA GateBegins == ASSUME Gate!Init PROVE GateInv
BY DEF Gate!Init, Gate!Begin, GateInv, Chained

LEMMA GateHolds == ASSUME GateInv PROVE Gate!GateHolds /\ Gate!StatusIsWhole
BY DEF GateInv, Gate!GateHolds, Gate!StatusIsWhole

\* The certificate store is observed where it stands.
LEMMA ObservedStays ==
    ASSUME UNCHANGED <<platform, trustStore>>
    PROVE  Gate!Observed' = Gate!Observed
BY DEF Gate!Observed

LEMMA GateSteps ==
    ASSUME GateInv, Gate!Next \/ UNCHANGED gateVars
    PROVE  GateInv'
<1>0. /\ Chained(chain) /\ half = FALSE /\ chain \in Seq(Jobs)
      /\ chain # <<>> => Head(chain) \in Jobs
      /\ ~drifted /\ status # "unknown" => status = Gate!Observed
  BY DEF GateInv, Chained
<1>1. CASE UNCHANGED gateVars
  BY <1>1, ObservedStays DEF gateVars, GateInv, Chained
<1>2. CASE Gate!Next
  <2> USE <1>2
  \* The chain.
  <2>1. Chained(chain')
    <3>1. ASSUME NEW job \in Jobs, Gate!Serial(job), ~job.begun PROVE Chained(chain')
      BY <3>1, <1>0, ChainGrows DEF Gate!Serial
    <3>2. ASSUME chain # <<>>, chain' = Tail(chain) PROVE Chained(chain')
      BY <3>2, <1>0, ChainShrinks
    <3>3. ASSUME Gate!Step PROVE Chained(chain')
      <4> DEFINE rest == [Head(chain) EXCEPT !.left = Tail(@), !.begun = TRUE]
      <4>1. rest \in Jobs
        <5>1. Head(chain) \in Jobs /\ Head(chain).left # <<>> BY <3>3, <1>0 DEF Gate!Step
        <5>2. Tail(Head(chain).left) \in Seq(Commands) BY <5>1 DEF Jobs
        <5> QED BY <5>1, <5>2 DEF Jobs
      <4>2. chain # <<>> /\ (chain' = <<rest>> \o Tail(chain) \/ chain' = Tail(chain))
        BY <3>3 DEF Gate!Step
      <4> HIDE DEF rest
      <4> QED BY <4>1, <4>2, <3>2, <1>0, ChainGoesOn
    <3>4. ASSUME NEW operation \in Gate!Operations, Gate!Request(operation) PROVE Chained(chain')
      BY <3>4, <3>1, JobIsNew DEF Gate!Request
    <3>5. \A operation \in {"check", "trust", "uninstall"} : operation \in Gate!Operations
      BY DEF Gate!Operations
    <3>6. CASE Gate!Refresh BY <3>6, <3>2 DEF Gate!Refresh
    <3>7. CASE Gate!CheckFails BY <3>7, <3>2 DEF Gate!CheckFails
    <3>8. CASE Gate!Uninstall
      BY <3>8, <3>1, <3>5, <1>0, JobIsNew DEF Gate!Uninstall
    <3>9. CASE Gate!Removes BY <3>9, <3>1, <3>5, JobIsNew DEF Gate!Removes
    <3>10. CASE Gate!AskStart BY <3>10, <3>1, <3>5, <1>0, JobIsNew DEF Gate!AskStart
    <3>11. CASE Gate!Answer BY <3>11, <3>1, <3>5, <1>0, JobIsNew DEF Gate!Answer
    <3>12. CASE Gate!Started \/ Gate!Stop \/ Gate!Outside
      BY <3>12, <1>0 DEF Gate!Started, Gate!Stop, Gate!Outside
    <3> QED
      BY <3>3, <3>4, <3>6, <3>7, <3>8, <3>9, <3>10, <3>11, <3>12 DEF Gate!Next, Gate!Actions
  \* The status.
  <2>2. half' = FALSE /\ (~drifted' /\ status' # "unknown" => status' = Gate!Observed')
    <3>1. CASE Gate!Refresh
      <4>1. status' = Gate!Observed /\ Gate!Observed' = Gate!Observed
        BY <3>1, ObservedStays DEF Gate!Refresh
      <4>2. half' = \E k \in DOMAIN chain : chain[k].begun /\ chain[k].left # <<>>
        BY <3>1 DEF Gate!Refresh
      <4>3. Head(chain) = chain[1] /\ Head(chain).left = <<>>
        BY <3>1, <1>0 DEF Gate!Refresh
      <4>4. \A k \in DOMAIN chain : chain[k].begun => k = 1 BY <1>0 DEF Chained
      <4> QED BY <4>1, <4>2, <4>3, <4>4
    <3>2. CASE ~Gate!Refresh
      <4>1. half' = half /\ status' = status /\ platform' = platform
            /\ (drifted' = TRUE \/ (drifted' = drifted /\ trustStore' = trustStore))
        BY <3>2 DEF Gate!Next, Gate!Actions, Gate!Request, Gate!Step, Gate!CheckFails,
           Gate!Uninstall, Gate!Removes, Gate!AskStart, Gate!Answer, Gate!Started, Gate!Stop,
           Gate!Outside
      <4> QED BY <4>1, <1>0, ObservedStays
    <3> QED BY <3>1, <3>2
  \* The start.
  <2>3. starting' = "start" => vetted'
    <3>1. vetted' = /\ starting' # "no"
                    /\ \/ vetted
                       \/ starting = "no" /\ ~required
                       \/ Gate!Observed' = "trusted"
      BY DEF Gate!Next
    <3>2. CASE Gate!Refresh
      <4>1. status' = Gate!Observed /\ Gate!Observed' = Gate!Observed
        BY <3>2, ObservedStays DEF Gate!Refresh
      <4> QED BY <3>1, <3>2, <4>1 DEF Gate!Refresh, GateInv
    <3>3. CASE ~Gate!Refresh
      <4>1. starting' = "start" => starting = "start" \/ (starting = "no" /\ ~required)
        BY <3>3 DEF Gate!Next, Gate!Actions, Gate!Request, Gate!Step, Gate!CheckFails,
           Gate!Uninstall, Gate!Removes, Gate!AskStart, Gate!Answer, Gate!Started, Gate!Stop,
           Gate!Outside
      <4> QED BY <3>1, <4>1 DEF GateInv
    <3> QED BY <3>2, <3>3
  <2> QED BY <2>1, <2>2, <2>3 DEF GateInv, Chained
<1> QED BY <1>1, <1>2

-----------------------------------------------------------------------------
(* Environment. *)

\* The terminals follow the capture, and what a session's console says was put into it.
EnvironmentInv ==
    /\ Routed!TypeOK
    /\ terminal = IF running THEN Routed!Variables(profiles) ELSE Nothing
    /\ Routed!AnnouncedIsInjected

\* Whatever is chosen, the variables are an environment.
LEMMA VariablesAreTyped ==
    ASSUME NEW some \in SUBSET Routed!Profiles, envPort \in Ports
    PROVE  Routed!Variables(some) \in Routed!Environments
BY DEF Routed!Variables, Routed!Environments

LEMMA EnvironmentBegins == ASSUME Routed!Init PROVE EnvironmentInv
<1>1. PICK p \in Ports : Routed!Begin(p) BY DEF Routed!Init
<1>2. sslHosts \in Routed!Lists
  <2>1. sslHosts \in SUBSET Routed!Patterns
    BY <1>1 DEF Routed!Begin, Routed!Patterns, Routed!Over
  <2>2. Cardinality(sslHosts) = 1 BY <1>1, FS_Singleton DEF Routed!Begin
  <2>3. MaxPatterns \in Nat \ {0} BY ControlBoundsAssumption
  <2>4. 1 <= MaxPatterns BY <2>3
  <2>5. Routed!Cardinality(sslHosts) <= MaxPatterns BY <2>2, <2>4, Cardinalities, Zenon
  <2> QED BY <2>1, <2>5, Zenon DEF Routed!Lists
<1> QED
  BY <1>1, <1>2 DEF Routed!Begin, EnvironmentInv, Routed!TypeOK, Routed!AnnouncedIsInjected,
     Routed!Profiles

\* A host that the engine decrypts is one that the extension expects.
LEMMA DecryptionIsExpected ==
    ASSUME NEW h \in Routed!Names, Routed!Intercepts(h)
    PROVE  Routed!DecryptTLS
BY DEF Routed!Intercepts, Routed!Matches, Routed!DecryptTLS

LEMMA EnvironmentHolds ==
    ASSUME EnvironmentInv
    PROVE  Routed!TerminalsTrustTheProxy /\ Routed!AnnouncedIsInjected
<1>1. ASSUME terminal # Nothing, \E h \in Routed!Names : Routed!Intercepts(h)
      PROVE  terminal.routed \subseteq terminal.trusts
  <2>1. Routed!DecryptTLS BY <1>1, DecryptionIsExpected
  <2>2. terminal = Routed!Variables(profiles) BY <1>1 DEF EnvironmentInv
  <2> QED BY <2>1, <2>2 DEF Routed!Variables
<1> QED BY <1>1 DEF EnvironmentInv, Routed!TerminalsTrustTheProxy

LEMMA EnvironmentSteps ==
    ASSUME EnvironmentInv, Routed!Next \/ UNCHANGED routedVars
    PROVE  EnvironmentInv'
<1>0. /\ running \in BOOLEAN /\ envPort \in Ports /\ profiles \in SUBSET Routed!Profiles
      /\ session \in Routed!Sessions \cup {Nothing}
  BY DEF EnvironmentInv, Routed!TypeOK
<1>1. CASE UNCHANGED routedVars
  BY <1>1 DEF routedVars, EnvironmentInv, Routed!Variables, Routed!DecryptTLS,
     Routed!AnnouncedIsInjected, Routed!TypeOK
\* Whoever calls apply leaves the terminals right.
<1>2. ASSUME Routed!Apply, running' \in BOOLEAN, envPort' \in Ports,
             profiles' \in SUBSET Routed!Profiles
      PROVE  /\ terminal' \in Routed!Environments \cup {Nothing}
             /\ terminal' = IF running' THEN Routed!Variables(profiles)' ELSE Nothing
  BY <1>2 DEF Routed!Apply, Routed!Variables, Routed!Environments
<1>3. CASE Routed!AgentState
  <2>1. UNCHANGED <<sslHosts, sslNoHosts, profiles, session, announced>>
    BY <1>3 DEF Routed!AgentState
  <2> QED
    BY <2>1, <1>0, <1>2, <1>3
    DEF Routed!AgentState, EnvironmentInv, Routed!TypeOK, Routed!AnnouncedIsInjected
<1>4. CASE Routed!ChangePreference
  <2>1. UNCHANGED <<running, envPort, envStore, session, announced>>
    BY <1>4 DEF Routed!ChangePreference
  <2>2. /\ sslHosts' \in Routed!Lists /\ sslNoHosts' \subseteq Routed!Over
        /\ profiles' \in SUBSET Routed!Profiles
    BY <1>4 DEF Routed!ChangePreference, EnvironmentInv, Routed!TypeOK
  <2>3. Routed!Apply BY <1>4 DEF Routed!ChangePreference
  <2> QED
    BY <2>1, <2>2, <2>3, <1>0, <1>2
    DEF EnvironmentInv, Routed!TypeOK, Routed!AnnouncedIsInjected
\* What a session does leaves the terminals alone.
<1>5. ASSUME UNCHANGED <<running, envPort, envStore, sslHosts, sslNoHosts, profiles, terminal>>,
             session' \in Routed!Sessions \cup {Nothing}, announced' \in Ports \cup {Nothing},
             Routed!AnnouncedIsInjected'
      PROVE  EnvironmentInv'
  BY <1>5 DEF EnvironmentInv, Routed!Variables, Routed!DecryptTLS, Routed!TypeOK
<1>6. CASE Routed!Announce
  <2>1. /\ session \in Routed!Sessions
        /\ session' = [session EXCEPT !.live = TRUE]
        /\ announced' = IF running /\ session.env # Nothing /\ session.env.proxy = envPort
                        THEN envPort ELSE Nothing
    BY <1>0, <1>6 DEF Routed!Announce
  <2>2. session' \in Routed!Sessions /\ session'.env = session.env
    BY <2>1 DEF Routed!Sessions
  <2>3. session' # Nothing BY <2>2, RecordsAssumption
  <2>4. Routed!AnnouncedIsInjected'
    BY <2>1, <2>2, <2>3 DEF Routed!AnnouncedIsInjected
  <2>5. announced' \in Ports \cup {Nothing}
    BY <1>0, <2>1
  <2> QED BY <1>5, <1>6, <2>2, <2>4, <2>5 DEF Routed!Announce
<1>7. CASE Routed!EndDebug
  BY <1>5, <1>7 DEF Routed!EndDebug, Routed!AnnouncedIsInjected
<1>8. ASSUME NEW type \in Routed!Types, NEW own \in BOOLEAN, Routed!ResolveDebug(type, own)
      PROVE  EnvironmentInv'
  <2>1. Routed!Runtimes(type) \in SUBSET Routed!Profiles
    BY DEF Routed!Runtimes, Routed!Profiles
  <2>2. /\ Routed!Variables(Routed!Runtimes(type)).proxy \in Ports
        /\ Routed!Variables(Routed!Runtimes(type)).trusts \in SUBSET Routed!Profiles
    BY <1>0, <2>1, VariablesAreTyped DEF Routed!Environments
  <2>3. Routed!Inject(type, own) \in Routed!Injected \cup {Nothing}
    BY <2>2 DEF Routed!Inject, Routed!Injected
  <2>4. session' \in Routed!Sessions
    BY <1>8, <2>3 DEF Routed!ResolveDebug, Routed!Sessions
  <2> QED BY <1>5, <1>8, <2>4 DEF Routed!ResolveDebug, Routed!AnnouncedIsInjected
<1> QED BY <1>1, <1>3, <1>4, <1>6, <1>7, <1>8 DEF Routed!Next

-----------------------------------------------------------------------------
(* EditorProxy. *)

Orders == {"enable", "disable", "synchronize", "close"}
\* From the given place on, something will make the setting follow the capture.
Follows(queue, first) ==
    \E k \in DOMAIN queue : k >= first /\ queue[k] \in {"synchronize", "close"}

\* What w put into the setting is there.
Mine(w) == value[w] # Unset /\ setting = value[w]

ProxyTyped ==
    /\ setting \in Proxy!Values /\ proxyChosen \in {Own, Unset} /\ raced \in BOOLEAN
    /\ alive \subseteq Editors /\ stranded \subseteq Ports
    /\ capturePort \in [Editors -> Ports \cup {Unset}]
    /\ value \in [Editors -> Proxy!Values] /\ previous \in [Editors -> Proxy!Values]
    /\ operations \in [Editors -> Seq(Orders)]
    /\ writing \in [Editors -> [next : Proxy!Values, previous : Proxy!Values, on : BOOLEAN]]
    /\ updateFailed \in [Editors -> BOOLEAN]

\* What a window may put back: the user's choice, or a port that was forgotten.
Right(v) == v = proxyChosen \/ v \in stranded

\* No other window holds the port v for its own.
Alone(w, v) == v \in Ports => \A x \in Editors \ {w} : value[x] # v

\* One window writes at a time: the port of its capture, in place of what it may put back, or
\* that, or nothing.
WritesRight(w) ==
    /\ operations[w] # <<>>
    /\ \A x \in Editors \ {w} : ~writing[x].on
    /\ Alone(w, writing[w].previous)
    /\ \/ /\ writing[w].next \in Ports
          /\ Head(operations[w]) \in {"enable", "synchronize"}
          /\ Right(writing[w].previous) /\ Alone(w, writing[w].next)
          /\ writing[w].next = capturePort[w] \/ Follows(operations[w], 2)
       \/ /\ Head(operations[w]) \in {"synchronize", "close"}
          /\ writing[w].next = writing[w].previous /\ Right(writing[w].next)
       \/ /\ Head(operations[w]) = "disable"
          /\ writing[w].next = Unset /\ writing[w].previous = Unset

\* A window whose value is there found what it may put back; when its value is no such thing
\* and its capture is elsewhere, it has something to do or failed; and the last that it does
\* is to close.
WindowRight(w) ==
    /\ value[w] \in {Own, Unset} => previous[w] = value[w]
    /\ writing[w].on => WritesRight(w)
    /\ Mine(w) => Right(previous[w]) /\ Alone(w, previous[w])
    /\ Mine(w) /\ ~Right(setting) =>
           /\ value[w] # capturePort[w] => updateFailed[w] \/ Follows(operations[w], 1)
           /\ w \notin alive /\ operations[w] = <<>> => updateFailed[w]
    /\ w \notin alive /\ operations[w] # <<>> => operations[w][Len(operations[w])] = "close"

\* The setting is what may be put back, or the port of a window.
ProxyRight ==
    /\ Right(setting) \/ \E w \in Editors : Mine(w) /\ value[w] \in Ports
    /\ \A w \in Editors : WindowRight(w)

\* Nothing is said of what follows a race.
ProxyInv == ProxyTyped /\ (~raced => ProxyRight)

LEMMA QueueGrows ==
    ASSUME NEW queue \in Seq(Orders), NEW order \in Orders, NEW first \in {1, 2}
    PROVE  LET longer == Append(queue, order) IN
           /\ longer \in Seq(Orders) /\ longer # <<>>
           /\ queue # <<>> => Head(longer) = Head(queue)
           /\ Follows(queue, first) => Follows(longer, first)
           /\ order \in {"synchronize", "close"} =>
                  Follows(longer, 1) /\ (queue # <<>> => Follows(longer, 2))
           /\ longer[Len(longer)] = order
<1> DEFINE longer == Append(queue, order)
<1>1. /\ longer \in Seq(Orders) /\ longer # <<>> /\ Len(longer) = Len(queue) + 1
      /\ longer[Len(queue) + 1] = order /\ Len(queue) \in Nat
      /\ \A k \in 1 .. Len(queue) : longer[k] = queue[k]
      /\ DOMAIN longer = 1 .. Len(queue) + 1 /\ DOMAIN queue = 1 .. Len(queue)
  OBVIOUS
<1>2. queue # <<>> => Head(longer) = Head(queue) /\ Len(queue) >= 1
  BY <1>1
<1>3. Follows(queue, first) => Follows(longer, first)
  BY <1>1 DEF Follows
<1>4. ASSUME order \in {"synchronize", "close"}
      PROVE  Follows(longer, 1) /\ (queue # <<>> => Follows(longer, 2))
  <2>1. Len(queue) + 1 \in DOMAIN longer /\ Len(queue) + 1 >= 1 BY <1>1
  <2>2. queue # <<>> => Len(queue) + 1 >= 2 BY <1>1, <1>2
  <2> QED BY <1>1, <1>4, <2>1, <2>2 DEF Follows
<1> QED BY <1>1, <1>2, <1>3, <1>4

LEMMA QueueShrinks ==
    ASSUME NEW queue \in Seq(Orders), queue # <<>>
    PROVE  /\ Tail(queue) \in Seq(Orders) /\ Head(queue) \in Orders
           /\ Follows(queue, 2) => Follows(Tail(queue), 1)
           /\ Follows(queue, 1) /\ Head(queue) \notin {"synchronize", "close"} =>
                  Follows(Tail(queue), 1)
           /\ Tail(queue) # <<>> => Tail(queue)[Len(Tail(queue))] = queue[Len(queue)]
           /\ Tail(queue) = <<>> => Head(queue) = queue[Len(queue)]
<1>1. /\ Tail(queue) \in Seq(Orders) /\ Len(Tail(queue)) = Len(queue) - 1 /\ Len(queue) \in Nat
      /\ Len(queue) >= 1 /\ Head(queue) = queue[1] /\ queue[1] \in Orders
      /\ \A k \in 1 .. Len(queue) - 1 : Tail(queue)[k] = queue[k + 1]
      /\ DOMAIN Tail(queue) = 1 .. Len(queue) - 1 /\ DOMAIN queue = 1 .. Len(queue)
  OBVIOUS
<1>2. ASSUME NEW k \in DOMAIN queue, k >= 2, queue[k] \in {"synchronize", "close"}
      PROVE  Follows(Tail(queue), 1)
  <2>1. k - 1 \in DOMAIN Tail(queue) /\ k - 1 >= 1 /\ (k - 1) + 1 = k BY <1>1, <1>2
  <2> QED BY <1>1, <1>2, <2>1 DEF Follows
<1>3. Follows(queue, 2) => Follows(Tail(queue), 1) BY <1>2 DEF Follows
<1>4. Follows(queue, 1) /\ Head(queue) \notin {"synchronize", "close"} => Follows(queue, 2)
  BY <1>1 DEF Follows
<1>5. Tail(queue) # <<>> => Tail(queue)[Len(Tail(queue))] = queue[Len(queue)]
  BY <1>1
<1>6. Tail(queue) = <<>> => Len(queue) = 1 BY <1>1
<1> QED BY <1>1, <1>3, <1>4, <1>5, <1>6

LEMMA ProxyBegins == ASSUME Proxy!Init PROVE ProxyInv
<1>1. PICK own \in {Own, Unset} : Proxy!Begin(own) BY DEF Proxy!Init
<1>2. ProxyTyped
  <2>1. <<>> \in Seq(Orders) OBVIOUS
  <2> QED BY <1>1, <2>1 DEF Proxy!Begin, ProxyTyped, Proxy!None, Proxy!Values
<1>3. ProxyRight
  BY <1>1 DEF Proxy!Begin, ProxyRight, Right, WindowRight, Mine, Proxy!None
<1> QED BY <1>2, <1>3 DEF ProxyInv

LEMMA ProxyHolds == ASSUME ProxyInv PROVE Proxy!ProxyIsChosen
<1> SUFFICES ASSUME Proxy!Quiet, ~Right(setting) PROVE Proxy!Used
  BY DEF Proxy!ProxyIsChosen, Right
<1>1. PICK w \in Editors : Mine(w) BY DEF ProxyInv, ProxyRight, Proxy!Quiet
<1>2. operations[w] = <<>> /\ ~updateFailed[w] BY DEF Proxy!Quiet
<1>3. ~Follows(operations[w], 1) BY <1>2 DEF Follows
<1>4. value[w] = capturePort[w] /\ value[w] # Unset /\ w \in alive
  BY <1>1, <1>2, <1>3 DEF ProxyInv, ProxyRight, WindowRight, Mine, Proxy!Quiet
<1> QED BY <1>1, <1>4 DEF Mine, Proxy!Used

\* The user, or the capture of a window, does something: one operation more to come.
LEMMA ProxyAsked ==
    ASSUME ProxyInv, ~raced, NEW w \in Editors,
           Proxy!CaptureChanges(w) \/ Proxy!Press(w) \/ Proxy!Close(w)
    PROVE  ProxyInv'
<1>1. PICK order \in Orders : operations' = [operations EXCEPT ![w] = Append(@, order)]
  BY DEF Proxy!CaptureChanges, Proxy!Press, Proxy!Close, Proxy!Enqueue, Orders
<1>2. operations \in [Editors -> Seq(Orders)] /\ operations[w] \in Seq(Orders)
  BY DEF ProxyInv, ProxyTyped
<1> DEFINE longer == Append(operations[w], order)
<1>3. /\ longer \in Seq(Orders) /\ longer # <<>>
      /\ operations[w] # <<>> => Head(longer) = Head(operations[w])
      /\ Follows(operations[w], 1) => Follows(longer, 1)
      /\ Follows(operations[w], 2) => Follows(longer, 2)
      /\ order \in {"synchronize", "close"} =>
             Follows(longer, 1) /\ (operations[w] # <<>> => Follows(longer, 2))
      /\ longer[Len(longer)] = order
  BY <1>2, QueueGrows
<1>4. operations' = [operations EXCEPT ![w] = longer]
  BY <1>1
<1> HIDE DEF longer
<1>5. operations'[w] = longer /\ \A x \in Editors \ {w} : operations'[x] = operations[x]
  BY <1>2, <1>4
<1>6. UNCHANGED <<setting, proxyChosen, raced, value, previous, writing, updateFailed, stranded>>
  BY DEF Proxy!CaptureChanges, Proxy!Press, Proxy!Close
<1>7. /\ alive' \subseteq alive /\ capturePort' \in [Editors -> Ports \cup {Unset}]
      /\ \A x \in Editors \ {w} : capturePort'[x] = capturePort[x] /\ (x \in alive' <=> x \in alive)
      /\ w \in alive
      /\ capturePort'[w] # capturePort[w] => order = "synchronize"
      /\ w \notin alive' => order = "close"
  <2>1. CASE Proxy!CaptureChanges(w)
    <3>1. operations' = [operations EXCEPT ![w] = Append(@, "synchronize")]
      BY <2>1 DEF Proxy!CaptureChanges, Proxy!Enqueue
    <3>2. order = "synchronize"
      <4>1. operations'[w] = Append(operations[w], "synchronize") BY <1>2, <3>1
      <4>2. operations'[w][Len(operations[w]) + 1] = "synchronize" BY <1>2, <4>1
      <4>3. operations'[w][Len(operations[w]) + 1] = order BY <1>2, <1>1
      <4> QED BY <4>2, <4>3
    <3> QED BY <2>1, <3>2 DEF Proxy!CaptureChanges, ProxyInv, ProxyTyped
  <2>2. CASE Proxy!Press(w)
    BY <2>2 DEF Proxy!Press, ProxyInv, ProxyTyped
  <2>3. CASE Proxy!Close(w)
    <3>1. operations' = [operations EXCEPT ![w] = Append(@, "close")]
      BY <2>3 DEF Proxy!Close
    <3>2. order = "close"
      <4>1. operations'[w] = Append(operations[w], "close") BY <1>2, <3>1
      <4>2. operations'[w][Len(operations[w]) + 1] = "close" BY <1>2, <4>1
      <4>3. operations'[w][Len(operations[w]) + 1] = order BY <1>2, <1>1
      <4> QED BY <4>2, <4>3
    <3> QED BY <2>3, <3>2 DEF Proxy!Close, ProxyInv, ProxyTyped
  <2> QED BY <2>1, <2>2, <2>3
<1>8. ProxyTyped'
  BY <1>2, <1>3, <1>4, <1>6, <1>7 DEF ProxyInv, ProxyTyped
<1>9. ASSUME NEW v \in Editors, WindowRight(v) PROVE WindowRight(v)'
  <2>1. CASE v = w
    BY <2>1, <1>3, <1>5, <1>6, <1>7, <1>9 DEF WindowRight, WritesRight, Mine, Right, Alone
  <2>2. CASE v # w
    BY <2>2, <1>5, <1>6, <1>7, <1>9 DEF WindowRight, WritesRight, Mine, Right, Alone
  <2> QED BY <2>1, <2>2
<1>10. ProxyRight'
  BY <1>6, <1>9 DEF ProxyInv, ProxyRight, Mine, Right
<1> QED BY <1>8, <1>10 DEF ProxyInv

LEMMA ProxyEdited ==
    ASSUME ProxyInv, ~raced, Proxy!UserEdits
    PROVE  ProxyInv'
<1>1. /\ setting' \in {Own, Unset} /\ proxyChosen' = setting'
      /\ raced' = (raced \/ \E w \in Editors : writing[w].on)
      /\ UNCHANGED <<alive, capturePort, value, previous, operations, writing, updateFailed,
                     stranded>>
  BY DEF Proxy!UserEdits
<1>2. ProxyTyped' BY <1>1 DEF ProxyInv, ProxyTyped, Proxy!Values
<1>3. ASSUME ~raced' PROVE ProxyRight'
  <2>1. \A w \in Editors : ~writing[w].on BY <1>1, <1>3
  <2>2. Right(setting)' BY <1>1 DEF Right
  <2>3. ASSUME NEW w \in Editors, WindowRight(w) PROVE WindowRight(w)'
    <3>1. ASSUME Mine(w)' PROVE (Right(previous[w]) /\ Alone(w, previous[w]))'
      <4>1. value[w] = Own /\ value[w] = proxyChosen' BY <1>1, <3>1 DEF Mine
      <4>2. previous[w] = Own BY <2>3, <4>1 DEF WindowRight
      <4> QED BY <1>1, <4>1, <4>2, ControlNamesAssumption DEF Right, Alone
    <3> QED BY <1>1, <2>1, <2>2, <2>3, <3>1 DEF WindowRight
  <2> QED BY <2>2, <2>3 DEF ProxyInv, ProxyRight
<1> QED BY <1>2, <1>3 DEF ProxyInv

\* An operation of w that is over, leaving the setting to what it was or as it ended: what is
\* said of the rest of its queue.
LEMMA QueueLeft ==
    ASSUME ProxyInv, NEW w \in Editors, operations[w] # <<>>,
           operations' = [operations EXCEPT ![w] = Tail(@)]
    PROVE  /\ operations' \in [Editors -> Seq(Orders)] /\ Head(operations[w]) \in Orders
           /\ \A x \in Editors \ {w} : operations'[x] = operations[x]
           /\ Follows(operations[w], 2) => Follows(operations'[w], 1)
           /\ Follows(operations[w], 1) /\ Head(operations[w]) \notin {"synchronize", "close"} =>
                  Follows(operations'[w], 1)
           /\ ~raced /\ w \notin alive =>
                  /\ operations'[w] # <<>> =>
                         operations'[w][Len(operations'[w])] = "close"
                  /\ operations'[w] = <<>> => Head(operations[w]) = "close"
<1>1. operations \in [Editors -> Seq(Orders)] /\ operations[w] \in Seq(Orders)
  BY DEF ProxyInv, ProxyTyped
<1>2. operations'[w] = Tail(operations[w]) /\ \A x \in Editors \ {w} : operations'[x] = operations[x]
  BY <1>1
<1>3. operations' \in [Editors -> Seq(Orders)] BY <1>1, QueueShrinks
<1>4. ~raced /\ w \notin alive => operations[w][Len(operations[w])] = "close"
  BY DEF ProxyInv, ProxyRight, WindowRight
<1> QED BY <1>1, <1>2, <1>3, <1>4, QueueShrinks

LEMMA ProxyRefused ==
    ASSUME ProxyInv, ~raced, NEW w \in Editors, Proxy!Refused(w)
    PROVE  ProxyInv'
<1>1. /\ operations[w] # <<>> /\ operations' = [operations EXCEPT ![w] = Tail(@)]
      /\ Head(operations[w]) = "enable" /\ ~writing[w].on
      /\ UNCHANGED <<setting, proxyChosen, raced, alive, capturePort, value, previous, writing,
                     updateFailed, stranded>>
  BY DEF Proxy!Refused
<1>2. ProxyTyped' BY <1>1, QueueLeft DEF ProxyInv, ProxyTyped
<1>3. ASSUME NEW v \in Editors, WindowRight(v) PROVE WindowRight(v)'
  <2>1. CASE v = w
    BY <2>1, <1>1, <1>3, QueueLeft DEF WindowRight, Mine, Right, Alone
  <2>2. CASE v # w
    BY <2>2, <1>1, <1>3, QueueLeft DEF WindowRight, WritesRight, Mine, Right, Alone
  <2> QED BY <2>1, <2>2
<1> QED BY <1>1, <1>2, <1>3 DEF ProxyInv, ProxyRight, Mine, Right

LEMMA ProxyGone ==
    ASSUME ProxyInv, ~raced, NEW w \in Editors, Proxy!Gone(w)
    PROVE  ProxyInv'
<1>1. /\ w \notin alive /\ operations[w] = <<>>
      /\ capturePort' = [capturePort EXCEPT ![w] = Unset]
      /\ UNCHANGED <<setting, proxyChosen, raced, alive, value, previous, operations, writing,
                     updateFailed, stranded>>
  BY DEF Proxy!Gone
<1>2. /\ capturePort' \in [Editors -> Ports \cup {Unset}]
      /\ \A x \in Editors \ {w} : capturePort'[x] = capturePort[x]
  BY <1>1 DEF ProxyInv, ProxyTyped
<1>3. ProxyTyped' BY <1>1, <1>2 DEF ProxyInv, ProxyTyped
<1>4. ASSUME NEW v \in Editors, WindowRight(v) PROVE WindowRight(v)'
  <2>1. CASE v = w
    BY <2>1, <1>1, <1>4 DEF WindowRight, WritesRight, Mine, Right, Alone
  <2>2. CASE v # w
    BY <2>2, <1>1, <1>2, <1>4 DEF WindowRight, WritesRight, Mine, Right, Alone
  <2> QED BY <2>1, <2>2
<1> QED BY <1>1, <1>3, <1>4 DEF ProxyInv, ProxyRight, Mine, Right

LEMMA ProxyFails ==
    ASSUME ProxyInv, ~raced, NEW w \in Editors, Proxy!Fails(w)
    PROVE  ProxyInv'
<1>1. /\ writing[w].on /\ writing' = [writing EXCEPT ![w] = Proxy!None]
      /\ operations' = [operations EXCEPT ![w] = Tail(@)]
      /\ updateFailed' = [updateFailed EXCEPT ![w] = TRUE]
      /\ UNCHANGED <<setting, proxyChosen, raced, alive, capturePort, value, previous, stranded>>
  BY DEF Proxy!Fails
<1>2. operations[w] # <<>> BY <1>1 DEF ProxyInv, ProxyRight, WindowRight, WritesRight
<1>3. /\ writing' \in [Editors -> [next : Proxy!Values, previous : Proxy!Values, on : BOOLEAN]]
      /\ updateFailed' \in [Editors -> BOOLEAN] /\ updateFailed'[w] = TRUE /\ ~writing'[w].on
      /\ \A x \in Editors \ {w} :
             writing'[x] = writing[x] /\ updateFailed'[x] = updateFailed[x]
  BY <1>1 DEF ProxyInv, ProxyTyped, Proxy!None, Proxy!Values
<1>4. ProxyTyped' BY <1>1, <1>2, <1>3, QueueLeft DEF ProxyInv, ProxyTyped
<1>5. ASSUME NEW v \in Editors, WindowRight(v) PROVE WindowRight(v)'
  <2>1. CASE v = w
    BY <2>1, <1>1, <1>2, <1>3, <1>5, QueueLeft DEF WindowRight, Mine, Right, Alone
  <2>2. CASE v # w
    BY <2>2, <1>1, <1>2, <1>3, <1>5, QueueLeft DEF WindowRight, WritesRight, Mine, Right, Alone
  <2> QED BY <2>1, <2>2
<1> QED BY <1>1, <1>4, <1>5 DEF ProxyInv, ProxyRight, Mine, Right

LEMMA ProxyLeft ==
    ASSUME ProxyInv, ~raced, NEW w \in Editors, Proxy!SynchronizeNothing(w)
    PROVE  ProxyInv'
<1>1. /\ operations[w] # <<>> /\ ~writing[w].on
      /\ operations' = [operations EXCEPT ![w] = Tail(@)]
      /\ updateFailed' = [updateFailed EXCEPT ![w] = FALSE]
      /\ UNCHANGED <<setting, proxyChosen, raced, alive, capturePort, writing, stranded>>
  BY DEF Proxy!SynchronizeNothing, Proxy!Synchronizing, Proxy!Done
<1>2. \/ value[w] = Unset /\ UNCHANGED <<value, previous>>
      \/ value[w] # Unset /\ setting # value[w] /\ Proxy!Forget(w)
      \/ /\ value[w] # Unset /\ setting = value[w] /\ Proxy!Target(w) = value[w]
         /\ IF Proxy!Follows(w) THEN UNCHANGED <<value, previous>> ELSE Proxy!Forget(w)
  BY DEF Proxy!SynchronizeNothing, Proxy!Owns
<1>3. /\ value' \in [Editors -> Proxy!Values] /\ previous' \in [Editors -> Proxy!Values]
      /\ \A x \in Editors \ {w} : value'[x] = value[x] /\ previous'[x] = previous[x]
      /\ \/ value'[w] = Unset /\ previous'[w] = Unset
         \/ /\ value'[w] = value[w] /\ previous'[w] = previous[w]
            /\ value[w] = capturePort[w] /\ Head(operations[w]) # "close"
  BY <1>2 DEF Proxy!Forget, Proxy!Target, Proxy!Follows, Proxy!Values, ProxyInv, ProxyTyped,
     ProxyRight, WindowRight
<1>4. /\ updateFailed' \in [Editors -> BOOLEAN]
      /\ \A x \in Editors \ {w} : updateFailed'[x] = updateFailed[x]
  BY <1>1 DEF ProxyInv, ProxyTyped
<1>5. ProxyTyped' BY <1>1, <1>3, <1>4, QueueLeft DEF ProxyInv, ProxyTyped
<1>6. \A v : Right(v)' <=> Right(v) BY <1>1 DEF Right
<1>7. ASSUME NEW x \in Editors, NEW v, Alone(x, v) PROVE Alone(x, v)'
  <2>1. \A y \in Editors : value'[y] \in {Unset, value[y]} BY <1>3
  <2> QED BY <1>7, <2>1, ControlNamesAssumption DEF Alone
<1>8. ASSUME NEW v \in Editors, WindowRight(v) PROVE WindowRight(v)'
  <2>1. CASE v = w
    <3>1. (value[w] \in {Own, Unset} => previous[w] = value[w])'
      BY <1>3, <1>8, <2>1 DEF WindowRight
    <3>2. ASSUME Mine(w)' PROVE (Right(previous[w]) /\ Alone(w, previous[w]))'
      <4>1. Mine(w) /\ previous'[w] = previous[w] BY <1>1, <1>3, <3>2 DEF Mine
      <4>2. Right(previous[w]) /\ Alone(w, previous[w]) BY <4>1, <1>8, <2>1 DEF WindowRight
      <4>3. Alone(w, previous[w])' BY <4>1, <4>2, <1>7 DEF Alone
      <4> QED BY <4>1, <4>2, <4>3, <1>6 DEF Right
    <3>3. ASSUME Mine(w)'
          PROVE  /\ value'[w] = capturePort'[w]
                 /\ ~(w \notin alive' /\ operations'[w] = <<>>)
      BY <1>1, <1>3, <3>3, QueueLeft DEF Mine
    <3>4. w \notin alive' /\ operations'[w] # <<>> =>
              operations'[w][Len(operations'[w])] = "close"
      BY <1>1, QueueLeft
    <3> QED BY <1>1, <2>1, <3>1, <3>2, <3>3, <3>4 DEF WindowRight
  <2>2. CASE v # w
    <3>1. value'[v] = value[v] /\ previous'[v] = previous[v] /\ operations'[v] = operations[v]
      BY <1>1, <1>3, <2>2, QueueLeft
    <3>2. WritesRight(v) => WritesRight(v)'
      BY <1>1, <1>6, <1>7, <3>1 DEF WritesRight
    <3>3. Alone(v, previous[v]) => Alone(v, previous[v])'
      BY <1>7, <3>1 DEF Alone
    <3> QED BY <1>1, <1>4, <1>8, <2>2, <3>1, <3>2, <3>3 DEF WindowRight, Mine, Right
  <2> QED BY <2>1, <2>2
<1>9. Right(setting)' \/ \E x \in Editors : (Mine(x) /\ value[x] \in Ports)'
  <2>1. ASSUME NEW x \in Editors, Mine(x), value[x] \in Ports, ~Right(setting)
        PROVE  (Mine(x) /\ value[x] \in Ports)'
    <3>1. CASE x # w BY <2>1, <3>1, <1>1, <1>3 DEF Mine
    <3>2. CASE x = w
      <4>1. Right(previous[w])
        BY <2>1, <3>2 DEF ProxyInv, ProxyRight, WindowRight
      <4>2. Proxy!Follows(w)
        BY <1>2, <2>1, <3>2, <4>1 DEF Proxy!Target, Mine
      <4> QED BY <1>1, <1>2, <2>1, <3>2, <4>2 DEF Mine
    <3> QED BY <3>1, <3>2
  <2>2. Right(setting) => Right(setting)' BY <1>1 DEF Right
  <2> QED BY <2>1, <2>2 DEF ProxyInv, ProxyRight
<1> QED BY <1>1, <1>5, <1>8, <1>9 DEF ProxyInv, ProxyRight

LEMMA ProxyWritten ==
    ASSUME ProxyInv, ~raced, NEW w \in Editors, Proxy!Written(w)
    PROVE  ProxyInv'
<1>0. PICK next, keep, kept :
          next = writing[w].next /\ keep = writing[w].previous /\ kept = Proxy!Remembered(w)
  OBVIOUS
<1>1. /\ writing[w].on /\ writing' = [writing EXCEPT ![w] = Proxy!None]
      /\ setting' = next
      /\ proxyChosen' = IF Head(operations[w]) = "disable" THEN Unset ELSE proxyChosen
      /\ value' = [value EXCEPT ![w] = kept]
      /\ previous' = [previous EXCEPT ![w] = IF kept = Unset THEN Unset ELSE keep]
      /\ stranded' = IF Proxy!Strands(w) THEN stranded \cup {next} ELSE stranded
      /\ operations' = [operations EXCEPT ![w] = Tail(@)]
      /\ updateFailed' = [updateFailed EXCEPT ![w] = FALSE]
      /\ UNCHANGED <<raced, alive, capturePort>>
  BY <1>0 DEF Proxy!Written, Proxy!Done
<1>2. WritesRight(w) BY <1>1 DEF ProxyInv, ProxyRight, WindowRight
<1>3. operations[w] # <<>> /\ \A x \in Editors \ {w} : ~writing[x].on
  BY <1>2 DEF WritesRight
<1>4. kept \in {next, Unset} BY <1>0 DEF Proxy!Remembered
<1>5. /\ next \in Proxy!Values /\ keep \in Proxy!Values /\ Unset \in Proxy!Values
      /\ Proxy!Strands(w) => kept = Unset /\ next \in Ports
  <2>1. next \in Proxy!Values /\ keep \in Proxy!Values /\ Unset \in Proxy!Values
    BY <1>0 DEF ProxyInv, ProxyTyped, Proxy!Values
  <2>2. ASSUME Proxy!Strands(w) PROVE kept = Unset /\ next \in Ports
    BY <1>0, <1>2, <2>2 DEF Proxy!Strands, WritesRight
  <2> QED BY <2>1, <2>2
<1>6. /\ writing' \in [Editors -> [next : Proxy!Values, previous : Proxy!Values, on : BOOLEAN]]
      /\ updateFailed' \in [Editors -> BOOLEAN]
      /\ value' \in [Editors -> Proxy!Values] /\ previous' \in [Editors -> Proxy!Values]
      /\ setting' \in Proxy!Values /\ proxyChosen' \in {Own, Unset}
      /\ stranded' \subseteq Ports /\ stranded \subseteq stranded'
  <2>1. writing' \in [Editors -> [next : Proxy!Values, previous : Proxy!Values, on : BOOLEAN]]
    BY <1>1, <1>5 DEF ProxyInv, ProxyTyped, Proxy!None
  <2>2. /\ updateFailed' \in [Editors -> BOOLEAN]
        /\ value' \in [Editors -> Proxy!Values] /\ previous' \in [Editors -> Proxy!Values]
    BY <1>1, <1>4, <1>5 DEF ProxyInv, ProxyTyped
  <2>3. /\ setting' \in Proxy!Values /\ proxyChosen' \in {Own, Unset}
        /\ stranded' \subseteq Ports /\ stranded \subseteq stranded'
    BY <1>1, <1>5 DEF ProxyInv, ProxyTyped
  <2> QED BY <2>1, <2>2, <2>3
<1>7. /\ ~writing'[w].on
      /\ value'[w] = kept /\ previous'[w] = IF kept = Unset THEN Unset ELSE keep
      /\ \A x \in Editors \ {w} :
             /\ writing'[x] = writing[x] /\ updateFailed'[x] = updateFailed[x]
             /\ value'[x] = value[x] /\ previous'[x] = previous[x]
  BY <1>1 DEF ProxyInv, ProxyTyped, Proxy!None
<1>8. ProxyTyped' BY <1>1, <1>3, <1>6, QueueLeft DEF ProxyInv, ProxyTyped
<1>9. \A v : Alone(w, v) => Alone(w, v)' BY <1>7 DEF Alone
<1>10. /\ w \notin alive' /\ operations'[w] # <<>> =>
              operations'[w][Len(operations'[w])] = "close"
       /\ \A x \in Editors \ {w} : operations'[x] = operations[x]
  BY <1>1, <1>3, QueueLeft
\* Another window: it does not write, and what it has there is the user's own proxy.
<1>11. ASSUME NEW v \in Editors \ {w}, WindowRight(v),
              Mine(v)' => (Right(setting) /\ setting \notin Ports)'
       PROVE  WindowRight(v)'
  <2>1. ~writing'[v].on BY <1>3, <1>7
  <2>2. ASSUME Mine(v)' PROVE (Right(previous[v]) /\ Alone(v, previous[v]) /\ Right(setting))'
    <3>1. value'[v] # Unset /\ value'[v] = setting' /\ setting' \notin Ports BY <1>11, <2>2 DEF Mine
    <3>2. value[v] = Own BY <3>1, <1>6, <1>7 DEF Proxy!Values
    <3>3. previous'[v] = setting' BY <3>1, <3>2, <1>7, <1>11 DEF WindowRight
    <3> QED BY <3>1, <3>3, <1>11, <2>2 DEF Right, Alone
  <2>3. (value[v] \in {Own, Unset} => previous[v] = value[v])' BY <1>7, <1>11 DEF WindowRight
  <2>4. v \notin alive' /\ operations'[v] # <<>> =>
            operations'[v][Len(operations'[v])] = "close"
    BY <1>1, <1>10, <1>11 DEF WindowRight
  <2> QED BY <2>1, <2>2, <2>3, <2>4 DEF WindowRight
\* The port of the capture is written.
<1>12. CASE /\ next \in Ports /\ Right(keep) /\ Alone(w, next)
            /\ Head(operations[w]) \in {"enable", "synchronize"}
            /\ next = capturePort[w] \/ Follows(operations[w], 2)
  <2>1. \A v : Right(v) => Right(v)' BY <1>1, <1>6, <1>12 DEF Right
  <2>2. (Right(keep) /\ Alone(w, keep))' BY <1>0, <1>2, <1>9, <1>12, <2>1 DEF WritesRight
  <2>3. kept = Unset => Right(setting)'
    <3>1. CASE next = keep BY <1>1, <2>2, <3>1
    <3>2. ASSUME next # keep, kept = Unset PROVE Right(setting)'
      <4>1. next # Unset BY <1>12, ControlNamesAssumption
      <4>2. Proxy!Strands(w) BY <1>0, <3>2, <4>1 DEF Proxy!Strands
      <4> QED BY <1>1, <4>2 DEF Right
    <3> QED BY <3>1, <3>2
  <2>4. ASSUME kept = next PROVE (Mine(w) /\ value[w] \in Ports)'
    BY <1>1, <1>7, <1>12, <2>4, ControlNamesAssumption DEF Mine
  <2>5. WindowRight(w)'
    <3>1. (value[w] \in {Own, Unset} => previous[w] = value[w])'
      BY <1>4, <1>7, <1>12, ControlNamesAssumption
    <3>2. ASSUME Mine(w)'
          PROVE  /\ (Right(previous[w]) /\ Alone(w, previous[w]))'
                 /\ value'[w] # capturePort'[w] => Follows(operations'[w], 1)
                 /\ ~(w \notin alive' /\ operations'[w] = <<>>)
      <4>1. kept = next /\ kept # Unset BY <1>4, <1>7, <3>2 DEF Mine
      <4>2. previous'[w] = keep BY <4>1, <1>7
      <4>3. (Right(previous[w]) /\ Alone(w, previous[w]))' BY <4>2, <2>2 DEF Right, Alone
      <4>4. value'[w] # capturePort'[w] => Follows(operations'[w], 1)
        BY <4>1, <1>1, <1>3, <1>7, <1>12, QueueLeft
      <4>5. ~(w \notin alive' /\ operations'[w] = <<>>) BY <1>1, <1>3, <1>12, QueueLeft
      <4> QED BY <4>3, <4>4, <4>5
    <3> QED BY <1>7, <1>10, <3>1, <3>2 DEF WindowRight
  <2>6. ASSUME NEW v \in Editors \ {w} PROVE ~Mine(v)' BY <1>1, <1>7, <1>12 DEF Mine, Alone
  <2>7. \A v \in Editors : WindowRight(v)'
    BY <1>11, <2>5, <2>6 DEF ProxyInv, ProxyRight
  <2> QED BY <1>4, <1>8, <2>3, <2>4, <2>7 DEF ProxyInv, ProxyRight
\* What may be put back is; it is kept if a capture started meanwhile.
<1>13. CASE Right(next) /\ Head(operations[w]) # "disable" /\ next = keep
  <2>1. Right(next)' BY <1>1, <1>6, <1>13 DEF Right
  <2>2. Alone(w, next) /\ Alone(w, next)' BY <1>0, <1>2, <1>9, <1>13 DEF WritesRight
  <2>3. Right(setting)' BY <1>1, <2>1 DEF Right
  <2>4. value'[w] = kept /\ previous'[w] = kept BY <1>4, <1>7, <1>13
  <2>5. WindowRight(w)'
    <3>1. Mine(w)' => (Right(previous[w]) /\ Alone(w, previous[w]))'
      BY <1>4, <2>1, <2>2, <2>4 DEF Mine, Right, Alone
    <3> QED BY <1>7, <1>10, <2>3, <2>4, <3>1 DEF WindowRight
  <2>6. ASSUME NEW v \in Editors \ {w}, Mine(v)' PROVE setting' \notin Ports
    BY <1>1, <1>7, <2>2, <2>6 DEF Mine, Alone
  <2>7. \A v \in Editors : WindowRight(v)'
    BY <1>11, <2>3, <2>5, <2>6 DEF ProxyInv, ProxyRight
  <2> QED BY <1>8, <2>3, <2>7 DEF ProxyInv, ProxyRight
\* Nothing is, as the user asked.
<1>14. CASE Head(operations[w]) = "disable" /\ next = Unset /\ keep = Unset
  <2>1. Right(setting)' /\ setting' = Unset BY <1>1, <1>14 DEF Right
  <2>2. \A v \in Editors : ~Mine(v)' BY <2>1 DEF Mine
  <2>3. WindowRight(w)' BY <1>4, <1>7, <1>10, <1>14, <2>1, <2>2 DEF WindowRight
  <2>4. \A v \in Editors : WindowRight(v)'
    BY <1>11, <2>2, <2>3 DEF ProxyInv, ProxyRight
  <2> QED BY <1>8, <2>1, <2>4 DEF ProxyInv, ProxyRight
<1> QED BY <1>0, <1>2, <1>12, <1>13, <1>14 DEF WritesRight

\* config.update is called with r: nobody else is writing, and nobody else set that value.
LEMMA ProxyWrites ==
    ASSUME ProxyInv, ~raced, NEW w \in Editors, operations[w] # <<>>, ~writing[w].on,
           NEW r \in [next : Proxy!Values, previous : Proxy!Values, on : BOOLEAN],
           r.on, writing' = [writing EXCEPT ![w] = r],
           raced' = (raced \/ Proxy!Crosses(w)),
           UNCHANGED <<setting, proxyChosen, alive, capturePort, value, previous, operations,
                       updateFailed, stranded>>,
           ~raced' =>
               /\ Alone(w, r.previous)
               /\ \/ /\ r.next \in Ports /\ Right(r.previous) /\ Alone(w, r.next)
                     /\ Head(operations[w]) \in {"enable", "synchronize"}
                     /\ r.next = capturePort[w]
                  \/ /\ Head(operations[w]) \in {"synchronize", "close"}
                     /\ r.next = r.previous /\ Right(r.next)
                  \/ /\ Head(operations[w]) = "disable"
                     /\ r.next = Unset /\ r.previous = Unset
    PROVE  ProxyInv'
<1>1. /\ writing' \in [Editors -> [next : Proxy!Values, previous : Proxy!Values, on : BOOLEAN]]
      /\ writing'[w] = r /\ \A x \in Editors \ {w} : writing'[x] = writing[x]
  BY DEF ProxyInv, ProxyTyped
<1>2. raced' \in BOOLEAN BY DEF ProxyInv, ProxyTyped
<1>3. ProxyTyped' BY <1>1, <1>2 DEF ProxyInv, ProxyTyped
<1>4. ASSUME ~raced' PROVE ProxyRight'
  <2>1. \A x \in Editors \ {w} : ~writing[x].on BY <1>1, <1>4 DEF Proxy!Crosses
  <2>2. WritesRight(w)' BY <1>1, <1>4, <2>1 DEF WritesRight, Right, Alone
  <2>3. ASSUME NEW v \in Editors, WindowRight(v) PROVE WindowRight(v)'
    <3>1. CASE v = w
      BY <3>1, <2>2, <2>3 DEF WindowRight, Mine, Right, Alone
    <3>2. CASE v # w
      BY <3>2, <1>1, <2>1, <2>3 DEF WindowRight, Mine, Right, Alone
    <3> QED BY <3>1, <3>2
  <2> QED BY <2>3 DEF ProxyInv, ProxyRight, Mine, Right
<1> QED BY <1>3, <1>4 DEF ProxyInv

LEMMA ProxyUpdated ==
    ASSUME ProxyInv, ~raced, NEW w \in Editors, Proxy!Update(w)
    PROVE  ProxyInv'
<1>1. /\ operations[w] # <<>> /\ ~writing[w].on /\ raced' = (raced \/ Proxy!Crosses(w))
      /\ UNCHANGED <<setting, proxyChosen, alive, capturePort, value, previous, operations,
                     updateFailed, stranded>>
  BY DEF Proxy!Update
<1>2. /\ capturePort[w] \in Ports \cup {Unset} /\ setting \in Proxy!Values
      /\ previous[w] \in Proxy!Values
  BY DEF ProxyInv, ProxyTyped
<1>3. CASE /\ Head(operations[w]) = "enable" /\ capturePort[w] # Unset
           /\ writing' = [writing EXCEPT ![w] = Proxy!Writes(capturePort[w], Proxy!Found(w))]
  <2> DEFINE r == Proxy!Writes(capturePort[w], Proxy!Found(w))
  <2>1. /\ r.on /\ r.next = capturePort[w] /\ r.next \in Ports
        /\ r.previous = Proxy!Found(w)
        /\ r \in [next : Proxy!Values, previous : Proxy!Values, on : BOOLEAN]
    BY <1>2, <1>3 DEF Proxy!Writes, Proxy!Found, Proxy!Values
  <2> HIDE DEF r
  <2>2. writing' = [writing EXCEPT ![w] = r] BY <1>3 DEF r
  <2>3. writing'[w] = r BY <2>2 DEF ProxyInv, ProxyTyped
  <2>4. ASSUME ~raced' PROVE Right(r.previous) /\ Alone(w, r.previous) /\ Alone(w, r.next)
    <3>1. \A x \in Editors \ {w} : value[x] \notin {setting, r.next} \cap Ports
      BY <1>1, <2>1, <2>3, <2>4 DEF Proxy!Crosses
    <3>2. Alone(w, r.next) /\ Alone(w, setting) BY <3>1 DEF Alone
    <3>3. CASE setting # value[w]
      <4>1. \A x \in Editors : ~(Mine(x) /\ value[x] \in Ports) BY <3>1, <3>3 DEF Mine
      <4>2. Right(setting) BY <4>1 DEF ProxyInv, ProxyRight
      <4> QED BY <2>1, <3>2, <3>3, <4>2 DEF Proxy!Found
    <3>4. CASE setting = value[w] /\ value[w] # Unset
      BY <2>1, <3>2, <3>4 DEF Proxy!Found, Mine, ProxyInv, ProxyRight, WindowRight
    <3>5. CASE setting = value[w] /\ value[w] = Unset
      <4>1. previous[w] = Unset BY <3>5 DEF ProxyInv, ProxyRight, WindowRight
      <4>2. Right(setting) BY <3>5 DEF ProxyInv, ProxyRight, Mine
      <4> QED BY <2>1, <3>2, <3>5, <4>1, <4>2 DEF Proxy!Found
    <3> QED BY <3>3, <3>4, <3>5
  <2> QED BY <1>1, <1>3, <2>1, <2>2, <2>4, ProxyWrites
<1>4. CASE /\ Head(operations[w]) = "disable"
           /\ writing' = [writing EXCEPT ![w] = Proxy!Writes(Unset, Unset)]
  <2> DEFINE r == Proxy!Writes(Unset, Unset)
  <2>1. /\ r.on /\ r.next = Unset /\ r.previous = Unset
        /\ r \in [next : Proxy!Values, previous : Proxy!Values, on : BOOLEAN]
    BY DEF Proxy!Writes, Proxy!Values
  <2> HIDE DEF r
  <2>2. writing' = [writing EXCEPT ![w] = r] BY <1>4 DEF r
  <2>3. Alone(w, r.previous) BY <2>1, ControlNamesAssumption DEF Alone
  <2> QED BY <1>1, <1>4, <2>1, <2>2, <2>3, ProxyWrites
<1> QED BY <1>3, <1>4 DEF Proxy!Update

LEMMA ProxySynchronized ==
    ASSUME ProxyInv, ~raced, NEW w \in Editors, Proxy!Synchronize(w)
    PROVE  ProxyInv'
<1>1. /\ operations[w] # <<>> /\ ~writing[w].on /\ raced' = (raced \/ Proxy!Crosses(w))
      /\ Head(operations[w]) \in {"synchronize", "close"} /\ Mine(w)
      /\ UNCHANGED <<setting, proxyChosen, alive, capturePort, value, previous, operations,
                     updateFailed, stranded>>
  BY DEF Proxy!Synchronize, Proxy!Synchronizing, Proxy!Owns, Mine
<1>2. /\ capturePort[w] \in Ports \cup {Unset} /\ previous[w] \in Proxy!Values
      /\ Right(previous[w]) /\ Alone(w, previous[w])
  BY <1>1 DEF ProxyInv, ProxyTyped, ProxyRight, WindowRight
<1> DEFINE r == Proxy!Writes(Proxy!Target(w), previous[w])
<1>3. /\ r.on /\ r.next = Proxy!Target(w) /\ r.previous = previous[w]
      /\ r \in [next : Proxy!Values, previous : Proxy!Values, on : BOOLEAN]
  BY <1>2 DEF Proxy!Writes, Proxy!Target, Proxy!Follows, Proxy!Values
<1>4. writing' = [writing EXCEPT ![w] = r] BY DEF Proxy!Synchronize
<1> HIDE DEF r
<1>5. writing'[w] = r BY <1>4 DEF ProxyInv, ProxyTyped
<1>6. CASE Proxy!Follows(w)
  <2>1. r.next = capturePort[w] /\ r.next \in Ports /\ Head(operations[w]) = "synchronize"
    BY <1>1, <1>2, <1>3, <1>6 DEF Proxy!Follows, Proxy!Target
  <2>2. ~raced' => Alone(w, r.next) BY <1>1, <1>5, <2>1 DEF Proxy!Crosses, Alone
  <2> QED BY <1>1, <1>2, <1>3, <1>4, <2>1, <2>2, ProxyWrites
<1>7. CASE ~Proxy!Follows(w)
  <2>1. r.next = previous[w] BY <1>3, <1>7 DEF Proxy!Target
  <2> QED BY <1>1, <1>2, <1>3, <1>4, <2>1, ProxyWrites
<1> QED BY <1>6, <1>7

LEMMA ProxySteps ==
    ASSUME ProxyInv, Proxy!Next \/ UNCHANGED proxyVars
    PROVE  ProxyInv'
<1>1. CASE UNCHANGED proxyVars
  BY <1>1 DEF proxyVars, ProxyInv, ProxyTyped, ProxyRight, WindowRight, WritesRight, Mine,
                 Right, Alone
<1>2. CASE Proxy!Next
  BY <1>2, ProxyAsked, ProxyEdited, ProxyRefused, ProxyUpdated, ProxyLeft, ProxySynchronized,
     ProxyWritten, ProxyFails, ProxyGone
  DEF Proxy!Next
<1> QED BY <1>1, <1>2

-----------------------------------------------------------------------------
(* McpEndpoint. *)

McpInv ==
    /\ Mcp!TypeOK /\ IsFiniteSet(windows)
    /\ Mcp!ServedWhileWanted
    /\ Mcp!CallsReachTheirWindow

LEMMA McpBegins == ASSUME Mcp!Init PROVE McpInv
<1>1. IsFiniteSet({}) BY FS_EmptySet
<1> QED BY <1>1 DEF Mcp!Init, Mcp!Begin, McpInv, Mcp!TypeOK, Mcp!ServedWhileWanted,
                    Mcp!CallsReachTheirWindow

\* A window that settles what it wants leaves the others served.
LEMMA McpServed ==
    ASSUME McpInv, NEW w \in Windows, windows' \in {windows, windows \cup {w}},
           sessions' = sessions \cup {w}, UNCHANGED <<wants, called>>, Mcp!HandleSettings(w)
    PROVE  McpInv'
<1>1. Mcp!TypeOK' BY DEF McpInv, Mcp!TypeOK, Mcp!HandleSettings, Mcp!Listens
<1>2. IsFiniteSet(windows') BY FS_AddElement DEF McpInv
<1>3. /\ told \in [Windows -> Ports \cup {Nothing}] /\ told' = [told EXCEPT ![w] = wants[w]]
      /\ \A o \in Windows \ {w} : told'[o] = told[o]
      /\ told'[w] = wants[w]
  BY DEF McpInv, Mcp!TypeOK, Mcp!HandleSettings
<1>4. windows \subseteq sessions /\ windows \subseteq Windows BY DEF McpInv, Mcp!TypeOK
<1>5. Mcp!ServedWhileWanted'
  <2> SUFFICES ASSUME NEW o \in windows', told'[o] # Nothing
               PROVE  port' # Nothing \/ failed'
    BY DEF Mcp!ServedWhileWanted
  <2>1. CASE Mcp!Keeps(w) /\ UNCHANGED <<port, failed>>
    <3>1. CASE o = w
      BY <2>1, <3>1, <1>3 DEF Mcp!Keeps
    <3>2. CASE o # w
      BY <2>1, <3>2, <1>3, <1>4 DEF McpInv, Mcp!ServedWhileWanted
    <3> QED BY <3>1, <3>2
  <2>2. CASE ~Mcp!Keeps(w) /\ port' = wants[w] /\ failed' = FALSE
    <3>1. CASE o = w
      BY <2>2, <3>1, <1>3
    <3>2. CASE o # w
      <4>1. o \in Mcp!Others(w) /\ told[o] # Nothing BY <3>2, <1>3, <1>4 DEF Mcp!Others
      <4>2. port = Nothing /\ wants[w] # Nothing BY <2>2, <4>1 DEF Mcp!Keeps
      <4> QED BY <2>2, <4>2
    <3> QED BY <3>1, <3>2
  <2>3. CASE failed' = TRUE
    BY <2>3
  <2> QED BY <2>1, <2>2, <2>3 DEF Mcp!HandleSettings, Mcp!Listens
<1>6. Mcp!CallsReachTheirWindow' BY DEF McpInv, Mcp!CallsReachTheirWindow
<1> QED BY <1>1, <1>2, <1>5, <1>6 DEF McpInv

\* The only window is the one that is meant.
LEMMA McpReaches ==
    ASSUME McpInv, NEW window, window \in Windows \cup {Nothing}, Mcp!Reaches(window) # Nothing
    PROVE  \/ window = Mcp!Reaches(window) /\ Mcp!Reaches(window) \in windows
           \/ window = Nothing /\ windows = {Mcp!Reaches(window)}
<1>1. windows \cap sessions = windows /\ IsFiniteSet(windows) BY DEF McpInv, Mcp!TypeOK
<1>2. CASE window = Nothing /\ Mcp!Cardinality(windows) = 1
  <2>1. PICK w : windows = {w} BY <1>1, <1>2, Cardinalities, FS_Singleton
  <2> QED BY <2>1, <1>1, <1>2 DEF Mcp!Reaches
<1>3. CASE ~(window = Nothing /\ Mcp!Cardinality(windows) = 1)
  BY <1>1, <1>3 DEF Mcp!Reaches
<1> QED BY <1>2, <1>3

LEMMA McpSteps ==
    ASSUME McpInv, Mcp!Next \/ UNCHANGED mcpVars
    PROVE  McpInv'
<1>1. ASSUME NEW w \in Windows, Mcp!Hello(w) PROVE McpInv'
  BY <1>1, McpServed DEF Mcp!Hello
<1>2. ASSUME NEW w \in Windows, Mcp!PushSettings(w) PROVE McpInv'
  <2>1. w \in sessions BY <1>2 DEF McpInv, Mcp!TypeOK, Mcp!PushSettings
  <2> QED BY <1>2, <2>1, McpServed DEF Mcp!PushSettings
<1>3. ASSUME NEW w \in Windows, Mcp!SetPort(w) PROVE McpInv'
  BY <1>3 DEF Mcp!SetPort, McpInv, Mcp!TypeOK, Mcp!ServedWhileWanted, Mcp!CallsReachTheirWindow
<1>4. ASSUME NEW w \in Windows, Mcp!LeaveWindow(w) PROVE McpInv'
  <2>1. IsFiniteSet(windows') BY <1>4, FS_RemoveElement DEF Mcp!LeaveWindow, McpInv
  <2> QED BY <1>4, <2>1 DEF Mcp!LeaveWindow, McpInv, Mcp!TypeOK, Mcp!ServedWhileWanted,
                            Mcp!CallsReachTheirWindow
<1>5. ASSUME NEW w \in Windows, Mcp!ForgetSession(w) PROVE McpInv'
  BY <1>5 DEF Mcp!ForgetSession, McpInv, Mcp!TypeOK, Mcp!ServedWhileWanted,
              Mcp!CallsReachTheirWindow
<1>6. CASE Mcp!CallTool
  <2>1. PICK window \in Windows \cup {Nothing} :
            called' = [given |-> window, reached |-> Mcp!Reaches(window), active |-> windows]
    BY <1>6 DEF Mcp!CallTool
  <2>2. /\ called'.given = window /\ called'.reached = Mcp!Reaches(window)
        /\ called'.active = windows
    BY <2>1
  <2>3. Mcp!CallsReachTheirWindow'
    BY <2>2, McpReaches DEF Mcp!CallsReachTheirWindow
  <2> QED BY <1>6, <2>3 DEF Mcp!CallTool, McpInv, Mcp!TypeOK, Mcp!ServedWhileWanted
<1>7. CASE UNCHANGED mcpVars
  BY <1>7 DEF mcpVars, McpInv, Mcp!TypeOK, Mcp!ServedWhileWanted, Mcp!CallsReachTheirWindow
<1> QED BY <1>1, <1>2, <1>3, <1>4, <1>5, <1>6, <1>7 DEF Mcp!Next

-----------------------------------------------------------------------------
(* McpListing. *)

\* The wanted ones among the newest of the rows, as many as the offset.
Among(list, newest, wanted) ==
    {n \in wanted : \E k \in 1 .. Len(list) : list[k] = n /\ k > Len(list) - newest}

\* Records that are due, were not given and will not be.
Skipped == Among(listed, offset, due \ given)

ListingTyped ==
    /\ sequence \in Nat /\ offset \in Nat /\ deleted \in Nat
    /\ listed \in Seq(1 .. sequence)
    /\ due \subseteq 1 .. sequence
    /\ phase \in {"idle", "listing", "done"}

\* A page skips no more of what is due than was deleted.
ListingInv ==
    /\ ListingTyped
    /\ phase = "listing" =>
           /\ \A n \in due : \E k \in 1 .. Len(listed) : listed[k] = n
           /\ Cardinality(Skipped) <= deleted
    /\ phase = "done" => Cardinality(due \ given) <= deleted

LEMMA SomeAreFinite ==
    ASSUME ListingTyped
    PROVE  /\ IsFiniteSet(due) /\ IsFiniteSet(due \ given) /\ IsFiniteSet(Skipped)
           /\ Cardinality(due \ given) \in Nat /\ Cardinality(Skipped) \in Nat
<1>1. IsFiniteSet(1 .. sequence) BY FS_Interval DEF ListingTyped
<1>2. due \subseteq 1 .. sequence BY DEF ListingTyped
<1>3. IsFiniteSet(due) BY <1>1, <1>2, FS_Subset
<1>4. due \ given \subseteq due /\ Skipped \subseteq due BY DEF Skipped, Among
<1>5. IsFiniteSet(due \ given) /\ IsFiniteSet(Skipped) BY <1>3, <1>4, FS_Subset
<1> QED BY <1>3, <1>5, FS_CardinalityType

\* What is skipped does not grow.
LEMMA FewerSkipped ==
    ASSUME ListingTyped, NEW S, S \subseteq Skipped, Cardinality(Skipped) <= deleted
    PROVE  Cardinality(S) <= deleted
<1>1. IsFiniteSet(Skipped) /\ Cardinality(Skipped) \in Nat BY SomeAreFinite
<1>2. Cardinality(S) <= Cardinality(Skipped) /\ IsFiniteSet(S) BY <1>1, FS_Subset
<1>3. Cardinality(S) \in Nat BY <1>2, FS_CardinalityType
<1>4. deleted \in Nat BY DEF ListingTyped
<1> QED BY <1>1, <1>2, <1>3, <1>4

\* Nor does what a listing left out.
LEMMA FewerLeftOut ==
    ASSUME ListingTyped, NEW S, S \subseteq due \ given, Cardinality(due \ given) <= deleted
    PROVE  Cardinality(S) <= deleted
<1>1. IsFiniteSet(due \ given) /\ Cardinality(due \ given) \in Nat BY SomeAreFinite
<1>2. Cardinality(S) <= Cardinality(due \ given) /\ IsFiniteSet(S) BY <1>1, FS_Subset
<1>3. Cardinality(S) \in Nat BY <1>2, FS_CardinalityType
<1>4. deleted \in Nat BY DEF ListingTyped
<1> QED BY <1>1, <1>2, <1>3, <1>4

\* Or it does by one.
LEMMA OneMoreSkipped ==
    ASSUME ListingTyped, NEW S, NEW n, S \subseteq Skipped \cup {n},
           Cardinality(Skipped) <= deleted
    PROVE  Cardinality(S) <= deleted + 1
<1>1. IsFiniteSet(Skipped) /\ Cardinality(Skipped) \in Nat BY SomeAreFinite
<1>2. /\ IsFiniteSet(Skipped \cup {n})
      /\ \/ Cardinality(Skipped \cup {n}) = Cardinality(Skipped) + 1
         \/ Cardinality(Skipped \cup {n}) = Cardinality(Skipped)
  BY <1>1, FS_AddElement
<1>3. Cardinality(S) <= Cardinality(Skipped \cup {n}) /\ IsFiniteSet(S) BY <1>2, FS_Subset
<1>4. Cardinality(S) \in Nat BY <1>3, FS_CardinalityType
<1>5. deleted \in Nat BY DEF ListingTyped
<1> QED BY <1>1, <1>2, <1>3, <1>4, <1>5

LEMMA ListingBegins == ASSUME Listing!Init PROVE ListingInv
<1>1. Cardinality({}) = 0 BY FS_EmptySet
<1> QED BY <1>1 DEF Listing!Init, ListingInv, ListingTyped

LEMMA ListingHolds == ASSUME ListingInv PROVE Listing!ListingIsComplete
BY Cardinalities DEF ListingInv, Listing!ListingIsComplete

LEMMA ListingCaptures ==
    ASSUME ListingInv, Listing!CaptureRecord
    PROVE  ListingInv'
<1>1. /\ sequence \in Nat /\ offset \in Nat /\ deleted \in Nat
      /\ listed \in Seq(1 .. sequence)
      /\ due \subseteq 1 .. sequence
      /\ phase \in {"idle", "listing", "done"}
  BY DEF ListingInv, ListingTyped
<1> DEFINE next == Append(listed, sequence + 1)
<1>2. /\ sequence' = sequence + 1 /\ listed' = next
      /\ UNCHANGED <<offset, given, due, deleted, phase>>
  BY DEF Listing!CaptureRecord
<1>3. /\ listed \in Seq(1 .. (sequence + 1))
      /\ sequence + 1 \in 1 .. (sequence + 1) /\ 1 .. sequence \subseteq 1 .. (sequence + 1)
      /\ sequence + 1 \notin 1 .. sequence /\ sequence + 1 \in Nat
  BY <1>1
<1>4. /\ next \in Seq(1 .. (sequence + 1))
      /\ Len(next) = Len(listed) + 1 /\ Len(listed) \in Nat
      /\ \A k \in 1 .. Len(listed) : next[k] = listed[k]
      /\ next[Len(listed) + 1] = sequence + 1
  BY <1>1, <1>3
<1> HIDE DEF next
<1>5. ListingTyped' BY <1>1, <1>2, <1>3, <1>4 DEF ListingTyped
<1>6. CASE phase = "listing"
  <2>1. ASSUME NEW n \in due PROVE \E k \in 1 .. Len(listed') : listed'[k] = n
    <3>1. PICK k \in 1 .. Len(listed) : listed[k] = n BY <1>6 DEF ListingInv
    <3>2. k \in 1 .. (Len(listed) + 1) BY <1>4
    <3> QED BY <3>1, <3>2, <1>2, <1>4
  <2>2. Skipped' \subseteq Skipped
    <3>1. ASSUME NEW n \in Skipped' PROVE n \in Skipped
      <4>1. n \in Among(next, offset, due \ given)
        BY <3>1, <1>2 DEF Skipped
      <4>2. PICK k \in 1 .. Len(next) : next[k] = n /\ k > Len(next) - offset
        BY <4>1 DEF Among
      <4>3. /\ k \in 1 .. (Len(listed) + 1) /\ next[k] = n
            /\ k > Len(listed) + 1 - offset
        BY <4>2, <1>1, <1>4
      <4>4. n \in due \ given BY <3>1, <1>2 DEF Skipped, Among
      <4>5. k # Len(listed) + 1 BY <4>3, <4>4, <1>1, <1>2, <1>3, <1>4
      <4>6. k \in 1 .. Len(listed) /\ k > Len(listed) - offset BY <4>3, <4>5, <1>1, <1>4
      <4> QED BY <4>3, <4>4, <4>6, <1>2, <1>4 DEF Skipped, Among
    <3> QED BY <3>1
  <2>3. Cardinality(Skipped') <= deleted
    BY <2>2, <1>6, FewerSkipped DEF ListingInv
  <2> QED BY <1>2, <1>5, <1>6, <2>1, <2>3 DEF ListingInv
<1>7. CASE phase # "listing"
  BY <1>2, <1>5, <1>7 DEF ListingInv
<1> QED BY <1>6, <1>7

\* Records that are still there leave, the first of them or one in the middle.
LEMMA ListingEvicts ==
    ASSUME ListingInv, Listing!EvictRecord
    PROVE  ListingInv'
<1>1. /\ sequence \in Nat /\ offset \in Nat /\ deleted \in Nat
      /\ listed \in Seq(1 .. sequence) /\ listed # <<>>
      /\ due \subseteq 1 .. sequence
      /\ phase \in {"idle", "listing", "done"}
  BY DEF ListingInv, ListingTyped, Listing!EvictRecord
<1>2. /\ listed' = Tail(listed) /\ due' = due \ {Head(listed)}
      /\ UNCHANGED <<sequence, offset, given, deleted, phase>>
  BY DEF Listing!EvictRecord
<1>3. /\ Tail(listed) \in Seq(1 .. sequence)
      /\ Len(Tail(listed)) = Len(listed) - 1 /\ Len(listed) \in Nat
      /\ \A k \in 1 .. (Len(listed) - 1) : Tail(listed)[k] = listed[k + 1]
      /\ Head(listed) = listed[1]
  BY <1>1
<1>4. ListingTyped' BY <1>1, <1>2, <1>3 DEF ListingTyped
<1>5. CASE phase = "listing"
  <2>1. ASSUME NEW n \in due' PROVE \E k \in 1 .. Len(listed') : listed'[k] = n
    <3>1. PICK k \in 1 .. Len(listed) : listed[k] = n BY <1>5, <1>2 DEF ListingInv
    <3>2. k # 1 BY <3>1, <1>2, <1>3
    <3>3. k - 1 \in 1 .. (Len(listed) - 1) /\ (k - 1) + 1 = k BY <3>2, <1>3
    <3> QED BY <3>1, <3>3, <1>2, <1>3
  <2>2. Skipped' \subseteq Skipped
    <3>1. ASSUME NEW n \in Skipped' PROVE n \in Skipped
      <4>1. PICK k \in 1 .. (Len(listed) - 1) :
                listed'[k] = n /\ k > Len(listed) - 1 - offset
        BY <3>1, <1>2, <1>3 DEF Skipped, Among
      <4>2. n \in due \ given BY <3>1, <1>2 DEF Skipped, Among
      <4>3. k + 1 \in 1 .. Len(listed) /\ k + 1 > Len(listed) - offset BY <4>1, <1>1, <1>3
      <4> QED BY <4>1, <4>2, <4>3, <1>2, <1>3 DEF Skipped, Among
    <3> QED BY <3>1
  <2>3. Cardinality(Skipped') <= deleted
    BY <2>2, <1>5, FewerSkipped DEF ListingInv
  <2> QED BY <1>2, <1>4, <1>5, <2>1, <2>3 DEF ListingInv
<1>6. CASE phase # "listing"
  <2>1. due' \ given' \subseteq due \ given BY <1>2
  <2>2. phase = "done" => Cardinality(due' \ given') <= deleted
    BY <2>1, FewerLeftOut DEF ListingInv
  <2> QED BY <1>2, <1>4, <1>6, <2>2 DEF ListingInv
<1> QED BY <1>5, <1>6

LEMMA ListingDeletes ==
    ASSUME ListingInv, Listing!DeleteRecord
    PROVE  ListingInv'
<1>1. /\ sequence \in Nat /\ offset \in Nat /\ deleted \in Nat /\ deleted + 1 \in Nat
      /\ listed \in Seq(1 .. sequence) /\ Len(listed) \in Nat
      /\ due \subseteq 1 .. sequence
      /\ phase \in {"idle", "listing", "done"}
  BY DEF ListingInv, ListingTyped
<1>2. PICK j \in 1 .. Len(listed) :
          listed' = Listing!RemoveAt(listed, j) /\ due' = due \ {listed[j]}
  BY <1>1 DEF Listing!DeleteRecord
<1>3. /\ UNCHANGED <<sequence, offset, given, phase>>
      /\ deleted' = IF phase = "listing" THEN deleted + 1 ELSE deleted
  BY DEF Listing!DeleteRecord
<1>4. /\ listed' \in Seq(1 .. sequence)
      /\ Len(listed') = Len(listed) - 1
      /\ \A k \in 1 .. (Len(listed) - 1) :
             listed'[k] = IF k < j THEN listed[k] ELSE listed[k + 1]
  <2>1. /\ Listing!RemoveAt(listed, j) \in Seq(1 .. sequence)
        /\ Len(Listing!RemoveAt(listed, j)) = Len(listed) - 1
        /\ \A k \in 1 .. Len(Listing!RemoveAt(listed, j)) :
               Listing!RemoveAt(listed, j)[k] = listed[IF k < j THEN k ELSE k + 1]
    BY <1>1, TakenOut DEF Listing!RemoveAt
  <2> QED BY <2>1, <1>1, <1>2
<1>5. ListingTyped' BY <1>1, <1>2, <1>3, <1>4 DEF ListingTyped
<1>6. CASE phase = "listing"
  <2>1. ASSUME NEW n \in due' PROVE \E k \in 1 .. Len(listed') : listed'[k] = n
    <3>1. PICK k \in 1 .. Len(listed) : listed[k] = n BY <1>6, <1>2 DEF ListingInv
    <3>2. k # j BY <3>1, <1>2
    <3>3. CASE k < j
      <4>1. k \in 1 .. (Len(listed) - 1) BY <3>3, <1>1
      <4> QED BY <4>1, <3>1, <3>3, <1>4
    <3>4. CASE k > j
      <4>1. k - 1 \in 1 .. (Len(listed) - 1) /\ (k - 1) + 1 = k /\ ~(k - 1 < j)
        BY <3>4, <1>1
      <4> QED BY <4>1, <3>1, <1>4
    <3> QED BY <3>2, <3>3, <3>4
  <2>2. Skipped' \subseteq Skipped \cup {listed[Len(listed) - offset]}
    <3>1. ASSUME NEW n \in Skipped', n # listed[Len(listed) - offset] PROVE n \in Skipped
      <4>1. PICK k \in 1 .. (Len(listed) - 1) :
                listed'[k] = n /\ k > Len(listed) - 1 - offset
        BY <3>1, <1>3, <1>4 DEF Skipped, Among
      <4>2. n \in due \ given BY <3>1, <1>2, <1>3 DEF Skipped, Among
      <4>3. CASE k < j
        <5>1. listed[k] = n BY <4>1, <4>3, <1>4
        <5>2. k # Len(listed) - offset BY <5>1, <3>1
        <5>3. k \in 1 .. Len(listed) /\ k > Len(listed) - offset BY <5>2, <4>1, <1>1
        <5> QED BY <5>1, <5>3, <4>2 DEF Skipped, Among
      <4>4. CASE ~(k < j)
        <5>1. listed[k + 1] = n BY <4>1, <4>4, <1>4
        <5>2. k + 1 \in 1 .. Len(listed) /\ k + 1 > Len(listed) - offset BY <4>1, <1>1
        <5> QED BY <5>1, <5>2, <4>2 DEF Skipped, Among
      <4> QED BY <4>3, <4>4
    <3> QED BY <3>1
  <2>3. Cardinality(Skipped') <= deleted + 1
    BY <2>2, <1>6, OneMoreSkipped DEF ListingInv
  <2> QED BY <1>3, <1>5, <1>6, <2>1, <2>3 DEF ListingInv
<1>7. CASE phase # "listing"
  <2>1. due' \ given' \subseteq due \ given BY <1>2, <1>3
  <2>2. phase = "done" => Cardinality(due' \ given') <= deleted
    BY <2>1, FewerLeftOut DEF ListingInv
  <2> QED BY <1>3, <1>5, <1>7, <2>2 DEF ListingInv
<1> QED BY <1>6, <1>7

LEMMA ListingStarts ==
    ASSUME ListingInv, Listing!BeginListing
    PROVE  ListingInv'
<1>1. /\ sequence \in Nat /\ deleted \in Nat
      /\ listed \in Seq(1 .. sequence) /\ Len(listed) \in Nat
  BY DEF ListingInv, ListingTyped
<1>2. /\ phase' = "listing" /\ offset' = 0 /\ given' = {} /\ deleted' = 0
      /\ due' = Listing!ToSet(listed) /\ UNCHANGED <<listed, sequence>>
  BY DEF Listing!BeginListing
<1>3. \A n : n \in due' <=> \E k \in 1 .. Len(listed) : listed[k] = n
  BY <1>1, <1>2 DEF Listing!ToSet
<1>4. due' \subseteq 1 .. sequence BY <1>1, <1>3
<1>5. ListingTyped' BY <1>1, <1>2, <1>4 DEF ListingTyped
<1>6. Skipped' = {}
  <2>1. ASSUME NEW k \in 1 .. Len(listed), k > Len(listed) - 0 PROVE FALSE
    BY <2>1, <1>1
  <2> QED BY <2>1, <1>2 DEF Skipped, Among
<1>7. Cardinality(Skipped') = 0 BY <1>6, FS_EmptySet
<1> QED BY <1>2, <1>3, <1>5, <1>7 DEF ListingInv

\* The page is the rows before those that were skipped; a listing ends when all were.
LEMMA PageIsNext ==
    ASSUME ListingTyped, NEW size \in Nat \ {0}
    PROVE  /\ Len(Listing!Page(size)) \in Nat
           /\ \A k \in 1 .. Len(listed) :
                  k > Len(listed) - (offset + Len(Listing!Page(size)))
                  /\ ~(k > Len(listed) - offset)
                      => listed[k] \in Listing!ToSet(Listing!Page(size))
           /\ Listing!Page(size) = <<>> => offset >= Len(listed)
<1>1. /\ offset \in Nat /\ listed \in Seq(1 .. sequence) /\ Len(listed) \in Nat
      /\ size \in Nat /\ size > 0
  BY DEF ListingTyped
<1> DEFINE end == IF Len(listed) > offset THEN Len(listed) - offset ELSE 0
           first == (IF end > size THEN end - size ELSE 0) + 1
           taken == SubSeq(listed, first, end)
<1>2. Listing!Page(size) = taken BY DEF Listing!Page
<1>3. /\ end \in 0 .. Len(listed) /\ first \in Nat /\ first >= 1
      /\ end = 0 <=> offset >= Len(listed)
      /\ end # 0 => (first <= end /\ end = Len(listed) - offset)
  BY <1>1
<1> HIDE DEF first, end
<1>4. SubSeq(listed, first, end) \in Seq(1 .. sequence)
  BY <1>1, <1>3, Cut
<1>5. Len(SubSeq(listed, first, end)) = IF first <= end THEN end - first + 1 ELSE 0
  BY <1>1, <1>3, Cut
<1>6. \A i \in 1 .. Len(SubSeq(listed, first, end)) :
          SubSeq(listed, first, end)[i] = listed[first + i - 1]
  BY <1>1, <1>3, Cut
<1> HIDE DEF taken
<1>7. /\ Len(taken) = IF first <= end THEN end - first + 1 ELSE 0
      /\ \A i \in 1 .. Len(taken) : taken[i] = listed[first + i - 1]
      /\ taken \in Seq(1 .. sequence)
  BY <1>4, <1>5, <1>6, Zenon DEF taken
<1>8. CASE end = 0
  BY <1>1, <1>2, <1>3, <1>7, <1>8
<1>9. CASE end # 0
  <2>1. Len(taken) = end - first + 1 /\ Len(taken) \in Nat /\ Len(taken) > 0
    BY <1>3, <1>7, <1>9
  <2>2. taken # <<>> BY <2>1
  <2>3. ASSUME NEW k \in 1 .. Len(listed),
               k > Len(listed) - (offset + Len(taken)), ~(k > Len(listed) - offset)
        PROVE  listed[k] \in Listing!ToSet(taken)
    <3>1. k - first + 1 \in 1 .. Len(taken) /\ first + (k - first + 1) - 1 = k
      BY <2>1, <2>3, <1>1, <1>3, <1>9
    <3>2. taken[k - first + 1] = listed[k] BY <3>1, <1>7
    <3> QED BY <3>1, <3>2, <1>7 DEF Listing!ToSet
  <2> QED BY <2>1, <2>2, <2>3, <1>2
<1> QED BY <1>8, <1>9

LEMMA ListingReads ==
    ASSUME ListingInv, Listing!ListRequests
    PROVE  ListingInv'
<1>1. ListingTyped /\ phase = "listing" /\ offset \in Nat /\ Len(listed) \in Nat
  BY DEF ListingInv, Listing!ListRequests, ListingTyped
<1>2. PICK size \in 1 .. MaxLimit :
          /\ given' = given \cup Listing!ToSet(Listing!Page(size))
          /\ offset' = offset + Len(Listing!Page(size))
          /\ phase' = IF Listing!Page(size) = <<>> THEN "done" ELSE "listing"
  BY DEF Listing!ListRequests
<1> DEFINE taken == Listing!Page(size)
<1>3. size \in Nat \ {0} BY ControlBoundsAssumption
<1>4. /\ Len(taken) \in Nat
      /\ \A k \in 1 .. Len(listed) :
             k > Len(listed) - (offset + Len(taken)) /\ ~(k > Len(listed) - offset)
                 => listed[k] \in Listing!ToSet(taken)
      /\ taken = <<>> => offset >= Len(listed)
  BY <1>1, <1>3, PageIsNext
<1> HIDE DEF taken
<1>5. /\ given' = given \cup Listing!ToSet(taken) /\ offset' = offset + Len(taken)
      /\ phase' = IF taken = <<>> THEN "done" ELSE "listing"
      /\ UNCHANGED <<listed, sequence, due, deleted>>
  BY <1>2 DEF Listing!ListRequests, taken
<1>6. offset + Len(taken) \in Nat BY <1>1, <1>4
<1>7. ListingTyped' BY <1>1, <1>5, <1>6 DEF ListingTyped
<1>8. Skipped' \subseteq Skipped
  <2>1. ASSUME NEW n \in Skipped' PROVE n \in Skipped
    <3>1. PICK k \in 1 .. Len(listed) :
              listed[k] = n /\ k > Len(listed) - (offset + Len(taken))
      BY <2>1, <1>5 DEF Skipped, Among
    <3>2. n \in due \ given /\ n \notin Listing!ToSet(taken) BY <2>1, <1>5 DEF Skipped, Among
    <3>3. k > Len(listed) - offset BY <3>1, <3>2, <1>4
    <3> QED BY <3>1, <3>2, <3>3 DEF Skipped, Among
  <2> QED BY <2>1
<1>9. Cardinality(Skipped') <= deleted BY <1>1, <1>8, FewerSkipped DEF ListingInv
<1>10. \A n \in due : \E k \in 1 .. Len(listed) : listed[k] = n BY <1>1 DEF ListingInv
<1>11. ASSUME taken = <<>> PROVE Cardinality(due' \ given') <= deleted
  <2>1. \A k \in 1 .. Len(listed) : k > Len(listed) - offset BY <1>1, <1>4, <1>11
  <2>2. due' \ given' \subseteq Skipped BY <2>1, <1>5, <1>10 DEF Skipped, Among
  <2> QED BY <2>2, <1>1, FewerSkipped DEF ListingInv
<1> QED BY <1>5, <1>7, <1>9, <1>10, <1>11 DEF ListingInv

LEMMA ListingSteps ==
    ASSUME ListingInv, Listing!Next \/ UNCHANGED listingVars
    PROVE  ListingInv'
<1>1. CASE UNCHANGED listingVars
  BY <1>1 DEF listingVars, ListingInv, ListingTyped, Skipped
<1> QED BY <1>1, ListingCaptures, ListingEvicts, ListingDeletes, ListingStarts, ListingReads
        DEF Listing!Next

-----------------------------------------------------------------------------
(* Composer. *)

Readings == [number : Nat, index : Nat, file : Files, parts : Seq(Composed!Part),
             stale : BOOLEAN]

\* What the body is made of once the file was read.
Finished(r) ==
    IF r.index = 0 THEN <<[Composed!NewPart EXCEPT !.file = r.file]>>
    ELSE [r.parts EXCEPT ![r.index].file = r.file]

ComposerTyped ==
    /\ Composed!TypeOK
    /\ reads \subseteq Readings
    /\ changes \in Nat /\ picks \in Nat

\* A read that still counts is the last one, of a file for what is shown, and nothing was
\* changed since it began.
Counts(r) ==
    /\ error = "reading" /\ r.parts = parts /\ asked = Finished(r)
    /\ \/ r.index = 0 /\ mode = "binary"
       \/ r.index # 0 /\ mode = "form-data" /\ r.index \in 1 .. Len(r.parts)

ComposerInv ==
    /\ ComposerTyped
    /\ \A r \in reads : ~r.stale => Counts(r)
    /\ \A r, q \in reads : ~r.stale /\ ~q.stale => r = q
    /\ Composed!ShownIsSent

LEMMA PartsAreTyped ==
    /\ Composed!NewPart \in Composed!Part
    /\ \A p \in Composed!Part :
           /\ [p EXCEPT !.on = ~@] \in Composed!Part
           /\ [p EXCEPT !.named = ~@] \in Composed!Part
           /\ [p EXCEPT !.type = IF @ = "text" THEN "file" ELSE "text"] \in Composed!Part
           /\ \A f \in Files : [p EXCEPT !.file = f] \in Composed!Part
BY DEF Composed!NewPart, Composed!Part

LEMMA EditedAreTyped ==
    ASSUME parts \in Seq(Composed!Part), NEW list \in Composed!PartEdits
    PROVE  list \in Seq(Composed!Part)
<1>1. CASE list = Append(parts, Composed!NewPart)
  BY <1>1, PartsAreTyped
<1>2. ASSUME NEW i \in 1 .. Len(parts), list = Composed!RemoveAt(parts, i)
      PROVE  list \in Seq(Composed!Part)
  BY <1>2, TakenOut DEF Composed!RemoveAt
<1>3. ASSUME NEW i \in 1 .. Len(parts),
             \/ list = [parts EXCEPT ![i].on = ~@]
             \/ list = [parts EXCEPT ![i].named = ~@]
             \/ list = [parts EXCEPT ![i].type = IF @ = "text" THEN "file" ELSE "text"]
      PROVE  list \in Seq(Composed!Part)
  <2>1. parts[i] \in Composed!Part OBVIOUS
  <2>2. PICK e \in Composed!Part : list = [parts EXCEPT ![i] = e]
    BY <1>3, <2>1, PartsAreTyped
  <2> QED BY <2>2, Replaced
<1>4. DOMAIN parts = 1 .. Len(parts) OBVIOUS
<1> QED BY <1>1, <1>2, <1>3, <1>4 DEF Composed!PartEdits

\* The reads under way are all overtaken.
LEMMA Overtaken ==
    ASSUME reads \subseteq Readings
    PROVE  Composed!Outdated \subseteq Readings /\ \A r \in Composed!Outdated : r.stale
<1>1. ASSUME NEW q \in Readings
      PROVE  [q EXCEPT !.stale = TRUE] \in Readings /\ [q EXCEPT !.stale = TRUE].stale
  BY DEF Readings
<1> QED BY <1>1 DEF Composed!Outdated

LEMMA ComposerBegins == ASSUME Composed!Init PROVE ComposerInv
<1>1. /\ mode = "none" /\ parts = <<>> /\ fileName = Nothing /\ variables = TRUE /\ error = ""
      /\ body = Composed!Bare("empty") /\ ctype = Composed!Absent /\ reads = {}
      /\ changes = 0 /\ picks = 0
  BY DEF Composed!Init
<1>2. Composed!TypeOK
  <2>1. parts \in Seq(Composed!Part) BY <1>1, ShortLists
  <2>2. ctype.of = "absent" BY <1>1 DEF Composed!Absent, Composed!Type
  <2> QED BY <1>1, <2>1, <2>2 DEF Composed!TypeOK, Composed!Modes
<1>3. Composed!ShownIsSent BY <1>1 DEF Composed!ShownIsSent
<1> QED BY <1>1, <1>2, <1>3 DEF ComposerInv, ComposerTyped

\* Typing, where every read is overtaken.
LEMMA ComposerOvertakes ==
    ASSUME ComposerTyped, reads' = Composed!Outdated, Composed!TypeOK', Composed!ShownIsSent',
           changes' \in Nat, picks' = picks
    PROVE  ComposerInv'
<1>1. Composed!Outdated \subseteq Readings /\ \A r \in Composed!Outdated : r.stale
  BY Overtaken DEF ComposerTyped
<1> QED BY <1>1 DEF ComposerInv, ComposerTyped

\* The body and the header encode the parts, or nothing is sent.
LEMMA PartsUpdated ==
    ASSUME ComposerTyped, mode = "form-data", mode' = mode, NEW list \in Seq(Composed!Part),
           Composed!UpdateParts(list, changes + 1), asked' = list,
           fileName' = fileName, variables' = variables,
           \A r \in reads' : r.parts \in Seq(Composed!Part) /\ r.file \in Files
    PROVE  Composed!TypeOK' /\ Composed!ShownIsSent'
<1>1. CASE Composed!Refused(list)
  BY <1>1 DEF ComposerTyped, Composed!TypeOK, Composed!ShownIsSent, Composed!UpdateParts
<1>2. CASE ~Composed!Refused(list)
  <2>1. /\ parts' = list /\ body' = Composed!Multipart(list, changes + 1) /\ error' = ""
        /\ ctype' = Composed!Type("form-data", changes + 1)
    BY <1>2 DEF Composed!UpdateParts
  <2>2. body'.boundary = changes + 1 BY <2>1 DEF Composed!Multipart
  <2>3. Composed!ShownIsSent' BY <2>1, <2>2 DEF Composed!ShownIsSent
  <2>4. Composed!TypeOK'
    BY <2>1 DEF ComposerTyped, Composed!TypeOK, Composed!Type, Composed!Modes
  <2> QED BY <2>3, <2>4
<1> QED BY <1>1, <1>2

LEMMA ReadingsAreTyped ==
    ASSUME NEW S, S \subseteq Readings
    PROVE  \A r \in S : r.parts \in Seq(Composed!Part) /\ r.file \in Files
BY DEF Readings

LEMMA ComposerEdits ==
    ASSUME ComposerInv, Composed!EditParts, changes' = changes + 1
    PROVE  ComposerInv'
<1>1. ComposerTyped /\ reads \subseteq Readings /\ parts \in Seq(Composed!Part) /\ changes \in Nat
  BY DEF ComposerInv, ComposerTyped, Composed!TypeOK
<1>2. PICK list \in Composed!PartEdits :
          Composed!UpdateParts(list, changes + 1) /\ asked' = list
  BY DEF Composed!EditParts
<1>3. /\ mode = "form-data" /\ reads' = Composed!Outdated
      /\ UNCHANGED <<mode, fileName, variables, picks>>
  BY DEF Composed!EditParts
<1>4. list \in Seq(Composed!Part) BY <1>1, EditedAreTyped
<1>5. reads' \subseteq Readings BY <1>1, <1>3, Overtaken
<1>6. Composed!TypeOK' /\ Composed!ShownIsSent'
  BY <1>1, <1>2, <1>3, <1>4, <1>5, ReadingsAreTyped, PartsUpdated
<1> QED BY <1>1, <1>3, <1>6, ComposerOvertakes, Successor

LEMMA ComposerPicks ==
    ASSUME ComposerInv, NEW index \in Nat, NEW file \in Files, Composed!Pick(index, file),
           changes' = changes + 1,
           \/ index = 0 /\ mode = "binary"
              /\ asked' = <<[Composed!NewPart EXCEPT !.file = file]>>
           \/ index # 0 /\ mode = "form-data" /\ index \in 1 .. Len(parts)
              /\ asked' = [parts EXCEPT ![index].file = file]
    PROVE  ComposerInv'
<1> PICK r : r = [number |-> picks, index |-> index, file |-> file, parts |-> parts,
                  stale |-> FALSE]
  OBVIOUS
<1>1. reads \subseteq Readings /\ parts \in Seq(Composed!Part) /\ changes \in Nat /\ picks \in Nat
  BY DEF ComposerInv, ComposerTyped, Composed!TypeOK
<1>2. /\ picks' = picks + 1 /\ error' = "reading" /\ reads' = Composed!Outdated \cup {r}
      /\ UNCHANGED <<mode, parts, fileName, variables, ctype>>
  BY DEF Composed!Pick
<1>3. /\ r \in Readings /\ r.index = index /\ r.file = file /\ r.parts = parts /\ ~r.stale
  BY <1>1 DEF Readings
<1>4. Counts(r)' BY <1>2, <1>3 DEF Counts, Finished, Composed!Pick
<1>5. Composed!Outdated \subseteq Readings /\ \A q \in Composed!Outdated : q.stale
  BY <1>1, Overtaken
<1>6. reads' \subseteq Readings BY <1>2, <1>3, <1>5
<1>7. \A q \in reads' : ~q.stale => q = r BY <1>2, <1>5
<1>8. \A q \in reads' : ~q.stale => Counts(q)' BY <1>7, <1>4
<1>9. Composed!ShownIsSent' BY <1>2 DEF Composed!ShownIsSent
<1>10. Composed!TypeOK'
  BY <1>2, <1>6, ReadingsAreTyped DEF ComposerInv, ComposerTyped, Composed!TypeOK
<1>11. ComposerTyped' BY <1>1, <1>2, <1>6, <1>10, Successor DEF ComposerTyped
<1> QED BY <1>7, <1>8, <1>9, <1>11 DEF ComposerInv

LEMMA ComposerReads ==
    ASSUME ComposerInv, Composed!ReadEnds, changes' = changes
    PROVE  ComposerInv'
<1>1. ComposerTyped /\ reads \subseteq Readings /\ parts \in Seq(Composed!Part) /\ changes \in Nat
  BY DEF ComposerInv, ComposerTyped, Composed!TypeOK
<1>2. PICK r \in reads :
          /\ IF r.stale THEN UNCHANGED <<parts, fileName, body, error, ctype>>
             ELSE Composed!Finish(r)
          /\ reads' = IF r.stale THEN reads \ {r}
                      ELSE Composed!Outdated \ {[r EXCEPT !.stale = TRUE]}
  BY DEF Composed!ReadEnds
<1>3. UNCHANGED <<mode, variables, asked, picks>> BY DEF Composed!ReadEnds
<1>4. r \in Readings /\ r.parts \in Seq(Composed!Part) /\ r.file \in Files BY <1>1 DEF Readings
<1>5. CASE r.stale
  <2>1. reads' \subseteq reads /\ UNCHANGED <<mode, parts, fileName, variables, body, error, ctype,
                                             asked, changes, picks>>
    BY <1>2, <1>3, <1>5
  <2> QED BY <2>1 DEF ComposerInv, ComposerTyped, Composed!TypeOK, Composed!ShownIsSent, Counts,
                      Finished
<1>6. CASE ~r.stale
  <2>1. Counts(r) BY <1>6 DEF ComposerInv
  <2>2. /\ Composed!Outdated \subseteq Readings /\ \A q \in Composed!Outdated : q.stale
        /\ reads' \subseteq Composed!Outdated
    BY <1>1, <1>2, <1>6, Overtaken
  <2>3. \A q \in reads' : q.parts \in Seq(Composed!Part) /\ q.file \in Files
    BY <2>2, ReadingsAreTyped
  <2>4. Composed!TypeOK' /\ Composed!ShownIsSent'
    <3>1. CASE r.index = 0
      <4>1. /\ mode = "binary" /\ fileName' = r.file /\ body' = Composed!Bare(r.file)
            /\ error' = "" /\ ctype' = Composed!Type("binary", 0) /\ UNCHANGED parts
            /\ asked' = <<[Composed!NewPart EXCEPT !.file = r.file]>>
        BY <3>1, <1>2, <1>3, <1>6, <2>1 DEF Composed!Finish, Counts, Finished
      <4>2. Composed!ShownIsSent' BY <4>1, <1>3 DEF Composed!ShownIsSent
      <4> QED BY <4>1, <4>2, <1>1, <1>3, <1>4, <2>3
              DEF ComposerTyped, Composed!TypeOK, Composed!Type, Composed!Modes
    <3>2. CASE r.index # 0
      <4>1. PICK list : list = [r.parts EXCEPT ![r.index].file = r.file] OBVIOUS
      <4>2. /\ mode = "form-data" /\ Composed!UpdateParts(list, changes + 1) /\ asked' = list
            /\ UNCHANGED fileName
        BY <3>2, <4>1, <1>2, <1>3, <1>6, <2>1 DEF Composed!Finish, Counts, Finished
      <4>3. list \in Seq(Composed!Part)
        <5>1. r.index \in 1 .. Len(r.parts) /\ r.parts[r.index] \in Composed!Part
          BY <3>2, <2>1, <1>4 DEF Counts
        <5>2. [r.parts[r.index] EXCEPT !.file = r.file] \in Composed!Part
          BY <5>1, <1>4, PartsAreTyped
        <5>3. list = [r.parts EXCEPT ![r.index] = [r.parts[r.index] EXCEPT !.file = r.file]]
          BY <4>1
        <5> QED BY <5>1, <5>2, <5>3, <1>4, Replaced
      <4> QED BY <4>2, <4>3, <1>1, <1>3, <2>3, PartsUpdated
    <3> QED BY <3>1, <3>2
  <2> QED BY <1>1, <1>3, <2>2, <2>4 DEF ComposerInv, ComposerTyped
<1> QED BY <1>5, <1>6

LEMMA ComposerFails ==
    ASSUME ComposerInv, Composed!ReadFails, changes' = changes
    PROVE  ComposerInv'
<1>1. PICK r \in reads :
          /\ reads' = reads \ {r}
          /\ IF r.stale THEN UNCHANGED <<body, error>>
             ELSE body' = Composed!Bare("empty") /\ error' = "unreadable"
  BY DEF Composed!ReadFails
<1>2. UNCHANGED <<mode, parts, fileName, variables, ctype, asked, picks>>
  BY DEF Composed!ReadFails
<1>3. CASE r.stale
  BY <1>1, <1>2, <1>3 DEF ComposerInv, ComposerTyped, Composed!TypeOK, Composed!ShownIsSent, Counts,
                          Finished
<1>4. CASE ~r.stale
  <2>1. \A q \in reads' : q.stale BY <1>1, <1>4 DEF ComposerInv
  <2>2. Composed!ShownIsSent' BY <1>1, <1>4 DEF Composed!ShownIsSent
  <2> QED BY <1>1, <1>2, <1>4, <2>1, <2>2 DEF ComposerInv, ComposerTyped, Composed!TypeOK
<1> QED BY <1>3, <1>4

\* What the user does that leaves the reads or overtakes them.
LEMMA ComposerChanges ==
    ASSUME ComposerInv, changes' = changes + 1,
           \/ Composed!EditGraphQL \/ Composed!ChangeMode \/ Composed!TypeText
           \/ Composed!EditType \/ Composed!LoadDraft \/ Composed!LeaveComposer
    PROVE  ComposerInv'
<1>1. /\ ComposerTyped /\ reads \subseteq Readings /\ parts \in Seq(Composed!Part)
      /\ changes \in Nat /\ changes' \in Nat
  BY Successor DEF ComposerInv, ComposerTyped, Composed!TypeOK
<1>2. \A q \in Composed!Outdated : q.parts \in Seq(Composed!Part) /\ q.file \in Files
  BY <1>1, Overtaken, ReadingsAreTyped
<1>3. CASE Composed!EditGraphQL
  <2>1. mode = "GraphQL" /\ UNCHANGED <<mode, parts, fileName, reads, asked, picks>>
        /\ variables' \in BOOLEAN
    BY <1>3 DEF Composed!EditGraphQL
  <2>2. \A r \in reads' : r.stale BY <2>1 DEF ComposerInv, Counts
  <2>3. Composed!ShownIsSent' BY <1>3, <2>1 DEF Composed!EditGraphQL, Composed!ShownIsSent
  <2>4. /\ error' \in {"", "variables"}
        /\ ctype'.of = "GraphQL" \/ ctype' = ctype
    <3>1. \/ error' = "" /\ ctype' = Composed!Type("GraphQL", 0)
          \/ error' = "variables" /\ ctype' = ctype
      BY <1>3, Zenon DEF Composed!EditGraphQL
    <3>2. Composed!Type("GraphQL", 0).of = "GraphQL" BY DEF Composed!Type
    <3> QED BY <3>1, <3>2, Zenon
  <2>5. Composed!TypeOK'
    BY <1>1, <2>1, <2>4 DEF ComposerTyped, Composed!TypeOK, Composed!Modes
  <2> QED BY <1>1, <2>1, <2>2, <2>3, <2>5 DEF ComposerInv, ComposerTyped
<1>4. CASE Composed!ChangeMode
  <2>1. PICK m \in Composed!Modes \ {mode} :
            /\ mode' = m
            /\ parts' = IF m = "form-data" THEN <<Composed!NewPart>> ELSE <<>>
            /\ asked' = parts'
            /\ error' = IF m = "binary" THEN "choose a file" ELSE ""
            /\ body' = CASE m = "form-data" ->
                                 Composed!Multipart(<<Composed!NewPart>>, changes + 1)
                         [] m = "GraphQL" -> Composed!Bare("query")
                         [] m = "raw" -> Composed!Text
                         [] OTHER -> Composed!Bare("empty")
            /\ ctype' = IF m = "none" THEN Composed!Absent
                        ELSE Composed!Type(m, IF m = "form-data" THEN changes + 1 ELSE 0)
    BY <1>4 DEF Composed!ChangeMode
  <2>2. fileName' = Nothing /\ variables' = TRUE /\ reads' = Composed!Outdated /\ picks' = picks
    BY <1>4 DEF Composed!ChangeMode
  <2>3. CASE m = "form-data"
    <3>1. /\ mode' = "form-data" /\ parts' = <<Composed!NewPart>> /\ asked' = parts'
          /\ body' = Composed!Multipart(<<Composed!NewPart>>, changes + 1) /\ error' = ""
          /\ ctype' = Composed!Type("form-data", changes + 1)
      BY <2>1, <2>3
    <3>2. body'.boundary = changes + 1 BY <3>1 DEF Composed!Multipart
    <3>3. Composed!ShownIsSent' BY <3>1, <3>2 DEF Composed!ShownIsSent
    <3>4. parts' \in Seq(Composed!Part) BY <3>1, PartsAreTyped, ShortLists
    <3>5. Composed!TypeOK'
      BY <3>1, <3>4, <1>2, <2>2 DEF Composed!TypeOK, Composed!Type, Composed!Modes
    <3> QED BY <3>3, <3>5, <1>1, <2>2, ComposerOvertakes
  <2>4. CASE m # "form-data"
    <3>1. /\ mode' = m /\ parts' = <<>> /\ error' = IF m = "binary" THEN "choose a file" ELSE ""
          /\ body' = IF m = "GraphQL" THEN Composed!Bare("query")
                     ELSE IF m = "raw" THEN Composed!Text ELSE Composed!Bare("empty")
          /\ ctype' = IF m = "none" THEN Composed!Absent ELSE Composed!Type(m, 0)
          /\ m \in Composed!Modes
      BY <2>1, <2>4
    <3>2. Composed!Text.of \in {"text", "empty"} BY DEF Composed!Text, Composed!Bare
    <3>3. Composed!ShownIsSent'
      BY <3>1, <3>2, <2>2, <2>4 DEF Composed!ShownIsSent, Composed!Modes
    <3>4. ctype'.of \in Composed!Modes \cup {"absent", "hand"}
      BY <3>1 DEF Composed!Type, Composed!Absent
    <3>5. parts' \in Seq(Composed!Part) BY <3>1, ShortLists
    <3>6. Composed!TypeOK' BY <3>1, <3>4, <3>5, <1>2, <2>2 DEF Composed!TypeOK
    <3> QED BY <3>3, <3>6, <1>1, <2>2, ComposerOvertakes
  <2> QED BY <2>3, <2>4
<1>5. CASE Composed!TypeText
  <2>1. /\ mode = "raw" /\ body'.of \in {"text", "empty"}
        /\ UNCHANGED <<mode, parts, fileName, variables, error, ctype, reads, asked, picks>>
    BY <1>5 DEF Composed!TypeText, Composed!Bare
  <2>2. \A r \in reads' : r.stale BY <2>1 DEF ComposerInv, Counts
  <2>3. Composed!ShownIsSent' BY <2>1 DEF Composed!ShownIsSent
  <2> QED BY <1>1, <2>1, <2>2, <2>3 DEF ComposerInv, ComposerTyped, Composed!TypeOK
<1>6. CASE Composed!EditType
  <2>1. /\ mode \in {"form-data", "binary", "GraphQL"}
        /\ ctype' \in {Composed!Hand, Composed!Absent}
        /\ UNCHANGED <<mode, parts, fileName, variables, body, error, reads, asked, picks>>
    BY <1>6 DEF Composed!EditType, Composed!Advanced
  <2>2. Composed!ShownIsSent' BY <2>1 DEF ComposerInv, Composed!ShownIsSent
  <2>3. ctype'.of \in {"absent", "hand"}
    BY <2>1 DEF Composed!Hand, Composed!Absent, Composed!Type
  <2>4. Composed!TypeOK' BY <2>1, <2>3, <1>1 DEF ComposerTyped, Composed!TypeOK
  <2> QED BY <1>1, <2>1, <2>2, <2>4 DEF ComposerInv, ComposerTyped, Counts, Finished
<1>7. CASE Composed!LoadDraft
  <2>1. PICK m \in {"none", "raw"} :
            /\ mode' = m
            /\ body' = Composed!Bare(IF m = "raw" THEN "text" ELSE "empty")
            /\ ctype' = IF m = "raw" THEN Composed!Type("raw", 0) ELSE Composed!Absent
    BY <1>7 DEF Composed!LoadDraft
  <2>2. /\ parts' = <<>> /\ fileName' = Nothing /\ variables' = TRUE /\ error' = ""
        /\ reads' = Composed!Outdated /\ picks' = picks
    BY <1>7 DEF Composed!LoadDraft
  <2>3. Composed!ShownIsSent' BY <2>1, <2>2 DEF Composed!ShownIsSent, Composed!Bare
  <2>4. parts' \in Seq(Composed!Part) BY <2>2, ShortLists
  <2>5. ctype'.of \in {"raw", "absent"} BY <2>1 DEF Composed!Type, Composed!Absent
  <2>6. Composed!TypeOK' BY <2>1, <2>2, <2>4, <2>5, <1>2 DEF Composed!TypeOK, Composed!Modes
  <2> QED BY <2>2, <2>3, <2>6, <1>1, ComposerOvertakes
<1>8. CASE Composed!LeaveComposer
  <2>1. /\ reads' = Composed!Outdated
        /\ UNCHANGED <<mode, parts, fileName, variables, body, error, ctype, asked, picks>>
    BY <1>8 DEF Composed!LeaveComposer
  <2>2. Composed!ShownIsSent' BY <2>1 DEF ComposerInv, Composed!ShownIsSent
  <2>3. Composed!TypeOK' BY <2>1, <1>1, <1>2 DEF ComposerTyped, Composed!TypeOK
  <2> QED BY <2>1, <2>2, <2>3, <1>1, ComposerOvertakes
<1> QED BY <1>3, <1>4, <1>5, <1>6, <1>7, <1>8

LEMMA ComposerSteps ==
    ASSUME ComposerInv, Composed!Next \/ UNCHANGED composedVars
    PROVE  ComposerInv'
<1>1. CASE UNCHANGED composedVars
  BY <1>1 DEF composedVars, ComposerInv, ComposerTyped, Composed!TypeOK, Composed!ShownIsSent,
              Counts, Finished
<1>2. CASE Composed!PickBody /\ changes' = changes + 1
  <2>1. PICK file \in Files :
            /\ Composed!Pick(0, file)
            /\ asked' = <<[Composed!NewPart EXCEPT !.file = file]>>
    BY <1>2 DEF Composed!PickBody
  <2> QED BY <2>1, <1>2, ComposerPicks DEF Composed!PickBody
<1>3. CASE Composed!PickPart /\ changes' = changes + 1
  <2>1. parts \in Seq(Composed!Part) BY DEF ComposerInv, ComposerTyped, Composed!TypeOK
  <2>2. PICK i \in DOMAIN parts, file \in Files :
            Composed!Pick(i, file) /\ asked' = [parts EXCEPT ![i].file = file]
    BY <1>3, Zenon DEF Composed!PickPart
  <2>3. i \in 1 .. Len(parts) /\ i \in Nat /\ i # 0 BY <2>1
  <2> QED BY <2>2, <2>3, <1>3, ComposerPicks DEF Composed!PickPart
<1>4. CASE (Composed!ReadEnds \/ Composed!ReadFails) /\ UNCHANGED changes
  BY <1>4, ComposerReads, ComposerFails
<1>5. CASE Composed!EditParts /\ changes' = changes + 1
  BY <1>5, ComposerEdits
<1>6. CASE /\ \/ Composed!EditGraphQL \/ Composed!ChangeMode \/ Composed!TypeText
              \/ Composed!EditType \/ Composed!LoadDraft \/ Composed!LeaveComposer
           /\ changes' = changes + 1
  BY <1>6, ComposerChanges
<1> QED BY <1>1, <1>2, <1>3, <1>4, <1>5, <1>6 DEF Composed!Next, Composed!UserStep

-----------------------------------------------------------------------------
(* RulesEditor. *)

EditorTyped ==
    /\ page \in Editor!Lists \cup {Nothing} /\ saving \in Editor!Lists \cup {Nothing}
    /\ rulesToHost \in Seq(Editor!Lists) /\ rulesToPage \in Seq(Editor!Lists)
    /\ store \in Editor!Lists /\ snapshot \in Editor!Lists /\ rulesTold \in Editor!Lists
    /\ Editor!Valid(store)

\* While the store is as the last refresh saw it, what was sent last is the store.  A page to
\* which nothing is on its way shows that, or the rules it has sent, or some that are refused.
EditorInv ==
    /\ EditorTyped
    /\ page = Nothing => saving = Nothing /\ rulesToHost = <<>> /\ rulesToPage = <<>>
    /\ saving # Nothing => page = saving
    /\ ~undone /\ snapshot = store =>
           /\ connected => rulesTold = store
           /\ rulesToPage # <<>> => rulesToPage[Len(rulesToPage)] = store
    /\ ~undone /\ page # Nothing /\ rulesToPage = <<>> /\ saving = Nothing =>
           \/ snapshot = store => page = store
           \/ rulesToHost # <<>> /\ page = rulesToHost[Len(rulesToHost)]
           \/ ~Editor!Valid(page)

\* A rule is put at the end, taken out, or replaced by one of its identity.
LEMMA RuleAdded ==
    ASSUME NEW list \in Editor!Lists, NEW next \in Editor!Added(list)
    PROVE  next \in Editor!Lists /\ (Editor!Valid(list) => Editor!Valid(next))
<1>1. PICK id \in RuleIds \ {list[i].id : i \in DOMAIN list}, kind1 \in Kinds :
          next = Append(list, Editor!NewRule(id, kind1))
  BY DEF Editor!Added
<1> DEFINE new == Editor!NewRule(id, kind1)
<1>2. new \in Editor!Rule /\ new.id = id /\ new.field = "fresh"
  BY DEF Editor!NewRule, Editor!Rule
<1> HIDE DEF new
<1>3. list \in Seq(Editor!Rule) /\ Len(list) \in Nat BY DEF Editor!Lists
<1>4. /\ next \in Seq(Editor!Rule) /\ Len(next) = Len(list) + 1 /\ next[Len(list) + 1] = new
      /\ \A k \in 1 .. Len(list) : next[k] = list[k]
  BY <1>1, <1>2, <1>3 DEF new
<1>5. DOMAIN next = 1 .. Len(list) + 1 /\ DOMAIN list = 1 .. Len(list) BY <1>3, <1>4
<1>6. \A k \in 1 .. Len(list) : list[k].id # id BY <1>5
<1>7. \A i, j \in DOMAIN list : list[i].id = list[j].id => i = j BY DEF Editor!Lists
<1>8. \A k \in DOMAIN next : k \in DOMAIN list \/ k = Len(list) + 1 BY <1>3, <1>5
<1>9. \A i, j \in DOMAIN next : next[i].id = next[j].id => i = j
  BY <1>2, <1>4, <1>5, <1>6, <1>7, <1>8
<1> QED BY <1>2, <1>4, <1>5, <1>8, <1>9 DEF Editor!Lists, Editor!Valid

LEMMA RuleRemoved ==
    ASSUME NEW list \in Editor!Lists, NEW next \in Editor!Removed(list)
    PROVE  next \in Editor!Lists /\ (Editor!Valid(list) => Editor!Valid(next))
<1>1. list \in Seq(Editor!Rule) /\ Len(list) \in Nat /\ DOMAIN list = 1 .. Len(list)
  BY DEF Editor!Lists
<1>2. PICK i \in 1 .. Len(list) : next = Editor!RemoveAt(list, i)
  BY <1>1 DEF Editor!Removed
<1>3. /\ next \in Seq(Editor!Rule) /\ Len(next) = Len(list) - 1
      /\ \A k \in 1 .. Len(next) : next[k] = list[IF k < i THEN k ELSE k + 1]
  BY <1>1, <1>2, TakenOut DEF Editor!RemoveAt
<1>4. \A k \in 1 .. Len(next) : (IF k < i THEN k ELSE k + 1) \in DOMAIN list
  BY <1>1, <1>3
<1>5. DOMAIN next = 1 .. Len(next) BY <1>3
<1>6. \A j, k \in DOMAIN list : list[j].id = list[k].id => j = k BY DEF Editor!Lists
<1>7. ASSUME NEW j \in DOMAIN next, NEW k \in DOMAIN next, next[j].id = next[k].id
       PROVE  j = k
  <2>1. (IF j < i THEN j ELSE j + 1) = (IF k < i THEN k ELSE k + 1)
    BY <1>3, <1>4, <1>5, <1>6, <1>7
  <2> QED BY <2>1, <1>1, <1>3, <1>5
<1>8. next \in Editor!Lists BY <1>3, <1>7 DEF Editor!Lists
<1>9. \A k \in DOMAIN next : \E j \in DOMAIN list : next[k] = list[j] BY <1>3, <1>4, <1>5
<1> QED BY <1>8, <1>9 DEF Editor!Valid

LEMMA RuleReplaced ==
    ASSUME NEW list \in Editor!Lists, NEW i \in DOMAIN list, NEW r \in Editor!Rule,
           r.id = list[i].id
    PROVE  [list EXCEPT ![i] = r] \in Editor!Lists
<1>1. list \in Seq(Editor!Rule) /\ DOMAIN list = 1 .. Len(list) BY DEF Editor!Lists
<1> DEFINE next == [list EXCEPT ![i] = r]
<1>2. next \in Seq(Editor!Rule) BY <1>1, Replaced
<1>3. DOMAIN next = DOMAIN list /\ \A k \in DOMAIN list : next[k].id = list[k].id
  BY <1>1
<1> HIDE DEF next
<1>4. \A j, k \in DOMAIN next : next[j].id = next[k].id => j = k
  BY <1>3 DEF Editor!Lists
<1>5. next \in Editor!Lists BY <1>2, <1>4 DEF Editor!Lists
<1> QED BY <1>5 DEF next

LEMMA RulesEdited ==
    ASSUME NEW list \in Editor!Lists, NEW next \in Editor!Edited(list)
    PROVE  next \in Editor!Lists
<1>1. list \in Seq(Editor!Rule) /\ DOMAIN list = 1 .. Len(list) /\ Len(list) \in Nat
  BY DEF Editor!Lists
<1>2. CASE next \in Editor!Moved(list)
  <2>1. PICK i \in 1 .. Len(list) :
            /\ i + 1 \in 1 .. Len(list)
            /\ next = [list EXCEPT ![i] = list[i + 1], ![i + 1] = list[i]]
    BY <1>1, <1>2 DEF Editor!Moved
  <2>2. i # i + 1 /\ list[i] \in Editor!Rule /\ list[i + 1] \in Editor!Rule BY <2>1, <1>1
  <2>3. [list EXCEPT ![i] = list[i + 1]] \in Seq(Editor!Rule) BY <2>2, <1>1, Replaced
  <2>4. next \in Seq(Editor!Rule) BY <2>1, <2>2, <2>3, <1>1
  <2> DEFINE from(k) == IF k = i THEN i + 1 ELSE IF k = i + 1 THEN i ELSE k
  <2>5. /\ DOMAIN next = 1 .. Len(list)
        /\ \A k \in 1 .. Len(list) : next[k] = list[from(k)] /\ from(k) \in 1 .. Len(list)
    BY <2>1, <2>2, <1>1
  <2>6. \A j, k \in DOMAIN list : list[j].id = list[k].id => j = k BY DEF Editor!Lists
  <2>7. ASSUME NEW j \in DOMAIN next, NEW k \in DOMAIN next, next[j].id = next[k].id
        PROVE  j = k
    <3>1. from(j) = from(k) BY <1>1, <2>5, <2>6, <2>7
    <3> QED BY <3>1, <2>2, <2>5
  <2> QED BY <2>4, <2>7 DEF Editor!Lists
<1>3. CASE next \in Editor!Typed(list)
  <2>1. PICK i \in DOMAIN list, f \in {"typed", "refused"} : next = [list EXCEPT ![i].field = f]
    BY <1>3 DEF Editor!Typed
  <2>2. list[i] \in Editor!Rule BY <1>1
  <2> DEFINE r == [list[i] EXCEPT !.field = f]
  <2>3. r \in Editor!Rule /\ r.id = list[i].id BY <2>2 DEF Editor!Rule
  <2>4. next = [list EXCEPT ![i] = r] BY <2>1
  <2> HIDE DEF r
  <2> QED BY <2>3, <2>4, RuleReplaced
<1>4. CASE next \in Editor!Rekinded(list)
  <2>1. PICK i \in DOMAIN list, k \in Kinds : next = [list EXCEPT ![i] = Editor!NewRule(list[i].id, k)]
    BY <1>4 DEF Editor!Rekinded
  <2>2. list[i] \in Editor!Rule BY <1>1
  <2> DEFINE r == Editor!NewRule(list[i].id, k)
  <2>3. r \in Editor!Rule /\ r.id = list[i].id BY <2>2 DEF Editor!Rule, Editor!NewRule
  <2> HIDE DEF r
  <2>4. next = [list EXCEPT ![i] = r] BY <2>1 DEF r
  <2> QED BY <2>3, <2>4, RuleReplaced
<1> QED BY <1>2, <1>3, <1>4, RuleAdded, RuleRemoved DEF Editor!Edited

LEMMA EditorBegins == ASSUME Editor!Init PROVE EditorInv
<1>1. PICK list : /\ list \in {<<>>} \cup {<<Editor!NewRule(id, k)>> : id \in RuleIds, k \in Kinds}
                  /\ Editor!Begin(list)
  BY DEF Editor!Init
<1>2. list \in Editor!Lists /\ Editor!Valid(list)
  <2>1. CASE list = <<>>
    BY <2>1 DEF Editor!Lists, Editor!Valid
  <2>2. ASSUME NEW id \in RuleIds, NEW k \in Kinds, list = <<Editor!NewRule(id, k)>>
        PROVE  list \in Editor!Lists /\ Editor!Valid(list)
    <3>1. Editor!NewRule(id, k) \in Editor!Rule /\ Editor!NewRule(id, k).field = "fresh"
      BY DEF Editor!NewRule, Editor!Rule
    <3> QED BY <2>2, <3>1 DEF Editor!Lists, Editor!Valid
  <2> QED BY <1>1, <2>1, <2>2
<1> QED BY <1>1, <1>2 DEF Editor!Begin, EditorInv, EditorTyped

LEMMA EditorHolds == ASSUME EditorInv PROVE Editor!RulesSettle
BY DEF EditorInv, Editor!RulesSettle, Editor!AtRest

\* What the store holds next, whoever changes it: a page that showed the stored rules shows
\* them still, or a refresh will tell it, unless the change undoes one nobody saw.
LEMMA EditorStores ==
    ASSUME EditorInv, store' \in Editor!Lists, Editor!Valid(store'), Editor!Undo,
           UNCHANGED <<page, saving, rulesToPage, snapshot, rulesTold, connected>>,
           \/ UNCHANGED rulesToHost
           \/ /\ rulesToHost # <<>> /\ rulesToHost' = Tail(rulesToHost)
              /\ store' = IF Editor!Valid(Head(rulesToHost)) THEN Head(rulesToHost) ELSE store
    PROVE  EditorInv'
<1>1. EditorTyped BY DEF EditorInv
<1>2. undone \in BOOLEAN => undone' \in BOOLEAN BY DEF Editor!Undo
<1>3. rulesToHost # <<>> =>
          /\ Head(rulesToHost) \in Editor!Lists /\ Tail(rulesToHost) \in Seq(Editor!Lists)
          /\ Tail(rulesToHost) = <<>> => Head(rulesToHost) = rulesToHost[Len(rulesToHost)]
          /\ Tail(rulesToHost) # <<>> =>
                 Tail(rulesToHost)[Len(Tail(rulesToHost))] = rulesToHost[Len(rulesToHost)]
  BY <1>1, Taken DEF EditorTyped
<1>4. EditorTyped' BY <1>1, <1>3 DEF EditorTyped
<1>5. ~undone' /\ snapshot' = store' => ~undone /\ store = snapshot /\ store' = store
  BY DEF Editor!Undo
<1>6. ~undone' => ~undone BY DEF Editor!Undo
<1>7. page = Nothing => rulesToHost = <<>> /\ rulesToHost' = <<>> BY DEF EditorInv
<1>8. ASSUME ~undone', page # Nothing, rulesToPage = <<>>, saving = Nothing
      PROVE  \/ snapshot' = store' => page' = store'
             \/ rulesToHost' # <<>> /\ page' = rulesToHost'[Len(rulesToHost')]
             \/ ~Editor!Valid(page)
  <2>1. CASE snapshot = store => page = store
    BY <2>1, <1>5, <1>8
  <2>2. CASE rulesToHost # <<>> /\ page = rulesToHost[Len(rulesToHost)]
    <3>1. CASE UNCHANGED rulesToHost
      BY <2>2, <3>1
    <3>2. CASE rulesToHost' = Tail(rulesToHost) /\ Tail(rulesToHost) # <<>>
      BY <2>2, <3>2, <1>3
    <3>3. CASE /\ Tail(rulesToHost) = <<>>
               /\ store' = IF Editor!Valid(Head(rulesToHost)) THEN Head(rulesToHost) ELSE store
      <4>1. page = Head(rulesToHost) BY <2>2, <3>3, <1>3
      <4> QED BY <4>1, <3>3
    <3> QED BY <3>1, <3>2, <3>3
  <2> QED BY <2>1, <2>2, <1>6, <1>8 DEF EditorInv
<1> QED BY <1>4, <1>5, <1>6, <1>7, <1>8 DEF EditorInv

LEMMA EditorEdits == ASSUME EditorInv, Editor!EditRules PROVE EditorInv'
<1>1. EditorTyped /\ page \in Editor!Lists BY DEF EditorInv, EditorTyped, Editor!EditRules
<1>2. PICK next \in Editor!Edited(page) : page' = next /\ saving' = next
  BY DEF Editor!EditRules
<1>3. next \in Editor!Lists /\ next # Nothing BY <1>1, RulesEdited, RecordsAssumption
<1> QED BY <1>1, <1>2, <1>3 DEF Editor!EditRules, EditorInv, EditorTyped

LEMMA EditorSaves == ASSUME EditorInv, Editor!SaveTimer PROVE EditorInv'
<1>1. EditorTyped /\ saving \in Editor!Lists BY DEF EditorInv, EditorTyped, Editor!SaveTimer
<1>2. /\ rulesToHost' \in Seq(Editor!Lists) /\ rulesToHost' # <<>>
      /\ rulesToHost'[Len(rulesToHost')] = saving
  BY <1>1, Added DEF Editor!SaveTimer, EditorTyped
<1> QED BY <1>1, <1>2 DEF Editor!SaveTimer, EditorInv, EditorTyped

LEMMA EditorReceives == ASSUME EditorInv, Editor!PageReceives PROVE EditorInv'
<1>1. EditorTyped /\ rulesToPage # <<>> BY DEF EditorInv, Editor!PageReceives
<1>2. /\ Head(rulesToPage) \in Editor!Lists /\ Tail(rulesToPage) \in Seq(Editor!Lists)
      /\ Tail(rulesToPage) = <<>> => Head(rulesToPage) = rulesToPage[Len(rulesToPage)]
      /\ Tail(rulesToPage) # <<>> =>
             Tail(rulesToPage)[Len(Tail(rulesToPage))] = rulesToPage[Len(rulesToPage)]
  BY <1>1, Taken DEF EditorTyped
<1>3. Head(rulesToPage) # Nothing BY <1>2, RecordsAssumption
<1>4. page # Nothing BY <1>1 DEF EditorInv
<1>5. EditorTyped' BY <1>1, <1>2 DEF EditorTyped, Editor!PageReceives
<1> QED BY <1>1, <1>2, <1>3, <1>4, <1>5 DEF Editor!PageReceives, EditorInv

LEMMA EditorRefreshes == ASSUME EditorInv, Editor!Refresh PROVE EditorInv'
<1>1. EditorTyped BY DEF EditorInv
<1>2. /\ Append(rulesToPage, store) \in Seq(Editor!Lists) /\ Append(rulesToPage, store) # <<>>
      /\ Append(rulesToPage, store)[Len(Append(rulesToPage, store))] = store
  BY <1>1, Added DEF EditorTyped
<1>3. EditorTyped' BY <1>1, <1>2 DEF EditorTyped, Editor!Refresh
<1>4. snapshot' = store' /\ (connected' => rulesTold' = store') BY DEF Editor!Refresh
<1>5. CASE page = Nothing
  <2>1. saving = Nothing /\ rulesToHost = <<>> /\ rulesToPage = <<>> BY <1>5 DEF EditorInv
  <2> QED BY <2>1, <1>3, <1>4, <1>5 DEF EditorInv, Editor!Refresh
<1>6. CASE page # Nothing
  <2>1. rulesToPage' # <<>> /\ rulesToPage'[Len(rulesToPage')] = store'
    BY <1>2, <1>6 DEF Editor!Refresh
  <2> QED BY <2>1, <1>3, <1>4, <1>6 DEF EditorInv, Editor!Refresh
<1> QED BY <1>5, <1>6

LEMMA EditorSteps ==
    ASSUME EditorInv, Editor!Next \/ UNCHANGED editorVars
    PROVE  EditorInv'
<1> EditorTyped BY DEF EditorInv
<1>1. CASE Editor!OpenPage
  <2>1. <<store>> \in Seq(Editor!Lists) /\ <<store>> # <<>> /\ <<store>>[Len(<<store>>)] = store
    BY DEF EditorTyped
  <2>2. <<>> \in Editor!Lists BY DEF Editor!Lists
  <2>3. <<>> # Nothing BY <2>2, RecordsAssumption
  <2> QED BY <1>1, <2>1, <2>2, <2>3 DEF Editor!OpenPage, EditorInv, EditorTyped
<1>2. CASE Editor!ClosePage
  BY <1>2 DEF Editor!ClosePage, EditorInv, EditorTyped
<1>3. CASE Editor!Save
  <2>1. Head(rulesToHost) \in Editor!Lists BY <1>3, Taken DEF Editor!Save, EditorTyped
  <2>2. store' \in Editor!Lists /\ Editor!Valid(store')
    BY <2>1, <1>3 DEF Editor!Save, EditorTyped
  <2> QED BY <1>3, <2>2, EditorStores DEF Editor!Save
<1>4. CASE Editor!StoreChanges
  <2>1. store' \in Editor!Lists /\ Editor!Valid(store')
    BY <1>4, RuleAdded, RuleRemoved DEF Editor!StoreChanges, EditorTyped
  <2> QED BY <1>4, <2>1, EditorStores DEF Editor!StoreChanges
<1>5. CASE Editor!ConnectAgent
  BY <1>5 DEF Editor!ConnectAgent, EditorInv, EditorTyped
<1>6. CASE Editor!LoseAgent
  BY <1>6 DEF Editor!LoseAgent, EditorInv, EditorTyped
<1>7. CASE UNCHANGED editorVars
  BY <1>7 DEF editorVars, EditorInv, EditorTyped
<1> QED BY <1>1, <1>2, <1>3, <1>4, <1>5, <1>6, <1>7, EditorEdits, EditorSaves, EditorReceives,
        EditorRefreshes DEF Editor!Next, Editor!EditorStep, Editor!HostStep

-----------------------------------------------------------------------------
(* SettingsPage. *)

Listed(s) == \E S : s \in Seq(S)

\* t is s without what it has at the place i.
OneMore(s, i, t) ==
    \E N \in Nat :
        /\ i \in 1 .. N + 1 /\ DOMAIN s = 1 .. N + 1 /\ DOMAIN t = 1 .. N
        /\ \A n \in 1 .. N : t[n] = s[IF n < i THEN n ELSE n + 1]

LEMMA ListGrows ==
    ASSUME NEW s, Listed(s), NEW e
    PROVE  LET t == Append(s, e) IN
           /\ Listed(t) /\ t # <<>> /\ t[Len(t)] = e
           /\ Head(t) = IF s = <<>> THEN e ELSE Head(s)
           /\ OneMore(t, Len(s) + 1, s) /\ t[Len(s) + 1] = e
           /\ \A n \in DOMAIN t : t[n] = e \/ (n \in DOMAIN s /\ t[n] = s[n])
<1>1. PICK S : s \in Seq(S) BY DEF Listed
<1> DEFINE t == Append(s, e)
<1>2. s \in Seq(S \cup {e}) BY <1>1
<1>3. t \in Seq(S \cup {e}) /\ t # <<>> BY <1>2, Added
<1>13. Len(t) = Len(s) + 1 BY <1>2
<1>4. t[Len(s) + 1] = e /\ \A n \in 1 .. Len(s) : t[n] = s[n] BY <1>2
<1>5. Len(s) \in Nat /\ DOMAIN s = 1 .. Len(s) BY <1>1
<1> HIDE DEF t
<1>6. DOMAIN t = 1 .. Len(s) + 1 BY <1>3, <1>13
<1>7. Head(t) = t[1] /\ Head(s) = s[1] /\ (s = <<>> <=> Len(s) = 0) BY <1>1, <1>3
<1>8. Head(t) = IF s = <<>> THEN e ELSE Head(s) BY <1>4, <1>5, <1>7
<1>9. OneMore(t, Len(s) + 1, s)
  <2> DEFINE N == Len(s)
  <2>1. N \in Nat /\ DOMAIN t = 1 .. N + 1 /\ DOMAIN s = 1 .. N BY <1>5, <1>6
  <2>2. \A n \in 1 .. N : t[n] = s[n] BY <1>4
  <2> HIDE DEF N
  <2>3. \A n \in 1 .. N : n < N + 1 /\ s[n] = t[IF n < N + 1 THEN n ELSE n + 1] BY <2>1, <2>2
  <2>4. N + 1 \in 1 .. N + 1 BY <2>1
  <2>5. OneMore(t, N + 1, s) BY <2>1, <2>3, <2>4 DEF OneMore
  <2> QED BY <2>5 DEF N
<1>10. \A n \in DOMAIN t : t[n] = e \/ (n \in DOMAIN s /\ t[n] = s[n])
  BY <1>4, <1>5, <1>6
<1>11. Listed(t) BY <1>3 DEF Listed
<1> QED BY <1>3, <1>4, <1>8, <1>9, <1>10, <1>11 DEF t

LEMMA ListShrinks ==
    ASSUME NEW s, Listed(s), s # <<>>
    PROVE  LET t == Tail(s) IN
           /\ Listed(t) /\ OneMore(s, 1, t) /\ Head(s) = s[1] /\ 1 \in DOMAIN s
           /\ t = <<>> => Head(s) = s[Len(s)]
           /\ t # <<>> => t[Len(t)] = s[Len(s)]
           /\ \A n \in DOMAIN t : \E k \in DOMAIN s : t[n] = s[k]
<1>1. PICK S : s \in Seq(S) BY DEF Listed
<1> DEFINE t == Tail(s)
<1>2. Len(s) \in Nat /\ Len(s) # 0 /\ Head(s) = s[1] /\ DOMAIN s = 1 .. Len(s) BY <1>1
<1>3. t \in Seq(S) /\ Len(t) = Len(s) - 1 /\ DOMAIN t = 1 .. Len(t) BY <1>1
<1>4. \A k \in 1 .. Len(s) - 1 : t[k] = s[k + 1] BY <1>1
<1>5. t = <<>> => Head(s) = s[Len(s)] BY <1>1, Taken
<1>6. t # <<>> => t[Len(t)] = s[Len(s)] BY <1>1, Taken
<1> HIDE DEF t
<1> DEFINE N == Len(s) - 1
<1>7. N \in Nat /\ DOMAIN s = 1 .. N + 1 /\ DOMAIN t = 1 .. N /\ 1 \in 1 .. N + 1
  BY <1>2, <1>3
<1>8. \A k \in 1 .. N : t[k] = s[IF k < 1 THEN k ELSE k + 1] BY <1>4
<1> HIDE DEF N
<1>9. OneMore(s, 1, t) BY <1>7, <1>8 DEF OneMore
<1>10. \A n \in DOMAIN t : n + 1 \in DOMAIN s /\ t[n] = s[n + 1] BY <1>7, <1>8
<1>11. Listed(t) BY <1>3 DEF Listed
<1> QED BY <1>2, <1>5, <1>6, <1>7, <1>9, <1>10, <1>11 DEF t

LEMMA ListLoses ==
    ASSUME NEW S, NEW s \in Seq(S), NEW i \in DOMAIN s
    PROVE  LET t == Settings!RemoveAt(s, i) IN t \in Seq(S) /\ OneMore(s, i, t)
<1> DEFINE t == Settings!RemoveAt(s, i)
           N == Len(s) - 1
<1>1. Len(s) \in Nat /\ DOMAIN s = 1 .. Len(s) /\ i \in 1 .. Len(s) OBVIOUS
<1>2. /\ t \in Seq(S) /\ Len(t) = Len(s) - 1
      /\ \A k \in 1 .. Len(t) : t[k] = s[IF k < i THEN k ELSE k + 1]
  BY <1>1, TakenOut DEF Settings!RemoveAt
<1> HIDE DEF t
<1>3. DOMAIN t = 1 .. N BY <1>2
<1>4. N \in Nat /\ N + 1 = Len(s) BY <1>1
<1> HIDE DEF N
<1>5. OneMore(s, i, t) BY <1>1, <1>2, <1>3, <1>4 DEF OneMore, N
<1> QED BY <1>2, <1>5 DEF t

LEMMA TwoJoin ==
    ASSUME NEW S, NEW s \in Seq(S), NEW a \in S, NEW b \in S
    PROVE  s \o (<<a>> \o <<b>>) = Append(Append(s, a), b)
<1>1. <<a>> \in Seq(S) /\ <<b>> \in Seq(S) OBVIOUS
<1> DEFINE t == <<a>> \o <<b>>
<1>2. t \in Seq(S) BY <1>1
<1>3. Len(t) = 2 /\ t[1] = a /\ t[2] = b BY <1>1
<1> HIDE DEF t
<1>4. s \o t = Append(Append(s, a), b) BY <1>2, <1>3 DEF t
<1> QED BY <1>4 DEF t

LEMMA Joins ==
    ASSUME NEW s, Listed(s), NEW a, NEW b
    PROVE  /\ s \o <<>> = s /\ s \o <<a>> = Append(s, a)
           /\ s \o (<<>> \o <<>>) = s
           /\ s \o (<<a>> \o <<>>) = Append(s, a) /\ s \o (<<>> \o <<b>>) = Append(s, b)
           /\ s \o (<<a>> \o <<b>>) = Append(Append(s, a), b)
<1>1. PICK S : s \in Seq(S) BY DEF Listed
<1>2. s \in Seq(S \cup {a, b}) BY <1>1
<1>3. s \o <<>> = s BY <1>1
<1>4. s \o <<a>> = Append(s, a) BY <1>2
<1>5. <<>> \o <<>> = <<>> OBVIOUS
<1>6. <<a>> \o <<>> = <<a>> /\ <<>> \o <<b>> = <<b>> OBVIOUS
<1>7. s \o (<<a>> \o <<b>>) = Append(Append(s, a), b)
  <2>1. a \in S \cup {a, b} /\ b \in S \cup {a, b} OBVIOUS
  <2> QED BY <1>2, <2>1, TwoJoin
<1>9. s \o <<b>> = Append(s, b) BY <1>2
<1> QED BY <1>3, <1>4, <1>5, <1>6, <1>7, <1>9

\* What of a list the page waits for.
SavesIn(s) == {n \in DOMAIN s : s[n].type # "load"}
BusyIn(s) == {n \in DOMAIN s : s[n].kind # "synchronize" /\ s[n].heard}
AnswersIn(s) == {n \in DOMAIN s : s[n].result # "none" /\ s[n].key # "stray"}

LEMMA SavesCount ==
    ASSUME NEW s, NEW t, NEW i, OneMore(s, i, t)
    PROVE  /\ Cardinality(SavesIn(s)) \in Nat /\ Cardinality(SavesIn(t)) \in Nat
           /\ Cardinality(SavesIn(s)) = Cardinality(SavesIn(t))
                                            + (IF s[i].type # "load" THEN 1 ELSE 0)
<1>1. PICK N \in Nat :
          /\ i \in 1 .. N + 1 /\ DOMAIN s = 1 .. N + 1 /\ DOMAIN t = 1 .. N
          /\ \A n \in 1 .. N : t[n] = s[IF n < i THEN n ELSE n + 1]
  BY DEF OneMore
<1> DEFINE P == SavesIn(s)
           Q == SavesIn(t)
<1>2. P \in SUBSET (1 .. N + 1) /\ Q \in SUBSET (1 .. N) BY <1>1 DEF SavesIn
<1>3. i \in P <=> s[i].type # "load" BY <1>1 DEF SavesIn
<1>4. \A n \in 1 .. N : (IF n < i THEN n ELSE n + 1) \in 1 .. N + 1 BY <1>1
<1>5. \A n \in 1 .. N : n \in Q <=> (IF n < i THEN n ELSE n + 1) \in P
  BY <1>1, <1>4 DEF SavesIn
<1> HIDE DEF P, Q
<1>6. /\ Cardinality(P) \in Nat /\ Cardinality(Q) \in Nat
      /\ Cardinality(P) = Cardinality(Q) + (IF i \in P THEN 1 ELSE 0)
  BY <1>1, <1>2, <1>5, OnePlace
<1> QED BY <1>3, <1>6 DEF P, Q

LEMMA BusyCount ==
    ASSUME NEW s, NEW t, NEW i, OneMore(s, i, t)
    PROVE  /\ Cardinality(BusyIn(s)) \in Nat /\ Cardinality(BusyIn(t)) \in Nat
           /\ Cardinality(BusyIn(s)) = Cardinality(BusyIn(t))
                  + (IF s[i].kind # "synchronize" /\ s[i].heard THEN 1 ELSE 0)
<1>1. PICK N \in Nat :
          /\ i \in 1 .. N + 1 /\ DOMAIN s = 1 .. N + 1 /\ DOMAIN t = 1 .. N
          /\ \A n \in 1 .. N : t[n] = s[IF n < i THEN n ELSE n + 1]
  BY DEF OneMore
<1> DEFINE P == BusyIn(s)
           Q == BusyIn(t)
<1>2. P \in SUBSET (1 .. N + 1) /\ Q \in SUBSET (1 .. N) BY <1>1 DEF BusyIn
<1>3. i \in P <=> (s[i].kind # "synchronize" /\ s[i].heard) BY <1>1 DEF BusyIn
<1>4. \A n \in 1 .. N : (IF n < i THEN n ELSE n + 1) \in 1 .. N + 1 BY <1>1
<1>5. \A n \in 1 .. N : n \in Q <=> (IF n < i THEN n ELSE n + 1) \in P
  BY <1>1, <1>4 DEF BusyIn
<1> HIDE DEF P, Q
<1>6. /\ Cardinality(P) \in Nat /\ Cardinality(Q) \in Nat
      /\ Cardinality(P) = Cardinality(Q) + (IF i \in P THEN 1 ELSE 0)
  BY <1>1, <1>2, <1>5, OnePlace
<1> QED BY <1>3, <1>6 DEF P, Q

LEMMA AnswersCount ==
    ASSUME NEW s, NEW t, NEW i, OneMore(s, i, t)
    PROVE  /\ Cardinality(AnswersIn(s)) \in Nat /\ Cardinality(AnswersIn(t)) \in Nat
           /\ Cardinality(AnswersIn(s)) = Cardinality(AnswersIn(t))
                  + (IF s[i].result # "none" /\ s[i].key # "stray" THEN 1 ELSE 0)
<1>1. PICK N \in Nat :
          /\ i \in 1 .. N + 1 /\ DOMAIN s = 1 .. N + 1 /\ DOMAIN t = 1 .. N
          /\ \A n \in 1 .. N : t[n] = s[IF n < i THEN n ELSE n + 1]
  BY DEF OneMore
<1> DEFINE P == AnswersIn(s)
           Q == AnswersIn(t)
<1>2. P \in SUBSET (1 .. N + 1) /\ Q \in SUBSET (1 .. N) BY <1>1 DEF AnswersIn
<1>3. i \in P <=> (s[i].result # "none" /\ s[i].key # "stray") BY <1>1 DEF AnswersIn
<1>4. \A n \in 1 .. N : (IF n < i THEN n ELSE n + 1) \in 1 .. N + 1 BY <1>1
<1>5. \A n \in 1 .. N : n \in Q <=> (IF n < i THEN n ELSE n + 1) \in P
  BY <1>1, <1>4 DEF AnswersIn
<1> HIDE DEF P, Q
<1>6. /\ Cardinality(P) \in Nat /\ Cardinality(Q) \in Nat
      /\ Cardinality(P) = Cardinality(Q) + (IF i \in P THEN 1 ELSE 0)
  BY <1>1, <1>2, <1>5, OnePlace
<1> QED BY <1>3, <1>6 DEF P, Q

LEMMA NoneCounts ==
    /\ Cardinality(SavesIn(<<>>)) = 0 /\ Cardinality(AnswersIn(<<>>)) = 0
    /\ Cardinality(BusyIn(<<>>)) = 0
<1>1. SavesIn(<<>>) = {} /\ AnswersIn(<<>>) = {} /\ BusyIn(<<>>) = {}
  BY DEF SavesIn, AnswersIn, BusyIn
<1> QED BY <1>1, FS_EmptySet

Results == {"none", "saved", "error"}
PostsTyped(s) == Listed(s) /\ \A n \in DOMAIN s : s[n].result \in Results

LEMMA Posted ==
    ASSUME NEW s, PostsTyped(s), NEW m, m.result \in Results
    PROVE  LET t == Append(s, m) IN
           /\ PostsTyped(t) /\ t # <<>> /\ t[Len(t)] = m
           /\ Cardinality(AnswersIn(s)) \in Nat
           /\ Cardinality(AnswersIn(t)) = Cardinality(AnswersIn(s))
                  + (IF m.result # "none" /\ m.key # "stray" THEN 1 ELSE 0)
<1> DEFINE t == Append(s, m)
<1>1. /\ Listed(t) /\ t # <<>> /\ t[Len(t)] = m /\ OneMore(t, Len(s) + 1, s) /\ t[Len(s) + 1] = m
      /\ \A n \in DOMAIN t : t[n] = m \/ (n \in DOMAIN s /\ t[n] = s[n])
  BY ListGrows DEF PostsTyped
<1> HIDE DEF t
<1>2. PostsTyped(t) BY <1>1 DEF PostsTyped
<1>3. /\ Cardinality(AnswersIn(s)) \in Nat
      /\ Cardinality(AnswersIn(t)) = Cardinality(AnswersIn(s))
             + (IF m.result # "none" /\ m.key # "stray" THEN 1 ELSE 0)
  <2> DEFINE place == Len(s) + 1
  <2>1. OneMore(t, place, s) /\ t[place] = m BY <1>1
  <2> HIDE DEF place
  <2> QED BY <2>1, AnswersCount
<1> QED BY <1>1, <1>2, <1>3 DEF t

Job == [kind : {"save", "setProxy", "removeProxy", "synchronize"},
        key : Settings!Keys \cup {""}, heard : BOOLEAN]

RequestTyped(r) ==
    /\ r.type \in {"load", "save", "setProxy", "removeProxy"}
    /\ r.key \in Settings!Keys \cup {""}
    /\ r.type = "save" => r.key \in Settings!Keys
RequestsTyped(s) == Listed(s) /\ \A n \in DOMAIN s : RequestTyped(s[n])

SettingsTyped ==
    /\ DOMAIN stored \subseteq Settings!Keys /\ DOMAIN wished \subseteq Settings!Keys
    /\ DOMAIN legacy \subseteq Settings!Keys /\ visiting \subseteq Settings!Keys
    /\ DOMAIN drafts \subseteq Settings!Keys
    /\ migrated \in BOOLEAN /\ takenBack \in BOOLEAN /\ capturing \in BOOLEAN
    /\ configured \in BOOLEAN /\ pending \in BOOLEAN /\ stray \in BOOLEAN
    /\ tab \in {"closed", "loading", "open"} /\ pageState \in {"", "saving", "saved", "error"}
    /\ tasks \in Seq(Job) /\ RequestsTyped(requests) /\ PostsTyped(posts)

\* A closed tab has nothing on its way, and there is none before the migration.
PageIsGone ==
    /\ ~migrated => tab = "closed"
    /\ tab = "closed" => /\ requests = <<>> /\ posts = <<>> /\ ~pending
                         /\ \A n \in DOMAIN tasks :
                                tasks[n].heard => tasks[n].kind = "synchronize"

\* What m says holds, and so do its values unless the window has something to notice.
Tells(m) ==
    /\ m.configured = configured /\ m.canSet = capturing
    /\ ~takenBack /\ noticed = Settings!Values => m.values = Settings!Values

\* What was posted last holds, and once that is received what the page shows.
PageIsTold ==
    /\ posts # <<>> => Tells(posts[Len(posts)])
    /\ posts = <<>> /\ tab = "open" => Tells(values)
    /\ posts = <<>> /\ tab = "loading" => requests # <<>> /\ Head(requests).type = "load"

\* The page waits for what it has asked for, and for that only.
PageWaits ==
    /\ pending => Settings!Asked # 0
    /\ ~stray => Settings!Asked = IF pending THEN 1 ELSE 0

\* What the store holds is allowed, and was saved or is of an earlier version.
StoreIsKept ==
    /\ migrated => visiting = {}
    /\ \A key \in DOMAIN stored : Settings!ValidatePreference(key, stored[key])
    /\ \A key \in DOMAIN wished : key \in DOMAIN stored /\ stored[key] = wished[key]
    /\ \A key \in DOMAIN stored \ DOMAIN wished :
           key \in DOMAIN legacy /\ stored[key] = legacy[key]
    /\ \A key \in DOMAIN legacy \ visiting :
           Settings!ValidatePreference(key, legacy[key]) => key \in DOMAIN stored

SettingsInv == SettingsTyped /\ PageIsGone /\ PageIsTold /\ PageWaits /\ StoreIsKept

LEMMA SettingsCardinality ==
    /\ Settings!Asked = Cardinality(SavesIn(requests)) + Cardinality(BusyIn(tasks))
                             + Cardinality(AnswersIn(posts))
    /\ Settings!Asked' = Cardinality(SavesIn(requests')) + Cardinality(BusyIn(tasks'))
                              + Cardinality(AnswersIn(posts'))
<1>1. \A S : Settings!Cardinality(S) = Cardinality(S)
  BY DEF Cardinality, Settings!Cardinality
<1>2. /\ Settings!Saves = SavesIn(requests) /\ Settings!Busy = BusyIn(tasks)
      /\ Settings!Answers = AnswersIn(posts)
  BY Zenon DEF Settings!Saves, Settings!Busy, Settings!Answers, SavesIn, BusyIn, AnswersIn
<1>3. /\ Settings!Saves' = SavesIn(requests') /\ Settings!Busy' = BusyIn(tasks')
      /\ Settings!Answers' = AnswersIn(posts')
  BY Zenon DEF Settings!Saves, Settings!Busy, Settings!Answers, SavesIn, BusyIn, AnswersIn
<1> QED BY <1>1, <1>2, <1>3 DEF Settings!Asked

LEMMA SettingsHold ==
    ASSUME SettingsInv
    PROVE  Settings!SettingsSettle
<1> SettingsTyped /\ PageIsTold /\ PageWaits /\ StoreIsKept BY DEF SettingsInv
<1>1. Settings!StoreIsValid BY DEF StoreIsKept, Settings!StoreIsValid
<1>2. Settings!OneAtATime BY DEF PageWaits, Settings!OneAtATime
<1>3. ASSUME Settings!AtRest, tab # "closed", ~takenBack
      PROVE  /\ tab = "open" /\ ~pending /\ values.values = Settings!Values
             /\ values.configured = configured /\ values.canSet = capturing
  <2>1. tasks = <<>> /\ requests = <<>> /\ posts = <<>> /\ noticed = Settings!Values
    BY <1>3 DEF Settings!AtRest
  <2>2. /\ Cardinality(SavesIn(requests)) = 0 /\ Cardinality(BusyIn(tasks)) = 0
        /\ Cardinality(AnswersIn(posts)) = 0
    BY <2>1, NoneCounts
  <2>8. Settings!Asked = 0 BY <2>2, SettingsCardinality
  <2>3. tab = "open" BY <2>1, <1>3 DEF SettingsTyped, PageIsTold
  <2>4. pending \in BOOLEAN BY DEF SettingsTyped
  <2>6. pending => Settings!Asked # 0 BY DEF PageWaits
  <2>7. ~pending BY <2>8, <2>4, <2>6
  <2>5. Tells(values) BY <2>1, <2>3 DEF PageIsTold
  <2> QED BY <1>3, <2>1, <2>3, <2>5, <2>7 DEF Tells
<1>4. Settings!TabFollows BY <1>3 DEF Settings!TabFollows
<1> QED BY <1>1, <1>2, <1>4 DEF Settings!SettingsSettle

LEMMA EmptyDomain == DOMAIN <<>> = {}
OBVIOUS

LEMMA SettingsBegin ==
    ASSUME Settings!Init
    PROVE  SettingsInv
<1>1. PICK old \in {<<>>, [maxEntries |-> 99, autoStart |-> TRUE], [maxEntries |-> 500]},
           set \in BOOLEAN : Settings!Begin(old, set)
  BY DEF Settings!Init
<1>2. DOMAIN old \subseteq Settings!Keys BY DEF Settings!Keys
<1>3. <<>> \in Seq(Job) /\ <<>> \in Seq({}) BY ShortLists
<1>9. DOMAIN <<>> = {} BY EmptyDomain
<1>4. SettingsTyped BY <1>1, <1>2, <1>3, <1>9 DEF Settings!Begin, SettingsTyped, RequestsTyped, PostsTyped, Listed
<1>5. PageIsGone /\ PageIsTold BY <1>1, <1>9 DEF Settings!Begin, PageIsGone, PageIsTold
<1>6. PageWaits
  <2>1. requests = <<>> /\ tasks = <<>> /\ posts = <<>> /\ pending = FALSE
    BY <1>1 DEF Settings!Begin
  <2>2. /\ Cardinality(SavesIn(requests)) = 0 /\ Cardinality(BusyIn(tasks)) = 0
        /\ Cardinality(AnswersIn(posts)) = 0
    BY <2>1, NoneCounts
  <2>8. Settings!Asked = 0 BY <2>2, SettingsCardinality
  <2> QED BY <2>1, <2>8 DEF PageWaits
<1>7. StoreIsKept BY <1>1, <1>2, <1>9 DEF Settings!Begin, StoreIsKept
<1> QED BY <1>4, <1>5, <1>6, <1>7 DEF SettingsInv

\* A step that posts the answers to k requests, or tells news, or leaves true what was told.
Posts(k) ==
    /\ tab' = tab /\ values' = values
    /\ PostsTyped(posts')
    /\ Cardinality(AnswersIn(posts)) \in Nat
    /\ Cardinality(AnswersIn(posts')) = Cardinality(AnswersIn(posts)) + k
    /\ \/ posts' # posts /\ (posts # <<>> /\ Tells(posts[Len(posts)]))'
       \/ posts' = posts /\ (tab = "closed" \/ \A m : Tells(m) => Tells(m)')

\* One message, behind another one that is no answer or alone.
LEMMA PostsOne ==
    ASSUME PostsTyped(posts), tab' = tab, values' = values, NEW m, m.result \in Results, Tells(m)',
           posts' = Append(posts, m)
    PROVE  Posts(IF m.result # "none" /\ m.key # "stray" THEN 1 ELSE 0)
<1>1. /\ PostsTyped(posts') /\ posts' # <<>> /\ posts'[Len(posts')] = m
      /\ Cardinality(AnswersIn(posts)) \in Nat
      /\ Cardinality(AnswersIn(posts')) = Cardinality(AnswersIn(posts))
             + (IF m.result # "none" /\ m.key # "stray" THEN 1 ELSE 0)
  BY Posted
<1>2. Len(posts') = Len(posts) + 1 /\ Len(posts) \in Nat BY DEF PostsTyped, Listed
<1>3. posts' # posts BY <1>2
<1>4. (posts # <<>> /\ Tells(posts[Len(posts)]))' BY <1>1 DEF Tells
<1> QED BY <1>1, <1>3, <1>4 DEF Posts

LEMMA PostsTwo ==
    ASSUME PostsTyped(posts), tab' = tab, values' = values, NEW m, m.result \in Results, Tells(m)',
           NEW a, a.result = "none", posts' = Append(Append(posts, a), m)
    PROVE  Posts(IF m.result # "none" /\ m.key # "stray" THEN 1 ELSE 0)
<1> DEFINE s == Append(posts, a)
<1>1. /\ PostsTyped(s) /\ s # <<>> /\ Cardinality(AnswersIn(posts)) \in Nat
      /\ Cardinality(AnswersIn(s)) = Cardinality(AnswersIn(posts)) + 0
  BY Posted DEF Results
<1>2. Len(s) = Len(posts) + 1 /\ Len(posts) \in Nat BY DEF PostsTyped, Listed
<1> HIDE DEF s
<1>3. posts' = Append(s, m) BY DEF s
<1>4. /\ PostsTyped(posts') /\ posts' # <<>> /\ posts'[Len(posts')] = m
      /\ Cardinality(AnswersIn(posts')) = Cardinality(AnswersIn(s))
             + (IF m.result # "none" /\ m.key # "stray" THEN 1 ELSE 0)
  BY <1>1, <1>3, Posted
<1>5. Len(posts') = Len(s) + 1 BY <1>1, <1>3 DEF PostsTyped, Listed
<1>6. posts' # posts BY <1>2, <1>5
<1>7. (posts # <<>> /\ Tells(posts[Len(posts)]))' BY <1>4 DEF Tells
<1>8. Cardinality(AnswersIn(s)) = Cardinality(AnswersIn(posts)) BY <1>1
<1> QED BY <1>1, <1>4, <1>6, <1>7, <1>8 DEF Posts

LEMMA PostsNone ==
    ASSUME PostsTyped(posts), UNCHANGED <<tab, values, posts>>,
           tab = "closed" \/ \A m : Tells(m) => Tells(m)'
    PROVE  Posts(0)
<1> DEFINE m == [result |-> "none"]
<1>0. m.result \in Results BY DEF Results
<1> HIDE DEF m
<1>1. Cardinality(AnswersIn(posts)) \in Nat BY <1>0, Posted
<1> QED BY <1>1 DEF Posts

\* A message about a proxy of the editor, and one about the capture.
OfProxy(message, c) == [message EXCEPT !.configured = c]
OfCapture(message, c) == [message EXCEPT !.canSet = c]

LEMMA Messages ==
    ASSUME NEW result, NEW key, NEW m, m = Settings!Message(result, key)
    PROVE  /\ m.result = result /\ m.key = key /\ m.values = Settings!Values
           /\ m.configured = configured /\ m.canSet = capturing
BY DEF Settings!Message

LEMMA News ==
    ASSUME NEW m, m = Settings!News
    PROVE  /\ m.result = "none" /\ m.key = "" /\ m.values = Settings!Values
           /\ m.configured = configured /\ m.canSet = capturing
BY DEF Settings!Message, Settings!News

LEMMA ProxyMessages ==
    ASSUME NEW result, NEW key, NEW c, NEW m, m = OfProxy(Settings!Message(result, key), c)
    PROVE  /\ m.result = result /\ m.key = key /\ m.values = Settings!Values
           /\ m.configured = c /\ m.canSet = capturing
BY DEF Settings!Message, OfProxy

LEMMA ProxyNews ==
    ASSUME NEW c, NEW m, m = OfProxy(Settings!News, c)
    PROVE  /\ m.result = "none" /\ m.key = "" /\ m.values = Settings!Values
           /\ m.configured = c /\ m.canSet = capturing
BY DEF Settings!Message, Settings!News, OfProxy

LEMMA StateNews ==
    ASSUME NEW c, NEW m, m = OfCapture(Settings!News, c)
    PROVE  /\ m.result = "none" /\ m.key = "" /\ m.values = Settings!Values
           /\ m.configured = configured /\ m.canSet = c
BY DEF Settings!Message, Settings!News, OfCapture

LEMMA JobsAreTyped ==
    ASSUME SettingsTyped, NEW n \in DOMAIN tasks
    PROVE  tasks[n] \in Job
<1>1. tasks \in Seq(Job) BY DEF SettingsTyped
<1> QED BY <1>1

\* While neither what is stored nor what is noticed changes, what a message says of the
\* values goes on to hold.
LEMMA ValuesStay ==
    ASSUME UNCHANGED <<stored, noticed, takenBack>>
    PROVE  /\ Settings!Values' = Settings!Values
           /\ \A m : m.values = Settings!Values /\ m.configured = configured'
                     /\ m.canSet = capturing' => Tells(m)'
           /\ UNCHANGED <<configured, capturing>> => \A m : Tells(m) => Tells(m)'
<1>1. Settings!Values' = Settings!Values BY DEF Settings!Values
<1> QED BY <1>1 DEF Tells

LEMMA RefreshPosts ==
    ASSUME SettingsTyped, Settings!Refresh
    PROVE  Posts(0)
<1>21. PICK m : m = Settings!News OBVIOUS
<1>1. /\ m.result = "none" /\ m.values = Settings!Values
     /\ m.configured = configured /\ m.canSet = capturing
  BY <1>21, News
<1>2. UNCHANGED <<tab, values, stored, configured, capturing>> /\ PostsTyped(posts)
  BY DEF Settings!Refresh, Settings!tabVars, SettingsTyped
<1>3. CASE tab = "closed"
  <2>1. posts' = posts BY <1>3 DEF Settings!Refresh, Settings!Post
  <2> QED BY <2>1, <1>2, <1>3, PostsNone
<1>4. CASE tab # "closed"
  <2>1. posts' = Append(posts, m)
    BY <1>21, <1>2, <1>4, Joins DEF Settings!Refresh, Settings!Post, Settings!Changed, PostsTyped
  <2>2. Settings!Values' = Settings!Values BY <1>2 DEF Settings!Values
  <2>3. Tells(m)' BY <1>1, <1>2, <2>2 DEF Tells
  <2>4. Posts(IF m.result # "none" /\ m.key # "stray" THEN 1 ELSE 0)
    BY <1>1, <1>2, <2>1, <2>3, PostsOne DEF Results
  <2> QED BY <2>4, <1>1
<1> QED BY <1>3, <1>4

LEMMA LoadPosts ==
    ASSUME SettingsTyped, Settings!LoadSettings
    PROVE  Posts(0) /\ (tab # "closed" => posts' # posts)
<1>21. PICK m : m = Settings!News OBVIOUS
<1>1. /\ m.result = "none" /\ m.values = Settings!Values
     /\ m.configured = configured /\ m.canSet = capturing
  BY <1>21, News
<1>2. /\ UNCHANGED <<tab, values, stored, noticed, takenBack, configured, capturing>>
      /\ PostsTyped(posts)
  BY DEF Settings!LoadSettings, Settings!tabVars, Settings!storeVars, SettingsTyped
<1>3. CASE tab = "closed"
  <2>1. posts' = posts BY <1>3 DEF Settings!LoadSettings, Settings!Post
  <2> QED BY <2>1, <1>2, <1>3, PostsNone
<1>4. CASE tab # "closed"
  <2>1. posts' = Append(posts, m)
    BY <1>21, <1>2, <1>4, Joins DEF Settings!LoadSettings, Settings!Post, PostsTyped
  <2>2. Tells(m)' BY <1>1, <1>2, ValuesStay
  <2>3. Posts(IF m.result # "none" /\ m.key # "stray" THEN 1 ELSE 0)
    BY <1>1, <1>2, <2>1, <2>2, PostsOne DEF Results
  <2>4. posts' # posts BY <2>1, <1>2 DEF Settings!LoadSettings, PostsTyped, Listed
  <2> QED BY <2>3, <2>4, <1>1
<1> QED BY <1>3, <1>4

LEMMA StatePosts ==
    ASSUME SettingsTyped, Settings!StateChanges
    PROVE  Posts(0)
<1>0. PICK c \in BOOLEAN : c = ~capturing BY DEF SettingsTyped
<1>21. PICK m : m = OfCapture(Settings!News, c) OBVIOUS
<1>1. /\ m.result = "none" /\ m.values = Settings!Values
     /\ m.configured = configured /\ m.canSet = c
  BY <1>21, StateNews
<1>2. /\ UNCHANGED <<tab, values, stored, noticed, takenBack, configured>>
      /\ PostsTyped(posts) /\ capturing' = c
  BY <1>0 DEF Settings!StateChanges, Settings!tabVars, Settings!storeVars, SettingsTyped
<1>3. CASE tab = "closed"
  <2>1. posts' = posts BY <1>3 DEF Settings!StateChanges
  <2> QED BY <2>1, <1>2, <1>3, PostsNone
<1>4. CASE tab # "closed"
  <2>1. posts' = Append(posts, m) BY <1>0, <1>21, <1>4 DEF Settings!StateChanges, OfCapture
  <2>2. Tells(m)' BY <1>1, <1>2, ValuesStay
  <2>3. Posts(IF m.result # "none" /\ m.key # "stray" THEN 1 ELSE 0)
    BY <1>1, <1>2, <2>1, <2>2, PostsOne DEF Results
  <2> QED BY <2>3, <1>1
<1> QED BY <1>3, <1>4

\* A value that is stored changes what is told only if it is no news: the window has seen
\* the values already, or what it would see has been taken back.
LEMMA SavePosts ==
    ASSUME SettingsTyped, tab # "closed", Settings!SaveSetting
    PROVE  Posts(IF Settings!ValidatePreference(Head(requests).key, Head(requests).value)
                 THEN 0 ELSE 1)
<1> DEFINE key == Head(requests).key
           v == Head(requests).value
<1>1. UNCHANGED <<tab, values, noticed, configured, capturing>> /\ PostsTyped(posts)
  BY DEF Settings!SaveSetting, Settings!tabVars, Settings!storeVars, SettingsTyped
<1>2. key \in Settings!Keys
  <2>1. requests # <<>> /\ Head(requests).type = "save" BY DEF Settings!SaveSetting
  <2>2. Head(requests) = requests[1] /\ 1 \in DOMAIN requests
    BY <2>1, ListShrinks DEF SettingsTyped, RequestsTyped
  <2> QED BY <2>1, <2>2 DEF SettingsTyped, RequestsTyped, RequestTyped
<1>3. CASE Settings!ValidatePreference(key, v)
  <2>1. posts' = posts BY <1>3 DEF Settings!SaveSetting
  <2>2. takenBack' = (takenBack \/ (Settings!Values # noticed
                                    /\ Settings!ValuesOf(stored') = noticed))
    BY <1>3 DEF Settings!SaveSetting, Settings!Undo
  <2>3. Settings!Values' = Settings!ValuesOf(stored') BY DEF Settings!Values
  <2>4. \A m : Tells(m) => Tells(m)' BY <1>1, <2>2, <2>3 DEF Tells
  <2> QED BY <1>1, <1>3, <2>1, <2>4, PostsNone
<1>4. CASE ~Settings!ValidatePreference(key, v)
  <2>21. PICK m : m = Settings!Message("error", key) OBVIOUS
  <2>1. /\ m.result = "error" /\ m.key = key /\ m.values = Settings!Values
       /\ m.configured = configured /\ m.canSet = capturing
    BY <2>21, Messages
  <2>2. posts' = Append(posts, m)
    BY <1>1, <1>4, <2>21, Joins DEF Settings!SaveSetting, Settings!Post, PostsTyped
  <2>3. UNCHANGED <<stored, takenBack>> BY <1>4 DEF Settings!SaveSetting, Settings!tabVars, Settings!storeVars
  <2>4. Tells(m)' BY <1>1, <2>1, <2>3, ValuesStay
  <2>5. Posts(IF m.result # "none" /\ m.key # "stray" THEN 1 ELSE 0)
    BY <1>1, <2>1, <2>2, <2>4, PostsOne DEF Results
  <2>6. m.key # "stray" BY <2>1, <1>2 DEF Settings!Keys
  <2> QED BY <2>1, <2>5, <2>6, <1>4
<1> QED BY <1>3, <1>4

\* A job that ends answers the request it was begun for, if the page is still there.
LEMMA SavedPosts ==
    ASSUME SettingsTyped, PageIsGone, NEW n \in DOMAIN tasks, Settings!Saved(n)
    PROVE  Posts(IF tasks[n].kind # "synchronize" /\ tasks[n].heard THEN 1 ELSE 0)
<1>1. /\ UNCHANGED <<tab, values, stored, configured, capturing, takenBack>>
      /\ PostsTyped(posts) /\ Listed(posts) /\ noticed' = Settings!Values /\ tasks[n].kind = "save"
  BY DEF Settings!Saved, Settings!tabVars, SettingsTyped, PostsTyped, Settings!Noticed
<1>2. Settings!Values' = Settings!Values BY <1>1 DEF Settings!Values
<1>3. tasks[n] \in Job BY JobsAreTyped
<1>4. tasks[n].key # "stray" /\ tasks[n].heard \in BOOLEAN
  BY <1>3 DEF Job, Settings!Keys
<1>25. PICK a : a = Settings!News OBVIOUS
<1>5. /\ a.result = "none" /\ a.values = Settings!Values
     /\ a.configured = configured /\ a.canSet = capturing
  BY <1>25, News
<1>26. PICK m : m = Settings!Message("saved", tasks[n].key) OBVIOUS
<1>6. /\ m.result = "saved" /\ m.key = tasks[n].key /\ m.values = Settings!Values
     /\ m.configured = configured /\ m.canSet = capturing
  BY <1>26, Messages
<1>7. Tells(m)' /\ Tells(a)' BY <1>1, <1>2, <1>5, <1>6 DEF Tells
<1>8. CASE tab = "closed"
  <2>1. posts' = posts BY <1>8 DEF Settings!Saved, Settings!Post
  <2>2. ~tasks[n].heard BY <1>1, <1>8 DEF PageIsGone
  <2> QED BY <2>1, <2>2, <1>1, <1>8, PostsNone
<1>9. ASSUME tab # "closed", Settings!Values = noticed, ~tasks[n].heard PROVE Posts(0)
  <2>1. posts' = posts
    BY <1>1, <1>9, Joins DEF Settings!Saved, Settings!Post, Settings!Changed, Settings!Answer
  <2>2. \A x : Tells(x) => Tells(x)' BY <1>1, <1>2, <1>9 DEF Tells
  <2> QED BY <2>1, <2>2, <1>1, PostsNone
<1>10. ASSUME tab # "closed", Settings!Values = noticed, tasks[n].heard PROVE Posts(1)
  <2>1. posts' = Append(posts, m)
    BY <1>1, <1>26, <1>10, Joins DEF Settings!Saved, Settings!Post, Settings!Changed, Settings!Answer
  <2>2. Posts(IF m.result # "none" /\ m.key # "stray" THEN 1 ELSE 0)
    BY <1>1, <1>6, <1>7, <2>1, PostsOne DEF Results
  <2> QED BY <2>2, <1>4, <1>6
<1>11. ASSUME tab # "closed", Settings!Values # noticed, ~tasks[n].heard PROVE Posts(0)
  <2>1. posts' = Append(posts, a)
    BY <1>1, <1>25, <1>11, Joins DEF Settings!Saved, Settings!Post, Settings!Changed, Settings!Answer
  <2>2. Posts(IF a.result # "none" /\ a.key # "stray" THEN 1 ELSE 0)
    BY <1>1, <1>5, <1>7, <2>1, PostsOne DEF Results
  <2> QED BY <2>2, <1>5
<1>12. ASSUME tab # "closed", Settings!Values # noticed, tasks[n].heard PROVE Posts(1)
  <2>1. posts' = Append(Append(posts, a), m)
    BY <1>1, <1>25, <1>26, <1>12, Joins DEF Settings!Saved, Settings!Post, Settings!Changed, Settings!Answer
  <2>2. Posts(IF m.result # "none" /\ m.key # "stray" THEN 1 ELSE 0)
    BY <1>1, <1>5, <1>6, <1>7, <2>1, PostsTwo DEF Results
  <2> QED BY <2>2, <1>4, <1>6
<1> QED BY <1>1, <1>4, <1>8, <1>9, <1>10, <1>11, <1>12

LEMMA ProxySetPosts ==
    ASSUME SettingsTyped, PageIsGone, NEW n \in DOMAIN tasks, Settings!ProxySet(n)
    PROVE  Posts(IF tasks[n].kind # "synchronize" /\ tasks[n].heard THEN 1 ELSE 0)
<1>1. /\ UNCHANGED <<tab, values, stored, noticed, capturing, takenBack>>
      /\ PostsTyped(posts) /\ Listed(posts) /\ tasks[n].kind \in {"setProxy", "removeProxy"}
  BY DEF Settings!ProxySet, Settings!tabVars, Settings!storeVars, SettingsTyped, PostsTyped
<1>2. tasks[n] \in Job BY JobsAreTyped
<1>3. tasks[n].heard \in BOOLEAN BY <1>2 DEF Job
<1>0. PICK c : c = configured' OBVIOUS
<1>24. PICK a : a = OfProxy(Settings!News, c) OBVIOUS
<1>4. /\ a.result = "none" /\ a.values = Settings!Values
     /\ a.configured = c /\ a.canSet = capturing
  BY <1>24, ProxyNews
<1>25. PICK m : m = OfProxy(Settings!Message("saved", "http.proxy"), c)
               OBVIOUS
<1>5. /\ m.result = "saved" /\ m.key = "http.proxy" /\ m.values = Settings!Values
     /\ m.configured = c /\ m.canSet = capturing
  BY <1>25, ProxyMessages
<1>6. Tells(m)' /\ Tells(a)' BY <1>0, <1>1, <1>4, <1>5, ValuesStay
<1>7. CASE tab = "closed"
  <2>1. posts' = posts BY <1>7 DEF Settings!ProxySet, Settings!Post
  <2>2. ~tasks[n].heard BY <1>1, <1>7 DEF PageIsGone
  <2> QED BY <2>1, <2>2, <1>1, <1>7, PostsNone
<1>8. ASSUME tab # "closed", configured' = configured, ~tasks[n].heard PROVE Posts(0)
  <2>1. posts' = posts
    BY <1>1, <1>8, Joins DEF Settings!ProxySet, Settings!Post, Settings!Answer
  <2>2. \A x : Tells(x) => Tells(x)' BY <1>1, <1>8, ValuesStay
  <2> QED BY <2>1, <2>2, <1>1, PostsNone
<1>9. ASSUME tab # "closed", configured' = configured, tasks[n].heard PROVE Posts(1)
  <2>1. posts' = Append(posts, m)
    BY <1>0, <1>1, <1>25, <1>9, Joins DEF Settings!ProxySet, Settings!Post, Settings!Answer, OfProxy
  <2>2. Posts(IF m.result # "none" /\ m.key # "stray" THEN 1 ELSE 0)
    BY <1>1, <1>5, <1>6, <2>1, PostsOne DEF Results
  <2> QED BY <2>2, <1>5
<1>10. ASSUME tab # "closed", configured' # configured, ~tasks[n].heard PROVE Posts(0)
  <2>1. posts' = Append(posts, a)
    BY <1>0, <1>1, <1>24, <1>10, Joins DEF Settings!ProxySet, Settings!Post, Settings!Answer, OfProxy
  <2>2. Posts(IF a.result # "none" /\ a.key # "stray" THEN 1 ELSE 0)
    BY <1>1, <1>4, <1>6, <2>1, PostsOne DEF Results
  <2> QED BY <2>2, <1>4
<1>11. ASSUME tab # "closed", configured' # configured, tasks[n].heard PROVE Posts(1)
  <2>0. posts' = posts \o (<<a>> \o <<m>>)
    BY <1>0, <1>24, <1>25, <1>11 DEF Settings!ProxySet, Settings!Post, Settings!Answer, OfProxy
  <2>1. posts' = Append(Append(posts, a), m) BY <1>1, <2>0, Joins
  <2>2. Posts(IF m.result # "none" /\ m.key # "stray" THEN 1 ELSE 0)
    BY <1>1, <1>4, <1>5, <1>6, <2>1, PostsTwo DEF Results
  <2> QED BY <2>2, <1>5
<1> QED BY <1>1, <1>3, <1>7, <1>8, <1>9, <1>10, <1>11

LEMMA SynchronizedPosts ==
    ASSUME SettingsTyped, NEW n \in DOMAIN tasks, Settings!Synchronized(n)
    PROVE  Posts(0) /\ configured' \in BOOLEAN
<1>1. /\ UNCHANGED <<tab, values, stored, noticed, capturing, takenBack>>
      /\ PostsTyped(posts) /\ Listed(posts) /\ configured' \in BOOLEAN
  BY DEF Settings!Synchronized, Settings!tabVars, Settings!storeVars, SettingsTyped, PostsTyped
<1>0. PICK c : c = configured' OBVIOUS
<1>22. PICK a : a = OfProxy(Settings!News, c) OBVIOUS
<1>2. /\ a.result = "none" /\ a.values = Settings!Values
     /\ a.configured = c /\ a.canSet = capturing
  BY <1>22, ProxyNews
<1>3. Tells(a)' BY <1>0, <1>1, <1>2, ValuesStay
<1>4. CASE tab = "closed"
  <2>1. posts' = posts BY <1>4 DEF Settings!Synchronized, Settings!Post
  <2> QED BY <2>1, <1>1, <1>4, PostsNone
<1>5. ASSUME tab # "closed", configured' = configured PROVE Posts(0)
  <2>1. posts' = Append(posts, a)
    BY <1>0, <1>1, <1>22, <1>5, Joins DEF Settings!Synchronized, Settings!Post, OfProxy
  <2>2. Posts(IF a.result # "none" /\ a.key # "stray" THEN 1 ELSE 0)
    BY <1>1, <1>2, <1>3, <2>1, PostsOne DEF Results
  <2> QED BY <2>2, <1>2
<1>6. ASSUME tab # "closed", configured' # configured PROVE Posts(0)
  <2>0. posts' = posts \o (<<a>> \o <<a>>)
    BY <1>0, <1>22, <1>6 DEF Settings!Synchronized, Settings!Post, OfProxy
  <2>1. posts' = Append(Append(posts, a), a) BY <1>1, <2>0, Joins
  <2>2. Posts(IF a.result # "none" /\ a.key # "stray" THEN 1 ELSE 0)
    BY <1>1, <1>2, <1>3, <2>1, PostsTwo DEF Results
  <2> QED BY <2>2, <1>2
<1> QED BY <1>1, <1>4, <1>5, <1>6

LEMMA FailsPosts ==
    ASSUME SettingsTyped, PageIsGone, NEW n \in DOMAIN tasks, Settings!Fails(n)
    PROVE  Posts(IF tasks[n].kind # "synchronize" /\ tasks[n].heard THEN 1 ELSE 0)
<1>1. /\ UNCHANGED <<tab, values, stored, noticed, configured, capturing, takenBack>>
      /\ PostsTyped(posts) /\ Listed(posts)
  BY DEF Settings!Fails, Settings!tabVars, Settings!storeVars, SettingsTyped, PostsTyped
<1>2. tasks[n] \in Job BY JobsAreTyped
<1>3. tasks[n].heard \in BOOLEAN /\ tasks[n].key # "stray" BY <1>2 DEF Job, Settings!Keys
<1>4. ASSUME NEW key, tab # "closed", posts' = posts \o <<Settings!Message("error", key)>>
      PROVE  Posts(IF key # "stray" THEN 1 ELSE 0)
  <2>21. PICK m : m = Settings!Message("error", key) OBVIOUS
  <2>1. /\ m.result = "error" /\ m.key = key /\ m.values = Settings!Values
       /\ m.configured = configured /\ m.canSet = capturing
    BY <2>21, Messages
  <2>2. posts' = Append(posts, m) BY <1>1, <1>4, <2>21, Joins DEF Settings!Fails
  <2>3. Tells(m)' BY <1>1, <2>1, ValuesStay
  <2>4. Posts(IF m.result # "none" /\ m.key # "stray" THEN 1 ELSE 0)
    BY <1>1, <2>1, <2>2, <2>3, PostsOne DEF Results
  <2> QED BY <2>1, <2>4
<1>5. CASE tab = "closed"
  <2>1. posts' = posts BY <1>5 DEF Settings!Fails, Settings!Post
  <2>2. tasks[n].heard => tasks[n].kind = "synchronize" BY <1>5 DEF PageIsGone
  <2>3. Posts(0) BY <2>1, <1>1, <1>5, PostsNone
  <2> QED BY <2>2, <2>3
<1>6. CASE tab # "closed" /\ tasks[n].kind = "synchronize"
  <2>1. posts' = posts \o <<Settings!Message("error", "stray")>> BY <1>6 DEF Settings!Fails, Settings!Post
  <2>2. Posts(IF "stray" # "stray" THEN 1 ELSE 0) BY <1>4, <1>6, <2>1
  <2> QED BY <2>2, <1>6
<1>7. CASE tab # "closed" /\ tasks[n].kind # "synchronize" /\ tasks[n].heard
  <2>1. posts' = posts \o <<Settings!Message("error", tasks[n].key)>>
    BY <1>7 DEF Settings!Fails, Settings!Post, Settings!Answer
  <2>2. Posts(IF tasks[n].key # "stray" THEN 1 ELSE 0) BY <1>4, <1>7, <2>1
  <2> QED BY <2>2, <1>3, <1>7
<1>8. CASE tab # "closed" /\ tasks[n].kind # "synchronize" /\ ~tasks[n].heard
  <2>1. posts' = posts BY <1>1, <1>8, Joins DEF Settings!Fails, Settings!Post, Settings!Answer
  <2>2. \A x : Tells(x) => Tells(x)' BY <1>1, ValuesStay
  <2>3. Posts(0) BY <1>1, <2>1, <2>2, PostsNone
  <2> QED BY <2>3, <1>8
<1> QED BY <1>3, <1>5, <1>6, <1>7, <1>8

LEMMA JobBegins ==
    ASSUME SettingsTyped, NEW j \in Job, tasks' = Append(tasks, j)
    PROVE  /\ tasks' \in Seq(Job)
           /\ \A n \in DOMAIN tasks' : tasks'[n] = j \/ (n \in DOMAIN tasks /\ tasks'[n] = tasks[n])
           /\ Cardinality(BusyIn(tasks)) \in Nat
           /\ Cardinality(BusyIn(tasks')) = Cardinality(BusyIn(tasks))
                  + (IF j.kind # "synchronize" /\ j.heard THEN 1 ELSE 0)
<1>1. tasks \in Seq(Job) BY DEF SettingsTyped
<1>2. tasks' \in Seq(Job) BY <1>1
<1>3. Listed(tasks) BY <1>1 DEF Listed
<1> DEFINE next == Append(tasks, j)
           place == Len(tasks) + 1
<1>4. /\ OneMore(next, place, tasks) /\ next[place] = j
      /\ \A n \in DOMAIN next : next[n] = j \/ (n \in DOMAIN tasks /\ next[n] = tasks[n])
  BY <1>3, ListGrows
<1> HIDE DEF next, place
<1>5. /\ Cardinality(BusyIn(tasks)) \in Nat
      /\ Cardinality(BusyIn(next)) = Cardinality(BusyIn(tasks))
             + (IF next[place].kind # "synchronize" /\ next[place].heard THEN 1 ELSE 0)
  BY <1>4, BusyCount
<1>6. tasks' = next BY DEF next
<1> QED BY <1>2, <1>4, <1>5, <1>6

LEMMA JobEnds ==
    ASSUME SettingsTyped, NEW n \in DOMAIN tasks, Settings!Ending(n)
    PROVE  /\ tasks' \in Seq(Job)
           /\ \A k \in DOMAIN tasks' : \E i \in DOMAIN tasks : tasks'[k] = tasks[i]
           /\ Cardinality(BusyIn(tasks')) \in Nat
           /\ Cardinality(BusyIn(tasks)) = Cardinality(BusyIn(tasks'))
                  + (IF tasks[n].kind # "synchronize" /\ tasks[n].heard THEN 1 ELSE 0)
<1>1. tasks \in Seq(Job) BY DEF SettingsTyped
<1>2. tasks' = Settings!RemoveAt(tasks, n) BY DEF Settings!Ending
<1>3. tasks' \in Seq(Job) /\ OneMore(tasks, n, tasks') BY <1>1, <1>2, ListLoses
<1>4. /\ Cardinality(BusyIn(tasks')) \in Nat
      /\ Cardinality(BusyIn(tasks)) = Cardinality(BusyIn(tasks'))
             + (IF tasks[n].kind # "synchronize" /\ tasks[n].heard THEN 1 ELSE 0)
  BY <1>3, BusyCount
<1>5. \A k \in DOMAIN tasks' : \E i \in DOMAIN tasks : tasks'[k] = tasks[i]
  <2>1. PICK N \in Nat : /\ n \in 1 .. N + 1 /\ DOMAIN tasks = 1 .. N + 1
                         /\ DOMAIN tasks' = 1 .. N
                         /\ \A k \in 1 .. N : tasks'[k] = tasks[IF k < n THEN k ELSE k + 1]
    BY <1>3 DEF OneMore
  <2>2. \A k \in 1 .. N : (IF k < n THEN k ELSE k + 1) \in 1 .. N + 1 BY <2>1
  <2> QED BY <2>1, <2>2
<1> QED BY <1>3, <1>4, <1>5

LEMMA Requested ==
    ASSUME NEW s, RequestsTyped(s), NEW r, RequestTyped(r)
    PROVE  LET t == Append(s, r) IN
           /\ RequestsTyped(t) /\ t # <<>> /\ Head(t) = IF s = <<>> THEN r ELSE Head(s)
           /\ Cardinality(SavesIn(s)) \in Nat
           /\ Cardinality(SavesIn(t)) = Cardinality(SavesIn(s))
                  + (IF r.type # "load" THEN 1 ELSE 0)
<1> DEFINE t == Append(s, r)
           place == Len(s) + 1
<1>1. /\ Listed(t) /\ t # <<>> /\ OneMore(t, place, s) /\ t[place] = r
      /\ Head(t) = IF s = <<>> THEN r ELSE Head(s)
      /\ \A n \in DOMAIN t : t[n] = r \/ (n \in DOMAIN s /\ t[n] = s[n])
  BY ListGrows DEF RequestsTyped
<1> HIDE DEF t, place
<1>2. RequestsTyped(t) BY <1>1 DEF RequestsTyped
<1>3. /\ Cardinality(SavesIn(s)) \in Nat
      /\ Cardinality(SavesIn(t)) = Cardinality(SavesIn(s))
             + (IF t[place].type # "load" THEN 1 ELSE 0)
  BY <1>1, SavesCount
<1> QED BY <1>1, <1>2, <1>3 DEF t

LEMMA RequestAsked ==
    ASSUME RequestsTyped(requests), NEW r, RequestTyped(r), requests' = Append(requests, r)
    PROVE  /\ RequestsTyped(requests') /\ requests' # <<>>
           /\ Head(requests') = IF requests = <<>> THEN r ELSE Head(requests)
           /\ Cardinality(SavesIn(requests)) \in Nat
           /\ Cardinality(SavesIn(requests')) = Cardinality(SavesIn(requests))
                  + (IF r.type # "load" THEN 1 ELSE 0)
BY Requested

LEMMA RequestTaken ==
    ASSUME RequestsTyped(requests), requests # <<>>, requests' = Tail(requests)
    PROVE  /\ RequestsTyped(requests')
           /\ RequestTyped(Head(requests))
           /\ Cardinality(SavesIn(requests')) \in Nat
           /\ Cardinality(SavesIn(requests)) = Cardinality(SavesIn(requests'))
                  + (IF Head(requests).type # "load" THEN 1 ELSE 0)
<1>1. /\ Listed(requests') /\ OneMore(requests, 1, requests')
      /\ Head(requests) = requests[1] /\ 1 \in DOMAIN requests
      /\ \A n \in DOMAIN requests' : \E k \in DOMAIN requests : requests'[n] = requests[k]
  BY ListShrinks DEF RequestsTyped
<1>2. /\ Cardinality(SavesIn(requests')) \in Nat
      /\ Cardinality(SavesIn(requests)) = Cardinality(SavesIn(requests'))
             + (IF Head(requests).type # "load" THEN 1 ELSE 0)
  BY <1>1, SavesCount
<1>3. RequestsTyped(requests') BY <1>1 DEF RequestsTyped
<1>4. RequestTyped(Head(requests)) BY <1>1 DEF RequestsTyped
<1> QED BY <1>2, <1>3, <1>4

LEMMA PostTaken ==
    ASSUME PostsTyped(posts), posts # <<>>, posts' = Tail(posts)
    PROVE  /\ PostsTyped(posts') /\ Head(posts).result \in Results
           /\ posts' = <<>> => Head(posts) = posts[Len(posts)]
           /\ posts' # <<>> => posts'[Len(posts')] = posts[Len(posts)]
           /\ Cardinality(AnswersIn(posts')) \in Nat
           /\ Cardinality(AnswersIn(posts)) = Cardinality(AnswersIn(posts'))
                  + (IF Head(posts).result # "none" /\ Head(posts).key # "stray"
                     THEN 1 ELSE 0)
<1>1. /\ Listed(posts') /\ OneMore(posts, 1, posts')
      /\ Head(posts) = posts[1] /\ 1 \in DOMAIN posts
      /\ posts' = <<>> => Head(posts) = posts[Len(posts)]
      /\ posts' # <<>> => posts'[Len(posts')] = posts[Len(posts)]
      /\ \A n \in DOMAIN posts' : \E k \in DOMAIN posts : posts'[n] = posts[k]
  BY ListShrinks DEF PostsTyped
<1>2. /\ Cardinality(AnswersIn(posts')) \in Nat
      /\ Cardinality(AnswersIn(posts)) = Cardinality(AnswersIn(posts'))
             + (IF Head(posts).result # "none" /\ Head(posts).key # "stray" THEN 1 ELSE 0)
  BY <1>1, AnswersCount
<1>3. PostsTyped(posts') /\ Head(posts).result \in Results BY <1>1 DEF PostsTyped
<1> QED BY <1>1, <1>2, <1>3

\* What was posted last goes on to hold, and what was asked for first to be asked for.
LEMMA PageStaysTold ==
    ASSUME SettingsTyped, PageIsTold, NEW k, Posts(k), tab # "closed",
           \/ UNCHANGED requests
           \/ requests # <<>> /\ (Head(requests).type # "load" \/ posts' # posts)
    PROVE  PageIsTold'
<1>1. CASE posts' # posts
  BY <1>1 DEF Posts, PageIsTold
<1>2. CASE posts' = posts
  <2>1. tab' = tab /\ values' = values /\ \A m : Tells(m) => Tells(m)' BY <1>2 DEF Posts
  <2>2. posts' # <<>> => (Tells(posts[Len(posts)]))'
    <3>1. posts # <<>> => Tells(posts[Len(posts)]) BY DEF PageIsTold
    <3>2. PICK m : m = posts[Len(posts)] OBVIOUS
    <3>3. posts # <<>> => Tells(m)' BY <2>1, <3>1, <3>2
    <3> QED BY <1>2, <3>2, <3>3 DEF Tells
  <2>3. posts' = <<>> /\ tab' = "open" => (Tells(values))'
    <3>1. posts = <<>> /\ tab = "open" => Tells(values) BY DEF PageIsTold
    <3>2. PICK m : m = values OBVIOUS
    <3>3. posts = <<>> /\ tab = "open" => Tells(m)' BY <2>1, <3>1, <3>2
    <3> QED BY <1>2, <2>1, <3>2, <3>3 DEF Tells
  <2>4. posts' = <<>> /\ tab' = "loading" => requests' # <<>> /\ Head(requests').type = "load"
    BY <1>2, <2>1 DEF PageIsTold
  <2> QED BY <2>2, <2>3, <2>4 DEF PageIsTold
<1> QED BY <1>1, <1>2

LEMMA GoneIsUntold ==
    ASSUME SettingsTyped', PageIsGone', tab' = "closed"
    PROVE  PageIsTold'
BY DEF PageIsGone, PageIsTold

LEMMA SettingsCounts ==
    ASSUME NEW s, Listed(s)
    PROVE  /\ Cardinality(SavesIn(s)) \in Nat /\ Cardinality(BusyIn(s)) \in Nat
           /\ Cardinality(AnswersIn(s)) \in Nat
<1>1. PICK S : s \in Seq(S) BY DEF Listed
<1>2. Len(s) \in Nat /\ DOMAIN s = 1 .. Len(s) BY <1>1
<1>3. IsFiniteSet(1 .. Len(s)) BY <1>2, FS_Interval
<1>4. /\ SavesIn(s) \subseteq 1 .. Len(s) /\ BusyIn(s) \subseteq 1 .. Len(s)
      /\ AnswersIn(s) \subseteq 1 .. Len(s)
  BY <1>2 DEF SavesIn, BusyIn, AnswersIn
<1>5. IsFiniteSet(SavesIn(s)) /\ IsFiniteSet(BusyIn(s)) /\ IsFiniteSet(AnswersIn(s))
  BY <1>3, <1>4, FS_Subset
<1> QED BY <1>5, FS_CardinalityType

\* What is asked for changes by what its parts change.
LEMMA AskedStep ==
    ASSUME SettingsTyped, NEW x \in Int, NEW y \in Int, NEW z \in Int,
           Cardinality(SavesIn(requests')) = Cardinality(SavesIn(requests)) + x,
           Cardinality(BusyIn(tasks')) = Cardinality(BusyIn(tasks)) + y,
           Cardinality(AnswersIn(posts')) = Cardinality(AnswersIn(posts)) + z
    PROVE  Settings!Asked \in Nat /\ Settings!Asked' = Settings!Asked + (x + y + z)
<1>1. PICK a, b, c : /\ a = Cardinality(SavesIn(requests)) /\ b = Cardinality(BusyIn(tasks))
                     /\ c = Cardinality(AnswersIn(posts))
  OBVIOUS
<1>2. a \in Nat /\ b \in Nat /\ c \in Nat
  <2>1. Listed(requests) /\ Listed(tasks) /\ Listed(posts)
    BY DEF SettingsTyped, RequestsTyped, PostsTyped, Listed
  <2> QED BY <1>1, <2>1, SettingsCounts
<1>3. Settings!Asked = a + b + c BY <1>1, SettingsCardinality
<1>4. Settings!Asked' = (a + x) + (b + y) + (c + z) BY <1>1, SettingsCardinality
<1>5. (a + x) + (b + y) + (c + z) = (a + b + c) + (x + y + z) /\ a + b + c \in Nat BY <1>2
<1> QED BY <1>3, <1>4, <1>5

LEMMA WaitsOn ==
    ASSUME PageWaits, UNCHANGED <<pending, stray>>, Settings!Asked' = Settings!Asked
    PROVE  PageWaits'
BY DEF PageWaits

\* A step of the window that answers as many requests as it takes.
LEMMA WaitsAlike ==
    ASSUME SettingsTyped, PageWaits, UNCHANGED <<pending, stray>>,
           NEW x \in Int, NEW y \in Int, NEW z \in Int, x + y + z = 0,
           Cardinality(SavesIn(requests')) = Cardinality(SavesIn(requests)) + x,
           Cardinality(BusyIn(tasks')) = Cardinality(BusyIn(tasks)) + y,
           Cardinality(AnswersIn(posts')) = Cardinality(AnswersIn(posts)) + z
    PROVE  PageWaits'
<1>1. Settings!Asked \in Nat /\ Settings!Asked' = Settings!Asked + (x + y + z) BY AskedStep
<1>2. Settings!Asked + 0 = Settings!Asked BY <1>1
<1> QED BY <1>1, <1>2, WaitsOn

LEMMA WaitsStill ==
    ASSUME PageWaits, UNCHANGED <<pending, stray, requests, tasks, posts>>
    PROVE  PageWaits'
<1>1. Settings!Asked' = Settings!Asked BY SettingsCardinality
<1> QED BY <1>1, WaitsOn

LEMMA KeptStill ==
    ASSUME StoreIsKept, UNCHANGED <<stored, legacy, visiting, migrated, wished>>
    PROVE  StoreIsKept'
BY DEF StoreIsKept

\* A setting that the schema allows is saved.
LEMMA StoresKept ==
    ASSUME SettingsTyped, StoreIsKept, NEW key \in Settings!Keys, NEW v,
           Settings!ValidatePreference(key, v), Settings!Store(key, v),
           UNCHANGED <<legacy, visiting, migrated>>
    PROVE  /\ StoreIsKept'
           /\ DOMAIN stored' \subseteq Settings!Keys /\ DOMAIN wished' \subseteq Settings!Keys
<1>1. /\ DOMAIN stored' = DOMAIN stored \cup {key} /\ DOMAIN wished' = DOMAIN wished \cup {key}
      /\ stored'[key] = v /\ wished'[key] = v
      /\ \A k \in DOMAIN stored \ {key} : stored'[k] = stored[k]
      /\ \A k \in DOMAIN wished \ {key} : wished'[k] = wished[k]
  BY DEF Settings!Store, Settings!With
<1>2. PICK s, w : s = stored' /\ w = wished' OBVIOUS
<1>3. \A k \in DOMAIN s : Settings!ValidatePreference(k, s[k])
  BY <1>1, <1>2 DEF StoreIsKept
<1>4. \A k \in DOMAIN w : k \in DOMAIN s /\ s[k] = w[k] BY <1>1, <1>2 DEF StoreIsKept
<1>5. \A k \in DOMAIN s \ DOMAIN w : k \in DOMAIN legacy /\ s[k] = legacy[k]
  BY <1>1, <1>2 DEF StoreIsKept
<1>6. \A k \in DOMAIN legacy \ visiting :
          Settings!ValidatePreference(k, legacy[k]) => k \in DOMAIN s
  BY <1>1, <1>2 DEF StoreIsKept
<1>7. StoreIsKept' BY <1>2, <1>3, <1>4, <1>5, <1>6 DEF StoreIsKept
<1> QED BY <1>1, <1>7 DEF SettingsTyped

\* The migration, and what other windows save.
LEMMA SettingsStores ==
    ASSUME SettingsInv,
           Settings!Migrate \/ Settings!Migrated \/ Settings!Interrupted \/ Settings!StoreChanges
    PROVE  SettingsInv'
<1> SettingsTyped /\ PageIsGone /\ PageIsTold /\ PageWaits /\ StoreIsKept BY DEF SettingsInv
<1>1. UNCHANGED <<tab, values, drafts, pending, pageState, stray, requests, posts, tasks,
                  configured, capturing, legacy>>
  BY DEF Settings!Migrate, Settings!Migrated, Settings!Interrupted, Settings!StoreChanges,
         Settings!tabVars
<1>2. CASE Settings!Migrate
  <2>1. PICK key \in visiting :
            /\ visiting' = visiting \ {key}
            /\ stored' = IF /\ key \in DOMAIN legacy \ DOMAIN stored
                            /\ Settings!ValidatePreference(key, legacy[key])
                         THEN Settings!With(stored, key, legacy[key]) ELSE stored
    BY <1>2 DEF Settings!Migrate
  <2>2. UNCHANGED <<migrated, wished, takenBack>> /\ ~migrated
    BY <1>2 DEF Settings!Migrate
  <2>3. ASSUME key \in DOMAIN legacy \ DOMAIN stored,
               Settings!ValidatePreference(key, legacy[key])
        PROVE  /\ DOMAIN stored' = DOMAIN stored \cup {key} /\ stored'[key] = legacy[key]
               /\ \A k \in DOMAIN stored : stored'[k] = stored[k]
    BY <2>1, <2>3 DEF Settings!With
  <2>4. PICK s : s = stored' OBVIOUS
  <2>5. /\ \A k \in DOMAIN s : Settings!ValidatePreference(k, s[k])
        /\ \A k \in DOMAIN wished : k \in DOMAIN s /\ wished[k] = s[k]
        /\ \A k \in DOMAIN s \ DOMAIN wished : k \in DOMAIN legacy /\ s[k] = legacy[k]
        /\ \A k \in DOMAIN legacy \ visiting' :
               Settings!ValidatePreference(k, legacy[k]) => k \in DOMAIN s
        /\ DOMAIN s \subseteq Settings!Keys
    BY <2>1, <2>3, <2>4 DEF StoreIsKept, SettingsTyped
  <2>6. StoreIsKept' BY <1>1, <2>2, <2>4, <2>5 DEF StoreIsKept
  <2>7. SettingsTyped' BY <1>1, <2>1, <2>2, <2>4, <2>5 DEF SettingsTyped
  <2>8. PageIsGone' BY <1>1, <2>2 DEF PageIsGone
  <2>9. PageIsTold' BY <1>1, <2>2, <2>7, <2>8, GoneIsUntold DEF PageIsGone
  <2> QED BY <1>1, <2>6, <2>7, <2>8, <2>9, WaitsStill DEF SettingsInv
<1>3. CASE Settings!Migrated \/ Settings!Interrupted
  <2>1. /\ UNCHANGED <<stored, wished, takenBack>> /\ ~migrated /\ migrated' \in BOOLEAN
        /\ visiting' \subseteq Settings!Keys /\ visiting \subseteq visiting'
        /\ migrated' => visiting' = {}
    <3>1. CASE Settings!Migrated BY <3>1 DEF Settings!Migrated, SettingsTyped
    <3>2. CASE Settings!Interrupted
      BY <3>2 DEF Settings!Interrupted, SettingsTyped
    <3> QED BY <1>3, <3>1, <3>2
  <2>2. SettingsTyped' BY <1>1, <2>1 DEF SettingsTyped
  <2>3. StoreIsKept' BY <1>1, <2>1 DEF StoreIsKept
  <2>4. PageIsGone' BY <1>1, <2>1 DEF PageIsGone
  <2>5. PageIsTold' BY <1>1, <2>1, <2>2, <2>4, GoneIsUntold DEF PageIsGone
  <2> QED BY <1>1, <2>2, <2>3, <2>4, <2>5, WaitsStill DEF SettingsInv
<1>4. CASE Settings!StoreChanges
  <2>1. PICK key \in Settings!Keys : \E v : /\ Settings!ValidatePreference(key, v)
                                              /\ Settings!Store(key, v)
    BY <1>4 DEF Settings!StoreChanges
  <2>2. /\ UNCHANGED <<visiting, migrated, noticed>> /\ takenBack' \in BOOLEAN
        /\ migrated => takenBack' = (takenBack \/ (Settings!Values # noticed
                                                   /\ Settings!ValuesOf(stored') = noticed))
    BY <1>4 DEF Settings!StoreChanges, Settings!Undo, SettingsTyped
  <2>3. /\ StoreIsKept'
        /\ DOMAIN stored' \subseteq Settings!Keys /\ DOMAIN wished' \subseteq Settings!Keys
    BY <1>1, <2>1, <2>2, StoresKept
  <2>4. SettingsTyped' BY <1>1, <2>2, <2>3 DEF SettingsTyped
  <2>5. PageIsGone' BY <1>1, <2>2 DEF PageIsGone
  <2>6. CASE tab = "closed" BY <1>1, <2>3, <2>4, <2>5, <2>6, GoneIsUntold, WaitsStill DEF SettingsInv
  <2>7. CASE tab # "closed"
    <3>1. Settings!Values' = Settings!ValuesOf(stored') BY DEF Settings!Values
    <3>2. migrated BY <2>7 DEF PageIsGone
    <3>3. \A m : Tells(m) => Tells(m)' BY <1>1, <2>2, <3>1, <3>2 DEF Tells
    <3>4. Posts(0) BY <1>1, <3>3, PostsNone DEF SettingsTyped
    <3>5. PageIsTold' BY <1>1, <2>7, <3>4, PageStaysTold
    <3> QED BY <1>1, <2>3, <2>4, <2>5, <3>5, WaitsStill DEF SettingsInv
  <2> QED BY <2>6, <2>7
<1> QED BY <1>2, <1>3, <1>4

LEMMA SettingsRefreshes ==
    ASSUME SettingsInv, Settings!Refresh
    PROVE  SettingsInv'
<1> SettingsTyped /\ PageIsGone /\ PageIsTold /\ PageWaits /\ StoreIsKept BY DEF SettingsInv
<1>1. UNCHANGED <<stored, legacy, visiting, migrated, wished, takenBack, tab, values, drafts,
                  pending, pageState, stray, capturing, configured, tasks, requests>>
  BY DEF Settings!Refresh, Settings!tabVars
<1>2. Posts(0) BY RefreshPosts
<1>3. SettingsTyped' BY <1>1, <1>2 DEF SettingsTyped, Posts
<1>4. PageIsGone'
  <2>1. tab = "closed" => posts' = posts BY DEF Settings!Refresh, Settings!Post
  <2> QED BY <1>1, <2>1 DEF PageIsGone
<1>5. PageIsTold' BY <1>1, <1>2, <1>3, <1>4, GoneIsUntold, PageStaysTold
<1>6. PageWaits'
  <2>1. /\ Cardinality(SavesIn(requests)) \in Nat /\ Cardinality(BusyIn(tasks)) \in Nat
    BY SettingsCounts DEF SettingsTyped, RequestsTyped, Listed
  <2>2. /\ Cardinality(SavesIn(requests')) = Cardinality(SavesIn(requests)) + 0
        /\ Cardinality(BusyIn(tasks')) = Cardinality(BusyIn(tasks)) + 0
    BY <1>1, <2>1
  <2>3. Cardinality(AnswersIn(posts')) = Cardinality(AnswersIn(posts)) + 0
    BY <1>2 DEF Posts
  <2> QED BY <1>1, <2>2, <2>3, WaitsAlike
<1> QED BY <1>1, <1>3, <1>4, <1>5, <1>6, KeptStill DEF SettingsInv

LEMMA SettingsState ==
    ASSUME SettingsInv, Settings!StateChanges
    PROVE  SettingsInv'
<1> SettingsTyped /\ PageIsGone /\ PageIsTold /\ PageWaits /\ StoreIsKept BY DEF SettingsInv
<1>1. /\ UNCHANGED <<stored, legacy, visiting, migrated, wished, takenBack, tab, values, drafts,
                     pending, pageState, stray, configured, requests>>
      /\ capturing' \in BOOLEAN
  BY DEF Settings!StateChanges, Settings!tabVars, Settings!storeVars
<1>2. Posts(0) BY StatePosts
<1>3. PICK j \in Job : /\ tasks' = Append(tasks, j) /\ j.kind = "synchronize"
  <2> DEFINE j == [kind |-> "synchronize", key |-> "", heard |-> TRUE]
  <2>1. j \in Job /\ j.kind = "synchronize" BY DEF Job
  <2>2. tasks' = Append(tasks, j) BY DEF Settings!StateChanges
  <2> QED BY <2>1, <2>2
<1>4. /\ tasks' \in Seq(Job)
      /\ \A n \in DOMAIN tasks' : tasks'[n] = j \/ (n \in DOMAIN tasks /\ tasks'[n] = tasks[n])
      /\ Cardinality(BusyIn(tasks)) \in Nat
      /\ Cardinality(BusyIn(tasks')) = Cardinality(BusyIn(tasks)) + 0
  BY <1>3, JobBegins
<1>5. SettingsTyped' BY <1>1, <1>2, <1>4 DEF SettingsTyped, Posts
<1>6. PageIsGone'
  <2>1. tab = "closed" => posts' = posts BY DEF Settings!StateChanges
  <2> QED BY <1>1, <1>3, <1>4, <2>1 DEF PageIsGone
<1>7. PageIsTold' BY <1>1, <1>2, <1>5, <1>6, GoneIsUntold, PageStaysTold
<1>8. PageWaits'
  <2>1. Cardinality(SavesIn(requests)) \in Nat
    BY SettingsCounts DEF SettingsTyped, RequestsTyped
  <2>2. Cardinality(SavesIn(requests')) = Cardinality(SavesIn(requests)) + 0
    BY <1>1, <2>1
  <2>3. Cardinality(AnswersIn(posts')) = Cardinality(AnswersIn(posts)) + 0
    BY <1>2 DEF Posts
  <2> QED BY <1>1, <1>4, <2>2, <2>3, WaitsAlike
<1> QED BY <1>1, <1>5, <1>6, <1>7, <1>8, KeptStill DEF SettingsInv

\* The window takes a request.
LEMMA SettingsRequests ==
    ASSUME SettingsInv,
           Settings!LoadSettings \/ Settings!SaveSetting \/ Settings!ProxyRequest
    PROVE  SettingsInv'
<1> SettingsTyped /\ PageIsGone /\ PageIsTold /\ PageWaits /\ StoreIsKept BY DEF SettingsInv
<1>1. /\ UNCHANGED <<legacy, visiting, migrated, noticed, tab, values, drafts, pending, pageState,
                     stray, capturing, configured>>
      /\ requests # <<>> /\ requests' = Tail(requests)
  BY DEF Settings!LoadSettings, Settings!SaveSetting, Settings!ProxyRequest,
         Settings!tabVars, Settings!storeVars
<1>2. PICK r : r = Head(requests) OBVIOUS
<1>3. /\ RequestsTyped(requests') /\ RequestTyped(r)
      /\ Cardinality(SavesIn(requests')) \in Nat
      /\ Cardinality(SavesIn(requests)) = Cardinality(SavesIn(requests'))
             + (IF r.type # "load" THEN 1 ELSE 0)
  BY <1>1, <1>2, RequestTaken DEF SettingsTyped
<1>4. tab # "closed" /\ migrated BY <1>1 DEF PageIsGone
<1>5. PICK n : n = Cardinality(SavesIn(requests')) OBVIOUS
<1>6. Cardinality(BusyIn(tasks)) \in Nat BY SettingsCounts DEF SettingsTyped, Listed
<1>7. CASE Settings!LoadSettings
  <2>1. UNCHANGED <<stored, wished, takenBack, tasks>> /\ r.type = "load"
    BY <1>2, <1>7 DEF Settings!LoadSettings, Settings!storeVars
  <2>2. Posts(0) /\ posts' # posts BY <1>4, <1>7, LoadPosts
  <2>3. SettingsTyped' BY <1>1, <1>3, <2>1, <2>2 DEF SettingsTyped, Posts
  <2>4. PageIsGone' BY <1>1, <1>4 DEF PageIsGone
  <2>5. PageIsTold' BY <1>1, <1>4, <2>2, PageStaysTold
  <2>6. PageWaits'
    <3>1. Cardinality(SavesIn(requests')) = Cardinality(SavesIn(requests)) + 0
      <4>1. Cardinality(SavesIn(requests)) = n + 0 /\ n \in Nat BY <1>3, <1>5, <2>1
      <4> QED BY <1>5, <4>1
    <3>2. Cardinality(BusyIn(tasks')) = Cardinality(BusyIn(tasks)) + 0 BY <1>6, <2>1
    <3>3. Cardinality(AnswersIn(posts')) = Cardinality(AnswersIn(posts)) + 0 BY <2>2 DEF Posts
    <3> QED BY <1>1, <3>1, <3>2, <3>3, WaitsAlike
  <2> QED BY <1>1, <2>1, <2>3, <2>4, <2>5, <2>6, KeptStill DEF SettingsInv
<1>8. ASSUME r.type # "load"
      PROVE  Cardinality(SavesIn(requests')) = Cardinality(SavesIn(requests)) + (-1)
  <2>1. Cardinality(SavesIn(requests)) = n + 1 /\ n \in Nat BY <1>3, <1>5, <1>8
  <2>2. n = (n + 1) + (-1) BY <2>1
  <2> QED BY <1>5, <2>1, <2>2
<1>9. CASE Settings!SaveSetting
  <2>1. r.type = "save" BY <1>2, <1>9 DEF Settings!SaveSetting
  <2>2. r.key \in Settings!Keys BY <1>3, <2>1 DEF RequestTyped
  <2>3. Cardinality(SavesIn(requests')) = Cardinality(SavesIn(requests)) + (-1)
    BY <1>8, <2>1
  <2>4. PICK key, v : key = r.key /\ v = r.value OBVIOUS
  <2>5. Posts(IF Settings!ValidatePreference(key, v) THEN 0 ELSE 1)
    BY <1>2, <1>4, <1>9, <2>4, SavePosts
  <2>7. PageIsTold' BY <1>1, <1>2, <1>4, <2>1, <2>5, PageStaysTold
  <2>8. CASE Settings!ValidatePreference(key, v)
    <3>1. /\ Settings!Store(key, v) /\ takenBack' \in BOOLEAN
          /\ tasks' = Append(tasks, [kind |-> "save", key |-> key, heard |-> TRUE])
      BY <1>2, <1>9, <2>4, <2>8 DEF Settings!SaveSetting, Settings!Begun, Settings!Undo
    <3>2. /\ StoreIsKept'
          /\ DOMAIN stored' \subseteq Settings!Keys /\ DOMAIN wished' \subseteq Settings!Keys
      BY <1>1, <2>2, <2>4, <2>8, <3>1, StoresKept
    <3>3. PICK j \in Job : /\ tasks' = Append(tasks, j) /\ j.kind = "save" /\ j.heard = TRUE
      <4> DEFINE j == [kind |-> "save", key |-> key, heard |-> TRUE]
      <4>1. j \in Job /\ j.kind = "save" /\ j.heard = TRUE BY <2>2, <2>4 DEF Job
      <4>2. tasks' = Append(tasks, j) BY <3>1
      <4> QED BY <4>1, <4>2
    <3>4. /\ tasks' \in Seq(Job)
          /\ Cardinality(BusyIn(tasks')) = Cardinality(BusyIn(tasks)) + 1
      BY <3>3, JobBegins
    <3>5. SettingsTyped' BY <1>1, <1>3, <2>5, <3>1, <3>2, <3>4 DEF SettingsTyped, Posts
    <3>6. PageIsGone' BY <1>1, <1>4 DEF PageIsGone
    <3>7. Cardinality(AnswersIn(posts')) = Cardinality(AnswersIn(posts)) + 0
      BY <2>5, <2>8 DEF Posts
    <3>8. PageWaits' BY <1>1, <2>3, <3>4, <3>7, WaitsAlike
    <3> QED BY <2>7, <3>2, <3>5, <3>6, <3>8 DEF SettingsInv
  <2>9. CASE ~Settings!ValidatePreference(key, v)
    <3>1. UNCHANGED <<stored, wished, takenBack, tasks>>
      BY <1>2, <1>9, <2>4, <2>9 DEF Settings!SaveSetting
    <3>2. SettingsTyped' BY <1>1, <1>3, <2>5, <3>1 DEF SettingsTyped, Posts
    <3>3. PageIsGone' BY <1>1, <1>4 DEF PageIsGone
    <3>4. Cardinality(BusyIn(tasks')) = Cardinality(BusyIn(tasks)) + 0 BY <1>6, <3>1
    <3>5. Cardinality(AnswersIn(posts')) = Cardinality(AnswersIn(posts)) + 1
      BY <2>5, <2>9 DEF Posts
    <3>6. PageWaits' BY <1>1, <2>3, <3>4, <3>5, WaitsAlike
    <3> QED BY <1>1, <2>7, <3>1, <3>2, <3>3, <3>6, KeptStill DEF SettingsInv
  <2> QED BY <2>8, <2>9
<1>10. CASE Settings!ProxyRequest
  <2>1. /\ UNCHANGED <<stored, wished, takenBack, posts>>
        /\ r.type \in {"setProxy", "removeProxy"}
        /\ tasks' = Append(tasks, [kind |-> r.type, key |-> "", heard |-> TRUE])
    BY <1>2, <1>10 DEF Settings!ProxyRequest, Settings!storeVars, Settings!Begun
  <2>2. Cardinality(SavesIn(requests')) = Cardinality(SavesIn(requests)) + (-1)
    BY <1>8, <2>1
  <2>3. PICK j \in Job : /\ tasks' = Append(tasks, j) /\ j.kind # "synchronize" /\ j.heard = TRUE
    <3> DEFINE j == [kind |-> r.type, key |-> "", heard |-> TRUE]
    <3>1. j \in Job /\ j.kind # "synchronize" /\ j.heard = TRUE BY <2>1 DEF Job
    <3>2. tasks' = Append(tasks, j) BY <2>1
    <3> QED BY <3>1, <3>2
  <2>4. /\ tasks' \in Seq(Job)
        /\ Cardinality(BusyIn(tasks')) = Cardinality(BusyIn(tasks)) + 1
    BY <2>3, JobBegins
  <2>5. \A m : Tells(m) => Tells(m)' BY <1>1, <2>1, ValuesStay
  <2>6. Posts(0) BY <1>1, <2>1, <2>5, PostsNone DEF SettingsTyped
  <2>7. SettingsTyped' BY <1>1, <1>3, <2>1, <2>4 DEF SettingsTyped
  <2>8. PageIsGone' BY <1>1, <1>4 DEF PageIsGone
  <2>9. PageIsTold' BY <1>1, <1>2, <1>4, <2>1, <2>6, PageStaysTold
  <2>10. Cardinality(AnswersIn(posts')) = Cardinality(AnswersIn(posts)) + 0
    BY <2>6 DEF Posts
  <2>11. PageWaits' BY <1>1, <2>2, <2>4, <2>10, WaitsAlike
  <2> QED BY <1>1, <2>1, <2>7, <2>8, <2>9, <2>11, KeptStill DEF SettingsInv
<1> QED BY <1>7, <1>9, <1>10

\* A job ends.
LEMMA SettingsJobs ==
    ASSUME SettingsInv, NEW n \in DOMAIN tasks,
           \/ Settings!Saved(n) \/ Settings!ProxySet(n)
           \/ Settings!Synchronized(n) \/ Settings!Fails(n)
    PROVE  SettingsInv'
<1> SettingsTyped /\ PageIsGone /\ PageIsTold /\ PageWaits /\ StoreIsKept BY DEF SettingsInv
<1>1. /\ UNCHANGED <<stored, legacy, visiting, migrated, wished, takenBack, tab, values, drafts,
                     pending, pageState, stray, capturing, requests>>
      /\ configured' \in BOOLEAN /\ Settings!Ending(n)
  <2>1. CASE Settings!Saved(n)
    BY <2>1 DEF Settings!Saved, Settings!tabVars, SettingsTyped
  <2>2. CASE Settings!ProxySet(n)
    BY <2>2 DEF Settings!ProxySet, Settings!tabVars, Settings!storeVars
  <2>3. CASE Settings!Synchronized(n)
    BY <2>3, SynchronizedPosts DEF Settings!Synchronized, Settings!tabVars, Settings!storeVars
  <2>4. CASE Settings!Fails(n)
    BY <2>4 DEF Settings!Fails, Settings!tabVars, Settings!storeVars, SettingsTyped
  <2> QED BY <2>1, <2>2, <2>3, <2>4
<1>2. PICK k \in {0, 1} :
          k = IF tasks[n].kind # "synchronize" /\ tasks[n].heard THEN 1 ELSE 0
  OBVIOUS
<1>3. Posts(k)
  <2>1. CASE Settings!Saved(n) BY <1>2, <2>1, SavedPosts
  <2>2. CASE Settings!ProxySet(n) BY <1>2, <2>2, ProxySetPosts
  <2>3. CASE Settings!Synchronized(n)
    <3>1. tasks[n].kind = "synchronize" BY <2>3 DEF Settings!Synchronized
    <3> QED BY <1>2, <2>3, <3>1, SynchronizedPosts
  <2>4. CASE Settings!Fails(n) BY <1>2, <2>4, FailsPosts
  <2> QED BY <2>1, <2>2, <2>3, <2>4
<1>4. /\ tasks' \in Seq(Job)
      /\ \A i \in DOMAIN tasks' : \E j \in DOMAIN tasks : tasks'[i] = tasks[j]
      /\ Cardinality(BusyIn(tasks')) \in Nat
      /\ Cardinality(BusyIn(tasks)) = Cardinality(BusyIn(tasks')) + k
  BY <1>1, <1>2, JobEnds
<1>5. SettingsTyped' BY <1>1, <1>3, <1>4 DEF SettingsTyped, Posts
<1>6. PageIsGone'
  <2>1. tab = "closed" => posts' = posts
    BY DEF Settings!Saved, Settings!ProxySet, Settings!Synchronized, Settings!Fails, Settings!Post
  <2> QED BY <1>1, <1>4, <2>1 DEF PageIsGone
<1>7. PageIsTold' BY <1>1, <1>3, <1>5, <1>6, GoneIsUntold, PageStaysTold
<1>8. PageWaits'
  <2>1. Cardinality(SavesIn(requests)) \in Nat
    BY SettingsCounts DEF SettingsTyped, RequestsTyped
  <2>2. Cardinality(SavesIn(requests')) = Cardinality(SavesIn(requests)) + 0
    BY <1>1, <2>1
  <2>3. Cardinality(AnswersIn(posts')) = Cardinality(AnswersIn(posts)) + k
    BY <1>3 DEF Posts
  <2>4. PICK b : b = Cardinality(BusyIn(tasks')) OBVIOUS
  <2>5. b \in Nat /\ Cardinality(BusyIn(tasks)) = b + k BY <1>4, <2>4
  <2>6. b = (b + k) + (0 - k) BY <2>5, <1>2
  <2>7. Cardinality(BusyIn(tasks')) = Cardinality(BusyIn(tasks)) + (0 - k)
    BY <2>4, <2>5, <2>6
  <2>8. 0 + (0 - k) + k = 0 /\ 0 - k \in Int /\ k \in Int BY <1>2
  <2> QED BY <1>1, <2>2, <2>3, <2>7, <2>8, WaitsAlike
<1> QED BY <1>1, <1>5, <1>6, <1>7, <1>8, KeptStill DEF SettingsInv

LEMMA SettingsOpens ==
    ASSUME SettingsInv, Settings!OpenTab
    PROVE  SettingsInv'
<1> SettingsTyped /\ PageIsGone /\ PageIsTold /\ PageWaits /\ StoreIsKept BY DEF SettingsInv
<1>1. /\ UNCHANGED <<stored, legacy, visiting, migrated, wished, noticed, takenBack, values, drafts,
                     pending, pageState, stray, capturing, configured, tasks, posts>>
      /\ migrated /\ tab = "closed" /\ tab' = "loading"
  BY DEF Settings!OpenTab, Settings!storeVars
<1>2. requests = <<>> /\ posts = <<>> /\ ~pending BY <1>1 DEF PageIsGone
<1>3. PICK r : r = [type |-> "load", key |-> "", value |-> FALSE] OBVIOUS
<1>4. RequestTyped(r) /\ r.type = "load" BY <1>3 DEF RequestTyped
<1>5. requests' = <<r>> BY <1>3 DEF Settings!OpenTab, Settings!Request
<1>6. requests' = Append(requests, r) BY <1>2, <1>5
<1>7. /\ RequestsTyped(requests') /\ requests' # <<>> /\ Head(requests') = r
      /\ Cardinality(SavesIn(requests)) \in Nat
      /\ Cardinality(SavesIn(requests')) = Cardinality(SavesIn(requests)) + 0
  BY <1>2, <1>4, <1>6, RequestAsked DEF SettingsTyped
<1>8. SettingsTyped' BY <1>1, <1>7 DEF SettingsTyped
<1>9. PageIsGone' BY <1>1 DEF PageIsGone
<1>10. PageIsTold' BY <1>1, <1>2, <1>4, <1>7 DEF PageIsTold
<1>11. PageWaits'
  <2>1. Cardinality(BusyIn(tasks)) \in Nat /\ Cardinality(AnswersIn(posts)) \in Nat
    BY SettingsCounts DEF SettingsTyped, PostsTyped, Listed
  <2>2. /\ Cardinality(BusyIn(tasks')) = Cardinality(BusyIn(tasks)) + 0
        /\ Cardinality(AnswersIn(posts')) = Cardinality(AnswersIn(posts)) + 0
    BY <1>1, <2>1
  <2> QED BY <1>1, <1>7, <2>2, WaitsAlike
<1> QED BY <1>1, <1>8, <1>9, <1>10, <1>11, KeptStill DEF SettingsInv

LEMMA SeqByPlaces ==
    ASSUME NEW S, NEW s \in Seq(S), NEW T, NEW f,
           f = [n \in DOMAIN s |-> f[n]], \A n \in DOMAIN s : f[n] \in T
    PROVE  f \in Seq(T)
<1>1. Len(s) \in Nat /\ DOMAIN s = 1 .. Len(s) OBVIOUS
<1>2. f = [n \in 1 .. Len(s) |-> f[n]] BY <1>1
<1>3. f \in [1 .. Len(s) -> T] BY <1>1, <1>2
<1> QED BY <1>1, <1>3

LEMMA SettingsCloses ==
    ASSUME SettingsInv, Settings!CloseTab
    PROVE  SettingsInv'
<1> SettingsTyped /\ PageIsGone /\ PageIsTold /\ PageWaits /\ StoreIsKept BY DEF SettingsInv
<1>1. /\ UNCHANGED <<stored, legacy, visiting, migrated, wished, noticed, takenBack,
                     stray, capturing, configured>>
      /\ tab # "closed" /\ tab' = "closed" /\ requests' = <<>> /\ posts' = <<>>
      /\ drafts' = <<>> /\ pending' = FALSE /\ pageState' = ""
      /\ tasks' = [n \in DOMAIN tasks |-> [tasks[n] EXCEPT !.heard = FALSE]]
  BY DEF Settings!CloseTab, Settings!storeVars
<1>2. migrated BY <1>1 DEF PageIsGone
<1>3. tasks \in Seq(Job) BY DEF SettingsTyped
<1>4. \A n \in DOMAIN tasks :
          [tasks[n] EXCEPT !.heard = FALSE] \in Job /\ [tasks[n] EXCEPT !.heard = FALSE].heard = FALSE
  BY JobsAreTyped DEF Job
<1>5. /\ DOMAIN tasks' = DOMAIN tasks
      /\ \A n \in DOMAIN tasks' : tasks'[n] \in Job /\ tasks'[n].heard = FALSE
  BY <1>1, <1>4
<1>6. tasks' \in Seq(Job)
  <2> DEFINE quiet(n) == [tasks[n] EXCEPT !.heard = FALSE]
  <2>1. tasks' = [n \in DOMAIN tasks |-> quiet(n)] BY <1>1
  <2> HIDE DEF quiet
  <2>2. PICK f : f = tasks' OBVIOUS
  <2>3. f = [n \in DOMAIN tasks |-> f[n]] BY <2>1, <2>2
  <2>4. \A n \in DOMAIN tasks : f[n] \in Job BY <1>5, <2>2
  <2>5. f \in Seq(Job) BY <1>3, <2>3, <2>4, SeqByPlaces
  <2> QED BY <2>2, <2>5
<1>7. <<>> \in Seq({}) /\ DOMAIN <<>> = {} BY ShortLists, EmptyDomain
<1>8. RequestsTyped(<<>>) /\ PostsTyped(<<>>)
  BY <1>7 DEF RequestsTyped, PostsTyped, Listed
<1>9. SettingsTyped' BY <1>1, <1>6, <1>7, <1>8 DEF SettingsTyped
<1>10. PageIsGone' BY <1>1, <1>5 DEF PageIsGone
<1>11. PageIsTold' BY <1>1, <1>9, <1>10, GoneIsUntold
<1>12. PageWaits'
  <2>1. BusyIn(tasks') = {} BY <1>5 DEF BusyIn
  <2>2. Cardinality(BusyIn(tasks')) = 0 BY <2>1, FS_EmptySet
  <2>3. Cardinality(SavesIn(requests')) = 0 /\ Cardinality(AnswersIn(posts')) = 0
    BY <1>1, NoneCounts
  <2>4. Settings!Asked' = 0 BY <2>2, <2>3, SettingsCardinality
  <2> QED BY <1>1, <2>4 DEF PageWaits
<1> QED BY <1>1, <1>9, <1>10, <1>11, <1>12, KeptStill DEF SettingsInv

LEMMA SettingsReceives ==
    ASSUME SettingsInv, Settings!Receive
    PROVE  SettingsInv'
<1> SettingsTyped /\ PageIsGone /\ PageIsTold /\ PageWaits /\ StoreIsKept BY DEF SettingsInv
<1>1. PICK m : m = Head(posts) OBVIOUS
<1>2. /\ UNCHANGED <<stored, legacy, visiting, migrated, wished, noticed, takenBack, capturing,
                     configured, tasks, requests>>
      /\ posts # <<>> /\ posts' = Tail(posts) /\ tab' = "open" /\ values' = m
      /\ stray' = (stray \/ (m.key = "stray" /\ pending))
      /\ m.result = "none" => UNCHANGED <<pending, pageState>>
      /\ m.result # "none" => pending' = FALSE /\ pageState' = m.result
      /\ DOMAIN drafts' \subseteq DOMAIN drafts
  BY <1>1 DEF Settings!Receive, Settings!storeVars, Settings!Restrict
<1>3. /\ PostsTyped(posts') /\ m.result \in Results
      /\ posts' = <<>> => m = posts[Len(posts)]
      /\ posts' # <<>> => posts'[Len(posts')] = posts[Len(posts)]
      /\ Cardinality(AnswersIn(posts')) \in Nat
      /\ Cardinality(AnswersIn(posts)) = Cardinality(AnswersIn(posts'))
             + (IF m.result # "none" /\ m.key # "stray" THEN 1 ELSE 0)
  BY <1>1, <1>2, PostTaken DEF SettingsTyped
<1>4. tab # "closed" /\ migrated BY <1>2 DEF PageIsGone
<1>5. stray' \in BOOLEAN /\ pending' \in BOOLEAN
  BY <1>2 DEF SettingsTyped
<1>6. SettingsTyped' BY <1>2, <1>3, <1>5 DEF SettingsTyped, Results
<1>7. PageIsGone' BY <1>2, <1>4 DEF PageIsGone
<1>8. PageIsTold'
  <2>1. Tells(posts[Len(posts)]) BY <1>2 DEF PageIsTold
  <2>2. PICK last : last = posts[Len(posts)] OBVIOUS
  <2>3. Tells(last) BY <2>1, <2>2
  <2>4. Tells(last)' BY <1>2, <2>3, ValuesStay
  <2>5. posts' # <<>> => (Tells(posts[Len(posts)]))' BY <1>3, <2>2, <2>4 DEF Tells
  <2>6. posts' = <<>> => (Tells(values))' BY <1>2, <1>3, <2>2, <2>4 DEF Tells
  <2> QED BY <1>2, <2>5, <2>6 DEF PageIsTold
<1>9. PageWaits'
  <2>1. Cardinality(BusyIn(tasks)) \in Nat /\ Cardinality(SavesIn(requests)) \in Nat
    BY SettingsCounts DEF SettingsTyped, RequestsTyped, Listed
  <2>2. /\ Cardinality(BusyIn(tasks')) = Cardinality(BusyIn(tasks)) + 0
        /\ Cardinality(SavesIn(requests')) = Cardinality(SavesIn(requests)) + 0
    BY <1>2, <2>1
  <2>3. PICK a : a = Cardinality(AnswersIn(posts')) OBVIOUS
  <2>4. PICK n, next : n = Settings!Asked /\ next = Settings!Asked' OBVIOUS
  <2>5. CASE m.result # "none" /\ m.key # "stray"
    <3>1. a \in Nat /\ Cardinality(AnswersIn(posts)) = a + 1 BY <1>3, <2>3, <2>5
    <3>2. a = (a + 1) + (-1) BY <3>1
    <3>3. Cardinality(AnswersIn(posts')) = Cardinality(AnswersIn(posts)) + (-1)
      BY <2>3, <3>1, <3>2
    <3>4. Settings!Asked \in Nat /\ Settings!Asked' = Settings!Asked + (0 + 0 + (-1))
      BY <2>2, <3>3, AskedStep
    <3>5. n \in Nat /\ next = n - 1 BY <2>4, <3>4
    <3>6. pending' = FALSE /\ stray' = stray BY <1>2, <2>5 DEF SettingsTyped
    <3>7. Cardinality(AnswersIn(posts')) \in Nat /\ next \in Nat
      <4>1. Listed(requests') /\ Listed(tasks') /\ Listed(posts')
        BY <1>6 DEF SettingsTyped, RequestsTyped, PostsTyped, Listed
      <4>2. /\ Cardinality(SavesIn(requests')) \in Nat /\ Cardinality(BusyIn(tasks')) \in Nat
            /\ Cardinality(AnswersIn(posts')) \in Nat
        BY <4>1, SettingsCounts
      <4>3. PICK x, y, z : /\ x = Cardinality(SavesIn(requests'))
                           /\ y = Cardinality(BusyIn(tasks'))
                           /\ z = Cardinality(AnswersIn(posts'))
        OBVIOUS
      <4>4. x \in Nat /\ y \in Nat /\ z \in Nat BY <4>2, <4>3
      <4>5. next = x + y + z BY <2>4, <4>3, SettingsCardinality
      <4> QED BY <4>2, <4>4, <4>5
    <3>8. ~stray => n = IF pending THEN 1 ELSE 0 BY <2>4 DEF PageWaits
    <3>9. ~stray => next = 0
      <4>1. ~stray => n = 0 \/ n = 1 BY <3>8
      <4> QED BY <4>1, <3>5, <3>7
    <3> QED BY <2>4, <3>6, <3>9 DEF PageWaits
  <2>6. CASE ~(m.result # "none" /\ m.key # "stray")
    <3>1. a \in Nat /\ Cardinality(AnswersIn(posts)) = a + 0 BY <1>3, <2>3, <2>6
    <3>2. Cardinality(AnswersIn(posts')) = Cardinality(AnswersIn(posts)) + 0
      BY <2>3, <3>1
    <3>3. Settings!Asked \in Nat /\ Settings!Asked' = Settings!Asked + (0 + 0 + 0)
      BY <2>2, <3>2, AskedStep
    <3>4. n \in Nat /\ next = n BY <2>4, <3>3
    <3>5. /\ pending => n # 0
          /\ ~stray => n = IF pending THEN 1 ELSE 0
      BY <2>4 DEF PageWaits
    <3>6. \/ pending' = pending /\ stray' = (stray \/ (m.key = "stray" /\ pending))
          \/ pending' = FALSE /\ stray' = (stray \/ pending)
      BY <1>2, <2>6
    <3>7. pending \in BOOLEAN /\ stray \in BOOLEAN BY DEF SettingsTyped
    <3>8. pending' => next # 0 BY <3>4, <3>5, <3>6, <3>7
    <3>9. ~stray' => next = IF pending' THEN 1 ELSE 0 BY <3>4, <3>5, <3>6, <3>7
    <3> QED BY <2>4, <3>8, <3>9 DEF PageWaits
  <2> QED BY <2>5, <2>6
<1> QED BY <1>2, <1>6, <1>7, <1>8, <1>9, KeptStill DEF SettingsInv

LEMMA SettingsTypes ==
    ASSUME SettingsInv, Settings!Type
    PROVE  SettingsInv'
<1> SettingsTyped /\ PageIsGone /\ PageIsTold /\ PageWaits /\ StoreIsKept BY DEF SettingsInv
<1>1. UNCHANGED <<stored, legacy, visiting, migrated, wished, noticed, takenBack, values,
                  pending, pageState, stray, capturing, configured, tasks, requests, posts, tab>>
  BY DEF Settings!Type, Settings!storeVars
<1>2. DOMAIN drafts' \subseteq Settings!Keys
  <2>1. PICK key \in Settings!Keys : \E text : drafts' = Settings!With(drafts, key, text)
    BY DEF Settings!Type
  <2>2. DOMAIN drafts' = DOMAIN drafts \cup {key} BY <2>1 DEF Settings!With
  <2> QED BY <2>2 DEF SettingsTyped
<1>3. SettingsTyped' BY <1>1, <1>2 DEF SettingsTyped
<1>4. PageIsGone' BY <1>1 DEF PageIsGone
<1>5. PageIsTold' BY <1>1 DEF PageIsTold, Tells, Settings!Values
<1> QED BY <1>1, <1>3, <1>4, <1>5, WaitsStill, KeptStill DEF SettingsInv

LEMMA SettingsAsks ==
    ASSUME SettingsInv, Settings!Toggle \/ Settings!Save \/ Settings!PressProxy
    PROVE  SettingsInv'
<1> SettingsTyped /\ PageIsGone /\ PageIsTold /\ PageWaits /\ StoreIsKept BY DEF SettingsInv
<1>1. PICK r : RequestTyped(r) /\ r.type # "load" /\ Settings!Ask(r)
  <2>1. ASSUME NEW k \in {"save", "setProxy", "removeProxy"}, NEW key, NEW v,
               key \in IF k = "save" THEN Settings!Keys ELSE {""}
        PROVE  /\ RequestTyped(Settings!Request(k, key, v))
               /\ Settings!Request(k, key, v).type # "load"
    BY <2>1 DEF RequestTyped, Settings!Request
  <2>2. CASE Settings!Toggle
    <3>1. "autoStart" \in Settings!Keys BY DEF Settings!Keys
    <3>2. PICK v : Settings!Ask(Settings!Request("save", "autoStart", v))
      BY <2>2 DEF Settings!Toggle
    <3> QED BY <2>1, <3>1, <3>2
  <2>3. CASE Settings!Save
    <3>1. PICK key \in DOMAIN drafts : \E v : Settings!Ask(Settings!Request("save", key, v))
      BY <2>3 DEF Settings!Save
    <3>2. key \in Settings!Keys BY DEF SettingsTyped
    <3> QED BY <2>1, <3>1, <3>2
  <2>4. CASE Settings!PressProxy
    <3>1. PICK k \in {"setProxy", "removeProxy"} : Settings!Ask(Settings!Request(k, "", FALSE))
      BY <2>4 DEF Settings!PressProxy
    <3> QED BY <2>1, <3>1
  <2> QED BY <2>2, <2>3, <2>4
<1>2. /\ UNCHANGED <<stored, legacy, visiting, migrated, wished, noticed, takenBack, values, drafts,
                     stray, capturing, configured, tasks, posts, tab>>
      /\ tab = "open" /\ ~pending /\ pending' = TRUE /\ pageState' = "saving"
      /\ requests' = Append(requests, r)
  BY <1>1 DEF Settings!Ask, Settings!storeVars
<1>3. /\ RequestsTyped(requests') /\ requests' # <<>>
      /\ Cardinality(SavesIn(requests)) \in Nat
      /\ Cardinality(SavesIn(requests')) = Cardinality(SavesIn(requests)) + 1
  BY <1>1, <1>2, RequestAsked DEF SettingsTyped
<1>4. SettingsTyped' BY <1>2, <1>3 DEF SettingsTyped
<1>5. PageIsGone' BY <1>2 DEF PageIsGone
<1>6. PageIsTold' BY <1>2 DEF PageIsTold, Tells, Settings!Values
<1>7. PageWaits'
  <2>1. Cardinality(BusyIn(tasks)) \in Nat /\ Cardinality(AnswersIn(posts)) \in Nat
    BY SettingsCounts DEF SettingsTyped, PostsTyped, Listed
  <2>2. /\ Cardinality(BusyIn(tasks')) = Cardinality(BusyIn(tasks)) + 0
        /\ Cardinality(AnswersIn(posts')) = Cardinality(AnswersIn(posts)) + 0
    BY <1>2, <2>1
  <2>3. Settings!Asked \in Nat /\ Settings!Asked' = Settings!Asked + (1 + 0 + 0)
    BY <1>3, <2>2, AskedStep
  <2>4. PICK n, next : n = Settings!Asked /\ next = Settings!Asked' OBVIOUS
  <2>5. n \in Nat /\ next = n + 1 BY <2>3, <2>4
  <2>6. ~stray => n = 0 BY <1>2, <2>4 DEF PageWaits
  <2>7. next # 0 /\ (~stray => next = 1) BY <2>5, <2>6
  <2> QED BY <1>2, <2>4, <2>7 DEF PageWaits
<1> QED BY <1>2, <1>4, <1>5, <1>6, <1>7, KeptStill DEF SettingsInv

LEMMA SettingsSteps ==
    ASSUME SettingsInv, Settings!Next \/ UNCHANGED settingsVars
    PROVE  SettingsInv'
<1>1. CASE UNCHANGED settingsVars
  <2> SettingsTyped /\ PageIsGone /\ PageIsTold /\ PageWaits /\ StoreIsKept BY DEF SettingsInv
  <2>1. UNCHANGED <<stored, legacy, visiting, migrated, wished, noticed, takenBack, capturing,
                    configured, tasks, tab, requests, posts, values, drafts, pending, pageState,
                    stray>>
    BY <1>1 DEF settingsVars
  <2>2. SettingsTyped' BY <2>1 DEF SettingsTyped
  <2>3. PageIsGone' BY <2>1 DEF PageIsGone
  <2>4. PageIsTold' BY <2>1 DEF PageIsTold, Tells, Settings!Values
  <2> QED BY <2>1, <2>2, <2>3, <2>4, WaitsStill, KeptStill DEF SettingsInv
<1> QED BY <1>1, SettingsStores, SettingsRefreshes, SettingsState, SettingsRequests, SettingsJobs,
        SettingsOpens, SettingsCloses, SettingsReceives, SettingsTypes, SettingsAsks
        DEF Settings!Next
=============================================================================
