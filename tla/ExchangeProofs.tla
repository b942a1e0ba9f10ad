----------------------------- MODULE ExchangeProofs -----------------------------
(***************************************************************************)
(* Proofs about the exchange of Components, for any number of pieces.  The *)
(* argument is that of the tunnel, three times: a question of the core has *)
(* one token, and so have the body that goes to Node and the one that      *)
(* comes back.  To this it adds in which order a session ends.             *)
(***************************************************************************)
EXTENDS ComponentsProofs

\* What is on its way to Node, in Node, and on its way to the core.
ToNodeKinds == {"request", "response", "credit", "failure", "aborted", "completed"}
                   \cup Exchanged!Frames
ToCoreKinds == {"credit", "abort"} \cup Exchanged!Answers \cup Exchanged!Frames
RequestsSent == Count(requests, {"request"})
ResponsesSent == Count(requests, {"response"})
PiecesSent == Count(requests, {"piece"})
EndsSent == Count(requests, {"end"})
CreditsSent == Count(requests, {"credit"})
FailuresSent == Count(requests, {"failure"})
AbortedSent == Count(requests, {"aborted"})
CompletedSent == Count(requests, {"completed"})
PiecesKept == Count(inbox, {"piece"})
EndsKept == Count(inbox, {"end"})
PiecesGiven == Count(decisions, {"piece"})
EndsGiven == Count(decisions, {"end"})
CreditsGiven == Count(decisions, {"credit"})
GoGiven == Count(decisions, {"go"})
LocalGiven == Count(decisions, {"local"})
ErrorGiven == Count(decisions, {"error"})
AbortsGiven == Count(decisions, {"abort"})

\* A question of the core, or its answer.
Deciding == IF deciding # "none" THEN 1 ELSE 0
Replying == IF reply # "none" THEN 1 ELSE 0
Question ==
    RequestsSent + ResponsesSent + Deciding + GoGiven + LocalGiven + ErrorGiven + Replying

\* The tokens of the stream in and of the stream out.
Framed == IF frame # "none" THEN 1 ELSE 0
Incoming == PiecesSent + PiecesKept + CreditsGiven
Outgoing == PiecesGiven + EndsGiven + Framed + CreditsSent

\* One question at a time, which fits what the core waits for.
OneQuestion ==
    /\ Question <= 1
    /\ serving \in {"asked", "upstream", "writing"} => Question = 0
    /\ RequestsSent > 0 \/ deciding = "request" => serving \in {"asking", "done"}
    /\ LocalGiven > 0 \/ reply = "local" => serving \in {"asking", "done"}
    /\ ResponsesSent > 0 \/ deciding = "response" => serving \in {"askingResponse", "done"}
    /\ local => serving \in {"writing", "done"}

\* Nothing is relayed before Node has decided.
Unrelayed ==
    /\ relaying = "nothing" /\ tapped = 0 /\ read = 0 /\ frame = "none"
    /\ PiecesGiven = 0 /\ EndsGiven = 0 /\ CreditsSent = 0
Undecided ==
    \/ serving \in {"asked", "upstream"}
    \/ RequestsSent > 0 \/ ResponsesSent > 0 \/ deciding # "none"
    \/ (serving = "asking" /\ (reply = "go" \/ GoGiven > 0))
DecidesFirst == Undecided => Unrelayed

\* The body of the origin on its way to Node.
ArrivesWhole ==
    /\ Incoming <= 1 /\ (~owed => Incoming = 0)
    /\ exhausted => produced = Pieces /\ ~owed
    /\ EndsSent > 0 \/ EndsKept > 0 => exhausted
    /\ serving \in {"asked", "asking", "upstream"} => produced = 0 /\ ~exhausted /\ ~owed
    /\ relaying # "nothing" => known
    /\ known /\ (ResponsesSent > 0 \/ deciding = "response" \/ relaying = "origin's") =>
           tapped + PiecesSent + PiecesKept = produced

\* The body that Node relays on its way to the client.
FramedPiece == IF frame = "piece" THEN 1 ELSE 0
Arrived == read + FramedPiece + PiecesGiven
LeavesWhole ==
    /\ Outgoing <= 1 /\ (relaying # "nothing" /\ credit => Outgoing = 0)
    /\ Arrived <= tapped /\ (~settled => Arrived = tapped)
    /\ EndsGiven > 0 => tapped = Pieces
    /\ frame = "end" => read = Pieces
    /\ eof => read = Pieces /\ settled /\ serving = "done"
    /\ read > 0 => serving \in {"writing", "done"}
    /\ given <= read
    /\ ~local /\ framing = "length" /\ read = Pieces => delivered

\* A body of Node's own goes to a core that was told so; the record of any other is complete
\* before the core hears of its end.
Own == LocalGiven > 0 \/ reply = "local" \/ local
RecordedFirst ==
    /\ relaying = "own" => Own \/ serving = "done"
    /\ EndsGiven > 0 \/ frame = "end" => recorded = "completed" \/ Own \/ serving = "done"
    /\ eof => local \/ recorded = "completed"
    /\ recorded = "completed" => tapped = Pieces
    /\ CompletedSent > 0 => eof

\* What ends the session says so once, and a failure before the closing.
EndsOnce ==
    /\ FailuresSent > 0 \/ AbortedSent > 0 \/ CompletedSent > 0 \/ AbortsGiven > 0 => settled
    /\ recorded # "none" /\ ~known => settled
    /\ serving = "asked" => requests = <<>> /\ decisions = <<>> /\ recorded = "none" /\ ~draining
    /\ recorded = "none" /\ requests = <<>> =>
           serving = "asked" \/ (serving = "done" /\ settled)
    /\ recorded = "none" /\ requests # <<>> => requests[1] = "request"
    /\ RequestsSent > 0 => recorded = "none"
FailsFirst ==
    \A i, j \in 1..Len(requests) :
        i < j /\ requests[i] = "aborted" => requests[j] # "failure"

\* Whoever is recorded as disconnected had not been given everything.
LeftEarly ==
    local \/ ((serving = "done" \/ ~present) /\ ~(framing = "length" /\ given = Pieces))
LeavesInTime ==
    /\ AbortedSent > 0 /\ FailuresSent = 0 /\ recorded \in {"none", "pending"} => LeftEarly
    /\ recorded = "disconnected" => LeftEarly

ExchangeInv ==
    Exchanged!TypeOK /\ OneQuestion /\ DecidesFirst /\ ArrivesWhole /\ LeavesWhole
    /\ RecordedFirst /\ EndsOnce /\ FailsFirst /\ LeavesInTime

-----------------------------------------------------------------------------
(* What a step does to the counts. *)

LEMMA ExchangeNumbers ==
    ASSUME Exchanged!TypeOK
    PROVE  /\ RequestsSent \in Nat /\ ResponsesSent \in Nat /\ PiecesSent \in Nat
           /\ EndsSent \in Nat /\ CreditsSent \in Nat /\ FailuresSent \in Nat
           /\ AbortedSent \in Nat /\ CompletedSent \in Nat
           /\ PiecesKept \in Nat /\ EndsKept \in Nat
           /\ PiecesGiven \in Nat /\ EndsGiven \in Nat /\ CreditsGiven \in Nat
           /\ GoGiven \in Nat /\ LocalGiven \in Nat /\ ErrorGiven \in Nat
           /\ AbortsGiven \in Nat
           /\ Deciding \in 0..1 /\ Replying \in 0..1 /\ Framed \in 0..1 /\ FramedPiece \in 0..1
           /\ produced \in Nat /\ read \in Nat /\ given \in Nat /\ tapped \in Nat
           /\ Pieces \in Nat
<1>1. \A kind : /\ Count(requests, kind) \in Nat /\ Count(decisions, kind) \in Nat
                /\ Count(inbox, kind) \in Nat
  BY PlacesFinite DEF Exchanged!TypeOK
<1>2. Deciding \in 0..1 /\ Replying \in 0..1 /\ Framed \in 0..1 /\ FramedPiece \in 0..1
  BY DEF Deciding, Replying, Framed, FramedPiece
<1>3. Pieces \in Nat
  BY BoundsAssumption
<1>4. produced \in Nat /\ read \in Nat /\ given \in Nat /\ tapped \in Nat
  BY <1>3 DEF Exchanged!TypeOK
<1> QED
  BY <1>1, <1>2, <1>3, <1>4
     DEF RequestsSent, ResponsesSent, PiecesSent, EndsSent, CreditsSent, FailuresSent,
         AbortedSent, CompletedSent, PiecesKept, EndsKept, PiecesGiven, EndsGiven,
         CreditsGiven, GoGiven, LocalGiven, ErrorGiven, AbortsGiven

sentCounts == <<RequestsSent, ResponsesSent, PiecesSent, EndsSent, CreditsSent, FailuresSent,
                AbortedSent, CompletedSent>>
keptCounts == <<PiecesKept, EndsKept>>
givenCounts == <<PiecesGiven, EndsGiven, CreditsGiven, GoGiven, LocalGiven, ErrorGiven,
                 AbortsGiven>>

LEMMA ExchangeCountsStay ==
    /\ UNCHANGED requests => UNCHANGED sentCounts
    /\ UNCHANGED inbox => UNCHANGED keptCounts
    /\ UNCHANGED decisions => UNCHANGED givenCounts
  BY DEF sentCounts, keptCounts, givenCounts, RequestsSent, ResponsesSent, PiecesSent, EndsSent,
         CreditsSent, FailuresSent, AbortedSent, CompletedSent, PiecesKept, EndsKept,
         PiecesGiven, EndsGiven, CreditsGiven, GoGiven, LocalGiven, ErrorGiven, AbortsGiven,
         Count, Places

LEMMA RequestsGrow ==
    ASSUME Exchanged!TypeOK, NEW m \in ToNodeKinds, requests' = Append(requests, m)
    PROVE  /\ requests' \in Seq(ToNodeKinds)
           /\ RequestsSent' = IF m = "request" THEN RequestsSent + 1 ELSE RequestsSent
           /\ ResponsesSent' = IF m = "response" THEN ResponsesSent + 1 ELSE ResponsesSent
           /\ PiecesSent' = IF m = "piece" THEN PiecesSent + 1 ELSE PiecesSent
           /\ EndsSent' = IF m = "end" THEN EndsSent + 1 ELSE EndsSent
           /\ CreditsSent' = IF m = "credit" THEN CreditsSent + 1 ELSE CreditsSent
           /\ FailuresSent' = IF m = "failure" THEN FailuresSent + 1 ELSE FailuresSent
           /\ AbortedSent' = IF m = "aborted" THEN AbortedSent + 1 ELSE AbortedSent
           /\ CompletedSent' = IF m = "completed" THEN CompletedSent + 1 ELSE CompletedSent
<1>1. requests \in Seq(ToNodeKinds)
  BY DEF Exchanged!TypeOK, ToNodeKinds
<1>2. ASSUME NEW kind
      PROVE  /\ requests' \in Seq(ToNodeKinds)
             /\ Count(requests', {kind}) =
                    IF m = kind THEN Count(requests, {kind}) + 1 ELSE Count(requests, {kind})
  BY <1>1, CountAppended, PlacesFinite DEF One
<1> QED
  BY <1>2 DEF RequestsSent, ResponsesSent, PiecesSent, EndsSent, CreditsSent, FailuresSent,
              AbortedSent, CompletedSent

LEMMA RequestsShrink ==
    ASSUME Exchanged!TypeOK, requests # <<>>, requests' = Tail(requests), NEW m,
           m = Head(requests)
    PROVE  /\ requests' \in Seq(ToNodeKinds) /\ m \in ToNodeKinds
           /\ RequestsSent' = IF m = "request" THEN RequestsSent - 1 ELSE RequestsSent
           /\ ResponsesSent' = IF m = "response" THEN ResponsesSent - 1 ELSE ResponsesSent
           /\ PiecesSent' = IF m = "piece" THEN PiecesSent - 1 ELSE PiecesSent
           /\ EndsSent' = IF m = "end" THEN EndsSent - 1 ELSE EndsSent
           /\ CreditsSent' = IF m = "credit" THEN CreditsSent - 1 ELSE CreditsSent
           /\ FailuresSent' = IF m = "failure" THEN FailuresSent - 1 ELSE FailuresSent
           /\ AbortedSent' = IF m = "aborted" THEN AbortedSent - 1 ELSE AbortedSent
           /\ CompletedSent' = IF m = "completed" THEN CompletedSent - 1 ELSE CompletedSent
           /\ RequestsSent' \in Nat /\ ResponsesSent' \in Nat /\ PiecesSent' \in Nat
           /\ EndsSent' \in Nat /\ CreditsSent' \in Nat /\ FailuresSent' \in Nat
           /\ AbortedSent' \in Nat /\ CompletedSent' \in Nat
<1>1. requests \in Seq(ToNodeKinds)
  BY DEF Exchanged!TypeOK, ToNodeKinds
<1>2. requests' \in Seq(ToNodeKinds) /\ m \in ToNodeKinds
  BY <1>1
<1>3. ASSUME NEW kind
      PROVE  /\ Count(requests', {kind}) =
                    IF m = kind THEN Count(requests, {kind}) - 1 ELSE Count(requests, {kind})
             /\ Count(requests', {kind}) \in Nat
  <2>1. Count(requests', {kind}) = Count(requests, {kind}) - One(m, {kind})
    BY <1>1, CountTaken
  <2>2. Count(requests', {kind}) \in Nat /\ Count(requests, {kind}) \in Nat
    BY <1>1, <1>2, PlacesFinite
  <2> QED
    BY <2>1, <2>2 DEF One
<1> QED
  BY <1>2, <1>3 DEF RequestsSent, ResponsesSent, PiecesSent, EndsSent, CreditsSent,
                    FailuresSent, AbortedSent, CompletedSent

LEMMA DecisionsGrow ==
    ASSUME Exchanged!TypeOK, NEW m \in ToCoreKinds, decisions' = Append(decisions, m)
    PROVE  /\ decisions' \in Seq(ToCoreKinds)
           /\ PiecesGiven' = IF m = "piece" THEN PiecesGiven + 1 ELSE PiecesGiven
           /\ EndsGiven' = IF m = "end" THEN EndsGiven + 1 ELSE EndsGiven
           /\ CreditsGiven' = IF m = "credit" THEN CreditsGiven + 1 ELSE CreditsGiven
           /\ GoGiven' = IF m = "go" THEN GoGiven + 1 ELSE GoGiven
           /\ LocalGiven' = IF m = "local" THEN LocalGiven + 1 ELSE LocalGiven
           /\ ErrorGiven' = IF m = "error" THEN ErrorGiven + 1 ELSE ErrorGiven
           /\ AbortsGiven' = IF m = "abort" THEN AbortsGiven + 1 ELSE AbortsGiven
<1>1. decisions \in Seq(ToCoreKinds)
  BY DEF Exchanged!TypeOK, ToCoreKinds
<1>2. ASSUME NEW kind
      PROVE  /\ decisions' \in Seq(ToCoreKinds)
             /\ Count(decisions', {kind}) =
                    IF m = kind THEN Count(decisions, {kind}) + 1 ELSE Count(decisions, {kind})
  BY <1>1, CountAppended, PlacesFinite DEF One
<1> QED
  BY <1>2 DEF PiecesGiven, EndsGiven, CreditsGiven, GoGiven, LocalGiven, ErrorGiven, AbortsGiven

LEMMA DecisionsShrink ==
    ASSUME Exchanged!TypeOK, decisions # <<>>, decisions' = Tail(decisions), NEW m,
           m = Head(decisions)
    PROVE  /\ decisions' \in Seq(ToCoreKinds) /\ m \in ToCoreKinds
           /\ PiecesGiven' = IF m = "piece" THEN PiecesGiven - 1 ELSE PiecesGiven
           /\ EndsGiven' = IF m = "end" THEN EndsGiven - 1 ELSE EndsGiven
           /\ CreditsGiven' = IF m = "credit" THEN CreditsGiven - 1 ELSE CreditsGiven
           /\ GoGiven' = IF m = "go" THEN GoGiven - 1 ELSE GoGiven
           /\ LocalGiven' = IF m = "local" THEN LocalGiven - 1 ELSE LocalGiven
           /\ ErrorGiven' = IF m = "error" THEN ErrorGiven - 1 ELSE ErrorGiven
           /\ AbortsGiven' = IF m = "abort" THEN AbortsGiven - 1 ELSE AbortsGiven
           /\ PiecesGiven' \in Nat /\ EndsGiven' \in Nat /\ CreditsGiven' \in Nat
           /\ GoGiven' \in Nat /\ LocalGiven' \in Nat /\ ErrorGiven' \in Nat
           /\ AbortsGiven' \in Nat
<1>1. decisions \in Seq(ToCoreKinds)
  BY DEF Exchanged!TypeOK, ToCoreKinds
<1>2. decisions' \in Seq(ToCoreKinds) /\ m \in ToCoreKinds
  BY <1>1
<1>3. ASSUME NEW kind
      PROVE  /\ Count(decisions', {kind}) =
                    IF m = kind THEN Count(decisions, {kind}) - 1 ELSE Count(decisions, {kind})
             /\ Count(decisions', {kind}) \in Nat
  <2>1. Count(decisions', {kind}) = Count(decisions, {kind}) - One(m, {kind})
    BY <1>1, CountTaken
  <2>2. Count(decisions', {kind}) \in Nat /\ Count(decisions, {kind}) \in Nat
    BY <1>1, <1>2, PlacesFinite
  <2> QED
    BY <2>1, <2>2 DEF One
<1> QED
  BY <1>2, <1>3 DEF PiecesGiven, EndsGiven, CreditsGiven, GoGiven, LocalGiven, ErrorGiven,
                    AbortsGiven

LEMMA RequestsFail ==
    ASSUME Exchanged!TypeOK, requests' = requests \o Exchanged!Failed
    PROVE  /\ requests' \in Seq(ToNodeKinds)
           /\ UNCHANGED <<RequestsSent, ResponsesSent, PiecesSent, EndsSent, CreditsSent,
                          CompletedSent>>
           /\ FailuresSent' = FailuresSent + 1 /\ AbortedSent' = AbortedSent + 1
           /\ Len(requests') = Len(requests) + 2
           /\ requests'[Len(requests) + 1] = "failure"
           /\ requests'[Len(requests) + 2] = "aborted"
           /\ \A i \in 1..Len(requests) : requests'[i] = requests[i]
<1> DEFINE q == Append(requests, "failure")
<1>1. requests \in Seq(ToNodeKinds) /\ {"failure", "aborted"} \subseteq ToNodeKinds
  BY DEF Exchanged!TypeOK, ToNodeKinds
<1>2. q \in Seq(ToNodeKinds) /\ requests' = Append(q, "aborted")
  BY <1>1 DEF Exchanged!Failed
<1>3. ASSUME NEW kind
      PROVE  /\ kind \notin {"failure", "aborted"} =>
                     Count(requests', {kind}) = Count(requests, {kind})
             /\ kind \in {"failure", "aborted"} =>
                     Count(requests', {kind}) = Count(requests, {kind}) + 1
  <2>1. Count(q, {kind}) = Count(requests, {kind}) + (IF kind = "failure" THEN 1 ELSE 0)
    BY <1>1, CountAppended DEF One
  <2> HIDE DEF q
  <2>2. Count(Append(q, "aborted"), {kind}) =
            Count(q, {kind}) + (IF kind = "aborted" THEN 1 ELSE 0)
    BY <1>1, <1>2, CountAppended DEF One
  <2>3. Count(requests, {kind}) \in Nat
    BY <1>1, PlacesFinite
  <2> QED
    BY <1>2, <2>1, <2>2, <2>3
<1>4. /\ Len(requests') = Len(requests) + 2
      /\ requests'[Len(requests) + 1] = "failure"
      /\ requests'[Len(requests) + 2] = "aborted"
      /\ \A i \in 1..Len(requests) : requests'[i] = requests[i]
  BY <1>1, <1>2
<1>5. requests' \in Seq(ToNodeKinds)
  BY <1>1, <1>2
<1> HIDE DEF q
<1>6. /\ UNCHANGED <<RequestsSent, ResponsesSent, PiecesSent, EndsSent, CreditsSent,
                     CompletedSent>>
      /\ FailuresSent' = FailuresSent + 1 /\ AbortedSent' = AbortedSent + 1
  BY <1>3
     DEF RequestsSent, ResponsesSent, PiecesSent, EndsSent, CreditsSent, FailuresSent,
         AbortedSent, CompletedSent
<1> QED
  BY <1>4, <1>5, <1>6

\* What is not counted is not there.
LEMMA NoneOfThem ==
    ASSUME Exchanged!TypeOK, NEW kind, Count(requests, {kind}) = 0
    PROVE  \A i \in 1..Len(requests) : requests[i] # kind
<1>1. requests \in Seq(ToNodeKinds)
  BY DEF Exchanged!TypeOK, ToNodeKinds
<1> SUFFICES ASSUME NEW i \in 1..Len(requests), requests[i] = kind PROVE FALSE
  OBVIOUS
<1>2. Count(requests, {kind}) >= 1
  BY <1>1, CountIsPositive
<1> QED
  BY <1>2

-----------------------------------------------------------------------------
(* The invariant, step by step. *)

LEMMA ExchangeInitial == Init => ExchangeInv
<1> SUFFICES ASSUME Init PROVE ExchangeInv
  OBVIOUS
<1>1. Exchanged!Init \/ Exchanged!Over
  BY DEF Init
<1>2. /\ requests = <<>> /\ decisions = <<>> /\ inbox = <<>>
      /\ reply = "none" /\ local = FALSE /\ uploaded = FALSE
      /\ produced = 0 /\ owed = FALSE /\ exhausted = FALSE /\ frame = "none" /\ read = 0
      /\ delivered = FALSE /\ eof = FALSE /\ given = 0 /\ noticed = FALSE
      /\ draining = FALSE /\ drainedOut = FALSE
      /\ known = FALSE /\ deciding = "none" /\ relaying = "nothing"
      /\ tapped = 0 /\ credit = TRUE /\ recorded = "none"
      /\ framing \in {"length", "chunked"} /\ present \in BOOLEAN /\ settled \in BOOLEAN
      /\ serving = "asked" \/ (serving = "done" /\ settled)
  BY <1>1 DEF Exchanged!Init, Exchanged!Over, Exchanged!Fresh
<1>3. Pieces \in Nat \ {0}
  BY BoundsAssumption, BodyAssumption
<1>4. Exchanged!TypeOK
  <2>1. requests \in Seq(ToNodeKinds) /\ decisions \in Seq(ToCoreKinds)
        /\ inbox \in Seq(Exchanged!Frames)
    BY <1>2
  <2>2. {local, uploaded, owed, exhausted, delivered, eof, present, noticed, draining,
         drainedOut, settled, known, credit} \subseteq BOOLEAN
    BY <1>2
  <2> QED
    BY <1>2, <1>3, <2>1, <2>2 DEF Exchanged!TypeOK, ToNodeKinds, ToCoreKinds
<1>5. /\ RequestsSent = 0 /\ ResponsesSent = 0 /\ PiecesSent = 0 /\ EndsSent = 0
      /\ CreditsSent = 0 /\ FailuresSent = 0 /\ AbortedSent = 0 /\ CompletedSent = 0
      /\ PiecesKept = 0 /\ EndsKept = 0 /\ PiecesGiven = 0 /\ EndsGiven = 0
      /\ CreditsGiven = 0 /\ GoGiven = 0 /\ LocalGiven = 0 /\ ErrorGiven = 0
      /\ AbortsGiven = 0
  BY <1>2, CountOfNothing
     DEF RequestsSent, ResponsesSent, PiecesSent, EndsSent, CreditsSent, FailuresSent,
         AbortedSent, CompletedSent, PiecesKept, EndsKept, PiecesGiven, EndsGiven,
         CreditsGiven, GoGiven, LocalGiven, ErrorGiven, AbortsGiven
<1>6. Deciding = 0 /\ Replying = 0 /\ Framed = 0 /\ FramedPiece = 0
  BY <1>2 DEF Deciding, Replying, Framed, FramedPiece
<1>7. Question = 0 /\ Incoming = 0 /\ Outgoing = 0 /\ Arrived = 0
  BY <1>2, <1>5, <1>6 DEF Question, Incoming, Outgoing, Arrived
<1>8. OneQuestion
  BY <1>2, <1>5, <1>7 DEF OneQuestion
<1>9. DecidesFirst
  BY <1>2, <1>5 DEF DecidesFirst, Unrelayed
<1>10. ArrivesWhole
  BY <1>2, <1>5, <1>7 DEF ArrivesWhole
<1>11. LeavesWhole
  BY <1>2, <1>3, <1>5, <1>7 DEF LeavesWhole
<1>12. RecordedFirst
  BY <1>2, <1>5 DEF RecordedFirst
<1>13. EndsOnce /\ FailsFirst /\ LeavesInTime
  BY <1>2, <1>5 DEF EndsOnce, FailsFirst, LeavesInTime
<1> QED
  BY <1>4, <1>8, <1>9, <1>10, <1>11, <1>12, <1>13 DEF ExchangeInv

\* What a step leaves alone of what the messages and the relay are counted by.
LEMMA TokensStay ==
    /\ UNCHANGED <<RequestsSent, ResponsesSent, deciding, GoGiven, LocalGiven, ErrorGiven,
                   reply>> => UNCHANGED Question
    /\ UNCHANGED <<PiecesSent, PiecesKept, CreditsGiven>> => UNCHANGED Incoming
    /\ UNCHANGED <<PiecesGiven, EndsGiven, frame, CreditsSent>> => UNCHANGED Outgoing
    /\ UNCHANGED <<read, frame, PiecesGiven>> => UNCHANGED Arrived
  BY DEF Question, Incoming, Outgoing, Arrived, Deciding, Replying, Framed, FramedPiece

\* The flow of the messages goes on as it was: the client leaves, the body of the request
\* ends, a timer is set.
LEMMA QuietKeeps ==
    ASSUME ExchangeInv,
           UNCHANGED <<requests, decisions, framing, serving, reply, local, produced, owed,
                       exhausted, frame, read, delivered, eof, given, drainedOut, settled,
                       known, deciding, relaying, inbox, tapped, credit, recorded>>,
           uploaded' \in BOOLEAN, noticed' \in BOOLEAN, draining' \in BOOLEAN,
           present' \in BOOLEAN, present' => present, serving = "asked" => ~draining'
    PROVE  ExchangeInv'
<1>0. Exchanged!TypeOK
  BY DEF ExchangeInv
<1>1. UNCHANGED sentCounts /\ UNCHANGED keptCounts /\ UNCHANGED givenCounts
  BY ExchangeCountsStay
<1>2. UNCHANGED <<Question, Incoming, Outgoing, Arrived>>
  BY <1>1, TokensStay DEF sentCounts, keptCounts, givenCounts
<1>3. Exchanged!TypeOK'
  <2>1. {local', uploaded', owed', exhausted', delivered', eof', present', noticed', draining',
         drainedOut', settled', known', credit'} \subseteq BOOLEAN
    BY <1>0 DEF Exchanged!TypeOK
  <2> QED
    BY <1>0, <2>1 DEF Exchanged!TypeOK
<1>4. OneQuestion' /\ DecidesFirst'
  BY <1>1, <1>2
     DEF ExchangeInv, OneQuestion, DecidesFirst, Undecided, Unrelayed, sentCounts, givenCounts
<1>5. ArrivesWhole' /\ LeavesWhole' /\ RecordedFirst'
  BY <1>1, <1>2
     DEF ExchangeInv, ArrivesWhole, LeavesWhole, RecordedFirst, Own, sentCounts, keptCounts,
         givenCounts
<1>6. EndsOnce' /\ FailsFirst'
  BY <1>1 DEF ExchangeInv, EndsOnce, FailsFirst, sentCounts, givenCounts
<1>7. LeavesInTime'
  BY <1>1 DEF ExchangeInv, LeavesInTime, LeftEarly, sentCounts
<1> QED
  BY <1>3, <1>4, <1>5, <1>6, <1>7 DEF ExchangeInv

\* The session is finished with a failure, or because the client left; the core may give up
\* with it.
LEMMA FinishingKeeps ==
    ASSUME ExchangeInv, serving # "asked",
           UNCHANGED <<decisions, framing, local, produced, owed, exhausted, frame, read,
                       delivered, eof, given, present, known, deciding, relaying, inbox,
                       tapped, credit, recorded>>,
           {uploaded', noticed', draining', drainedOut'} \subseteq BOOLEAN,
           serving' = serving \/ serving' = "done",
           reply' = reply \/ (reply' = "none" /\ serving' = "done"),
           \/ Exchanged!Finish(Exchanged!Failed)
           \/ Exchanged!Finish(Exchanged!Aborted) /\ (settled \/ LeftEarly')
    PROVE  ExchangeInv'
<1>0. Exchanged!TypeOK
  BY DEF ExchangeInv
<1>1. /\ UNCHANGED keptCounts /\ UNCHANGED givenCounts
  BY ExchangeCountsStay
<1>2. /\ settled' = TRUE /\ requests' \in Seq(ToNodeKinds)
      /\ UNCHANGED <<RequestsSent, ResponsesSent, PiecesSent, EndsSent, CreditsSent,
                     CompletedSent>>
      /\ (requests # <<>> => requests' # <<>> /\ requests'[1] = requests[1])
      /\ (settled => requests' = requests)
      /\ \/ settled /\ requests' = requests /\ UNCHANGED <<FailuresSent, AbortedSent>>
         \/ FailuresSent' = FailuresSent + 1
         \/ LeftEarly'
      /\ FailsFirst'
  <2>1. requests \in Seq(ToNodeKinds)
    BY <1>0 DEF Exchanged!TypeOK, ToNodeKinds
  <2>2. settled' = TRUE
    BY DEF Exchanged!Finish
  <2>3. CASE settled
    <3>1. requests' = requests
      BY <2>3 DEF Exchanged!Finish
    <3>2. UNCHANGED sentCounts
      BY <3>1, ExchangeCountsStay
    <3>3. FailsFirst'
      BY <3>1 DEF ExchangeInv, FailsFirst
    <3> QED
      BY <2>1, <2>2, <2>3, <3>1, <3>2, <3>3 DEF sentCounts
  <2>4. CASE ~settled
    <3>1. AbortedSent = 0 /\ FailuresSent = 0
      BY SMTT(20), <1>0, <2>4, ExchangeNumbers DEF ExchangeInv, EndsOnce
    <3>2. \A i \in 1..Len(requests) : requests[i] # "aborted"
      BY <1>0, <3>1, NoneOfThem DEF AbortedSent
    <3>3. CASE Exchanged!Finish(Exchanged!Failed)
      <4>1. requests' = requests \o Exchanged!Failed
        BY <2>4, <3>3 DEF Exchanged!Finish
      <4>2. FailsFirst'
        <5>1. /\ Len(requests') = Len(requests) + 2 /\ Len(requests) \in Nat
              /\ \A i \in 1..Len(requests) : requests'[i] # "aborted"
              /\ requests'[Len(requests) + 1] = "failure"
          BY <1>0, <2>1, <3>2, <4>1, RequestsFail
        <5>2. ASSUME NEW i \in 1..Len(requests'), NEW j \in 1..Len(requests'), i < j,
                     requests'[i] = "aborted"
              PROVE  FALSE
          <6>1. i \notin 1..Len(requests) /\ i # Len(requests) + 1
            BY <5>1, <5>2
          <6> QED
            BY <5>1, <5>2, <6>1
        <5> QED
          BY <5>2 DEF FailsFirst
      <4> QED
        BY <1>0, <2>1, <2>2, <2>4, <4>1, <4>2, RequestsFail
    <3>4. CASE Exchanged!Finish(Exchanged!Aborted) /\ LeftEarly'
      <4>1. requests' = Append(requests, "aborted") /\ "aborted" \in ToNodeKinds
        BY <2>1, <2>4, <3>4 DEF Exchanged!Finish, Exchanged!Aborted, ToNodeKinds
      <4>2. /\ Len(requests') = Len(requests) + 1 /\ Len(requests) \in Nat
            /\ \A i \in 1..Len(requests) : requests'[i] = requests[i]
        BY <2>1, <4>1
      <4>3. FailsFirst'
        BY <3>2, <4>2 DEF FailsFirst
      <4>4. /\ requests' \in Seq(ToNodeKinds)
            /\ UNCHANGED <<RequestsSent, ResponsesSent, PiecesSent, EndsSent, CreditsSent,
                           CompletedSent>>
        BY <1>0, <4>1, RequestsGrow, ExchangeNumbers
      <4>5. requests # <<>> => requests' # <<>> /\ requests'[1] = requests[1]
        BY <2>1, <4>1
      <4> QED
        BY <2>2, <2>4, <3>4, <4>3, <4>4, <4>5
    <3> QED
      BY <2>4, <3>3, <3>4
  <2> QED
    BY <2>3, <2>4
<1>3. UNCHANGED <<Incoming, Outgoing, Arrived>> /\ (UNCHANGED reply => UNCHANGED Question)
  BY <1>1, <1>2, TokensStay DEF keptCounts, givenCounts
<1>4. Exchanged!TypeOK'
  <2>1. {local', uploaded', owed', exhausted', delivered', eof', present', noticed', draining',
         drainedOut', settled', known', credit'} \subseteq BOOLEAN
    BY <1>0, <1>2 DEF Exchanged!TypeOK
  <2>2. serving' \in {"asked", "asking", "upstream", "askingResponse", "writing", "done"}
        /\ reply' \in {"none"} \cup Exchanged!Answers
    BY <1>0 DEF Exchanged!TypeOK
  <2> QED
    BY <1>0, <1>2, <2>1, <2>2 DEF Exchanged!TypeOK, ToNodeKinds
<1>5. OneQuestion'
  <2>1. Question' <= 1 /\ (UNCHANGED reply => Question' = Question)
    <3>1. CASE UNCHANGED reply
      BY <1>3, <3>1 DEF ExchangeInv, OneQuestion
    <3>2. CASE reply' = "none"
      <4>1. Replying' = 0
        BY <3>2 DEF Replying
      <4>2. /\ UNCHANGED <<RequestsSent, ResponsesSent, Deciding, GoGiven, LocalGiven,
                           ErrorGiven>>
        BY <1>1, <1>2 DEF givenCounts, Deciding
      <4>3. Question <= 1
        BY DEF ExchangeInv, OneQuestion
      <4>4. Question' = RequestsSent + ResponsesSent + Deciding + GoGiven + LocalGiven
                            + ErrorGiven + 0
        BY <4>1, <4>2 DEF Question
      <4>5. Question' <= Question
        BY <1>0, <4>4, ExchangeNumbers DEF Question
      <4>6. Question' \in Nat /\ Question \in Nat
        BY <1>0, <4>4, ExchangeNumbers DEF Question
      <4>7. Question' <= 1
        BY <4>3, <4>5, <4>6
      <4> QED
        BY <1>3, <4>7
    <3> QED
      BY <3>1, <3>2
  <2> QED
    BY <1>1, <1>2, <2>1 DEF ExchangeInv, OneQuestion, givenCounts
<1>6. DecidesFirst'
  BY <1>1, <1>2 DEF ExchangeInv, DecidesFirst, Undecided, Unrelayed, givenCounts
<1>7. ArrivesWhole'
  BY <1>1, <1>2, <1>3 DEF ExchangeInv, ArrivesWhole, keptCounts
<1>8. LeavesWhole'
  BY <1>1, <1>2, <1>3 DEF ExchangeInv, LeavesWhole, givenCounts
<1>9. RecordedFirst'
  BY <1>1, <1>2 DEF ExchangeInv, RecordedFirst, Own, givenCounts
<1>10. EndsOnce'
  <2>1. serving' # "asked" /\ (serving = "done" => serving' = "done")
    OBVIOUS
  <2>2. recorded = "none" /\ requests' = <<>> => serving = "done"
    BY <1>2 DEF ExchangeInv, EndsOnce
  <2>3. RequestsSent' = RequestsSent
    BY <1>2
  <2>4. recorded = "none" /\ requests' # <<>> => requests'[1] = "request"
    BY <1>2 DEF ExchangeInv, EndsOnce
  <2> QED
    BY <1>2, <2>1, <2>2, <2>3, <2>4 DEF ExchangeInv, EndsOnce
<1>11. LeavesInTime'
  <2>1. LeftEarly => LeftEarly'
    BY DEF LeftEarly
  <2>2. FailuresSent' = FailuresSent + 1 => FailuresSent' # 0
    BY <1>0, ExchangeNumbers
  <2> QED
    BY <1>2, <2>1, <2>2 DEF ExchangeInv, LeavesInTime
<1> QED
  BY <1>2, <1>4, <1>5, <1>6, <1>7, <1>8, <1>9, <1>10, <1>11 DEF ExchangeInv

LEMMA LeavingKeeps ==
    ASSUME ExchangeInv,
           Exchanged!UploadEnds \/ Exchanged!ClientLeaves \/ Exchanged!Disconnected
    PROVE  ExchangeInv'
<1> USE DEF Exchanged!origin, Exchanged!forwarding, Exchanged!leaving, Exchanged!node
<1>0. Exchanged!TypeOK
  BY DEF ExchangeInv
<1>1. CASE Exchanged!UploadEnds
  <2>1. draining' = draining /\ (serving = "asked" => ~draining)
    BY <1>1 DEF Exchanged!UploadEnds, ExchangeInv, EndsOnce
  <2>2. {uploaded', noticed', draining', present'} \subseteq BOOLEAN
    BY <1>0, <1>1 DEF Exchanged!UploadEnds, Exchanged!TypeOK
  <2> QED
    BY <1>1, <2>1, <2>2, QuietKeeps DEF Exchanged!UploadEnds
<1>2. CASE Exchanged!ClientLeaves
  <2>1. draining' = draining /\ (serving = "asked" => ~draining)
    BY <1>2 DEF Exchanged!ClientLeaves, ExchangeInv, EndsOnce
  <2>2. {uploaded', noticed', draining', present'} \subseteq BOOLEAN /\ ~present'
    BY <1>0, <1>2 DEF Exchanged!ClientLeaves, Exchanged!TypeOK
  <2> QED
    BY <1>2, <2>1, <2>2, QuietKeeps DEF Exchanged!ClientLeaves
<1>3. CASE Exchanged!Disconnected /\ delivered
  <2>1. {uploaded', noticed', draining', present'} \subseteq BOOLEAN
    BY <1>0, <1>3 DEF Exchanged!Disconnected, Exchanged!TypeOK
  <2> QED
    BY <1>3, <2>1, QuietKeeps DEF Exchanged!Disconnected
<1>4. CASE Exchanged!Disconnected /\ ~delivered
  <2>1. /\ serving # "asked" /\ ~present /\ Exchanged!Finish(Exchanged!Aborted)
        /\ UNCHANGED <<decisions, framing, serving, reply, local, uploaded, produced, owed,
                       exhausted, frame, read, delivered, eof, given, present, draining,
                       drainedOut, known, deciding, relaying, inbox, tapped, credit, recorded>>
        /\ noticed' = TRUE
    BY <1>4 DEF Exchanged!Disconnected
  <2>2. {uploaded', noticed', draining', drainedOut'} \subseteq BOOLEAN
    BY <1>0, <2>1 DEF Exchanged!TypeOK
  <2>3. LeftEarly'
    <3>1. framing = "length" /\ given = Pieces => read = Pieces
      BY <1>0, BoundsAssumption DEF Exchanged!TypeOK, ExchangeInv, LeavesWhole
    <3>2. framing = "length" /\ given = Pieces => local
      BY <1>4, <3>1 DEF ExchangeInv, LeavesWhole
    <3> QED
      BY <2>1, <3>2 DEF LeftEarly
  <2> QED
    BY <2>1, <2>2, <2>3, FinishingKeeps
<1> QED
  BY <1>1, <1>2, <1>3, <1>4

LEMMA FailingKeeps ==
    ASSUME ExchangeInv,
           \/ Exchanged!UploadFails \/ Exchanged!GivesUp \/ Exchanged!RoundTripFails
           \/ Exchanged!OriginBreaks \/ Exchanged!DrainTimesOut \/ Exchanged!WriterStops
           \/ Exchanged!Answered /\ reply = "error"
    PROVE  ExchangeInv'
<1> USE DEF Exchanged!origin, Exchanged!forwarding, Exchanged!leaving, Exchanged!node
<1>0. Exchanged!TypeOK
  BY DEF ExchangeInv
<1>1. CASE Exchanged!UploadFails
  <2>1. {uploaded', noticed', draining', drainedOut'} \subseteq BOOLEAN
    BY <1>0, <1>1 DEF Exchanged!UploadFails, Exchanged!TypeOK
  <2> QED
    BY <1>1, <2>1, FinishingKeeps DEF Exchanged!UploadFails
<1>2. CASE Exchanged!GivesUp
  <2>1. {uploaded', noticed', draining', drainedOut'} \subseteq BOOLEAN
    BY <1>0, <1>2 DEF Exchanged!GivesUp, Exchanged!TypeOK
  <2>2. Exchanged!Finish(Exchanged!Failed) /\ serving # "asked" /\ serving' = "done"
    <3>1. settled = TRUE /\ settled' = settled /\ requests' = requests
      BY <1>0, <1>2 DEF Exchanged!GivesUp, Exchanged!TypeOK
    <3> QED
      BY <1>2, <3>1 DEF Exchanged!Finish, Exchanged!GivesUp
  <2> QED
    BY <1>2, <2>1, <2>2, FinishingKeeps DEF Exchanged!GivesUp
<1>3. CASE Exchanged!RoundTripFails
  <2>1. {uploaded', noticed', draining', drainedOut'} \subseteq BOOLEAN
    BY <1>0, <1>3 DEF Exchanged!RoundTripFails, Exchanged!TypeOK
  <2> QED
    BY <1>3, <2>1, FinishingKeeps DEF Exchanged!RoundTripFails
<1>4. CASE Exchanged!OriginBreaks
  <2>1. {uploaded', noticed', draining', drainedOut'} \subseteq BOOLEAN
    BY <1>0, <1>4 DEF Exchanged!OriginBreaks, Exchanged!TypeOK
  <2> QED
    BY <1>4, <2>1, FinishingKeeps DEF Exchanged!OriginBreaks, Exchanged!Piping
<1>5. CASE Exchanged!DrainTimesOut
  <2>1. {uploaded', noticed', draining', drainedOut'} \subseteq BOOLEAN
    BY <1>0, <1>5 DEF Exchanged!DrainTimesOut, Exchanged!TypeOK
  <2>2. serving # "asked"
    BY <1>5 DEF Exchanged!DrainTimesOut, ExchangeInv, EndsOnce
  <2> QED
    BY <1>5, <2>1, <2>2, FinishingKeeps DEF Exchanged!DrainTimesOut
\* A piece that was not written was not given.
<1>6. CASE Exchanged!WriterStops
  <2>1. {uploaded', noticed', draining', drainedOut'} \subseteq BOOLEAN
    BY <1>0, <1>6 DEF Exchanged!WriterStops, Exchanged!TypeOK
  <2>2. /\ serving # "asked" /\ serving' = "done" /\ Exchanged!Finish(Exchanged!Aborted)
        /\ UNCHANGED <<local, framing, given>>
        /\ settled \/ frame = "piece" \/ framing = "chunked"
    BY <1>6 DEF Exchanged!WriterStops
  <2>3. frame = "piece" => given # Pieces
    <3>1. frame = "piece" => FramedPiece = 1
      BY DEF FramedPiece
    <3>2. Arrived <= tapped /\ given <= read
      BY DEF ExchangeInv, LeavesWhole
    <3>3. tapped <= Pieces
      BY <1>0, BoundsAssumption DEF Exchanged!TypeOK
    <3> QED
      BY <1>0, <3>1, <3>2, <3>3, ExchangeNumbers DEF Arrived
  <2>4. settled \/ LeftEarly'
    BY <2>2, <2>3 DEF LeftEarly
  <2> QED
    BY <1>6, <2>1, <2>2, <2>4, FinishingKeeps DEF Exchanged!WriterStops
<1>7. CASE Exchanged!Answered /\ reply = "error"
  <2>1. {uploaded', noticed', draining', drainedOut'} \subseteq BOOLEAN
    BY <1>0, <1>7 DEF Exchanged!Answered, Exchanged!TypeOK
  <2>2. local' = local
    <3>1. local' = FALSE /\ ~local
      BY <1>7 DEF Exchanged!Answered, ExchangeInv, OneQuestion
    <3> QED
      BY <1>0, <3>1 DEF Exchanged!TypeOK
  <2>3. serving # "asked" /\ serving' = "done" /\ reply' = "none"
        /\ Exchanged!Finish(Exchanged!Failed)
    BY <1>7 DEF Exchanged!Answered
  <2> QED
    BY <1>7, <2>1, <2>2, <2>3, FinishingKeeps DEF Exchanged!Answered
<1> QED
  BY <1>1, <1>2, <1>3, <1>4, <1>5, <1>6, <1>7

\* The order of the messages that end a session is kept by what follows and by what is taken.
LEMMA OrderStays ==
    ASSUME Exchanged!TypeOK, FailsFirst,
           \/ \E m \in ToNodeKinds \ {"failure"} : requests' = Append(requests, m)
           \/ requests # <<>> /\ requests' = Tail(requests)
    PROVE  FailsFirst'
<1>0. requests \in Seq(ToNodeKinds)
  BY DEF Exchanged!TypeOK, ToNodeKinds
<1>1. ASSUME NEW m \in ToNodeKinds \ {"failure"}, requests' = Append(requests, m)
      PROVE  FailsFirst'
  <2>1. /\ Len(requests') = Len(requests) + 1 /\ Len(requests) \in Nat
        /\ requests'[Len(requests) + 1] # "failure"
        /\ \A i \in 1..Len(requests) : requests'[i] = requests[i]
    BY <1>0, <1>1
  <2>2. ASSUME NEW i \in 1..Len(requests'), NEW j \in 1..Len(requests'), i < j,
               requests'[i] = "aborted", requests'[j] = "failure"
        PROVE  FALSE
    <3>1. j \in 1..Len(requests) /\ i \in 1..Len(requests)
      BY <2>1, <2>2
    <3> QED
      BY <2>1, <2>2, <3>1 DEF FailsFirst
  <2> QED
    BY <2>2 DEF FailsFirst
<1>2. CASE requests # <<>> /\ requests' = Tail(requests)
  <2>1. /\ Len(requests') = Len(requests) - 1 /\ Len(requests) \in Nat
        /\ \A i \in 1..Len(requests') : requests'[i] = requests[i + 1]
    BY <1>0, <1>2
  <2>2. ASSUME NEW i \in 1..Len(requests'), NEW j \in 1..Len(requests'), i < j,
               requests'[i] = "aborted", requests'[j] = "failure"
        PROVE  FALSE
    <3>1. i + 1 \in 1..Len(requests) /\ j + 1 \in 1..Len(requests) /\ i + 1 < j + 1
      BY <2>1, <2>2
    <3> QED
      BY <2>1, <2>2, <3>1 DEF FailsFirst
  <2> QED
    BY <2>2 DEF FailsFirst
<1> QED
  BY <1>1, <1>2

LEMMA InboxMoves ==
    ASSUME Exchanged!TypeOK
    PROVE  /\ \A m \in Exchanged!Frames :
                  inbox' = Append(inbox, m) =>
                      /\ inbox' \in Seq(Exchanged!Frames)
                      /\ PiecesKept' = IF m = "piece" THEN PiecesKept + 1 ELSE PiecesKept
                      /\ EndsKept' = IF m = "end" THEN EndsKept + 1 ELSE EndsKept
           /\ inbox # <<>> /\ inbox' = Tail(inbox) =>
                  /\ inbox' \in Seq(Exchanged!Frames)
                  /\ PiecesKept' = IF Head(inbox) = "piece" THEN PiecesKept - 1 ELSE PiecesKept
                  /\ EndsKept' = IF Head(inbox) = "end" THEN EndsKept - 1 ELSE EndsKept
                  /\ PiecesKept' \in Nat /\ EndsKept' \in Nat
           /\ inbox' = <<>> => PiecesKept' = 0 /\ EndsKept' = 0
<1>1. inbox \in Seq(Exchanged!Frames)
  BY DEF Exchanged!TypeOK
<1>2. ASSUME NEW m \in Exchanged!Frames, inbox' = Append(inbox, m)
      PROVE  /\ inbox' \in Seq(Exchanged!Frames)
             /\ PiecesKept' = IF m = "piece" THEN PiecesKept + 1 ELSE PiecesKept
             /\ EndsKept' = IF m = "end" THEN EndsKept + 1 ELSE EndsKept
  <2>1. ASSUME NEW kind
        PROVE  /\ inbox' \in Seq(Exchanged!Frames)
               /\ Count(inbox', {kind}) =
                      IF m = kind THEN Count(inbox, {kind}) + 1 ELSE Count(inbox, {kind})
    BY <1>1, <1>2, CountAppended, PlacesFinite DEF One
  <2> QED
    BY <2>1 DEF PiecesKept, EndsKept
<1>3. ASSUME inbox # <<>>, inbox' = Tail(inbox)
      PROVE  /\ inbox' \in Seq(Exchanged!Frames)
             /\ PiecesKept' = IF Head(inbox) = "piece" THEN PiecesKept - 1 ELSE PiecesKept
             /\ EndsKept' = IF Head(inbox) = "end" THEN EndsKept - 1 ELSE EndsKept
             /\ PiecesKept' \in Nat /\ EndsKept' \in Nat
  <2>1. inbox' \in Seq(Exchanged!Frames)
    BY <1>1, <1>3
  <2>2. ASSUME NEW kind
        PROVE  /\ Count(inbox', {kind}) = IF Head(inbox) = kind THEN Count(inbox, {kind}) - 1
                                          ELSE Count(inbox, {kind})
               /\ Count(inbox', {kind}) \in Nat
    <3>1. Count(inbox', {kind}) = Count(inbox, {kind}) - One(Head(inbox), {kind})
      BY <1>1, <1>3, CountTaken
    <3>2. Count(inbox', {kind}) \in Nat /\ Count(inbox, {kind}) \in Nat
      BY <1>1, <2>1, PlacesFinite
    <3> QED
      BY <3>1, <3>2 DEF One
  <2> QED
    BY <2>1, <2>2 DEF PiecesKept, EndsKept
<1>4. inbox' = <<>> => PiecesKept' = 0 /\ EndsKept' = 0
  BY CountOfNothing DEF PiecesKept, EndsKept
<1> QED
  BY <1>2, <1>3, <1>4

LEMMA ExchangeStutters == ExchangeInv /\ UNCHANGED exchangeVars => ExchangeInv'
<1> SUFFICES ASSUME ExchangeInv, UNCHANGED exchangeVars PROVE ExchangeInv'
  OBVIOUS
<1>1. uploaded \in BOOLEAN /\ noticed \in BOOLEAN /\ draining \in BOOLEAN /\ present \in BOOLEAN
  BY DEF ExchangeInv, Exchanged!TypeOK
<1>2. serving = "asked" => ~draining
  BY DEF ExchangeInv, EndsOnce
<1> QED
  BY <1>1, <1>2, QuietKeeps DEF exchangeVars

\* With one question at a time, its token is in one place.
LEMMA OneToken ==
    ASSUME Exchanged!TypeOK, Question <= 1
    PROVE  /\ Question = 0 => /\ RequestsSent = 0 /\ ResponsesSent = 0 /\ deciding = "none"
                              /\ GoGiven = 0 /\ LocalGiven = 0 /\ ErrorGiven = 0
                              /\ reply = "none"
           /\ RequestsSent > 0 =>
                  /\ RequestsSent = 1 /\ ResponsesSent = 0 /\ deciding = "none"
                  /\ GoGiven = 0 /\ LocalGiven = 0 /\ ErrorGiven = 0 /\ reply = "none"
           /\ ResponsesSent > 0 =>
                  /\ RequestsSent = 0 /\ ResponsesSent = 1 /\ deciding = "none"
                  /\ GoGiven = 0 /\ LocalGiven = 0 /\ ErrorGiven = 0 /\ reply = "none"
           /\ deciding # "none" =>
                  /\ RequestsSent = 0 /\ ResponsesSent = 0
                  /\ GoGiven = 0 /\ LocalGiven = 0 /\ ErrorGiven = 0 /\ reply = "none"
           /\ GoGiven + LocalGiven + ErrorGiven > 0 =>
                  /\ RequestsSent = 0 /\ ResponsesSent = 0 /\ deciding = "none"
                  /\ GoGiven + LocalGiven + ErrorGiven = 1 /\ reply = "none"
           /\ reply # "none" =>
                  /\ RequestsSent = 0 /\ ResponsesSent = 0 /\ deciding = "none"
                  /\ GoGiven = 0 /\ LocalGiven = 0 /\ ErrorGiven = 0
           /\ Question \in Nat
<1>1. /\ RequestsSent \in Nat /\ ResponsesSent \in Nat /\ GoGiven \in Nat
      /\ LocalGiven \in Nat /\ ErrorGiven \in Nat /\ Deciding \in 0..1 /\ Replying \in 0..1
  BY ExchangeNumbers
<1>2. RequestsSent + ResponsesSent + Deciding + GoGiven + LocalGiven + ErrorGiven + Replying
          = Question
  BY DEF Question
<1>3. (deciding = "none" <=> Deciding = 0) /\ (reply = "none" <=> Replying = 0)
  BY DEF Deciding, Replying
<1>4. Question = 0 => /\ RequestsSent = 0 /\ ResponsesSent = 0 /\ Deciding = 0 /\ GoGiven = 0
                      /\ LocalGiven = 0 /\ ErrorGiven = 0 /\ Replying = 0
  BY <1>1, <1>2
<1>5. RequestsSent > 0 => /\ RequestsSent = 1 /\ ResponsesSent = 0 /\ Deciding = 0
                          /\ GoGiven = 0 /\ LocalGiven = 0 /\ ErrorGiven = 0 /\ Replying = 0
  BY <1>1, <1>2
<1>6. ResponsesSent > 0 => /\ RequestsSent = 0 /\ ResponsesSent = 1 /\ Deciding = 0
                           /\ GoGiven = 0 /\ LocalGiven = 0 /\ ErrorGiven = 0 /\ Replying = 0
  BY <1>1, <1>2
<1>7. Deciding # 0 => /\ RequestsSent = 0 /\ ResponsesSent = 0
                      /\ GoGiven = 0 /\ LocalGiven = 0 /\ ErrorGiven = 0 /\ Replying = 0
  BY <1>1, <1>2
<1>8. GoGiven + LocalGiven + ErrorGiven > 0 =>
          /\ RequestsSent = 0 /\ ResponsesSent = 0 /\ Deciding = 0
          /\ GoGiven + LocalGiven + ErrorGiven = 1 /\ Replying = 0
  BY <1>1, <1>2
<1>9. Replying # 0 => /\ RequestsSent = 0 /\ ResponsesSent = 0 /\ Deciding = 0
                      /\ GoGiven = 0 /\ LocalGiven = 0 /\ ErrorGiven = 0
  BY <1>1, <1>2
<1>10. Question \in Nat
  BY <1>1, <1>2
<1> QED
  BY <1>3, <1>4, <1>5, <1>6, <1>7, <1>8, <1>9, <1>10

\* The core shows the request to Node.
LEMMA RequestKeeps == ExchangeInv /\ Exchanged!Ask => ExchangeInv'
<1> SUFFICES ASSUME ExchangeInv, Exchanged!Ask PROVE ExchangeInv'
  OBVIOUS
<1>0. Exchanged!TypeOK
  BY DEF ExchangeInv
<1>1. /\ serving = "asked" /\ serving' = "asking" /\ requests' = Append(requests, "request")
      /\ UNCHANGED <<decisions, framing, reply, local, uploaded, produced, owed, exhausted,
                     frame, read, delivered, eof, given, present, noticed, draining,
                     drainedOut, settled, known, deciding, relaying, inbox, tapped, credit,
                     recorded>>
  BY DEF Exchanged!Ask, Exchanged!origin, Exchanged!forwarding, Exchanged!leaving,
         Exchanged!node
<1>2. /\ requests = <<>> /\ recorded = "none" /\ Question = 0 /\ Unrelayed
      /\ "request" \in ToNodeKinds
  BY <1>1 DEF ExchangeInv, EndsOnce, OneQuestion, DecidesFirst, Undecided, ToNodeKinds
<1>3. /\ requests' \in Seq(ToNodeKinds) /\ RequestsSent' = RequestsSent + 1
      /\ UNCHANGED <<ResponsesSent, PiecesSent, EndsSent, CreditsSent, FailuresSent,
                     AbortedSent, CompletedSent>>
  BY <1>0, <1>1, <1>2, RequestsGrow
<1>4. UNCHANGED keptCounts /\ UNCHANGED givenCounts
  BY <1>1, ExchangeCountsStay
<1>5. UNCHANGED <<Incoming, Outgoing, Arrived>>
  BY <1>1, <1>3, <1>4, TokensStay DEF keptCounts, givenCounts
<1>6. /\ RequestsSent = 0 /\ ResponsesSent = 0 /\ deciding = "none" /\ GoGiven = 0
      /\ LocalGiven = 0 /\ ErrorGiven = 0 /\ reply = "none"
  BY <1>0, <1>2, OneToken DEF ExchangeInv, OneQuestion
<1>7. Question' = 1
  BY <1>1, <1>3, <1>4, <1>6 DEF Question, Deciding, Replying, givenCounts
<1>8. Exchanged!TypeOK'
  BY <1>0, <1>1, <1>3 DEF Exchanged!TypeOK, ToNodeKinds
<1>9. OneQuestion'
  BY <1>1, <1>3, <1>4, <1>6, <1>7 DEF ExchangeInv, OneQuestion, givenCounts
<1>10. DecidesFirst'
  BY <1>1, <1>2, <1>3, <1>4 DEF DecidesFirst, Unrelayed, givenCounts
<1>11. ArrivesWhole' /\ LeavesWhole'
  BY <1>1, <1>2, <1>3, <1>4, <1>5, <1>6
     DEF ExchangeInv, ArrivesWhole, LeavesWhole, Unrelayed, keptCounts, givenCounts
<1>12. RecordedFirst'
  BY <1>1, <1>3, <1>4 DEF ExchangeInv, RecordedFirst, Own, givenCounts
<1>13. requests' # <<>> /\ requests'[1] = "request"
  BY <1>1, <1>2
<1>14. EndsOnce'
  BY <1>1, <1>2, <1>3, <1>4, <1>13 DEF ExchangeInv, EndsOnce, givenCounts
<1>15. FailsFirst' /\ LeavesInTime'
  BY <1>0, <1>1, <1>2, <1>3, OrderStays DEF ExchangeInv, LeavesInTime, LeftEarly
<1> QED
  BY <1>8, <1>9, <1>10, <1>11, <1>12, <1>14, <1>15 DEF ExchangeInv

\* It shows the response to Node, unless its session is over.
LEMMA ResponseKeeps == ExchangeInv /\ Exchanged!Respond => ExchangeInv'
<1> SUFFICES ASSUME ExchangeInv, Exchanged!Respond PROVE ExchangeInv'
  OBVIOUS
<1> USE DEF Exchanged!origin, Exchanged!forwarding, Exchanged!leaving, Exchanged!node
<1>0. Exchanged!TypeOK
  BY DEF ExchangeInv
<1>1. CASE settled
  <2>1. {uploaded', noticed', draining', drainedOut'} \subseteq BOOLEAN
    BY <1>0 DEF Exchanged!Respond, Exchanged!TypeOK
  <2>2. Exchanged!Finish(Exchanged!Failed) /\ serving # "asked" /\ serving' = "done"
    <3>1. settled = TRUE /\ settled' = settled /\ requests' = requests
      BY <1>0, <1>1 DEF Exchanged!Respond, Exchanged!TypeOK
    <3> QED
      BY <1>1, <3>1 DEF Exchanged!Finish, Exchanged!Respond
  <2> QED
    BY <1>1, <2>1, <2>2, FinishingKeeps DEF Exchanged!Respond
<1>2. CASE ~settled
  <2>1. /\ serving = "upstream" /\ serving' = "askingResponse"
        /\ requests' = Append(requests, "response")
        /\ UNCHANGED <<decisions, framing, reply, local, uploaded, produced, owed, exhausted,
                       frame, read, delivered, eof, given, present, noticed, draining,
                       drainedOut, settled, known, deciding, relaying, inbox, tapped, credit,
                       recorded>>
    BY <1>2 DEF Exchanged!Respond
  <2>2. /\ Question = 0 /\ Unrelayed /\ "response" \in ToNodeKinds
        /\ produced = 0 /\ ~exhausted /\ ~owed /\ Incoming = 0
    BY <2>1
       DEF ExchangeInv, OneQuestion, DecidesFirst, Undecided, ArrivesWhole, ToNodeKinds
  <2>3. /\ requests' \in Seq(ToNodeKinds) /\ ResponsesSent' = ResponsesSent + 1
        /\ UNCHANGED <<RequestsSent, PiecesSent, EndsSent, CreditsSent, FailuresSent,
                       AbortedSent, CompletedSent>>
    BY <1>0, <2>1, <2>2, RequestsGrow
  <2>4. UNCHANGED keptCounts /\ UNCHANGED givenCounts
    BY <2>1, ExchangeCountsStay
  <2>5. UNCHANGED <<Incoming, Outgoing, Arrived>>
    BY <2>1, <2>3, <2>4, TokensStay DEF keptCounts, givenCounts
  <2>6. /\ RequestsSent = 0 /\ ResponsesSent = 0 /\ deciding = "none" /\ GoGiven = 0
        /\ LocalGiven = 0 /\ ErrorGiven = 0 /\ reply = "none"
        /\ PiecesSent = 0 /\ PiecesKept = 0 /\ tapped = 0
    <3>1. PiecesSent \in Nat /\ PiecesKept \in Nat /\ CreditsGiven \in Nat
      BY <1>0, ExchangeNumbers
    <3>2. PiecesSent = 0 /\ PiecesKept = 0
      BY <2>2, <3>1 DEF Incoming
    <3> QED
      BY <1>0, <2>2, <3>2, OneToken DEF ExchangeInv, OneQuestion, Unrelayed
  <2>7. Question' = 1
    BY <2>1, <2>3, <2>4, <2>6 DEF Question, Deciding, Replying, givenCounts
  <2>8. Exchanged!TypeOK'
    BY <1>0, <2>1, <2>3 DEF Exchanged!TypeOK, ToNodeKinds
  <2>9. OneQuestion'
    BY <2>1, <2>3, <2>4, <2>6, <2>7 DEF ExchangeInv, OneQuestion, givenCounts
  <2>10. DecidesFirst'
    BY <2>1, <2>2, <2>3, <2>4 DEF DecidesFirst, Unrelayed, givenCounts
  <2>11. ArrivesWhole'
    BY <2>1, <2>2, <2>3, <2>4, <2>5, <2>6 DEF ExchangeInv, ArrivesWhole, keptCounts
  <2>12. LeavesWhole'
    BY <2>1, <2>2, <2>3, <2>4, <2>5 DEF ExchangeInv, LeavesWhole, Unrelayed, givenCounts
  <2>13. RecordedFirst'
    BY <2>1, <2>3, <2>4 DEF ExchangeInv, RecordedFirst, Own, givenCounts
  <2>14. /\ requests' # <<>> /\ (recorded = "none" => requests # <<>>)
         /\ (requests # <<>> => requests'[1] = requests[1])
    BY <1>0, <2>1 DEF ExchangeInv, EndsOnce, Exchanged!TypeOK
  <2>15. EndsOnce'
    BY <2>1, <2>3, <2>4, <2>14 DEF ExchangeInv, EndsOnce, givenCounts
  <2>16. FailsFirst' /\ LeavesInTime'
    BY <1>0, <2>1, <2>2, <2>3, OrderStays DEF ExchangeInv, LeavesInTime, LeftEarly
  <2> QED
    BY <2>8, <2>9, <2>10, <2>11, <2>12, <2>13, <2>15, <2>16 DEF ExchangeInv
<1> QED
  BY <1>1, <1>2

\* The answer of Node reaches whoever waits for it.
LEMMA AnswerKeeps == ExchangeInv /\ Exchanged!Answered => ExchangeInv'
<1> SUFFICES ASSUME ExchangeInv, Exchanged!Answered, reply # "error" PROVE ExchangeInv'
  BY FailingKeeps
<1>0. Exchanged!TypeOK
  BY DEF ExchangeInv
<1>1. /\ serving \in {"asking", "askingResponse"} /\ reply \in {"go", "local"}
      /\ reply' = "none" /\ local' = (reply = "local")
      /\ reply = "local" => serving' = "writing"
      /\ reply = "go" /\ serving = "asking" => serving' = "upstream"
      /\ reply = "go" /\ serving = "askingResponse" => serving' = "writing"
      /\ UNCHANGED <<requests, decisions, framing, uploaded, produced, owed, exhausted, frame,
                     read, delivered, eof, given, present, noticed, draining, drainedOut,
                     settled, known, deciding, relaying, inbox, tapped, credit, recorded>>
  BY <1>0
     DEF Exchanged!TypeOK, Exchanged!Answers, Exchanged!Answered, Exchanged!origin,
         Exchanged!forwarding, Exchanged!leaving, Exchanged!node
<1>2. /\ RequestsSent = 0 /\ ResponsesSent = 0 /\ deciding = "none"
      /\ GoGiven = 0 /\ LocalGiven = 0 /\ ErrorGiven = 0
  BY <1>0, <1>1, OneToken DEF ExchangeInv, OneQuestion
<1>3. /\ ~local /\ (reply = "local" => serving = "asking")
      /\ (serving = "asking" /\ reply = "go" => Unrelayed)
  BY <1>1 DEF ExchangeInv, OneQuestion, DecidesFirst, Undecided
<1>4. UNCHANGED sentCounts /\ UNCHANGED keptCounts /\ UNCHANGED givenCounts
  BY <1>1, ExchangeCountsStay
<1>5. UNCHANGED <<Incoming, Outgoing, Arrived>>
  BY <1>1, <1>4, TokensStay DEF sentCounts, keptCounts, givenCounts
<1>6. Question' = 0
  BY <1>1, <1>2, <1>4 DEF Question, Deciding, Replying, sentCounts, givenCounts
<1>7. /\ serving' \in {"upstream", "writing"} /\ local' \in BOOLEAN
      /\ (local' => serving' \in {"writing", "done"})
  BY <1>1
<1>8. Exchanged!TypeOK'
  BY <1>0, <1>1, <1>7 DEF Exchanged!TypeOK
<1>9. OneQuestion'
  BY <1>1, <1>2, <1>4, <1>6, <1>7 DEF OneQuestion, sentCounts, givenCounts
<1>10. DecidesFirst'
  BY <1>1, <1>2, <1>3, <1>4 DEF DecidesFirst, Undecided, Unrelayed, sentCounts, givenCounts
<1>11. ArrivesWhole'
  BY <1>1, <1>3, <1>4, <1>5 DEF ExchangeInv, ArrivesWhole, sentCounts, keptCounts
<1>12. LeavesWhole'
  BY <1>0, <1>1, <1>3, <1>4, <1>5, ExchangeNumbers
     DEF ExchangeInv, LeavesWhole, Unrelayed, givenCounts
<1>13. RecordedFirst'
  BY <1>1, <1>2, <1>3, <1>4 DEF ExchangeInv, RecordedFirst, Own, sentCounts, givenCounts
<1>14. EndsOnce' /\ FailsFirst'
  BY <1>1, <1>4, <1>7 DEF ExchangeInv, EndsOnce, FailsFirst, sentCounts, givenCounts
<1>15. LeavesInTime'
  BY <1>1, <1>3, <1>4 DEF ExchangeInv, LeavesInTime, LeftEarly, sentCounts
<1> QED
  BY <1>8, <1>9, <1>10, <1>11, <1>12, <1>13, <1>14, <1>15 DEF ExchangeInv

\* A piece of the body of the origin, or its end, goes to Node.
LEMMA ProduceKeeps == ExchangeInv /\ Exchanged!Produce => ExchangeInv'
<1> SUFFICES ASSUME ExchangeInv, Exchanged!Produce PROVE ExchangeInv'
  OBVIOUS
<1>0. Exchanged!TypeOK
  BY DEF ExchangeInv
<1>1. /\ serving \in {"askingResponse", "writing"} /\ ~owed /\ ~exhausted /\ ~settled
      /\ UNCHANGED <<decisions, framing, serving, reply, local, uploaded, frame, read,
                     delivered, eof, given, present, noticed, draining, drainedOut, settled,
                     known, deciding, relaying, inbox, tapped, credit, recorded>>
  BY DEF Exchanged!Produce, Exchanged!Piping, Exchanged!forwarding, Exchanged!leaving,
         Exchanged!node
<1>2. UNCHANGED keptCounts /\ UNCHANGED givenCounts
  BY <1>1, ExchangeCountsStay
<1>3. Incoming = 0 /\ PiecesSent = 0 /\ PiecesKept = 0 /\ CreditsGiven = 0
  <2>1. PiecesSent \in Nat /\ PiecesKept \in Nat /\ CreditsGiven \in Nat /\ Incoming = 0
    BY <1>0, <1>1, ExchangeNumbers DEF ExchangeInv, ArrivesWhole
  <2> QED
    BY <2>1 DEF Incoming
<1>4. /\ requests' \in Seq(ToNodeKinds) /\ EndsSent' \in Nat /\ FailsFirst'
      /\ UNCHANGED <<RequestsSent, ResponsesSent, CreditsSent, FailuresSent, AbortedSent,
                     CompletedSent>>
      /\ requests' # <<>> /\ (requests # <<>> => requests'[1] = requests[1])
      /\ \/ /\ PiecesSent' = 1 /\ EndsSent' = EndsSent
            /\ produced' = produced + 1 /\ owed' /\ ~exhausted'
         \/ /\ PiecesSent' = 0 /\ produced' = Pieces /\ produced = Pieces /\ exhausted' /\ ~owed'
      /\ produced' \in 0..Pieces /\ owed' \in BOOLEAN /\ exhausted' \in BOOLEAN
  <2>1. /\ requests \in Seq(ToNodeKinds) /\ {"piece", "end"} \subseteq ToNodeKinds
        /\ produced \in 0..Pieces /\ Pieces \in Nat /\ EndsSent \in Nat
    BY <1>0, BoundsAssumption, ExchangeNumbers
       DEF Exchanged!TypeOK, ToNodeKinds, Exchanged!Frames
  <2>2. CASE produced < Pieces
    <3>1. /\ requests' = Append(requests, "piece") /\ produced' = produced + 1
          /\ owed' = TRUE /\ exhausted' = exhausted
      BY <2>2 DEF Exchanged!Produce
    <3>2. /\ requests' \in Seq(ToNodeKinds) /\ PiecesSent' = PiecesSent + 1
          /\ UNCHANGED <<RequestsSent, ResponsesSent, EndsSent, CreditsSent, FailuresSent,
                         AbortedSent, CompletedSent>>
      BY <1>0, <2>1, <3>1, RequestsGrow
    <3>3. FailsFirst'
      BY <1>0, <2>1, <3>1, OrderStays DEF ExchangeInv
    <3>4. requests' # <<>> /\ (requests # <<>> => requests'[1] = requests[1])
      BY <2>1, <3>1
    <3>5. produced' \in 0..Pieces /\ PiecesSent' = 1
      BY <1>3, <2>1, <2>2, <3>1, <3>2
    <3>6. owed' /\ ~exhausted' /\ owed' \in BOOLEAN /\ exhausted' \in BOOLEAN
      BY <1>0, <1>1, <3>1 DEF Exchanged!TypeOK
    <3>7. EndsSent' = EndsSent /\ EndsSent' \in Nat
      BY <2>1, <3>2
    <3> QED
      BY <3>1, <3>2, <3>3, <3>4, <3>5, <3>6, <3>7
  <2>3. CASE ~(produced < Pieces)
    <3>1. /\ requests' = Append(requests, "end") /\ produced' = produced
          /\ owed' = owed /\ exhausted' = TRUE
      BY <2>3 DEF Exchanged!Produce
    <3>2. /\ requests' \in Seq(ToNodeKinds) /\ EndsSent' = EndsSent + 1
          /\ UNCHANGED <<RequestsSent, ResponsesSent, PiecesSent, CreditsSent, FailuresSent,
                         AbortedSent, CompletedSent>>
      BY <1>0, <2>1, <3>1, RequestsGrow
    <3>3. FailsFirst'
      BY <1>0, <2>1, <3>1, OrderStays DEF ExchangeInv
    <3>4. requests' # <<>> /\ (requests # <<>> => requests'[1] = requests[1])
      BY <2>1, <3>1
    <3>5. produced = Pieces /\ produced' = Pieces /\ produced' \in 0..Pieces
          /\ PiecesSent' = 0
      BY <1>3, <2>1, <2>3, <3>1, <3>2
    <3>6. exhausted' /\ ~owed' /\ owed' \in BOOLEAN /\ exhausted' \in BOOLEAN
      BY <1>0, <1>1, <3>1 DEF Exchanged!TypeOK
    <3>7. EndsSent' \in Nat
      BY <2>1, <3>2
    <3> QED
      BY <3>2, <3>3, <3>4, <3>5, <3>6, <3>7
  <2> QED
    BY <2>2, <2>3
<1>5. UNCHANGED <<Question, Outgoing, Arrived>>
  BY <1>1, <1>2, <1>4, TokensStay DEF keptCounts, givenCounts
<1>6. PiecesKept' = 0 /\ CreditsGiven' = 0 /\ Incoming' = PiecesSent'
  BY <1>2, <1>3, <1>4 DEF Incoming, keptCounts, givenCounts
<1>7. Exchanged!TypeOK'
  BY <1>0, <1>1, <1>4 DEF Exchanged!TypeOK, ToNodeKinds
<1>8. OneQuestion'
  BY <1>1, <1>2, <1>4, <1>5 DEF ExchangeInv, OneQuestion, givenCounts
<1>9. DecidesFirst'
  BY <1>1, <1>2, <1>4 DEF ExchangeInv, DecidesFirst, Undecided, Unrelayed, givenCounts
<1>10. ArrivesWhole'
  <2>1. tapped + 1 + 0 = tapped + 1 /\ tapped + 0 + 0 = tapped
    BY <1>0, ExchangeNumbers
  <2>2. known /\ (ResponsesSent > 0 \/ deciding = "response" \/ relaying = "origin's") =>
            tapped = produced
    BY <1>0, <1>3, ExchangeNumbers DEF ExchangeInv, ArrivesWhole
  <2>3. /\ Incoming' <= 1 /\ (~owed' => Incoming' = 0)
        /\ (exhausted' => produced' = Pieces /\ ~owed')
    BY <1>4, <1>6
  <2>4. EndsSent' > 0 \/ EndsKept' > 0 => exhausted'
    BY <1>1, <1>2, <1>4 DEF ExchangeInv, ArrivesWhole, keptCounts
  <2>5. tapped = produced => tapped + PiecesSent' + PiecesKept' = produced'
    BY <1>4, <1>6, <2>1
  <2> QED
    BY <1>1, <1>4, <2>2, <2>3, <2>4, <2>5 DEF ExchangeInv, ArrivesWhole
<1>11. LeavesWhole' /\ RecordedFirst'
  BY <1>1, <1>2, <1>4, <1>5
     DEF ExchangeInv, LeavesWhole, RecordedFirst, Own, givenCounts
<1>12. EndsOnce' /\ LeavesInTime'
  BY <1>1, <1>2, <1>4 DEF ExchangeInv, EndsOnce, LeavesInTime, LeftEarly, givenCounts
<1> QED
  BY <1>4, <1>7, <1>8, <1>9, <1>10, <1>11, <1>12 DEF ExchangeInv

\* The writer hands a piece to the client, and credits Node for it.
LEMMA ForwardKeeps == ExchangeInv /\ Exchanged!ForwardPiece => ExchangeInv'
<1> SUFFICES ASSUME ExchangeInv, Exchanged!ForwardPiece PROVE ExchangeInv'
  OBVIOUS
<1>0. Exchanged!TypeOK
  BY DEF ExchangeInv
<1>1. /\ serving = "writing" /\ frame = "piece" /\ frame' = "none"
      /\ read' = read + 1 /\ given' = given + (IF present THEN 1 ELSE 0)
      /\ requests' = Append(requests, "credit")
      /\ UNCHANGED <<decisions, framing, serving, reply, local, uploaded, produced, owed,
                     exhausted, eof, present, noticed, draining, drainedOut, settled,
                     known, deciding, relaying, inbox, tapped, credit, recorded>>
  BY DEF Exchanged!ForwardPiece, Exchanged!origin, Exchanged!leaving, Exchanged!node
<1>2. /\ delivered' \in BOOLEAN
      /\ (~local /\ framing = "length" /\ read' = Pieces => delivered')
  BY <1>0 DEF Exchanged!ForwardPiece, Exchanged!TypeOK
<1>3. /\ ~Undecided /\ ~eof /\ "credit" \in ToNodeKinds /\ requests \in Seq(ToNodeKinds)
      /\ (recorded = "none" => requests # <<>>)
  BY <1>0, <1>1
     DEF ExchangeInv, DecidesFirst, Unrelayed, LeavesWhole, EndsOnce, Exchanged!TypeOK,
         ToNodeKinds
<1>4. /\ requests' \in Seq(ToNodeKinds) /\ CreditsSent' = CreditsSent + 1
      /\ UNCHANGED <<RequestsSent, ResponsesSent, PiecesSent, EndsSent, FailuresSent,
                     AbortedSent, CompletedSent>>
  BY <1>0, <1>1, <1>3, RequestsGrow
<1>5. /\ requests' # <<>> /\ (requests # <<>> => requests'[1] = requests[1])
      /\ FailsFirst'
  <2>1. FailsFirst'
    BY <1>0, <1>1, <1>3, OrderStays DEF ExchangeInv
  <2> QED
    BY <1>1, <1>3, <2>1
<1>6. UNCHANGED keptCounts /\ UNCHANGED givenCounts
  BY <1>1, ExchangeCountsStay
<1>7. UNCHANGED <<Question, Incoming>>
  BY <1>1, <1>4, <1>6, TokensStay DEF keptCounts, givenCounts
<1>8. Framed = 1 /\ Framed' = 0 /\ FramedPiece = 1 /\ FramedPiece' = 0
  BY <1>1 DEF Framed, FramedPiece
\* Its credit takes the place of the piece.
<1>9. Outgoing' = 1 /\ Outgoing = 1
  <2>1. PiecesGiven = 0 /\ EndsGiven = 0 /\ CreditsSent = 0
    BY <1>0, <1>8, ExchangeNumbers DEF ExchangeInv, LeavesWhole, Outgoing
  <2>2. CreditsSent' = 1
    BY <1>4, <2>1
  <2> QED
    BY <1>6, <1>8, <2>1, <2>2 DEF Outgoing, givenCounts
<1>10. Arrived' = Arrived
  <2>1. PiecesGiven' = PiecesGiven /\ PiecesGiven \in Nat /\ read \in Nat
    BY <1>0, <1>6, ExchangeNumbers DEF givenCounts
  <2>2. Arrived = read + 1 + PiecesGiven
    BY <1>8 DEF Arrived
  <2>3. Arrived' = read + 1 + 0 + PiecesGiven
    BY <1>1, <1>8, <2>1 DEF Arrived
  <2> QED
    BY <2>1, <2>2, <2>3
<1>11. read + 1 <= Pieces /\ given + (IF present THEN 1 ELSE 0) \in 0..(read + 1)
  <2>1. Arrived = read + 1 + PiecesGiven
    BY <1>8 DEF Arrived
  <2>2. Arrived <= tapped /\ tapped <= Pieces /\ given <= read
    BY <1>0, BoundsAssumption DEF ExchangeInv, LeavesWhole, Exchanged!TypeOK
  <2> QED
    BY <1>0, <2>1, <2>2, ExchangeNumbers
<1>12. read' \in 0..Pieces /\ given' \in 0..Pieces /\ given' <= read'
  <2> DEFINE g == given + (IF present THEN 1 ELSE 0)
  <2>1. read \in Nat /\ Pieces \in Nat
    BY <1>0, ExchangeNumbers
  <2>2. read + 1 \in 0..Pieces /\ g \in 0..(read + 1)
    BY <1>11, <2>1
  <2>3. given' = g
    BY <1>1
  <2> HIDE DEF g
  <2>4. g \in 0..Pieces /\ g <= read + 1
    BY <2>1, <2>2
  <2> QED
    BY <1>1, <2>2, <2>3, <2>4
<1>13. Exchanged!TypeOK'
  <2>1. {local', uploaded', owed', exhausted', delivered', eof', present', noticed', draining',
         drainedOut', settled', known', credit'} \subseteq BOOLEAN
    BY <1>0, <1>1, <1>2 DEF Exchanged!TypeOK
  <2> QED
    BY <1>0, <1>1, <1>4, <1>12, <2>1 DEF Exchanged!TypeOK, ToNodeKinds
<1>14. OneQuestion'
  BY <1>1, <1>4, <1>6, <1>7 DEF ExchangeInv, OneQuestion, givenCounts
<1>15. DecidesFirst'
  BY <1>1, <1>3, <1>4, <1>6 DEF DecidesFirst, Undecided, givenCounts
<1>16. ArrivesWhole'
  BY <1>1, <1>4, <1>6, <1>7 DEF ExchangeInv, ArrivesWhole, keptCounts
<1>17. LeavesWhole'
  BY <1>1, <1>2, <1>3, <1>6, <1>9, <1>10, <1>12 DEF ExchangeInv, LeavesWhole, givenCounts
<1>18. RecordedFirst'
  BY <1>1, <1>4, <1>6 DEF ExchangeInv, RecordedFirst, Own, givenCounts
<1>19. EndsOnce'
  BY <1>1, <1>3, <1>4, <1>5, <1>6 DEF ExchangeInv, EndsOnce, givenCounts
<1>20. LeavesInTime'
  <2>1. LeftEarly => LeftEarly'
    <3>1. given + 0 = given
      BY <1>0, ExchangeNumbers
    <3> QED
      BY <1>1, <3>1 DEF LeftEarly
  <2> QED
    BY <1>1, <1>4, <2>1 DEF ExchangeInv, LeavesInTime
<1> QED
  BY <1>5, <1>13, <1>14, <1>15, <1>16, <1>17, <1>18, <1>19, <1>20 DEF ExchangeInv

\* The writer reaches the end: the session is complete.
LEMMA CompletionKeeps == ExchangeInv /\ Exchanged!ForwardEnd => ExchangeInv'
<1> SUFFICES ASSUME ExchangeInv, Exchanged!ForwardEnd PROVE ExchangeInv'
  OBVIOUS
<1>0. Exchanged!TypeOK
  BY DEF ExchangeInv
<1>1. /\ serving = "writing" /\ frame = "end" /\ frame' = "none" /\ serving' = "done"
      /\ eof' = TRUE /\ settled' = TRUE
      /\ requests' = IF settled THEN requests ELSE requests \o <<"completed">>
      /\ UNCHANGED <<decisions, framing, reply, local, uploaded, produced, owed, exhausted,
                     read, delivered, given, present, noticed, draining, drainedOut,
                     known, deciding, relaying, inbox, tapped, credit, recorded>>
  BY DEF Exchanged!ForwardEnd, Exchanged!Finish, Exchanged!origin, Exchanged!leaving,
         Exchanged!node
<1>2. /\ ~Undecided /\ read = Pieces /\ Question = 0 /\ requests \in Seq(ToNodeKinds)
      /\ (recorded = "none" => requests # <<>>)
  BY <1>0, <1>1
     DEF ExchangeInv, DecidesFirst, Unrelayed, LeavesWhole, EndsOnce, OneQuestion,
         Exchanged!TypeOK, ToNodeKinds
<1>3. /\ requests' \in Seq(ToNodeKinds) /\ FailsFirst'
      /\ UNCHANGED <<RequestsSent, ResponsesSent, PiecesSent, EndsSent, CreditsSent,
                     FailuresSent, AbortedSent>>
      /\ (requests # <<>> => requests' # <<>> /\ requests'[1] = requests[1])
  <2>1. CASE settled
    <3>1. requests' = requests
      BY <1>1, <2>1
    <3>2. UNCHANGED sentCounts
      BY <3>1, ExchangeCountsStay
    <3> QED
      BY <1>2, <3>1, <3>2 DEF ExchangeInv, FailsFirst, sentCounts
  <2>2. CASE ~settled
    <3>1. requests' = Append(requests, "completed") /\ "completed" \in ToNodeKinds
      BY <1>1, <1>2, <2>2 DEF ToNodeKinds
    <3>2. /\ requests' \in Seq(ToNodeKinds)
          /\ UNCHANGED <<RequestsSent, ResponsesSent, PiecesSent, EndsSent, CreditsSent,
                         FailuresSent, AbortedSent>>
      BY <1>0, <3>1, RequestsGrow
    <3>3. FailsFirst'
      BY <1>0, <3>1, OrderStays DEF ExchangeInv
    <3> QED
      BY <1>2, <3>1, <3>2, <3>3
  <2> QED
    BY <2>1, <2>2
<1>4. UNCHANGED keptCounts /\ UNCHANGED givenCounts
  BY <1>1, ExchangeCountsStay
<1>5. UNCHANGED <<Question, Incoming>>
  BY <1>1, <1>3, <1>4, TokensStay DEF keptCounts, givenCounts
<1>6. Framed = 1 /\ Framed' = 0 /\ FramedPiece = 0 /\ FramedPiece' = 0
  BY <1>1 DEF Framed, FramedPiece
<1>7. Outgoing' = 0 /\ Outgoing = 1 /\ EndsGiven = 0
  <2>1. PiecesGiven = 0 /\ EndsGiven = 0 /\ CreditsSent = 0
    BY <1>0, <1>6, ExchangeNumbers DEF ExchangeInv, LeavesWhole, Outgoing
  <2> QED
    BY <1>3, <1>4, <1>6, <2>1 DEF Outgoing, givenCounts
<1>8. Arrived' = Arrived
  BY <1>1, <1>4, <1>6 DEF Arrived, givenCounts
<1>9. Exchanged!TypeOK'
  <2>1. {local', uploaded', owed', exhausted', delivered', eof', present', noticed', draining',
         drainedOut', settled', known', credit'} \subseteq BOOLEAN
    BY <1>0, <1>1 DEF Exchanged!TypeOK
  <2> QED
    BY <1>0, <1>1, <1>3, <2>1 DEF Exchanged!TypeOK, ToNodeKinds
<1>10. OneQuestion'
  BY <1>1, <1>2, <1>3, <1>4, <1>5 DEF ExchangeInv, OneQuestion, givenCounts
<1>11. DecidesFirst'
  BY <1>1, <1>2, <1>3, <1>4 DEF DecidesFirst, Undecided, givenCounts
<1>12. ArrivesWhole'
  BY <1>1, <1>3, <1>4, <1>5 DEF ExchangeInv, ArrivesWhole, keptCounts
<1>13. LeavesWhole'
  <2>1. Arrived <= tapped
    BY DEF ExchangeInv, LeavesWhole
  <2> QED
    BY <1>1, <1>2, <1>4, <1>7, <1>8, <2>1 DEF ExchangeInv, LeavesWhole, givenCounts
<1>14. RecordedFirst'
  <2>1. recorded = "completed" \/ local
    <3>1. recorded = "completed" \/ Own
      BY <1>1 DEF ExchangeInv, RecordedFirst
    <3>2. ~(LocalGiven > 0 \/ reply = "local")
      BY <1>1 DEF ExchangeInv, OneQuestion
    <3> QED
      BY <3>1, <3>2 DEF Own
  <2> QED
    BY <1>1, <2>1 DEF ExchangeInv, RecordedFirst
<1>15. EndsOnce'
  BY <1>1, <1>2, <1>3, <1>4 DEF ExchangeInv, EndsOnce, givenCounts
<1>16. LeavesInTime'
  BY <1>1, <1>3 DEF ExchangeInv, LeavesInTime, LeftEarly
<1> QED
  BY <1>3, <1>9, <1>10, <1>11, <1>12, <1>13, <1>14, <1>15, <1>16 DEF ExchangeInv

\* The answer to a question arrives.
LEMMA AnswerArrives ==
    ASSUME ExchangeInv, Exchanged!CoreReceives, Head(decisions) \in Exchanged!Answers
    PROVE  ExchangeInv'
<1> DEFINE m == Head(decisions)
           waiting == serving \in {"asking", "askingResponse"}
<1>0. Exchanged!TypeOK
  BY DEF ExchangeInv
<1>1. /\ decisions # <<>> /\ decisions' = Tail(decisions) /\ m \in {"go", "local", "error"}
      /\ reply' = IF waiting THEN m ELSE reply
      /\ UNCHANGED <<requests, framing, serving, local, uploaded, produced, exhausted, frame,
                     read, delivered, eof, given, present, noticed, draining, drainedOut,
                     settled, known, deciding, relaying, inbox, tapped, credit, recorded>>
  BY DEF Exchanged!CoreReceives, Exchanged!Answers, Exchanged!leaving, Exchanged!node
<1>2. owed' = owed
  <2>1. owed' = (owed /\ m # "credit") /\ owed \in BOOLEAN
    BY <1>0 DEF Exchanged!CoreReceives, Exchanged!TypeOK
  <2> QED
    BY <1>1, <2>1
<1> HIDE DEF m
<1>3. /\ decisions' \in Seq(ToCoreKinds)
      /\ UNCHANGED <<PiecesGiven, EndsGiven, CreditsGiven, AbortsGiven>>
      /\ GoGiven' = (IF m = "go" THEN GoGiven - 1 ELSE GoGiven)
      /\ LocalGiven' = (IF m = "local" THEN LocalGiven - 1 ELSE LocalGiven)
      /\ ErrorGiven' = (IF m = "error" THEN ErrorGiven - 1 ELSE ErrorGiven)
      /\ GoGiven' \in Nat /\ LocalGiven' \in Nat /\ ErrorGiven' \in Nat
  BY <1>0, <1>1, DecisionsShrink DEF m
<1>4. UNCHANGED sentCounts /\ UNCHANGED keptCounts
  BY <1>1, ExchangeCountsStay
<1>5. /\ GoGiven \in Nat /\ LocalGiven \in Nat /\ ErrorGiven \in Nat
      /\ GoGiven + LocalGiven + ErrorGiven > 0
      /\ (m = "go" => GoGiven > 0) /\ (m = "local" => LocalGiven > 0)
      /\ (m = "error" => ErrorGiven > 0)
  <2>1. GoGiven \in Nat /\ LocalGiven \in Nat /\ ErrorGiven \in Nat
    BY <1>0, ExchangeNumbers
  <2>2. (m = "go" => GoGiven > 0) /\ (m = "local" => LocalGiven > 0)
        /\ (m = "error" => ErrorGiven > 0)
    BY <1>3, <2>1
  <2> QED
    BY <1>1, <2>1, <2>2
\* It was the one token, and is it still while somebody waits for it.
<1>6. /\ RequestsSent = 0 /\ ResponsesSent = 0 /\ deciding = "none" /\ reply = "none"
      /\ GoGiven' = 0 /\ LocalGiven' = 0 /\ ErrorGiven' = 0
      /\ (GoGiven > 0 => m = "go") /\ (LocalGiven > 0 => m = "local")
  <2>1. /\ RequestsSent = 0 /\ ResponsesSent = 0 /\ deciding = "none" /\ reply = "none"
        /\ GoGiven + LocalGiven + ErrorGiven = 1
    BY <1>0, <1>5, OneToken DEF ExchangeInv, OneQuestion
  <2> QED
    BY <1>1, <1>3, <1>5, <2>1
<1>7. UNCHANGED <<Incoming, Outgoing, Arrived>>
  BY <1>1, <1>3, <1>4, TokensStay DEF sentCounts, keptCounts
<1>8. Question' <= 1 /\ (~waiting => Question' = 0)
  <2>1. RequestsSent' = 0 /\ ResponsesSent' = 0 /\ Deciding' = 0
    BY <1>1, <1>4, <1>6 DEF Deciding, sentCounts
  <2>2. Replying' = IF waiting THEN 1 ELSE 0
    BY <1>1, <1>6 DEF Replying
  <2> QED
    BY <1>6, <2>1, <2>2 DEF Question
<1>9. Exchanged!TypeOK'
  <2>1. {local', uploaded', owed', exhausted', delivered', eof', present', noticed', draining',
         drainedOut', settled', known', credit'} \subseteq BOOLEAN
    BY <1>0, <1>1, <1>2 DEF Exchanged!TypeOK
  <2>2. reply' \in {"none"} \cup Exchanged!Answers
    BY <1>0, <1>1 DEF Exchanged!TypeOK, Exchanged!Answers
  <2> QED
    BY <1>0, <1>1, <1>3, <2>1, <2>2 DEF Exchanged!TypeOK, ToCoreKinds
<1>10. OneQuestion'
  BY <1>1, <1>3, <1>4, <1>5, <1>6, <1>8 DEF ExchangeInv, OneQuestion, sentCounts
<1>11. DecidesFirst'
  <2>1. Undecided' => Undecided
    BY <1>1, <1>4, <1>5, <1>6 DEF Undecided, sentCounts
  <2> QED
    BY <1>1, <1>3, <1>4, <2>1 DEF ExchangeInv, DecidesFirst, Unrelayed, sentCounts
<1>12. ArrivesWhole'
  BY <1>1, <1>2, <1>4, <1>7 DEF ExchangeInv, ArrivesWhole, sentCounts, keptCounts
<1>13. LeavesWhole'
  BY <1>1, <1>3, <1>7 DEF ExchangeInv, LeavesWhole
<1>14. RecordedFirst'
  <2>1. Own => Own' \/ serving = "done"
    BY <1>1, <1>5, <1>6 DEF ExchangeInv, OneQuestion, Own
  <2> QED
    BY <1>1, <1>3, <1>4, <2>1 DEF ExchangeInv, RecordedFirst, sentCounts
<1>15. EndsOnce'
  <2>1. serving # "asked"
    BY <1>1 DEF ExchangeInv, EndsOnce
  <2> QED
    BY <1>1, <1>3, <1>4, <2>1 DEF ExchangeInv, EndsOnce, sentCounts
<1>16. FailsFirst' /\ LeavesInTime'
  BY <1>1, <1>4 DEF ExchangeInv, FailsFirst, LeavesInTime, LeftEarly, sentCounts
<1> QED
  BY <1>9, <1>10, <1>11, <1>12, <1>13, <1>14, <1>15, <1>16 DEF ExchangeInv

\* A credit of Node lets the core send on.
LEMMA CreditArrives ==
    ASSUME ExchangeInv, Exchanged!CoreReceives, Head(decisions) = "credit"
    PROVE  ExchangeInv'
<1>0. Exchanged!TypeOK
  BY DEF ExchangeInv
<1>1. /\ decisions # <<>> /\ decisions' = Tail(decisions)
      /\ UNCHANGED <<requests, framing, serving, reply, local, uploaded, produced, exhausted,
                     frame, read, delivered, eof, given, present, noticed, draining,
                     drainedOut, settled, known, deciding, relaying, inbox, tapped, credit,
                     recorded>>
  BY DEF Exchanged!CoreReceives, Exchanged!Answers, Exchanged!leaving, Exchanged!node
<1>2. owed' = FALSE
  <2>1. owed' = (owed /\ Head(decisions) # "credit")
    BY DEF Exchanged!CoreReceives
  <2> QED
    BY <2>1
<1>3. /\ decisions' \in Seq(ToCoreKinds) /\ CreditsGiven' = CreditsGiven - 1
      /\ CreditsGiven' \in Nat
      /\ UNCHANGED <<PiecesGiven, EndsGiven, GoGiven, LocalGiven, ErrorGiven, AbortsGiven>>
  BY <1>0, <1>1, DecisionsShrink
<1>4. UNCHANGED sentCounts /\ UNCHANGED keptCounts
  BY <1>1, ExchangeCountsStay
<1>5. UNCHANGED <<Question, Outgoing, Arrived>>
  BY <1>1, <1>3, <1>4, TokensStay DEF sentCounts, keptCounts
<1>6. Incoming' = 0
  <2>1. /\ PiecesSent \in Nat /\ PiecesKept \in Nat /\ CreditsGiven \in Nat
        /\ PiecesSent + PiecesKept + CreditsGiven <= 1 /\ CreditsGiven - 1 \in Nat
    BY <1>0, <1>3, ExchangeNumbers DEF ExchangeInv, ArrivesWhole, Incoming
  <2>2. PiecesSent = 0 /\ PiecesKept = 0 /\ CreditsGiven - 1 = 0
    BY <2>1
  <2> QED
    BY <1>3, <1>4, <2>2 DEF Incoming, sentCounts, keptCounts
<1>7. Exchanged!TypeOK'
  <2>1. {local', uploaded', owed', exhausted', delivered', eof', present', noticed', draining',
         drainedOut', settled', known', credit'} \subseteq BOOLEAN
    BY <1>0, <1>1, <1>2 DEF Exchanged!TypeOK
  <2> QED
    BY <1>0, <1>1, <1>3, <2>1 DEF Exchanged!TypeOK, ToCoreKinds
<1>8. OneQuestion' /\ DecidesFirst'
  BY <1>1, <1>3, <1>4, <1>5
     DEF ExchangeInv, OneQuestion, DecidesFirst, Undecided, Unrelayed, sentCounts
<1>9. ArrivesWhole'
  BY <1>1, <1>2, <1>4, <1>6 DEF ExchangeInv, ArrivesWhole, sentCounts, keptCounts
<1>10. LeavesWhole' /\ RecordedFirst'
  BY <1>1, <1>3, <1>4, <1>5
     DEF ExchangeInv, LeavesWhole, RecordedFirst, Own, sentCounts
<1>11. EndsOnce'
  <2>1. serving # "asked"
    BY <1>1 DEF ExchangeInv, EndsOnce
  <2> QED
    BY <1>1, <1>3, <1>4, <2>1 DEF ExchangeInv, EndsOnce, sentCounts
<1>12. FailsFirst' /\ LeavesInTime'
  BY <1>1, <1>4 DEF ExchangeInv, FailsFirst, LeavesInTime, LeftEarly, sentCounts
<1> QED
  BY <1>7, <1>8, <1>9, <1>10, <1>11, <1>12 DEF ExchangeInv

\* A frame of Node arrives; its reader has gone if the session is over.
LEMMA FrameArrives ==
    ASSUME ExchangeInv, Exchanged!CoreReceives, Head(decisions) \in Exchanged!Frames
    PROVE  ExchangeInv'
<1> DEFINE m == Head(decisions)
<1>0. Exchanged!TypeOK
  BY DEF ExchangeInv
<1>1. /\ decisions # <<>> /\ decisions' = Tail(decisions) /\ m \in {"piece", "end"}
      /\ frame' = IF ~settled THEN m ELSE frame
      /\ UNCHANGED <<requests, framing, serving, reply, local, uploaded, produced, exhausted,
                     read, delivered, eof, given, present, noticed, draining, drainedOut,
                     settled, known, deciding, relaying, inbox, tapped, credit, recorded>>
  BY DEF Exchanged!CoreReceives, Exchanged!Answers, Exchanged!Frames, Exchanged!leaving,
         Exchanged!node
<1>2. owed' = owed
  <2>1. owed' = (owed /\ m # "credit") /\ owed \in BOOLEAN
    BY <1>0 DEF Exchanged!CoreReceives, Exchanged!TypeOK
  <2> QED
    BY <1>1, <2>1
<1> HIDE DEF m
<1>3. /\ decisions' \in Seq(ToCoreKinds)
      /\ UNCHANGED <<CreditsGiven, GoGiven, LocalGiven, ErrorGiven, AbortsGiven>>
      /\ PiecesGiven' = (IF m = "piece" THEN PiecesGiven - 1 ELSE PiecesGiven)
      /\ EndsGiven' = (IF m = "end" THEN EndsGiven - 1 ELSE EndsGiven)
      /\ PiecesGiven' \in Nat /\ EndsGiven' \in Nat
  BY <1>0, <1>1, DecisionsShrink DEF m
<1>4. UNCHANGED sentCounts /\ UNCHANGED keptCounts
  BY <1>1, ExchangeCountsStay
<1>5. UNCHANGED <<Question, Incoming>>
  BY <1>1, <1>3, <1>4, TokensStay DEF sentCounts, keptCounts
\* It was the one token of the stream out.
<1>6. /\ PiecesGiven = (IF m = "piece" THEN 1 ELSE 0) /\ EndsGiven = (IF m = "end" THEN 1 ELSE 0)
      /\ PiecesGiven' = 0 /\ EndsGiven' = 0 /\ frame = "none" /\ CreditsSent = 0
  <2>1. /\ PiecesGiven \in Nat /\ EndsGiven \in Nat /\ CreditsSent \in Nat /\ Framed \in 0..1
        /\ PiecesGiven + EndsGiven + Framed + CreditsSent <= 1
    BY <1>0, ExchangeNumbers DEF ExchangeInv, LeavesWhole, Outgoing
  <2>2. (m = "piece" => PiecesGiven > 0) /\ (m = "end" => EndsGiven > 0)
    BY <1>3, <2>1
  <2>3. /\ PiecesGiven = (IF m = "piece" THEN 1 ELSE 0)
        /\ EndsGiven = (IF m = "end" THEN 1 ELSE 0)
        /\ Framed = 0 /\ CreditsSent = 0
    BY <1>1, <2>1, <2>2
  <2>4. PiecesGiven' = 0 /\ EndsGiven' = 0
    BY <1>1, <1>3, <2>3
  <2> QED
    BY <2>3, <2>4 DEF Framed
<1>7. ~Undecided
  BY <1>1, <1>6 DEF ExchangeInv, DecidesFirst, Unrelayed
<1>8. Outgoing' <= 1 /\ ~(relaying # "nothing" /\ credit)
  <2>1. Framed' \in 0..1 /\ CreditsSent' = 0
    BY <1>4, <1>6 DEF Framed, sentCounts
  <2>2. Outgoing = 1
    BY <1>1, <1>6 DEF Outgoing, Framed
  <2>3. PICK one \in 0..1 : Framed' = one
    BY <2>1
  <2>4. Outgoing' = 0 + 0 + one + 0
    BY <1>6, <2>1, <2>3 DEF Outgoing
  <2>5. Outgoing' <= 1
    BY <2>4
  <2> QED
    BY <2>2, <2>5 DEF ExchangeInv, LeavesWhole
<1>9. /\ Arrived' <= tapped /\ (~settled => Arrived' = tapped)
      /\ (~settled /\ m = "end" => read = Pieces)
  <2>1. read \in Nat /\ tapped \in Nat /\ Pieces \in Nat
    BY <1>0, ExchangeNumbers
  <2>2. Arrived = read + (IF m = "piece" THEN 1 ELSE 0)
    BY <1>1, <1>6, <2>1 DEF Arrived, FramedPiece
  <2>3. FramedPiece' = IF m = "piece" /\ ~settled THEN 1 ELSE 0
    BY <1>1, <1>6 DEF FramedPiece
  <2>4. Arrived' = read + (IF m = "piece" /\ ~settled THEN 1 ELSE 0) + 0
    BY <1>1, <1>6, <2>3 DEF Arrived
  <2>5. Arrived <= tapped /\ (~settled => Arrived = tapped) /\ (m = "end" => tapped = Pieces)
    BY <1>6 DEF ExchangeInv, LeavesWhole
  <2> QED
    BY <1>1, <2>1, <2>2, <2>4, <2>5
<1>10. Exchanged!TypeOK'
  <2>1. {local', uploaded', owed', exhausted', delivered', eof', present', noticed', draining',
         drainedOut', settled', known', credit'} \subseteq BOOLEAN
    BY <1>0, <1>1, <1>2 DEF Exchanged!TypeOK
  <2>2. frame' \in {"none"} \cup Exchanged!Frames
    BY <1>0, <1>1 DEF Exchanged!TypeOK, Exchanged!Frames
  <2> QED
    BY <1>0, <1>1, <1>3, <2>1, <2>2 DEF Exchanged!TypeOK, ToCoreKinds
<1>11. OneQuestion'
  BY <1>1, <1>3, <1>4, <1>5 DEF ExchangeInv, OneQuestion, sentCounts
<1>12. DecidesFirst'
  BY <1>1, <1>3, <1>4, <1>7 DEF DecidesFirst, Undecided, sentCounts
<1>13. ArrivesWhole'
  BY <1>1, <1>2, <1>4, <1>5 DEF ExchangeInv, ArrivesWhole, sentCounts, keptCounts
<1>14. LeavesWhole'
  BY <1>1, <1>6, <1>8, <1>9 DEF ExchangeInv, LeavesWhole
<1>15. RecordedFirst'
  <2>1. m = "end" => recorded = "completed" \/ Own \/ serving = "done"
    BY <1>6 DEF ExchangeInv, RecordedFirst
  <2> QED
    BY <1>1, <1>3, <1>4, <1>6, <2>1 DEF ExchangeInv, RecordedFirst, Own, sentCounts
<1>16. EndsOnce'
  <2>1. serving # "asked"
    BY <1>1 DEF ExchangeInv, EndsOnce
  <2> QED
    BY <1>1, <1>3, <1>4, <2>1 DEF ExchangeInv, EndsOnce, sentCounts
<1>17. FailsFirst' /\ LeavesInTime'
  BY <1>1, <1>4 DEF ExchangeInv, FailsFirst, LeavesInTime, LeftEarly, sentCounts
<1> QED
  BY <1>10, <1>11, <1>12, <1>13, <1>14, <1>15, <1>16, <1>17 DEF ExchangeInv

\* Node aborts only sessions that are over.
LEMMA AbortArrives ==
    ASSUME ExchangeInv, Exchanged!CoreReceives, Head(decisions) = "abort"
    PROVE  ExchangeInv'
<1>0. Exchanged!TypeOK
  BY DEF ExchangeInv
<1>1. /\ decisions # <<>> /\ decisions' = Tail(decisions)
      /\ Exchanged!Finish(Exchanged!Aborted)
      /\ UNCHANGED <<framing, serving, reply, local, uploaded, produced, exhausted,
                     frame, read, delivered, eof, given, present, noticed, draining,
                     drainedOut, known, deciding, relaying, inbox, tapped, credit,
                     recorded>>
  BY DEF Exchanged!CoreReceives, Exchanged!Answers, Exchanged!leaving, Exchanged!node
<1>2. owed' = owed
  <2>1. owed' = (owed /\ Head(decisions) # "credit") /\ owed \in BOOLEAN
    BY <1>0 DEF Exchanged!CoreReceives, Exchanged!TypeOK
  <2> QED
    BY <2>1
<1>3. /\ decisions' \in Seq(ToCoreKinds) /\ AbortsGiven' = AbortsGiven - 1
      /\ AbortsGiven' \in Nat
      /\ UNCHANGED <<PiecesGiven, EndsGiven, CreditsGiven, GoGiven, LocalGiven, ErrorGiven>>
  BY <1>0, <1>1, DecisionsShrink
<1>4. settled = TRUE /\ settled' = settled /\ requests' = requests
  <2>1. AbortsGiven > 0
    <3>1. AbortsGiven - 1 \in Nat
      BY <1>3
    <3> QED
      BY <1>0, <3>1, ExchangeNumbers
  <2>2. settled = TRUE
    BY <1>0, <2>1 DEF ExchangeInv, EndsOnce, Exchanged!TypeOK
  <2> QED
    BY <1>1, <2>2 DEF Exchanged!Finish
<1>5. UNCHANGED sentCounts /\ UNCHANGED keptCounts
  BY <1>1, <1>4, ExchangeCountsStay
<1>6. UNCHANGED <<Question, Incoming, Outgoing, Arrived>>
  BY <1>1, <1>3, <1>5, TokensStay DEF sentCounts, keptCounts
<1>7. Exchanged!TypeOK'
  <2>1. {local', uploaded', owed', exhausted', delivered', eof', present', noticed', draining',
         drainedOut', settled', known', credit'} \subseteq BOOLEAN
    BY <1>0, <1>1, <1>2, <1>4 DEF Exchanged!TypeOK
  <2> QED
    BY <1>0, <1>1, <1>3, <1>4, <2>1 DEF Exchanged!TypeOK, ToCoreKinds
<1>8. OneQuestion' /\ DecidesFirst'
  BY <1>1, <1>3, <1>5, <1>6
     DEF ExchangeInv, OneQuestion, DecidesFirst, Undecided, Unrelayed, sentCounts
<1>9. ArrivesWhole'
  BY <1>1, <1>2, <1>5, <1>6 DEF ExchangeInv, ArrivesWhole, sentCounts, keptCounts
<1>10. LeavesWhole' /\ RecordedFirst'
  BY <1>1, <1>3, <1>4, <1>5, <1>6
     DEF ExchangeInv, LeavesWhole, RecordedFirst, Own, sentCounts
<1>11. EndsOnce'
  <2>1. serving # "asked"
    BY <1>1 DEF ExchangeInv, EndsOnce
  <2> QED
    BY <1>1, <1>3, <1>4, <1>5, <2>1 DEF ExchangeInv, EndsOnce, sentCounts
<1>12. FailsFirst' /\ LeavesInTime'
  BY <1>1, <1>4, <1>5 DEF ExchangeInv, FailsFirst, LeavesInTime, LeftEarly, sentCounts
<1> QED
  BY <1>7, <1>8, <1>9, <1>10, <1>11, <1>12 DEF ExchangeInv

LEMMA CoreReadsKeeps == ExchangeInv /\ Exchanged!CoreReceives => ExchangeInv'
<1> SUFFICES ASSUME ExchangeInv, Exchanged!CoreReceives PROVE ExchangeInv'
  OBVIOUS
<1>1. decisions \in Seq(ToCoreKinds) /\ decisions # <<>>
  BY DEF ExchangeInv, Exchanged!TypeOK, ToCoreKinds, Exchanged!CoreReceives
<1>2. Head(decisions) \in {"credit", "abort"} \cup Exchanged!Answers \cup Exchanged!Frames
  BY <1>1 DEF ToCoreKinds
<1> QED
  BY <1>2, AnswerArrives, CreditArrives, FrameArrives, AbortArrives

\* What every message to Node finds, and leaves alone.
LEMMA NodeTakesOne ==
    ASSUME ExchangeInv, Exchanged!NodeReceives
    PROVE  /\ requests # <<>> /\ requests' = Tail(requests) /\ requests \in Seq(ToNodeKinds)
           /\ UNCHANGED <<framing, serving, reply, local, uploaded, produced, owed, exhausted,
                          frame, read, delivered, eof, given, present, noticed, draining,
                          drainedOut, settled, tapped>>
           /\ serving # "asked" /\ FailsFirst'
           /\ recorded = "none" => Head(requests) = "request"
<1>0. Exchanged!TypeOK
  BY DEF ExchangeInv
<1>1. /\ requests # <<>> /\ requests' = Tail(requests) /\ requests \in Seq(ToNodeKinds)
      /\ UNCHANGED <<framing, serving, reply, local, uploaded, produced, owed, exhausted,
                     frame, read, delivered, eof, given, present, noticed, draining,
                     drainedOut, settled, tapped>>
  BY <1>0
     DEF Exchanged!NodeReceives, Exchanged!core, Exchanged!origin, Exchanged!forwarding,
         Exchanged!leaving, Exchanged!TypeOK, ToNodeKinds
<1>2. serving # "asked" /\ (recorded = "none" => requests[1] = "request")
  BY <1>1 DEF ExchangeInv, EndsOnce
<1>3. FailsFirst'
  BY <1>0, <1>1, OrderStays DEF ExchangeInv
<1> QED
  BY <1>1, <1>2, <1>3

\* Node hears of the request.
LEMMA RequestArrives ==
    ASSUME ExchangeInv, Exchanged!NodeReceives, Head(requests) = "request"
    PROVE  ExchangeInv'
<1>0. Exchanged!TypeOK
  BY DEF ExchangeInv
<1>1. /\ requests # <<>> /\ requests' = Tail(requests) /\ serving # "asked" /\ FailsFirst'
      /\ UNCHANGED <<framing, serving, reply, local, uploaded, produced, owed, exhausted,
                     frame, read, delivered, eof, given, present, noticed, draining,
                     drainedOut, settled, tapped>>
  BY NodeTakesOne
<1>2. /\ known' = TRUE /\ deciding' = "request" /\ recorded' = "pending"
      /\ UNCHANGED <<decisions, relaying, inbox, credit>>
  BY DEF Exchanged!NodeReceives
<1>3. /\ requests' \in Seq(ToNodeKinds) /\ RequestsSent' = RequestsSent - 1
      /\ RequestsSent' \in Nat
      /\ UNCHANGED <<ResponsesSent, PiecesSent, EndsSent, CreditsSent, FailuresSent,
                     AbortedSent, CompletedSent>>
  BY <1>0, <1>1, RequestsShrink
<1>4. UNCHANGED keptCounts /\ UNCHANGED givenCounts
  BY <1>2, ExchangeCountsStay
<1>5. RequestsSent > 0
  <2>1. RequestsSent - 1 \in Nat
    BY <1>3
  <2> QED
    BY <1>0, <2>1, ExchangeNumbers
<1>6. /\ RequestsSent' = 0 /\ ResponsesSent = 0 /\ deciding = "none" /\ GoGiven = 0
      /\ LocalGiven = 0 /\ ErrorGiven = 0 /\ reply = "none"
  BY <1>0, <1>3, <1>5, OneToken DEF ExchangeInv, OneQuestion
<1>7. Unrelayed /\ recorded = "none" /\ serving \in {"asking", "done"} /\ ~eof
  BY <1>5, BodyAssumption
     DEF ExchangeInv, DecidesFirst, Undecided, EndsOnce, OneQuestion, LeavesWhole, Unrelayed
<1>8. Question' = 1
  BY <1>1, <1>2, <1>3, <1>4, <1>6 DEF Question, Deciding, Replying, givenCounts
<1>9. UNCHANGED <<Incoming, Outgoing, Arrived>>
  BY <1>1, <1>3, <1>4, TokensStay DEF keptCounts, givenCounts
<1>10. Exchanged!TypeOK'
  <2>1. {local', uploaded', owed', exhausted', delivered', eof', present', noticed', draining',
         drainedOut', settled', known', credit'} \subseteq BOOLEAN
    BY <1>0, <1>1, <1>2 DEF Exchanged!TypeOK
  <2> QED
    BY <1>0, <1>1, <1>2, <1>3, <2>1 DEF Exchanged!TypeOK, ToNodeKinds
<1>11. OneQuestion'
  BY <1>1, <1>2, <1>3, <1>4, <1>6, <1>7, <1>8 DEF ExchangeInv, OneQuestion, givenCounts
<1>12. DecidesFirst'
  BY <1>1, <1>2, <1>3, <1>4, <1>7 DEF DecidesFirst, Unrelayed, givenCounts
<1>13. ArrivesWhole'
  BY <1>1, <1>2, <1>3, <1>4, <1>6, <1>7, <1>9
     DEF ExchangeInv, ArrivesWhole, Unrelayed, keptCounts
<1>14. LeavesWhole'
  BY <1>1, <1>2, <1>4, <1>9 DEF ExchangeInv, LeavesWhole, givenCounts
<1>15. RecordedFirst'
  <2>1. EndsGiven = 0 /\ frame = "none" /\ relaying = "nothing"
    BY <1>7 DEF Unrelayed
  <2> QED
    BY <1>1, <1>2, <1>3, <1>4, <1>7, <2>1 DEF ExchangeInv, RecordedFirst, givenCounts
<1>16. EndsOnce'
  BY <1>1, <1>2, <1>3, <1>4, <1>6 DEF ExchangeInv, EndsOnce, givenCounts
<1>17. LeavesInTime'
  BY <1>1, <1>2, <1>3, <1>7 DEF ExchangeInv, LeavesInTime, LeftEarly
<1> QED
  BY <1>1, <1>10, <1>11, <1>12, <1>13, <1>14, <1>15, <1>16, <1>17 DEF ExchangeInv

\* Node hears of the response, or has forgotten the session.
LEMMA ResponseArrives ==
    ASSUME ExchangeInv, Exchanged!NodeReceives, Head(requests) = "response"
    PROVE  ExchangeInv'
<1>0. Exchanged!TypeOK
  BY DEF ExchangeInv
<1>1. /\ requests # <<>> /\ requests' = Tail(requests) /\ serving # "asked" /\ FailsFirst'
      /\ recorded # "none"
      /\ UNCHANGED <<framing, serving, reply, local, uploaded, produced, owed, exhausted,
                     frame, read, delivered, eof, given, present, noticed, draining,
                     drainedOut, settled, tapped>>
  BY NodeTakesOne
<1>2. /\ IF known THEN deciding' = "response" /\ UNCHANGED decisions
         ELSE decisions' = Append(decisions, "abort") /\ UNCHANGED deciding
      /\ UNCHANGED <<known, relaying, inbox, credit, recorded>>
  BY DEF Exchanged!NodeReceives
<1>3. /\ requests' \in Seq(ToNodeKinds) /\ ResponsesSent' = ResponsesSent - 1
      /\ ResponsesSent' \in Nat
      /\ UNCHANGED <<RequestsSent, PiecesSent, EndsSent, CreditsSent, FailuresSent,
                     AbortedSent, CompletedSent>>
  BY <1>0, <1>1, RequestsShrink
<1>4. UNCHANGED keptCounts
  BY <1>2, ExchangeCountsStay
<1>5. ResponsesSent > 0
  <2>1. ResponsesSent - 1 \in Nat
    BY <1>3
  <2> QED
    BY <1>0, <2>1, ExchangeNumbers
<1>6. /\ ResponsesSent' = 0 /\ RequestsSent = 0 /\ deciding = "none" /\ GoGiven = 0
      /\ LocalGiven = 0 /\ ErrorGiven = 0 /\ reply = "none"
  BY <1>0, <1>3, <1>5, OneToken DEF ExchangeInv, OneQuestion
<1>7. Unrelayed /\ serving \in {"askingResponse", "done"}
  BY <1>5 DEF ExchangeInv, DecidesFirst, Undecided, OneQuestion
<1>8. /\ decisions' \in Seq(ToCoreKinds)
      /\ UNCHANGED <<PiecesGiven, EndsGiven, CreditsGiven, GoGiven, LocalGiven, ErrorGiven>>
      /\ AbortsGiven' > 0 => settled
  <2>1. CASE known
    <3>1. UNCHANGED decisions /\ UNCHANGED givenCounts
      BY <1>2, <2>1, ExchangeCountsStay
    <3> QED
      BY <1>0, <3>1
         DEF ExchangeInv, EndsOnce, givenCounts, Exchanged!TypeOK, ToCoreKinds
  <2>2. CASE ~known
    <3>1. decisions' = Append(decisions, "abort") /\ "abort" \in ToCoreKinds
      BY <1>2, <2>2 DEF ToCoreKinds
    <3>2. settled
      BY <1>1, <2>2 DEF ExchangeInv, EndsOnce
    <3> QED
      BY <1>0, <3>1, <3>2, DecisionsGrow
  <2> QED
    BY <2>1, <2>2
<1>9. deciding' \in {"none", "response"} /\ (deciding' = "response" => known)
  BY <1>2, <1>6
<1>10. Question' <= 1 /\ (deciding' = "none" => Question' = 0)
  <2>1. Replying' = 0 /\ Deciding' = IF deciding' = "none" THEN 0 ELSE 1
    BY <1>1, <1>6 DEF Replying, Deciding
  <2>2. Question' = 0 + 0 + (IF deciding' = "none" THEN 0 ELSE 1) + 0 + 0 + 0 + 0
    BY <1>3, <1>6, <1>8, <2>1 DEF Question
  <2> QED
    BY <2>2
<1>11. UNCHANGED <<Incoming, Outgoing, Arrived>>
  BY <1>1, <1>3, <1>4, <1>8, TokensStay DEF keptCounts
<1>12. Exchanged!TypeOK'
  <2>1. {local', uploaded', owed', exhausted', delivered', eof', present', noticed', draining',
         drainedOut', settled', known', credit'} \subseteq BOOLEAN
    BY <1>0, <1>1, <1>2 DEF Exchanged!TypeOK
  <2> QED
    BY <1>0, <1>1, <1>2, <1>3, <1>8, <1>9, <2>1
       DEF Exchanged!TypeOK, ToNodeKinds, ToCoreKinds
<1>13. OneQuestion'
  BY <1>1, <1>3, <1>6, <1>7, <1>8, <1>9, <1>10 DEF ExchangeInv, OneQuestion
<1>14. DecidesFirst'
  BY <1>1, <1>2, <1>3, <1>7, <1>8 DEF DecidesFirst, Unrelayed
<1>15. ArrivesWhole'
  BY <1>1, <1>2, <1>3, <1>4, <1>5, <1>6, <1>7, <1>9, <1>11
     DEF ExchangeInv, ArrivesWhole, Unrelayed, keptCounts
<1>16. LeavesWhole'
  BY <1>1, <1>2, <1>8, <1>11 DEF ExchangeInv, LeavesWhole
<1>17. RecordedFirst'
  BY <1>1, <1>2, <1>3, <1>8 DEF ExchangeInv, RecordedFirst, Own
<1>18. EndsOnce'
  BY <1>1, <1>2, <1>3, <1>8 DEF ExchangeInv, EndsOnce
<1>19. LeavesInTime'
  BY <1>1, <1>2, <1>3 DEF ExchangeInv, LeavesInTime, LeftEarly
<1> QED
  BY <1>1, <1>12, <1>13, <1>14, <1>15, <1>16, <1>17, <1>18, <1>19 DEF ExchangeInv

\* A frame of the origin's body waits in Node.
LEMMA FrameIsKept ==
    ASSUME ExchangeInv, Exchanged!NodeReceives, Head(requests) \in Exchanged!Frames
    PROVE  ExchangeInv'
<1> DEFINE m == Head(requests)
<1>0. Exchanged!TypeOK
  BY DEF ExchangeInv
<1>1. /\ requests # <<>> /\ requests' = Tail(requests) /\ serving # "asked" /\ FailsFirst'
      /\ m \in Exchanged!Frames /\ m \in {"piece", "end"} /\ recorded # "none"
      /\ UNCHANGED <<framing, serving, reply, local, uploaded, produced, owed, exhausted,
                     frame, read, delivered, eof, given, present, noticed, draining,
                     drainedOut, settled, tapped>>
  BY NodeTakesOne DEF Exchanged!Frames
<1>2. /\ inbox' = Append(inbox, m)
      /\ UNCHANGED <<decisions, known, deciding, relaying, credit, recorded>>
  BY <1>1 DEF Exchanged!NodeReceives
<1> HIDE DEF m
<1>3. /\ requests' \in Seq(ToNodeKinds)
      /\ PiecesSent' = (IF m = "piece" THEN PiecesSent - 1 ELSE PiecesSent)
      /\ EndsSent' = (IF m = "end" THEN EndsSent - 1 ELSE EndsSent)
      /\ PiecesSent' \in Nat /\ EndsSent' \in Nat
      /\ UNCHANGED <<RequestsSent, ResponsesSent, CreditsSent, FailuresSent,
                     AbortedSent, CompletedSent>>
  BY <1>0, <1>1, RequestsShrink DEF m
<1>4. /\ inbox' \in Seq(Exchanged!Frames)
      /\ PiecesKept' = (IF m = "piece" THEN PiecesKept + 1 ELSE PiecesKept)
      /\ EndsKept' = (IF m = "end" THEN EndsKept + 1 ELSE EndsKept)
  BY <1>0, <1>1, <1>2, InboxMoves
<1>5. UNCHANGED givenCounts
  BY <1>2, ExchangeCountsStay
<1>6. UNCHANGED <<Question, Outgoing, Arrived>>
  BY <1>1, <1>2, <1>3, <1>5, TokensStay DEF givenCounts
\* It is counted in the inbox as it was in the pipe.
<1>7. /\ PiecesSent' + PiecesKept' = PiecesSent + PiecesKept
      /\ Incoming' = Incoming /\ tapped + PiecesSent' + PiecesKept' = tapped + PiecesSent + PiecesKept
  <2>1. /\ PiecesSent \in Nat /\ PiecesKept \in Nat /\ CreditsGiven \in Nat /\ tapped \in Nat
        /\ CreditsGiven' = CreditsGiven
    BY <1>0, <1>5, ExchangeNumbers DEF givenCounts
  <2>2. CASE m = "piece"
    <3>1. PiecesSent' = PiecesSent - 1 /\ PiecesKept' = PiecesKept + 1
      BY <1>3, <1>4, <2>2
    <3>2. /\ (PiecesSent - 1) + (PiecesKept + 1) = PiecesSent + PiecesKept
          /\ (PiecesSent - 1) + (PiecesKept + 1) + CreditsGiven =
                 PiecesSent + PiecesKept + CreditsGiven
          /\ tapped + (PiecesSent - 1) + (PiecesKept + 1) = tapped + PiecesSent + PiecesKept
      BY <2>1
    <3> QED
      BY <2>1, <3>1, <3>2 DEF Incoming
  <2>3. CASE m = "end"
    <3>1. PiecesSent' = PiecesSent /\ PiecesKept' = PiecesKept
      BY <1>3, <1>4, <2>3
    <3> QED
      BY <2>1, <3>1 DEF Incoming
  <2> QED
    BY <1>1, <2>2, <2>3
<1>8. EndsSent' > 0 \/ EndsKept' > 0 => exhausted
  <2>1. EndsSent \in Nat /\ EndsKept \in Nat
    BY <1>0, ExchangeNumbers
  <2>2. m = "end" => EndsSent > 0
    <3>1. m = "end" => EndsSent - 1 \in Nat
      BY <1>3
    <3> QED
      BY <2>1, <3>1
  <2>3. m = "end" => exhausted
    BY <2>2 DEF ExchangeInv, ArrivesWhole
  <2>4. m # "end" => EndsSent' = EndsSent /\ EndsKept' = EndsKept
    BY <1>3, <1>4
  <2> QED
    BY <2>3, <2>4 DEF ExchangeInv, ArrivesWhole
<1>9. Exchanged!TypeOK'
  <2>1. {local', uploaded', owed', exhausted', delivered', eof', present', noticed', draining',
         drainedOut', settled', known', credit'} \subseteq BOOLEAN
    BY <1>0, <1>1, <1>2 DEF Exchanged!TypeOK
  <2> QED
    BY <1>0, <1>1, <1>2, <1>3, <1>4, <2>1 DEF Exchanged!TypeOK, ToNodeKinds
<1>10. OneQuestion' /\ DecidesFirst'
  BY <1>1, <1>2, <1>3, <1>5, <1>6
     DEF ExchangeInv, OneQuestion, DecidesFirst, Undecided, Unrelayed, givenCounts
<1>11. ArrivesWhole'
  BY <1>1, <1>2, <1>3, <1>7, <1>8 DEF ExchangeInv, ArrivesWhole
<1>12. LeavesWhole' /\ RecordedFirst'
  BY <1>1, <1>2, <1>3, <1>5, <1>6
     DEF ExchangeInv, LeavesWhole, RecordedFirst, Own, givenCounts
<1>13. EndsOnce' /\ LeavesInTime'
  BY <1>1, <1>2, <1>3, <1>5
     DEF ExchangeInv, EndsOnce, LeavesInTime, LeftEarly, givenCounts
<1> QED
  BY <1>1, <1>9, <1>10, <1>11, <1>12, <1>13 DEF ExchangeInv

\* The credit of the core lets Node send on.
LEMMA CreditIsKept ==
    ASSUME ExchangeInv, Exchanged!NodeReceives, Head(requests) = "credit"
    PROVE  ExchangeInv'
<1>0. Exchanged!TypeOK
  BY DEF ExchangeInv
<1>1. /\ requests # <<>> /\ requests' = Tail(requests) /\ serving # "asked" /\ FailsFirst'
      /\ recorded # "none"
      /\ UNCHANGED <<framing, serving, reply, local, uploaded, produced, owed, exhausted,
                     frame, read, delivered, eof, given, present, noticed, draining,
                     drainedOut, settled, tapped>>
  BY NodeTakesOne
<1>2. /\ credit' = TRUE
      /\ UNCHANGED <<decisions, known, deciding, relaying, inbox, recorded>>
  BY DEF Exchanged!NodeReceives
<1>3. /\ requests' \in Seq(ToNodeKinds) /\ CreditsSent' = CreditsSent - 1
      /\ CreditsSent' \in Nat
      /\ UNCHANGED <<RequestsSent, ResponsesSent, PiecesSent, EndsSent, FailuresSent,
                     AbortedSent, CompletedSent>>
  BY <1>0, <1>1, RequestsShrink
<1>4. UNCHANGED keptCounts /\ UNCHANGED givenCounts
  BY <1>2, ExchangeCountsStay
<1>5. UNCHANGED <<Question, Incoming, Arrived>>
  BY <1>1, <1>2, <1>3, <1>4, TokensStay DEF keptCounts, givenCounts
<1>6. Outgoing' = 0 /\ CreditsSent > 0
  <2>1. /\ PiecesGiven \in Nat /\ EndsGiven \in Nat /\ CreditsSent \in Nat /\ Framed \in 0..1
        /\ PiecesGiven + EndsGiven + Framed + CreditsSent <= 1 /\ CreditsSent - 1 \in Nat
    BY <1>0, <1>3, ExchangeNumbers DEF ExchangeInv, LeavesWhole, Outgoing
  <2>2. PiecesGiven = 0 /\ EndsGiven = 0 /\ Framed = 0 /\ CreditsSent = 1
    BY <2>1
  <2>3. CreditsSent' = 0 /\ Framed' = Framed
    BY <1>1, <1>3, <2>2 DEF Framed
  <2> QED
    BY <1>4, <2>2, <2>3 DEF Outgoing, givenCounts
<1>7. ~Undecided
  BY <1>6 DEF ExchangeInv, DecidesFirst, Unrelayed
<1>8. Exchanged!TypeOK'
  <2>1. {local', uploaded', owed', exhausted', delivered', eof', present', noticed', draining',
         drainedOut', settled', known', credit'} \subseteq BOOLEAN
    BY <1>0, <1>1, <1>2 DEF Exchanged!TypeOK
  <2> QED
    BY <1>0, <1>1, <1>2, <1>3, <2>1 DEF Exchanged!TypeOK, ToNodeKinds
<1>9. OneQuestion' /\ DecidesFirst'
  BY <1>1, <1>2, <1>3, <1>4, <1>5, <1>7
     DEF ExchangeInv, OneQuestion, DecidesFirst, Undecided, givenCounts
<1>10. ArrivesWhole'
  BY <1>1, <1>2, <1>3, <1>4, <1>5 DEF ExchangeInv, ArrivesWhole, keptCounts
<1>11. LeavesWhole' /\ RecordedFirst'
  BY <1>1, <1>2, <1>3, <1>4, <1>5, <1>6
     DEF ExchangeInv, LeavesWhole, RecordedFirst, Own, givenCounts
<1>12. EndsOnce' /\ LeavesInTime'
  BY <1>1, <1>2, <1>3, <1>4
     DEF ExchangeInv, EndsOnce, LeavesInTime, LeftEarly, givenCounts
<1> QED
  BY <1>1, <1>8, <1>9, <1>10, <1>11, <1>12 DEF ExchangeInv

\* Node forgets the session, and settles its record.
LEMMA ForgettingKeeps ==
    ASSUME ExchangeInv, Exchanged!NodeReceives,
           Head(requests) \in {"failure", "aborted", "completed"}
    PROVE  ExchangeInv'
<1> DEFINE m == Head(requests)
<1>0. Exchanged!TypeOK
  BY DEF ExchangeInv
<1>1. /\ requests # <<>> /\ requests' = Tail(requests) /\ requests \in Seq(ToNodeKinds)
      /\ serving # "asked" /\ FailsFirst'
      /\ m \in {"failure", "aborted", "completed"} /\ recorded # "none"
      /\ UNCHANGED <<framing, serving, reply, local, uploaded, produced, owed, exhausted,
                     frame, read, delivered, eof, given, present, noticed, draining,
                     drainedOut, settled, tapped>>
  BY NodeTakesOne
<1>2. /\ known' = FALSE /\ relaying' = "nothing" /\ inbox' = <<>> /\ deciding' = "none"
      /\ UNCHANGED credit
      /\ m = "failure" => /\ decisions' = Append(decisions, "abort")
                          /\ recorded' = IF recorded = "pending" THEN "failed" ELSE recorded
      /\ m = "aborted" => /\ UNCHANGED decisions
                          /\ recorded' = IF recorded # "pending" THEN recorded
                                         ELSE "disconnected"
      /\ m = "completed" => /\ UNCHANGED decisions
                            /\ recorded' = IF recorded # "pending" THEN recorded
                                           ELSE "completed"
  BY <1>1 DEF Exchanged!NodeReceives, Exchanged!Forget
<1>3. /\ requests' \in Seq(ToNodeKinds)
      /\ UNCHANGED <<RequestsSent, ResponsesSent, PiecesSent, EndsSent, CreditsSent>>
      /\ FailuresSent' = (IF m = "failure" THEN FailuresSent - 1 ELSE FailuresSent)
      /\ AbortedSent' = (IF m = "aborted" THEN AbortedSent - 1 ELSE AbortedSent)
      /\ CompletedSent' = (IF m = "completed" THEN CompletedSent - 1 ELSE CompletedSent)
      /\ FailuresSent' \in Nat /\ AbortedSent' \in Nat /\ CompletedSent' \in Nat
  BY <1>0, <1>1, RequestsShrink
<1>4. /\ (m = "failure" => FailuresSent > 0) /\ (m = "aborted" => AbortedSent > 0)
      /\ (m = "completed" => CompletedSent > 0)
      /\ (CompletedSent' > 0 => CompletedSent > 0)
  <2>1. FailuresSent \in Nat /\ AbortedSent \in Nat /\ CompletedSent \in Nat
    BY <1>0, ExchangeNumbers
  <2>2. /\ (m = "failure" => FailuresSent - 1 \in Nat)
        /\ (m = "aborted" => AbortedSent - 1 \in Nat)
        /\ (m = "completed" => CompletedSent - 1 \in Nat)
    BY <1>3
  <2>3. m # "completed" => CompletedSent' = CompletedSent
    BY <1>3
  <2> QED
    BY <2>1, <2>2, <2>3
<1>5. settled /\ (m = "completed" => eof) /\ (CompletedSent' > 0 => eof)
  BY <1>1, <1>4 DEF ExchangeInv, EndsOnce, RecordedFirst
\* A failure would have come first.
<1>6. m = "aborted" /\ recorded = "pending" => LeftEarly
  <2> SUFFICES ASSUME m = "aborted", recorded = "pending" PROVE LeftEarly
    OBVIOUS
  <2>1. requests[1] = "aborted" /\ Len(requests) \in Nat
    BY <1>1
  <2>2. \A j \in 1..Len(requests) : requests[j] \notin {"failure"}
    BY <2>1 DEF ExchangeInv, FailsFirst
  <2>3. FailuresSent = 0
    BY <1>1, <2>2, CountOfNone DEF FailuresSent
  <2> QED
    BY <1>4, <2>3 DEF ExchangeInv, LeavesInTime
<1>7. /\ recorded' \in {"completed", "disconnected", "failed"}
      /\ (recorded' = "disconnected" => LeftEarly)
      /\ (recorded' = "completed" => recorded = "completed" \/ eof)
      /\ (recorded = "completed" => recorded' = "completed")
  <2>1. recorded \in {"pending", "completed", "disconnected", "failed"}
    BY <1>0, <1>1 DEF Exchanged!TypeOK
  <2>2. recorded = "disconnected" => LeftEarly
    BY DEF ExchangeInv, LeavesInTime
  <2> QED
    BY <1>1, <1>2, <1>5, <1>6, <2>1, <2>2
<1>8. /\ decisions' \in Seq(ToCoreKinds)
      /\ UNCHANGED <<PiecesGiven, EndsGiven, CreditsGiven, GoGiven, LocalGiven, ErrorGiven>>
  <2>1. CASE m = "failure"
    <3>1. decisions' = Append(decisions, "abort") /\ "abort" \in ToCoreKinds
      BY <1>2, <2>1 DEF ToCoreKinds
    <3> QED
      BY <1>0, <3>1, DecisionsGrow
  <2>2. CASE m # "failure"
    <3>1. UNCHANGED decisions
      BY <1>1, <1>2, <2>2
    <3>2. UNCHANGED givenCounts
      BY <3>1, ExchangeCountsStay
    <3> QED
      BY <1>0, <3>1, <3>2 DEF givenCounts, Exchanged!TypeOK, ToCoreKinds
  <2> QED
    BY <2>1, <2>2
<1> HIDE DEF m
<1>9. PiecesKept' = 0 /\ EndsKept' = 0
  BY <1>0, <1>2, InboxMoves
<1>10. UNCHANGED <<Outgoing, Arrived>>
  BY <1>1, <1>3, <1>8, TokensStay
<1>11. Question' <= 1 /\ (Question = 0 => Question' = 0)
  <2>1. Deciding' = 0 /\ Replying' = Replying
    BY <1>1, <1>2 DEF Deciding, Replying
  <2>2. Question' = RequestsSent + ResponsesSent + 0 + GoGiven + LocalGiven + ErrorGiven
                        + Replying
    BY <1>3, <1>8, <2>1 DEF Question
  <2>3. Question <= 1
    BY DEF ExchangeInv, OneQuestion
  <2>4. \/ Question' = Question
        \/ Question' = Question - 1 /\ Question = 1
    BY <1>0, <2>2, <2>3, ExchangeNumbers DEF Question
  <2> QED
    BY <2>3, <2>4
<1>12. Incoming' <= 1 /\ (Incoming = 0 => Incoming' = 0)
  <2>1. /\ PiecesSent \in Nat /\ PiecesKept \in Nat /\ CreditsGiven \in Nat
        /\ PiecesSent + PiecesKept + CreditsGiven <= 1
    BY <1>0, ExchangeNumbers DEF ExchangeInv, ArrivesWhole, Incoming
  <2>2. Incoming' = PiecesSent + 0 + CreditsGiven
    BY <1>3, <1>8, <1>9 DEF Incoming
  <2> QED
    BY <2>1, <2>2 DEF Incoming
<1>13. Exchanged!TypeOK'
  <2>1. {local', uploaded', owed', exhausted', delivered', eof', present', noticed', draining',
         drainedOut', settled', known', credit'} \subseteq BOOLEAN
    BY <1>0, <1>1, <1>2 DEF Exchanged!TypeOK
  <2>2. inbox' \in Seq(Exchanged!Frames)
    BY <1>2
  <2> QED
    BY <1>0, <1>1, <1>2, <1>3, <1>7, <1>8, <2>1, <2>2
       DEF Exchanged!TypeOK, ToNodeKinds, ToCoreKinds
<1>14. OneQuestion'
  BY <1>1, <1>2, <1>3, <1>8, <1>11 DEF ExchangeInv, OneQuestion
<1>15. DecidesFirst'
  <2>1. Undecided' => Undecided
    BY <1>1, <1>2, <1>3, <1>8 DEF Undecided
  <2> QED
    BY <1>1, <1>2, <1>3, <1>8, <2>1 DEF ExchangeInv, DecidesFirst, Unrelayed
<1>16. ArrivesWhole'
  BY <1>1, <1>2, <1>3, <1>9, <1>12 DEF ExchangeInv, ArrivesWhole
<1>17. LeavesWhole'
  BY <1>1, <1>2, <1>8, <1>10 DEF ExchangeInv, LeavesWhole
<1>18. RecordedFirst'
  <2>1. eof => tapped = Pieces
    <3>1. Arrived <= tapped /\ (eof => read = Pieces)
      BY DEF ExchangeInv, LeavesWhole
    <3>2. tapped <= Pieces
      BY <1>0, BoundsAssumption DEF Exchanged!TypeOK
    <3> QED
      BY <1>0, <3>1, <3>2, ExchangeNumbers DEF Arrived
  <2>2. Own' <=> Own
    BY <1>1, <1>8 DEF Own
  <2> QED
    BY <1>1, <1>2, <1>5, <1>7, <1>8, <2>1, <2>2 DEF ExchangeInv, RecordedFirst
<1>19. EndsOnce'
  <2>1. RequestsSent' > 0 => FALSE
    BY <1>1, <1>3 DEF ExchangeInv, EndsOnce
  <2> QED
    BY <1>1, <1>5, <1>7, <2>1 DEF EndsOnce
<1>20. LeavesInTime'
  <2>1. LeftEarly => LeftEarly'
    BY <1>1 DEF LeftEarly
  <2> QED
    BY <1>7, <2>1 DEF LeavesInTime
<1> QED
  BY <1>1, <1>13, <1>14, <1>15, <1>16, <1>17, <1>18, <1>19, <1>20 DEF ExchangeInv

LEMMA NodeReadsKeeps == ExchangeInv /\ Exchanged!NodeReceives => ExchangeInv'
<1> SUFFICES ASSUME ExchangeInv, Exchanged!NodeReceives PROVE ExchangeInv'
  OBVIOUS
<1>1. requests # <<>> /\ requests \in Seq(ToNodeKinds)
  BY NodeTakesOne
<1>2. Head(requests) \in ToNodeKinds
  BY <1>1
<1> QED
  BY <1>2, RequestArrives, ResponseArrives, FrameIsKept, CreditIsKept, ForgettingKeeps
     DEF ToNodeKinds

\* Node decides; only then it may relay.
LEMMA DecisionKeeps ==
    ASSUME ExchangeInv, NEW answer \in Exchanged!Answers, Exchanged!Decide(answer)
    PROVE  ExchangeInv'
<1>0. Exchanged!TypeOK
  BY DEF ExchangeInv
<1>1. /\ deciding \in {"request", "response"} /\ known /\ deciding' = "none"
      /\ answer \in {"go", "local", "error"} /\ (answer = "local" => deciding = "request")
      /\ decisions' = Append(decisions, answer) /\ credit' = TRUE
      /\ relaying' = (CASE answer = "local" -> "own"
                        [] answer = "go" /\ deciding = "response" -> "origin's"
                        [] OTHER -> relaying)
      /\ UNCHANGED <<requests, framing, serving, reply, local, uploaded, produced, owed,
                     exhausted, frame, read, delivered, eof, given, present, noticed,
                     draining, drainedOut, settled, known, inbox, tapped, recorded>>
  BY <1>0
     DEF Exchanged!Decide, Exchanged!Answers, Exchanged!core, Exchanged!origin,
         Exchanged!forwarding, Exchanged!leaving, Exchanged!TypeOK
<1>2. /\ decisions' \in Seq(ToCoreKinds)
      /\ UNCHANGED <<PiecesGiven, EndsGiven, CreditsGiven, AbortsGiven>>
      /\ GoGiven' = (IF answer = "go" THEN GoGiven + 1 ELSE GoGiven)
      /\ LocalGiven' = (IF answer = "local" THEN LocalGiven + 1 ELSE LocalGiven)
      /\ ErrorGiven' = (IF answer = "error" THEN ErrorGiven + 1 ELSE ErrorGiven)
  <2>1. answer \in ToCoreKinds
    BY DEF ToCoreKinds
  <2> QED
    BY <1>0, <1>1, <2>1, DecisionsGrow
<1>3. UNCHANGED sentCounts /\ UNCHANGED keptCounts
  BY <1>1, ExchangeCountsStay
<1>4. /\ RequestsSent = 0 /\ ResponsesSent = 0 /\ GoGiven = 0 /\ LocalGiven = 0
      /\ ErrorGiven = 0 /\ reply = "none"
  BY <1>0, <1>1, OneToken DEF ExchangeInv, OneQuestion
<1>5. /\ Unrelayed /\ ~eof
      /\ (deciding = "request" => serving \in {"asking", "done"})
      /\ (deciding = "response" => serving \in {"askingResponse", "done"})
  BY <1>1, BodyAssumption
     DEF ExchangeInv, DecidesFirst, Undecided, OneQuestion, LeavesWhole, Unrelayed
<1>6. UNCHANGED <<Incoming, Outgoing, Arrived>>
  BY <1>1, <1>2, <1>3, TokensStay DEF sentCounts, keptCounts
<1>7. Outgoing = 0
  <2>1. PiecesGiven = 0 /\ EndsGiven = 0 /\ Framed = 0 /\ CreditsSent = 0
    BY <1>5 DEF Unrelayed, Framed
  <2> QED
    BY <2>1 DEF Outgoing
<1>8. Question' = 1
  <2>1. /\ RequestsSent' = 0 /\ ResponsesSent' = 0 /\ Deciding' = 0 /\ Replying' = 0
        /\ GoGiven' = (IF answer = "go" THEN 1 ELSE 0)
        /\ LocalGiven' = (IF answer = "local" THEN 1 ELSE 0)
        /\ ErrorGiven' = (IF answer = "error" THEN 1 ELSE 0)
    BY <1>1, <1>2, <1>3, <1>4 DEF Deciding, Replying, sentCounts
  <2> QED
    BY <1>1, <2>1 DEF Question
<1>9. relaying' \in {"nothing", "own", "origin's"}
  BY <1>1, <1>5 DEF Unrelayed
<1>10. Exchanged!TypeOK'
  <2>1. {local', uploaded', owed', exhausted', delivered', eof', present', noticed', draining',
         drainedOut', settled', known', credit'} \subseteq BOOLEAN
    BY <1>0, <1>1 DEF Exchanged!TypeOK
  <2> QED
    BY <1>0, <1>1, <1>2, <1>9, <2>1 DEF Exchanged!TypeOK, ToCoreKinds
<1>11. OneQuestion'
  BY <1>1, <1>2, <1>3, <1>4, <1>5, <1>8 DEF ExchangeInv, OneQuestion, sentCounts
\* What is shown to the origin first is not relayed yet.
<1>12. DecidesFirst'
  <2> SUFFICES ASSUME Undecided' PROVE Unrelayed'
    BY DEF DecidesFirst
  <2>1. serving = "asking" /\ answer = "go"
    BY <1>1, <1>2, <1>3, <1>4, <1>5 DEF Undecided, sentCounts
  <2>2. deciding = "request"
    BY <1>1, <1>5, <2>1
  <2>3. relaying' = relaying
    BY <1>1, <2>1, <2>2
  <2> QED
    BY <1>1, <1>2, <1>3, <1>5, <2>3 DEF Unrelayed, sentCounts
<1>13. ArrivesWhole'
  <2>1. relaying' = "origin's" => deciding = "response"
    BY <1>1, <1>5 DEF Unrelayed
  <2> QED
    BY <1>1, <1>3, <1>4, <1>6, <2>1 DEF ExchangeInv, ArrivesWhole, sentCounts, keptCounts
<1>14. LeavesWhole'
  BY <1>1, <1>2, <1>6, <1>7 DEF ExchangeInv, LeavesWhole
<1>15. RecordedFirst'
  <2>1. relaying' = "own" => LocalGiven' > 0
    <3>1. relaying' = "own" => answer = "local"
      BY <1>1, <1>5 DEF Unrelayed
    <3> QED
      BY <1>2, <1>4, <3>1
  <2>2. EndsGiven = 0 /\ frame = "none"
    BY <1>5 DEF Unrelayed
  <2> QED
    BY <1>1, <1>2, <1>3, <1>5, <2>1, <2>2 DEF ExchangeInv, RecordedFirst, Own, sentCounts
<1>16. EndsOnce' /\ FailsFirst' /\ LeavesInTime'
  <2>1. serving # "asked"
    BY <1>1, <1>5
  <2> QED
    BY <1>1, <1>2, <1>3, <2>1
       DEF ExchangeInv, EndsOnce, FailsFirst, LeavesInTime, LeftEarly, sentCounts
<1> QED
  BY <1>10, <1>11, <1>12, <1>13, <1>14, <1>15, <1>16 DEF ExchangeInv

\* Node relays a piece: its own, or one of the origin that it credits.
LEMMA RelayedPieceKeeps == ExchangeInv /\ Exchanged!RelayPiece => ExchangeInv'
<1> SUFFICES ASSUME ExchangeInv, Exchanged!RelayPiece PROVE ExchangeInv'
  OBVIOUS
<1>0. Exchanged!TypeOK
  BY DEF ExchangeInv
<1>1. /\ relaying \in {"own", "origin's"} /\ credit /\ tapped < Pieces
      /\ tapped' = tapped + 1 /\ credit' = FALSE
      /\ UNCHANGED <<requests, framing, serving, reply, local, uploaded, produced, owed,
                     exhausted, frame, read, delivered, eof, given, present, noticed,
                     draining, drainedOut, settled, known, deciding, relaying, recorded>>
  BY <1>0
     DEF Exchanged!RelayPiece, Exchanged!core, Exchanged!origin, Exchanged!forwarding,
         Exchanged!leaving, Exchanged!TypeOK
<1>2. UNCHANGED sentCounts
  BY <1>1, ExchangeCountsStay
<1>3. ~Undecided /\ known /\ Outgoing = 0 /\ recorded # "completed"
  <2>1. ~Undecided /\ known /\ Outgoing = 0
    BY <1>1 DEF ExchangeInv, DecidesFirst, Unrelayed, ArrivesWhole, LeavesWhole
  <2>2. recorded # "completed"
    BY <1>0, <1>1, ExchangeNumbers DEF ExchangeInv, RecordedFirst
  <2> QED
    BY <2>1, <2>2
<1>4. /\ PiecesGiven = 0 /\ EndsGiven = 0 /\ Framed = 0 /\ CreditsSent = 0
      /\ serving # "asked" /\ RequestsSent = 0 /\ ResponsesSent = 0 /\ deciding = "none"
  <2>0. PiecesGiven \in Nat /\ EndsGiven \in Nat /\ Framed \in Nat /\ CreditsSent \in Nat
    BY <1>0, ExchangeNumbers
  <2>1. PiecesGiven = 0 /\ EndsGiven = 0 /\ Framed = 0 /\ CreditsSent = 0
    BY <1>3, <2>0 DEF Outgoing
  <2>2. RequestsSent \in Nat /\ ResponsesSent \in Nat
    BY <1>0, ExchangeNumbers
  <2> QED
    BY <1>3, <2>1, <2>2 DEF Undecided
\* What goes to the core, and what is credited for it.
<1>5. /\ decisions' \in Seq(ToCoreKinds) /\ inbox' \in Seq(Exchanged!Frames)
      /\ PiecesGiven' = PiecesGiven + 1 /\ EndsKept' = EndsKept
      /\ UNCHANGED <<EndsGiven, GoGiven, LocalGiven, ErrorGiven, AbortsGiven>>
      /\ \/ /\ relaying = "own"
            /\ UNCHANGED <<PiecesKept, CreditsGiven>>
         \/ /\ relaying = "origin's"
            /\ PiecesKept' = PiecesKept - 1 /\ CreditsGiven' = CreditsGiven + 1
  <2>0. decisions \in Seq(ToCoreKinds) /\ {"piece", "credit"} \subseteq ToCoreKinds
    BY <1>0 DEF Exchanged!TypeOK, ToCoreKinds, Exchanged!Frames
  <2>1. CASE relaying = "own"
    <3>1. decisions' = Append(decisions, "piece") /\ UNCHANGED inbox
      BY <2>1 DEF Exchanged!RelayPiece
    <3>2. UNCHANGED keptCounts
      BY <3>1, ExchangeCountsStay
    <3>3. /\ decisions' \in Seq(ToCoreKinds) /\ PiecesGiven' = PiecesGiven + 1
          /\ UNCHANGED <<CreditsGiven, EndsGiven, GoGiven, LocalGiven, ErrorGiven,
                         AbortsGiven>>
      BY <1>0, <2>0, <3>1, DecisionsGrow
    <3> QED
      BY <1>0, <2>1, <3>1, <3>2, <3>3 DEF keptCounts, Exchanged!TypeOK
  <2>2. CASE relaying = "origin's"
    <3>1. /\ inbox # <<>> /\ Head(inbox) = "piece" /\ inbox' = Tail(inbox)
          /\ decisions' = decisions \o <<"credit", "piece">>
      BY <2>2 DEF Exchanged!RelayPiece
    <3>2. /\ inbox' \in Seq(Exchanged!Frames) /\ PiecesKept' = PiecesKept - 1
          /\ EndsKept' = EndsKept
      BY <1>0, <3>1, InboxMoves
    <3>3. /\ decisions' \in Seq(ToCoreKinds) /\ PiecesGiven' = PiecesGiven + 1
          /\ CreditsGiven' = CreditsGiven + 1
          /\ UNCHANGED <<EndsGiven, GoGiven, LocalGiven, ErrorGiven, AbortsGiven>>
      <4> DEFINE q == Append(decisions, "credit")
      <4>1. q \in Seq(ToCoreKinds) /\ decisions' = Append(q, "piece")
        BY <2>0, <3>1
      <4>2. ASSUME NEW kind
            PROVE  /\ kind \notin {"credit", "piece"} =>
                           Count(decisions', {kind}) = Count(decisions, {kind})
                   /\ kind \in {"credit", "piece"} =>
                           Count(decisions', {kind}) = Count(decisions, {kind}) + 1
        <5>1. Count(q, {kind}) = Count(decisions, {kind}) + (IF kind = "credit" THEN 1 ELSE 0)
          BY <2>0, CountAppended DEF One
        <5> HIDE DEF q
        <5>2. Count(Append(q, "piece"), {kind}) =
                  Count(q, {kind}) + (IF kind = "piece" THEN 1 ELSE 0)
          BY <2>0, <4>1, CountAppended DEF One
        <5>3. Count(decisions, {kind}) \in Nat
          BY <2>0, PlacesFinite
        <5> QED
          BY <4>1, <5>1, <5>2, <5>3
      <4>3. decisions' \in Seq(ToCoreKinds)
        BY <2>0, <4>1
      <4> HIDE DEF q
      <4> QED
        BY <4>2, <4>3
           DEF PiecesGiven, EndsGiven, CreditsGiven, GoGiven, LocalGiven, ErrorGiven,
               AbortsGiven
    <3> QED
      BY <2>2, <3>2, <3>3
  <2> QED
    BY <1>1, <2>1, <2>2
<1>6. Question' = Question
  BY <1>1, <1>2, <1>5, TokensStay DEF sentCounts
<1>7. Outgoing' = 1 /\ PiecesGiven' = 1 /\ EndsGiven' = 0
  <2>1. PiecesGiven' = 1 /\ EndsGiven' = 0 /\ Framed' = 0 /\ CreditsSent' = 0
    BY <1>1, <1>2, <1>4, <1>5 DEF Framed, sentCounts
  <2> QED
    BY <2>1 DEF Outgoing
<1>8. Incoming' = Incoming
  <2>1. /\ PiecesSent \in Nat /\ PiecesKept \in Nat /\ CreditsGiven \in Nat
        /\ PiecesSent' = PiecesSent
    BY <1>0, <1>2, ExchangeNumbers DEF sentCounts
  <2>2. PiecesSent + (PiecesKept - 1) + (CreditsGiven + 1) = PiecesSent + PiecesKept + CreditsGiven
    BY <2>1
  <2>3. CASE relaying = "own"
    BY <1>5, <2>1, <2>3 DEF Incoming
  <2>4. CASE relaying = "origin's"
    <3>1. PiecesKept' = PiecesKept - 1 /\ CreditsGiven' = CreditsGiven + 1
      BY <1>5, <2>4
    <3> QED
      BY <2>1, <2>2, <3>1 DEF Incoming
  <2> QED
    BY <1>1, <2>3, <2>4
<1>9. Arrived' <= tapped' /\ (~settled => Arrived' = tapped') /\ tapped' \in 0..Pieces
  <2>1. read \in Nat /\ tapped \in Nat /\ Pieces \in Nat
    BY <1>0, ExchangeNumbers
  <2>2. FramedPiece = 0 /\ FramedPiece' = 0
    BY <1>1, <1>4 DEF Framed, FramedPiece
  <2>3. Arrived = read /\ Arrived' = read + 0 + 1
    BY <1>1, <1>4, <1>7, <2>1, <2>2 DEF Arrived
  <2>4. Arrived <= tapped /\ (~settled => Arrived = tapped)
    BY DEF ExchangeInv, LeavesWhole
  <2>5. read + 0 + 1 <= tapped + 1 /\ (~settled => read + 0 + 1 = tapped + 1)
        /\ tapped + 1 \in 0..Pieces
    BY <1>1, <2>1, <2>3, <2>4
  <2> QED
    BY <1>1, <2>3, <2>5
<1>10. relaying = "origin's" => tapped' + PiecesSent' + PiecesKept' = produced
  <2> SUFFICES ASSUME relaying = "origin's"
               PROVE  tapped' + PiecesSent' + PiecesKept' = produced
    OBVIOUS
  <2>1. tapped + PiecesSent + PiecesKept = produced
    BY <1>3 DEF ExchangeInv, ArrivesWhole
  <2>2. (tapped + 1) + PiecesSent + (PiecesKept - 1) = produced
    BY <1>0, <2>1, ExchangeNumbers
  <2>3. PiecesKept' = PiecesKept - 1 /\ PiecesSent' = PiecesSent
    BY <1>2, <1>5 DEF sentCounts
  <2> QED
    BY <1>1, <2>2, <2>3
<1>11. Exchanged!TypeOK'
  <2>1. {local', uploaded', owed', exhausted', delivered', eof', present', noticed', draining',
         drainedOut', settled', known', credit'} \subseteq BOOLEAN
    BY <1>0, <1>1 DEF Exchanged!TypeOK
  <2> QED
    BY <1>0, <1>1, <1>5, <1>9, <2>1 DEF Exchanged!TypeOK, ToCoreKinds
<1>12. OneQuestion'
  BY <1>1, <1>2, <1>5, <1>6 DEF ExchangeInv, OneQuestion, sentCounts
<1>13. DecidesFirst'
  BY <1>1, <1>2, <1>3, <1>5 DEF DecidesFirst, Undecided, sentCounts
<1>14. ArrivesWhole'
  BY <1>1, <1>2, <1>3, <1>4, <1>5, <1>8, <1>10 DEF ExchangeInv, ArrivesWhole, sentCounts
<1>15. LeavesWhole'
  BY <1>1, <1>7, <1>9 DEF ExchangeInv, LeavesWhole
<1>16. RecordedFirst'
  BY <1>1, <1>2, <1>3, <1>5 DEF ExchangeInv, RecordedFirst, Own, sentCounts
<1>17. EndsOnce' /\ FailsFirst' /\ LeavesInTime'
  BY <1>1, <1>2, <1>4, <1>5
     DEF ExchangeInv, EndsOnce, FailsFirst, LeavesInTime, LeftEarly, sentCounts
<1> QED
  BY <1>11, <1>12, <1>13, <1>14, <1>15, <1>16, <1>17 DEF ExchangeInv

\* Node relays the end, once all of the body was tapped.
LEMMA RelayedEndKeeps == ExchangeInv /\ Exchanged!RelayEnd => ExchangeInv'
<1> SUFFICES ASSUME ExchangeInv, Exchanged!RelayEnd PROVE ExchangeInv'
  OBVIOUS
<1>0. Exchanged!TypeOK
  BY DEF ExchangeInv
<1>1. /\ relaying \in {"own", "origin's"} /\ credit /\ relaying' = "nothing"
      /\ decisions' = Append(decisions, "end")
      /\ UNCHANGED <<requests, framing, serving, reply, local, uploaded, produced, owed,
                     exhausted, frame, read, delivered, eof, given, present, noticed,
                     draining, drainedOut, settled, known, deciding, tapped, credit>>
  BY <1>0
     DEF Exchanged!RelayEnd, Exchanged!core, Exchanged!origin, Exchanged!forwarding,
         Exchanged!leaving, Exchanged!TypeOK
<1>2. UNCHANGED sentCounts
  BY <1>1, ExchangeCountsStay
<1>3. ~Undecided /\ known /\ Outgoing = 0
  BY <1>1 DEF ExchangeInv, DecidesFirst, Unrelayed, ArrivesWhole, LeavesWhole
<1>4. /\ PiecesGiven = 0 /\ EndsGiven = 0 /\ Framed = 0 /\ CreditsSent = 0
      /\ serving # "asked" /\ RequestsSent = 0 /\ ResponsesSent = 0 /\ deciding = "none"
  <2>0. PiecesGiven \in Nat /\ EndsGiven \in Nat /\ Framed \in Nat /\ CreditsSent \in Nat
    BY <1>0, ExchangeNumbers
  <2>1. PiecesGiven = 0 /\ EndsGiven = 0 /\ Framed = 0 /\ CreditsSent = 0
    BY <1>3, <2>0 DEF Outgoing
  <2>2. RequestsSent \in Nat /\ ResponsesSent \in Nat
    BY <1>0, ExchangeNumbers
  <2> QED
    BY <1>3, <2>1, <2>2 DEF Undecided
<1>5. /\ decisions' \in Seq(ToCoreKinds) /\ EndsGiven' = EndsGiven + 1
      /\ UNCHANGED <<PiecesGiven, CreditsGiven, GoGiven, LocalGiven, ErrorGiven, AbortsGiven>>
  <2>1. "end" \in ToCoreKinds
    BY DEF ToCoreKinds, Exchanged!Frames
  <2> QED
    BY <1>0, <1>1, <2>1, DecisionsGrow
\* The end of the origin's body follows all of its pieces.
<1>6. /\ inbox' \in Seq(Exchanged!Frames) /\ PiecesKept' = PiecesKept
      /\ (EndsKept' > 0 => EndsKept > 0) /\ tapped = Pieces
      /\ \/ relaying = "own" /\ UNCHANGED recorded
         \/ relaying = "origin's" /\ recorded' = "completed"
  <2>1. CASE relaying = "own"
    <3>1. tapped = Pieces /\ UNCHANGED <<inbox, recorded>>
      BY <2>1 DEF Exchanged!RelayEnd
    <3>2. UNCHANGED keptCounts
      BY <3>1, ExchangeCountsStay
    <3> QED
      BY <1>0, <2>1, <3>1, <3>2 DEF keptCounts, Exchanged!TypeOK
  <2>2. CASE relaying = "origin's"
    <3>1. /\ inbox # <<>> /\ Head(inbox) = "end" /\ inbox' = Tail(inbox)
          /\ recorded' = "completed"
      BY <2>2 DEF Exchanged!RelayEnd
    <3>2. /\ inbox' \in Seq(Exchanged!Frames) /\ PiecesKept' = PiecesKept
          /\ EndsKept' = EndsKept - 1 /\ EndsKept' \in Nat
      BY <1>0, <3>1, InboxMoves
    <3>3. EndsKept > 0
      <4>1. EndsKept - 1 \in Nat
        BY <3>2
      <4> QED
        BY <1>0, <4>1, ExchangeNumbers
    <3>4. produced = Pieces /\ Incoming = 0 /\ tapped + PiecesSent + PiecesKept = produced
      BY <1>3, <2>2, <3>3 DEF ExchangeInv, ArrivesWhole
    <3>5. tapped = Pieces
      BY <1>0, <3>4, ExchangeNumbers DEF Incoming
    <3> QED
      BY <2>2, <3>1, <3>2, <3>3, <3>5
  <2> QED
    BY <1>1, <2>1, <2>2
<1>7. UNCHANGED <<Question, Incoming, Arrived>>
  BY <1>1, <1>2, <1>5, <1>6, TokensStay DEF sentCounts
<1>8. Outgoing' = 1
  <2>1. PiecesGiven' = 0 /\ EndsGiven' = 1 /\ Framed' = 0 /\ CreditsSent' = 0
    BY <1>1, <1>2, <1>4, <1>5 DEF Framed, sentCounts
  <2> QED
    BY <2>1 DEF Outgoing
<1>9. Exchanged!TypeOK'
  <2>1. {local', uploaded', owed', exhausted', delivered', eof', present', noticed', draining',
         drainedOut', settled', known', credit'} \subseteq BOOLEAN
    BY <1>0, <1>1 DEF Exchanged!TypeOK
  <2>2. recorded' \in {"none", "pending", "completed", "disconnected", "failed"}
    BY <1>0, <1>6 DEF Exchanged!TypeOK
  <2> QED
    BY <1>0, <1>1, <1>5, <1>6, <2>1, <2>2 DEF Exchanged!TypeOK, ToCoreKinds
<1>10. OneQuestion'
  BY <1>1, <1>2, <1>5, <1>7 DEF ExchangeInv, OneQuestion, sentCounts
<1>11. DecidesFirst'
  BY <1>1, <1>2, <1>3, <1>5 DEF DecidesFirst, Undecided, sentCounts
<1>12. ArrivesWhole'
  BY <1>1, <1>2, <1>4, <1>6, <1>7 DEF ExchangeInv, ArrivesWhole, sentCounts
<1>13. LeavesWhole'
  BY <1>1, <1>5, <1>6, <1>7, <1>8 DEF ExchangeInv, LeavesWhole
<1>14. RecordedFirst'
  <2>1. Own' <=> Own
    BY <1>1, <1>5 DEF Own
  <2> QED
    BY <1>1, <1>2, <1>4, <1>6, <2>1 DEF ExchangeInv, RecordedFirst, sentCounts
<1>15. EndsOnce'
  BY <1>1, <1>2, <1>3, <1>4, <1>5, <1>6 DEF ExchangeInv, EndsOnce, sentCounts
<1>16. FailsFirst' /\ LeavesInTime'
  BY <1>1, <1>2, <1>6 DEF ExchangeInv, FailsFirst, LeavesInTime, LeftEarly, sentCounts
<1> QED
  BY <1>9, <1>10, <1>11, <1>12, <1>13, <1>14, <1>15, <1>16 DEF ExchangeInv

LEMMA ExchangeKept == ExchangeInv /\ [Next]_vars => ExchangeInv'
<1> SUFFICES ASSUME ExchangeInv, [Next]_vars PROVE ExchangeInv'
  OBVIOUS
<1>1. Exchanged!Next \/ UNCHANGED exchangeVars
  BY DEF Next, vars
<1> QED
  BY <1>1, ExchangeStutters, RequestKeeps, ResponseKeeps, AnswerKeeps, ProduceKeeps,
     ForwardKeeps, CompletionKeeps, CoreReadsKeeps, NodeReadsKeeps, DecisionKeeps,
     RelayedPieceKeeps, RelayedEndKeeps, LeavingKeeps, FailingKeeps
     DEF Exchanged!Next, Exchanged!CoreStep

\* What the properties ask of it.
LEMMA ExchangeServes ==
    ExchangeInv => Exchanged!CompletedIsWhole /\ Exchanged!DeliveredIsRecorded
<1> SUFFICES ASSUME ExchangeInv
             PROVE  Exchanged!CompletedIsWhole /\ Exchanged!DeliveredIsRecorded
  OBVIOUS
<1>1. Exchanged!CompletedIsWhole
  BY DEF ExchangeInv, LeavesWhole, RecordedFirst, Exchanged!CompletedIsWhole
\* A session that was recorded as left had not reached its end.
<1>2. recorded = "disconnected" /\ ~local => ~eof
  BY DEF ExchangeInv, RecordedFirst
<1>3. recorded = "disconnected" /\ ~local => ~(framing = "length" /\ given = Pieces)
  BY DEF ExchangeInv, LeavesInTime, LeftEarly
<1> QED
  BY <1>1, <1>2, <1>3 DEF Exchanged!DeliveredIsRecorded

-----------------------------------------------------------------------------
(* The tunnel and the exchange together. *)

\* A tunnel never exceeds its credits, and ends after all it was sent; a response that is
\* recorded or reported as complete is, and a client that was given all of it is not recorded
\* as gone (proxy.go, out.Messages and body.finish; session.go, disconnected).
THEOREM TransfersWhole == FairSpec => []TransfersAreWhole
<1>1. TunnelInv /\ ExchangeInv => TransfersAreWhole
  BY TunnelServes, ExchangeServes DEF TransfersAreWhole
<1> QED
  BY <1>1, TunnelInitial, TunnelKept, ExchangeInitial, ExchangeKept, PTL DEF FairSpec

\* Every part is well typed in every state, whichever of them runs.
THEOREM ComponentsTyped == FairSpec => []TypeOK
<1> DEFINE Inv == part \in Parts /\ ConnInv /\ TunnelInv /\ ExchangeInv /\ RelayInv
                  /\ RuntimeInv /\ ReplayInv
<1>1. Init => Inv
  BY ConnInitial, TunnelInitial, ExchangeInitial, RelayInitial, RuntimeInitial, ReplayInitial
     DEF Init
<1>2. Inv /\ [Next]_vars => Inv'
  <2> SUFFICES ASSUME Inv, [Next]_vars PROVE Inv'
    OBVIOUS
  <2>1. part' = part
    BY DEF Next, vars
  <2> QED
    BY <2>1, ConnKept, TunnelKept, ExchangeKept, RelayKept, RuntimeKept, ReplayKept
<1>3. Inv => TypeOK
  <2> SUFFICES ASSUME Inv PROVE TypeOK
    OBVIOUS
  <2>1. Conn!TypeOK /\ Tunnelled!TypeOK
    BY ConnServes, TunnelServes
  <2> QED
    BY <2>1 DEF TypeOK, ExchangeInv, RelayInv, RuntimeInv, ReplayInv
<1> QED
  BY <1>1, <1>2, <1>3, PTL DEF FairSpec

=============================================================================
