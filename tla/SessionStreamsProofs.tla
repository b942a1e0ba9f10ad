------------------------ MODULE SessionStreamsProofs ------------------------
(***************************************************************************)
(* Proofs about SessionStreams, for any set of streams and any number of   *)
(* chunks: its type invariant, that no interleaving of cancellation with   *)
(* the frames of a body overflows a reader, that one chunk at most is      *)
(* unacknowledged, and that it implements BodyTransfer.                    *)
(*                                                                         *)
(* The argument follows a token.  A stream has one, and it is at any time  *)
(* in one place at most: with the agent, which may then send; in a frame   *)
(* on its way to the core; in the reader's channel; in its buffer; or in a *)
(* credit on its way back.  NoOverflow alone is not inductive: it needs to *)
(* know, when a frame arrives, that the channel is empty.                  *)
(***************************************************************************)
EXTENDS SessionStreams, SequenceTheorems, TLAPS

NoData(q, s) == \A i \in 1..Len(q) : ~IsData(q[i], s)
OneData(q, s) == \A i, j \in 1..Len(q) : IsData(q[i], s) /\ IsData(q[j], s) => i = j

NoFrame(q, m) == \A i \in 1..Len(q) : q[i] # m
OneFrame(q, m) == \A i, j \in 1..Len(q) : q[i] = m /\ q[j] = m => i = j

\* The agent holds the token of s.
AtNode(s) ==
    \/ producer[s] \in {"idle", "asked", "delayed", "reading"}
    \/ producer[s] = "released" /\ ~cancelled[s]

OneToken(s) ==
    /\ OneData(toCore, s)
    /\ OneFrame(toNode, Credit(s))
    /\ ~NoData(toCore, s) => slot[s] = Empty
    /\ ~NoData(toCore, s) \/ slot[s] # Empty => buffer[s] = 0
    /\ ~NoData(toCore, s) \/ slot[s] # Empty \/ buffer[s] # 0
           => NoFrame(toNode, Credit(s))
    /\ AtNode(s) =>
           /\ NoData(toCore, s)
           /\ slot[s] = Empty
           /\ buffer[s] = 0
           /\ NoFrame(toNode, Credit(s))

\* The core asks for each stream once, while nothing was produced for it.
AskedOnce(s) ==
    /\ OneFrame(toNode, Ask(s))
    /\ handler[s] # "asked" => NoFrame(toNode, Ask(s)) /\ producer[s] = "idle"
    /\ ~NoFrame(toNode, Ask(s)) => producer[s] = "idle"

\* Frame m is the next one to reach a consumer that has had n of k chunks.
Fits(m, n, k) == IF m.type = "end" THEN n = Chunks ELSE m.n = n + 1 /\ n < k

AllFit(q, s, n, k) == \A i \in 1..Len(q) : IsData(q[i], s) => Fits(q[i], n, k)

InStep(s) ==
    LET n == Len(got[s]) IN
    /\ n <= sent[s] /\ sent[s] <= n + 1
    /\ AtNode(s) \/ ~NoFrame(toNode, Credit(s)) => sent[s] = n
    /\ AllFit(toCore, s, n, sent[s])
    /\ slot[s] # Empty => Fits(slot[s], n, sent[s])
    /\ buffer[s] # 0 => buffer[s] = n + 1 /\ n < sent[s]
    /\ eof[s] => n = Chunks

Consistent(s) == OneToken(s) /\ AskedOnce(s) /\ InStep(s)

IInv ==
    /\ TypeOK
    /\ ~fatal
    /\ \A s \in Streams : Consistent(s)

-----------------------------------------------------------------------------
(* The two pipes: what appending a frame and taking the oldest one preserve. *)

LEMMA DataAppend ==
    ASSUME NEW q \in Seq(ToCore), NEW m \in ToCore, NEW s, NEW n, NEW k
    PROVE  /\ Append(q, m) \in Seq(ToCore)
           /\ NoData(Append(q, m), s) => NoData(q, s)
           /\ NoData(q, s) /\ ~IsData(m, s) => NoData(Append(q, m), s)
           /\ OneData(q, s) /\ (NoData(q, s) \/ ~IsData(m, s)) => OneData(Append(q, m), s)
           /\ AllFit(q, s, n, k) /\ (IsData(m, s) => Fits(m, n, k))
                  => AllFit(Append(q, m), s, n, k)
BY AppendProperties DEF NoData, OneData, AllFit

LEMMA DataTail ==
    ASSUME NEW q \in Seq(ToCore), q # <<>>, NEW s, NEW n, NEW k
    PROVE  /\ Head(q) \in ToCore
           /\ Tail(q) \in Seq(ToCore)
           /\ NoData(q, s) <=> NoData(Tail(q), s) /\ ~IsData(Head(q), s)
           /\ OneData(q, s) => OneData(Tail(q), s)
           /\ OneData(q, s) /\ IsData(Head(q), s) => NoData(Tail(q), s)
           /\ AllFit(q, s, n, k) => AllFit(Tail(q), s, n, k)
           /\ AllFit(q, s, n, k) /\ IsData(Head(q), s) => Fits(Head(q), n, k)
<1>1. /\ Head(q) \in ToCore /\ Head(q) = q[1] /\ Tail(q) \in Seq(ToCore)
      /\ Len(q) \in Nat \ {0} /\ Len(Tail(q)) = Len(q) - 1
      /\ \A i \in 1..Len(Tail(q)) : Tail(q)[i] = q[i + 1]
  BY HeadTailProperties
<1>2. \A i \in 1..Len(q) : i = 1 \/ (i - 1 \in 1..Len(Tail(q)) /\ q[i] = Tail(q)[i - 1])
  BY <1>1
<1>3. NoData(q, s) <=> NoData(Tail(q), s) /\ ~IsData(Head(q), s)
  BY SMTT(20), <1>1, <1>2 DEF NoData
<1>4. /\ OneData(q, s) => OneData(Tail(q), s)
      /\ OneData(q, s) /\ IsData(Head(q), s) => NoData(Tail(q), s)
  BY <1>1 DEF NoData, OneData
<1>5. /\ AllFit(q, s, n, k) => AllFit(Tail(q), s, n, k)
      /\ AllFit(q, s, n, k) /\ IsData(Head(q), s) => Fits(Head(q), n, k)
  BY <1>1 DEF AllFit
<1>6. QED BY <1>1, <1>3, <1>4, <1>5

LEMMA FrameAppend ==
    ASSUME NEW q \in Seq(ToNode), NEW m \in ToNode, NEW f
    PROVE  /\ Append(q, m) \in Seq(ToNode)
           /\ NoFrame(Append(q, m), f) => NoFrame(q, f)
           /\ NoFrame(q, f) /\ m # f => NoFrame(Append(q, m), f)
           /\ OneFrame(q, f) /\ (NoFrame(q, f) \/ m # f) => OneFrame(Append(q, m), f)
BY AppendProperties DEF NoFrame, OneFrame

LEMMA FrameTail ==
    ASSUME NEW q \in Seq(ToNode), q # <<>>, NEW f
    PROVE  /\ Head(q) \in ToNode
           /\ Tail(q) \in Seq(ToNode)
           /\ NoFrame(q, f) <=> NoFrame(Tail(q), f) /\ Head(q) # f
           /\ OneFrame(q, f) => OneFrame(Tail(q), f)
           /\ OneFrame(q, f) /\ Head(q) = f => NoFrame(Tail(q), f)
BY HeadTailProperties DEF NoFrame, OneFrame

-----------------------------------------------------------------------------
(* Type correctness. *)

LEMMA FramesTyped ==
    /\ \A s \in Streams, n \in 1..Chunks : Chunk(s, n) \in ToCore
    /\ \A s \in Streams : End(s) \in ToCore /\ Ask(s) \in ToNode /\ Credit(s) \in ToNode
    /\ Abort \in ToCore /\ Failure \in ToNode /\ Closed \in ToNode
BY DEF Chunk, End, Ask, Credit, Abort, Failure, Closed, ToCore, ToNode, Data

\* What the agent's frames carry: a stream for an ask or a credit.
LEMMA ToNodeCases ==
    ASSUME NEW m \in ToNode
    PROVE  \/ m.stream \in Streams /\ m = Ask(m.stream) /\ m.type = "ask"
           \/ m.stream \in Streams /\ m = Credit(m.stream) /\ m.type = "credit"
           \/ m = Failure /\ m.type = "failure"
           \/ m = Closed /\ m.type = "closed"
BY DEF ToNode, Ask, Credit, Failure, Closed

LEMMA ToCoreCases ==
    ASSUME NEW m \in ToCore, m # Abort
    PROVE  m \in Data /\ m.stream \in Streams /\ IsData(m, m.stream)
BY DEF ToCore, Data, IsData

LEMMA FailTyped ==
    ASSUME TypeOK, NEW p, p \in [Streams ->
               {"idle", "asked", "delayed", "reading", "waiting", "released", "done"}],
           Fail(p)
    PROVE  /\ toCore' \in Seq(ToCore) /\ live' \in BOOLEAN
           /\ producer' \in [Streams ->
               {"idle", "asked", "delayed", "reading", "waiting", "released", "done"}]
           /\ cancelled' \in [Streams -> BOOLEAN]
           /\ sent' \in [Streams -> 0..Chunks]
<1>1. toCore' \in Seq(ToCore)
  BY FramesTyped, AppendProperties DEF Fail, TypeOK
<1>2. QED BY <1>1 DEF Fail, CancelStreams, TypeOK

LEMMA TypeInit == Init => TypeOK
<1> SUFFICES ASSUME Init PROVE TypeOK
  OBVIOUS
<1>1. toCore \in Seq(ToCore) /\ toNode \in Seq(ToNode)
  BY EmptySeq DEF Init
<1>2. got \in [Streams -> Seq(1..Chunks)]
  BY EmptySeq DEF Init
<1>3. /\ readers \subseteq Streams
      /\ producer \in [Streams ->
           {"idle", "asked", "delayed", "reading", "waiting", "released", "done"}]
      /\ cancelled \in [Streams -> BOOLEAN] /\ sent \in [Streams -> 0..Chunks]
      /\ handler \in [Streams -> {"new", "registered", "asked"}]
  BY ChunksAssumption DEF Init
<1>4. /\ slot \in [Streams -> Data \cup {Empty}] /\ buffer \in [Streams -> 0..Chunks]
      /\ eof \in [Streams -> BOOLEAN]
  BY ChunksAssumption DEF Init
<1>5. /\ finish \in {"open", "cancelled", "deleted", "removed", "closed"}
      /\ live \in BOOLEAN /\ failing \in BOOLEAN /\ loop \in {"free", "finishing"} /\ fatal \in BOOLEAN
  BY DEF Init
<1>6. QED BY <1>1, <1>2, <1>3, <1>4, <1>5 DEF TypeOK

LEMMA TypeStep == TypeOK /\ [Next]_vars => TypeOK'
<1> SUFFICES ASSUME TypeOK, [Next]_vars PROVE TypeOK'
  OBVIOUS
<1> USE FramesTyped, ChunksAssumption DEF TypeOK
<1>1. CASE NodeReceive
  <2> DEFINE m == Head(toNode)
  <2>1. m \in ToNode /\ toNode' \in Seq(ToNode)
    BY <1>1, FrameTail DEF NodeReceive
  <2>2. CASE m.type = "ask" /\ NodeAsked(m.stream)
    <3>1. m.stream \in Streams
      BY <2>1, <2>2, ToNodeCases DEF Failure, Closed
    <3>2. toCore' \in Seq(ToCore)
      <4>1. CASE toCore' = Append(toCore, Abort)
        BY <4>1, AppendProperties
      <4>2. CASE UNCHANGED toCore
        BY <4>2
      <4>3. QED BY <2>2, <4>1, <4>2 DEF NodeAsked, nodeVars
    <3>3. QED
      BY <1>1, <2>1, <2>2, <3>1, <3>2 DEF NodeReceive, NodeAsked, nodeVars, coreVars
  <2>3. CASE m.type = "credit" /\ NodeCredited(m.stream)
    BY <1>1, <2>1, <2>3 DEF NodeReceive, NodeCredited, coreVars
  <2>4. CASE Fail(producer)
    BY <1>1, <2>1, <2>4, FailTyped DEF NodeReceive, coreVars
  <2>5. CASE NodeClosed
    BY <1>1, <2>1, <2>5 DEF NodeReceive, NodeClosed, CancelStreams, coreVars
  <2>6. QED BY <1>1, <2>2, <2>3, <2>4, <2>5 DEF NodeReceive
<1>2. ASSUME NEW s \in Streams, Decide(s) PROVE TypeOK'
  BY <1>2 DEF Decide, coreVars
<1>3. ASSUME NEW s \in Streams, HandlerFails(s) PROVE TypeOK'
  BY <1>3, FailTyped DEF HandlerFails, coreVars
<1>4. ASSUME NEW s \in Streams, StartPipe(s) PROVE TypeOK'
  BY <1>4 DEF StartPipe, coreVars
<1>5. ASSUME NEW s \in Streams, SendChunk(s) PROVE TypeOK'
  BY <1>5, AppendProperties DEF SendChunk, coreVars
<1>6. ASSUME NEW s \in Streams, Resume(s) PROVE TypeOK'
  BY <1>6 DEF Resume, coreVars
<1>7. ASSUME NEW s \in Streams, SendEnd(s) PROVE TypeOK'
  BY <1>7, AppendProperties DEF SendEnd, coreVars
<1>8. ASSUME NEW s \in Streams, PipeReturns(s) PROVE TypeOK'
  BY <1>8 DEF PipeReturns, coreVars
<1>9. ASSUME NEW s \in Streams, SourceFails(s) PROVE TypeOK'
  BY <1>9, FailTyped DEF SourceFails, coreVars
<1>10. ASSUME NEW s \in Streams, Register(s) PROVE TypeOK'
  BY <1>10 DEF Register, nodeVars, readerVars, sessionVars
<1>11. ASSUME NEW s \in Streams, SendAsk(s) PROVE TypeOK'
  BY <1>11, AppendProperties DEF SendAsk, nodeVars, readerVars, sessionVars
<1>12. CASE Finish
  <2>1. toNode' \in Seq(ToNode)
    <3>1. Append(toNode, Failure) \in Seq(ToNode) /\ Append(toNode, Closed) \in Seq(ToNode)
      BY AppendProperties
    <3>2. CASE UNCHANGED toNode
      BY <3>2
    <3>3. QED
      BY <1>12, <3>1, <3>2 DEF Finish, FinishStarts, FinishDeletes,
         FinishRemovesStreams, FinishReports, FinishCloses
  <2>2. finish' \in {"open", "cancelled", "deleted", "removed", "closed"}
    BY <1>12 DEF Finish, FinishStarts, FinishDeletes, FinishRemovesStreams,
       FinishReports, FinishCloses
  <2>3. failing' \in BOOLEAN /\ readers' \subseteq Streams
    BY <1>12 DEF Finish, FinishStarts, FinishDeletes, FinishRemovesStreams,
       FinishReports, FinishCloses
  <2>4. UNCHANGED <<toCore, nodeVars, handler, readerVars, loop, fatal>>
    BY <1>12 DEF Finish, FinishStarts, FinishDeletes, FinishRemovesStreams,
       FinishReports, FinishCloses
  <2>5. QED BY <2>1, <2>2, <2>3, <2>4 DEF nodeVars, readerVars
<1>13. CASE CoreReceive
  <2> DEFINE m == Head(toCore)
  <2>1. m \in ToCore /\ toCore' \in Seq(ToCore)
    BY <1>13, DataTail DEF CoreReceive
  <2>2. CASE m = Abort /\ LoopAborts
    BY <1>13, <2>1, <2>2 DEF CoreReceive, LoopAborts, nodeVars, coreVars, readerVars
  <2>3. CASE m # Abort /\ LoopDelivers(m)
    <3>1. m \in Data /\ m.stream \in Streams
      BY <2>1, <2>3, ToCoreCases
    <3>2. slot' \in [Streams -> Data \cup {Empty}] /\ fatal' \in BOOLEAN
      <4>1. slot' = slot \/ slot' = [slot EXCEPT ![m.stream] = m]
        BY <2>3 DEF LoopDelivers
      <4>2. fatal' = fatal \/ fatal' = TRUE
        BY <2>3 DEF LoopDelivers
      <4>3. slot' \in [Streams -> Data \cup {Empty}]
        BY <3>1, <4>1
      <4>4. QED BY <4>2, <4>3
    <3>3. UNCHANGED <<toNode, nodeVars, handler, readers, buffer, got, eof, sessionVars, loop>>
      BY <1>13, <2>3 DEF CoreReceive, LoopDelivers
    <3>4. QED BY <2>1, <3>2, <3>3 DEF nodeVars, sessionVars
  <2>4. QED BY <1>13, <2>2, <2>3 DEF CoreReceive
<1>14. CASE LoopResumes
  BY <1>14 DEF LoopResumes, nodeVars, readerVars, sessionVars
<1>15. ASSUME NEW s \in Streams, ReadFrame(s) PROVE TypeOK'
  <2>1. slot[s] \in Data
    BY <1>15 DEF ReadFrame
  <2>2. slot[s].type # "end" => slot[s].n \in 1..Chunks
    BY <2>1 DEF Data
  <2>3. slot' \in [Streams -> Data \cup {Empty}]
    BY <1>15 DEF ReadFrame
  <2>4. buffer' \in [Streams -> 0..Chunks] /\ eof' \in [Streams -> BOOLEAN]
    <3>1. CASE slot[s].type = "end"
      <4>1. eof' = [eof EXCEPT ![s] = TRUE] /\ UNCHANGED buffer
        BY <1>15, <3>1 DEF ReadFrame
      <4>2. QED BY <4>1
    <3>2. CASE slot[s].type # "end"
      <4>1. buffer' = [buffer EXCEPT ![s] = slot[s].n] /\ UNCHANGED eof
        BY <1>15, <3>2 DEF ReadFrame
      <4>2. QED BY <2>2, <3>2, <4>1
    <3>3. QED BY <3>1, <3>2
  <2>5. UNCHANGED <<toCore, toNode, nodeVars, handler, readers, got, sessionVars, loop, fatal>>
    BY <1>15 DEF ReadFrame
  <2>6. QED BY <2>3, <2>4, <2>5 DEF nodeVars, sessionVars
<1>16. ASSUME NEW s \in Streams, ConsumeChunk(s) PROVE TypeOK'
  <2>1. buffer[s] \in 1..Chunks
    BY <1>16 DEF ConsumeChunk
  <2>2. got' \in [Streams -> Seq(1..Chunks)]
    BY <1>16, <2>1, AppendProperties DEF ConsumeChunk
  <2>3. toNode' \in Seq(ToNode)
    BY <1>16, AppendProperties DEF ConsumeChunk
  <2>4. QED BY <1>16, <2>2, <2>3 DEF ConsumeChunk, nodeVars, sessionVars
<1>17. CASE UNCHANGED vars
  BY <1>17 DEF vars
<1>18. QED
  BY <1>1, <1>2, <1>3, <1>4, <1>5, <1>6, <1>7, <1>8, <1>9, <1>10, <1>11, <1>12, <1>13,
     <1>14, <1>15, <1>16, <1>17 DEF Next, Node, Core

\* Every variable keeps its type, whatever the session and its streams go through.
THEOREM TypeCorrect == Spec => []TypeOK
BY TypeInit, TypeStep, PTL DEF Spec

-----------------------------------------------------------------------------
(* The token argument: one lemma per kind of step. *)

LEMMA NothingSent ==
    ASSUME NEW s, NEW n, NEW k
    PROVE  /\ NoData(<<>>, s) /\ OneData(<<>>, s) /\ AllFit(<<>>, s, n, k)
           /\ \A f : NoFrame(<<>>, f) /\ OneFrame(<<>>, f)
BY DEF NoData, OneData, AllFit, NoFrame, OneFrame

LEMMA NoDataFits ==
    ASSUME NEW q, NEW s, NEW n, NEW k, NoData(q, s)
    PROVE  AllFit(q, s, n, k)
BY DEF NoData, AllFit

LEMMA FramesDiffer ==
    /\ Failure # Closed
    /\ \A s, q : Ask(s) # Credit(q) /\ Ask(s) # Failure /\ Ask(s) # Closed
    /\ \A s : Credit(s) # Failure /\ Credit(s) # Closed
    /\ \A s, q : (Ask(s) = Ask(q) => s = q) /\ (Credit(s) = Credit(q) => s = q)
    /\ \A s : ~IsData(Abort, s)
    /\ \A s, q, n : (IsData(Chunk(s, n), q) <=> s = q) /\ (IsData(End(s), q) <=> s = q)
BY DEF Failure, Closed, Ask, Credit, Abort, Chunk, End, IsData

LEMMA IInvInit == Init => IInv
<1> SUFFICES ASSUME Init PROVE IInv
  OBVIOUS
<1>1. ASSUME NEW s \in Streams PROVE Consistent(s)
  BY NothingSent, ChunksAssumption
  DEF Init, Consistent, OneToken, AskedOnce, InStep, AtNode
<1>2. QED BY <1>1, TypeInit DEF Init, IInv

\* What a step does to the pipes leaves the frames of stream q as they were.
KeepsData(q) ==
    /\ NoData(toCore', q) <=> NoData(toCore, q)
    /\ OneData(toCore, q) => OneData(toCore', q)
    /\ \A n, k : AllFit(toCore, q, n, k) => AllFit(toCore', q, n, k)

KeepsFrame(f) ==
    /\ NoFrame(toNode', f) <=> NoFrame(toNode, f)
    /\ OneFrame(toNode, f) => OneFrame(toNode', f)

LEMMA DataKept ==
    ASSUME TypeOK, NEW q,
           \/ UNCHANGED toCore
           \/ \E m \in ToCore : ~IsData(m, q) /\ toCore' = Append(toCore, m)
           \/ toCore # <<>> /\ ~IsData(Head(toCore), q) /\ toCore' = Tail(toCore)
    PROVE  KeepsData(q)
<1>1. toCore \in Seq(ToCore)
  BY DEF TypeOK
<1>2. SUFFICES ASSUME NEW n, NEW k
               PROVE  /\ NoData(toCore', q) <=> NoData(toCore, q)
                      /\ OneData(toCore, q) => OneData(toCore', q)
                      /\ AllFit(toCore, q, n, k) => AllFit(toCore', q, n, k)
  BY DEF KeepsData
<1>3. CASE UNCHANGED toCore
  BY <1>3
<1>4. ASSUME NEW m \in ToCore, ~IsData(m, q), toCore' = Append(toCore, m)
      PROVE  /\ NoData(toCore', q) <=> NoData(toCore, q)
             /\ OneData(toCore, q) => OneData(toCore', q)
             /\ AllFit(toCore, q, n, k) => AllFit(toCore', q, n, k)
  BY <1>1, <1>4, DataAppend
<1>5. CASE toCore # <<>> /\ ~IsData(Head(toCore), q) /\ toCore' = Tail(toCore)
  BY <1>1, <1>5, DataTail
<1>6. QED BY <1>3, <1>4, <1>5

LEMMA FrameKept ==
    ASSUME TypeOK, NEW f,
           \/ UNCHANGED toNode
           \/ \E m \in ToNode : m # f /\ toNode' = Append(toNode, m)
           \/ toNode # <<>> /\ Head(toNode) # f /\ toNode' = Tail(toNode)
    PROVE  KeepsFrame(f)
<1>1. toNode \in Seq(ToNode)
  BY DEF TypeOK
<1>2. CASE UNCHANGED toNode
  BY <1>2 DEF KeepsFrame
<1>3. ASSUME NEW m \in ToNode, m # f, toNode' = Append(toNode, m)
      PROVE  KeepsFrame(f)
  BY <1>1, <1>3, FrameAppend DEF KeepsFrame
<1>4. CASE toNode # <<>> /\ Head(toNode) # f /\ toNode' = Tail(toNode)
  BY <1>1, <1>4, FrameTail DEF KeepsFrame
<1>5. QED BY <1>2, <1>3, <1>4

\* A step that leaves the frames of q alone and gives its token to nobody.
LEMMA Undisturbed ==
    ASSUME IInv, NEW q \in Streams,
           KeepsData(q), KeepsFrame(Ask(q)), KeepsFrame(Credit(q)),
           sent'[q] = sent[q], slot'[q] = slot[q], buffer'[q] = buffer[q],
           got'[q] = got[q], eof'[q] = eof[q],
           AtNode(q)' => AtNode(q),
           handler'[q] # "asked" => handler[q] # "asked",
           producer[q] = "idle" => producer'[q] = "idle"
    PROVE  Consistent(q)'
<1> USE DEF IInv, Consistent, KeepsData, KeepsFrame
<1>1. OneToken(q)'
  BY DEF OneToken
<1>2. AskedOnce(q)'
  BY DEF AskedOnce
<1>3. InStep(q)'
  BY DEF InStep
<1>4. QED BY <1>1, <1>2, <1>3

\* Streams.cancel lets a waiting pipe go, but a cancelled pipe never sends again:
\* v is where the pipe was, or where the failure that cancels it leaves it.
LEMMA CancelGivesNothing ==
    ASSUME NEW q, NEW v,
           producer'[q] = IF v = "waiting" THEN "released" ELSE v,
           cancelled'[q] <=> cancelled[q] \/ v \in Sending,
           v = producer[q] \/ (v = "done" /\ producer[q] # "idle")
    PROVE  /\ AtNode(q)' => AtNode(q)
           /\ producer[q] = "idle" => producer'[q] = "idle"
<1>1. AtNode(q)' => AtNode(q)
  BY DEF AtNode, Sending
<1>2. QED BY <1>1

LEMMA NodeReceiveKeeps ==
    ASSUME IInv, NodeReceive, NEW q \in Streams
    PROVE  Consistent(q)'
<1> DEFINE m == Head(toNode)
<1>1. /\ TypeOK /\ Consistent(q)
      /\ toNode \in Seq(ToNode) /\ toNode # <<>> /\ toNode' = Tail(toNode)
      /\ UNCHANGED <<handler, slot, buffer, got, eof>>
  BY DEF IInv, TypeOK, NodeReceive, coreVars
<1>2. /\ m \in ToNode
      /\ m # Ask(q) => KeepsFrame(Ask(q))
      /\ m # Credit(q) => KeepsFrame(Credit(q))
  BY <1>1, FrameKept, FrameTail
<1>3. CASE m.type = "ask" /\ NodeAsked(m.stream)
  <2>1. m.stream \in Streams /\ m = Ask(m.stream)
    BY <1>2, <1>3, ToNodeCases DEF Failure, Closed
  <2>2. KeepsData(q) /\ KeepsFrame(Credit(q)) /\ sent' = sent /\ cancelled' = cancelled
    <3>1. m # Credit(q) /\ sent' = sent /\ cancelled' = cancelled
      BY <1>3, <2>1, FramesDiffer DEF NodeAsked, nodeVars
    <3>2. UNCHANGED toCore \/ toCore' = Append(toCore, Abort)
      BY <1>3 DEF NodeAsked, nodeVars
    <3>3. KeepsData(q)
      BY <1>1, <3>2, DataKept, FramesTyped, FramesDiffer
    <3>4. QED BY <1>2, <3>1, <3>3
  <2>3. CASE m.stream # q
    <3>1. KeepsFrame(Ask(q)) /\ producer'[q] = producer[q]
      <4>1. m # Ask(q)
        BY <2>1, <2>3, FramesDiffer
      <4>2. producer'[q] = producer[q]
        BY <1>1, <1>3, <2>3 DEF NodeAsked, nodeVars, TypeOK
      <4>3. QED BY <1>2, <4>1, <4>2
    <3>2. QED BY <1>1, <2>2, <3>1, Undisturbed DEF AtNode
  <2>4. CASE m.stream = q
    <3>1. /\ ~NoFrame(toNode, Ask(q)) /\ producer[q] = "idle" /\ handler[q] = "asked"
          /\ OneFrame(toNode, Ask(q)) /\ AtNode(q)
      BY <1>1, <2>1, <2>4, FrameTail DEF Consistent, AskedOnce, AtNode
    <3>2. NoFrame(toNode', Ask(q)) /\ OneFrame(toNode', Ask(q))
      BY <1>1, <2>1, <2>4, <3>1, FrameTail
    <3>3. producer'[q] \in {"idle", "asked"}
      BY <1>1, <1>3, <2>4, <3>1 DEF NodeAsked, nodeVars, TypeOK
    <3>4. QED
      BY <1>1, <2>2, <3>1, <3>2, <3>3
      DEF Consistent, OneToken, AskedOnce, InStep, AtNode, KeepsData, KeepsFrame
  <2>5. QED BY <2>3, <2>4
<1>4. CASE m.type = "credit" /\ NodeCredited(m.stream)
  <2>1. m.stream \in Streams /\ m = Credit(m.stream)
    BY <1>2, <1>4, ToNodeCases DEF Failure, Closed
  <2>2. KeepsData(q) /\ KeepsFrame(Ask(q)) /\ sent' = sent /\ cancelled' = cancelled
    BY <1>1, <1>2, <1>4, <2>1, DataKept, FramesDiffer DEF NodeCredited
  <2>3. CASE m.stream # q
    <3>1. KeepsFrame(Credit(q)) /\ producer'[q] = producer[q]
      BY <1>1, <1>2, <1>4, <2>1, <2>3, FramesDiffer DEF NodeCredited
    <3>2. QED BY <1>1, <2>2, <3>1, Undisturbed DEF AtNode
  <2>4. CASE m.stream = q
    <3>1. ~NoFrame(toNode, Credit(q)) /\ OneFrame(toNode, Credit(q))
      BY <1>1, <2>1, <2>4, FrameTail DEF Consistent, OneToken
    <3>2. NoFrame(toNode', Credit(q)) /\ OneFrame(toNode', Credit(q))
      BY <1>1, <2>1, <2>4, <3>1, FrameTail DEF Consistent, OneToken
    <3>3. NoData(toCore, q) /\ slot[q] = Empty /\ buffer[q] = 0 /\ sent[q] = Len(got[q])
      BY <1>1, <3>1 DEF Consistent, OneToken, InStep
    <3>4. producer'[q] = IF producer[q] = "waiting" THEN "released" ELSE producer[q]
      BY <1>1, <1>4, <2>4 DEF NodeCredited, TypeOK
    <3>5. QED
      BY <1>1, <2>2, <3>1, <3>2, <3>3, <3>4
      DEF Consistent, OneToken, AskedOnce, InStep, AtNode, KeepsData, KeepsFrame
  <2>5. QED BY <2>3, <2>4
<1>5. CASE m.type \in {"failure", "closed"} /\ (Fail(producer) \/ NodeClosed)
  <2>1. KeepsFrame(Ask(q)) /\ KeepsFrame(Credit(q))
    <3>1. m # Ask(q) /\ m # Credit(q)
      BY <1>5 DEF Ask, Credit
    <3>2. QED BY <1>2, <3>1
  <2>2. /\ AtNode(q)' => AtNode(q)
        /\ producer[q] = "idle" => producer'[q] = "idle"
        /\ sent' = sent
        /\ UNCHANGED toCore \/ toCore' = Append(toCore, Abort)
    <3>1. /\ producer'[q] = IF producer[q] = "waiting" THEN "released" ELSE producer[q]
          /\ cancelled'[q] <=> cancelled[q] \/ producer[q] \in Sending
      BY <1>5 DEF Fail, NodeClosed, CancelStreams
    <3>2. sent' = sent /\ (UNCHANGED toCore \/ toCore' = Append(toCore, Abort))
      BY <1>5 DEF Fail, NodeClosed
    <3>3. QED BY <3>1, <3>2, CancelGivesNothing DEF AtNode
  <2>3. KeepsData(q)
    BY <1>1, <2>2, DataKept, FramesTyped, FramesDiffer
  <2>4. QED BY <1>1, <2>1, <2>2, <2>3, Undisturbed DEF AtNode
<1>6. QED BY <1>3, <1>4, <1>5 DEF NodeReceive

\* The steps of the agent that put nothing of a body on the pipe.
LEMMA QuietPipeKeeps ==
    ASSUME IInv, NEW s \in Streams, NEW q \in Streams,
           \/ Decide(s) \/ HandlerFails(s) \/ StartPipe(s)
           \/ Resume(s) \/ PipeReturns(s) \/ SourceFails(s)
    PROVE  Consistent(q)'
<1>1. TypeOK
  BY DEF IInv
<1>2. UNCHANGED <<toNode, sent, handler, slot, buffer, got, eof>>
  BY DEF Decide, HandlerFails, StartPipe, Resume, PipeReturns, SourceFails, Fail, coreVars
<1>3. UNCHANGED toCore \/ toCore' = Append(toCore, Abort)
  BY DEF Decide, HandlerFails, StartPipe, Resume, PipeReturns, SourceFails, Fail
<1>4. KeepsData(q) /\ KeepsFrame(Ask(q)) /\ KeepsFrame(Credit(q))
  BY <1>1, <1>2, <1>3, DataKept, FrameKept, FramesTyped, FramesDiffer
<1>5. (AtNode(q)' => AtNode(q)) /\ (producer[q] = "idle" => producer'[q] = "idle")
  <2>1. CASE HandlerFails(s) \/ SourceFails(s)
    <3> DEFINE v == IF q = s THEN "done" ELSE producer[q]
    <3>1. producer[s] \in {"asked", "reading"}
      BY <2>1 DEF HandlerFails, SourceFails
    <3>2. /\ producer'[q] = IF v = "waiting" THEN "released" ELSE v
          /\ cancelled'[q] <=> cancelled[q] \/ v \in Sending
      BY <1>1, <2>1 DEF HandlerFails, SourceFails, Fail, CancelStreams, TypeOK
    <3>3. v = producer[q] \/ (v = "done" /\ producer[q] # "idle")
      BY <3>1
    <3> HIDE DEF v
    <3>4. QED BY <3>2, <3>3, CancelGivesNothing DEF AtNode
  <2>2. CASE Decide(s) \/ StartPipe(s) \/ PipeReturns(s)
    BY <1>1, <2>2 DEF Decide, StartPipe, PipeReturns, AtNode, TypeOK
  <2>3. CASE Resume(s)
    BY <1>1, <2>3 DEF Resume, AtNode, TypeOK
  <2>4. QED BY <2>1, <2>2, <2>3
<1>6. QED BY <1>2, <1>4, <1>5, Undisturbed DEF AtNode

\* The agent gives its token to a frame: the next chunk, or the end.
LEMMA SendKeeps ==
    ASSUME IInv, NEW s \in Streams, NEW q \in Streams, SendChunk(s) \/ SendEnd(s)
    PROVE  Consistent(q)'
<1> DEFINE m == IF SendChunk(s) THEN Chunk(s, sent[s] + 1) ELSE End(s)
<1>1. TypeOK /\ Consistent(q) /\ toCore \in Seq(ToCore)
  BY DEF IInv, TypeOK
<1>2. /\ UNCHANGED <<toNode, cancelled, handler, slot, buffer, got, eof>>
      /\ toCore' = Append(toCore, m) /\ m \in ToCore
      /\ producer[s] = "reading"
      /\ producer'[s] \in {"waiting", "done"}
      /\ q # s => producer'[q] = producer[q] /\ sent'[q] = sent[q]
      /\ IsData(m, q) <=> s = q
  <2>1. CASE SendChunk(s)
    <3>1. m = Chunk(s, sent[s] + 1) /\ sent[s] + 1 \in 1..Chunks
      BY <1>1, <2>1, ChunksAssumption DEF SendChunk, TypeOK
    <3>2. m \in ToCore /\ (IsData(m, q) <=> s = q)
      BY <3>1, FramesTyped, FramesDiffer
    <3>3. QED BY <1>1, <2>1, <3>1, <3>2 DEF SendChunk, coreVars, TypeOK
  <2>2. CASE ~SendChunk(s) /\ SendEnd(s)
    <3>1. m = End(s) /\ m \in ToCore /\ (IsData(m, q) <=> s = q)
      BY <2>2, FramesTyped, FramesDiffer
    <3>2. QED BY <1>1, <2>2, <3>1 DEF SendEnd, coreVars, TypeOK
  <2>3. QED BY <2>1, <2>2
<1>3. KeepsFrame(Ask(q)) /\ KeepsFrame(Credit(q))
  BY <1>1, <1>2, FrameKept
<1>4. CASE q # s
  <2>1. KeepsData(q)
    BY <1>1, <1>2, <1>4, DataKept
  <2>2. QED BY <1>1, <1>2, <1>3, <1>4, <2>1, Undisturbed DEF AtNode
<1>5. CASE q = s
  <2>1. /\ AtNode(q) /\ ~AtNode(q)'
        /\ NoData(toCore, q) /\ slot[q] = Empty /\ buffer[q] = 0 /\ NoFrame(toNode, Credit(q))
        /\ sent[q] = Len(got[q])
    BY <1>1, <1>2, <1>5 DEF Consistent, OneToken, InStep, AtNode
  <2>2. /\ sent'[q] \in {sent[q], sent[q] + 1}
        /\ Fits(m, Len(got[q]), sent'[q])
    BY <1>1, <1>5, <2>1 DEF SendChunk, SendEnd, Fits, Chunk, End, TypeOK
  <2>3. OneData(toCore', q)
    BY <1>1, <1>2, <2>1, DataAppend DEF Consistent, OneToken
  <2>4. AllFit(toCore', q, Len(got[q]), sent'[q])
    BY <1>1, <1>2, <2>1, <2>2, NoDataFits, DataAppend
  <2> HIDE DEF m
  <2>5. OneToken(q)'
    BY <1>1, <1>2, <1>3, <2>1, <2>3 DEF Consistent, OneToken, KeepsFrame
  <2>6. AskedOnce(q)'
    BY <1>1, <1>2, <1>3, <1>5 DEF Consistent, AskedOnce, KeepsFrame
  <2>7. InStep(q)'
    BY <1>1, <1>2, <1>3, <2>1, <2>2, <2>4 DEF Consistent, InStep, KeepsFrame, TypeOK
  <2>8. QED BY <2>5, <2>6, <2>7 DEF Consistent
<1>6. QED BY <1>4, <1>5

\* The handler asks once.
LEMMA AskKeeps ==
    ASSUME IInv, NEW s \in Streams, NEW q \in Streams, Register(s) \/ SendAsk(s)
    PROVE  Consistent(q)'
<1>1. TypeOK /\ Consistent(q) /\ toNode \in Seq(ToNode)
  BY DEF IInv, TypeOK
<1>2. /\ UNCHANGED <<toCore, producer, cancelled, sent, slot, buffer, got, eof>>
      /\ UNCHANGED toNode \/ toNode' = Append(toNode, Ask(s))
      /\ q # s => handler'[q] = handler[q]
  BY <1>1 DEF Register, SendAsk, nodeVars, readerVars, TypeOK
<1>3. KeepsData(q) /\ KeepsFrame(Credit(q))
  BY <1>1, <1>2, DataKept, FrameKept, FramesTyped, FramesDiffer
<1>4. CASE Register(s) \/ q # s
  <2>1. KeepsFrame(Ask(q))
    BY <1>1, <1>2, <1>4, FrameKept, FramesTyped, FramesDiffer DEF Register
  <2>2. handler'[q] # "asked" => handler[q] # "asked"
    BY <1>1, <1>2, <1>4 DEF Register, TypeOK
  <2>3. QED BY <1>1, <1>2, <1>3, <2>1, <2>2, Undisturbed DEF AtNode
<1>5. CASE SendAsk(s) /\ q = s
  <2>1. /\ NoFrame(toNode, Ask(q)) /\ producer[q] = "idle"
        /\ handler'[q] = "asked" /\ toNode' = Append(toNode, Ask(q))
    BY <1>1, <1>5 DEF SendAsk, Consistent, AskedOnce, TypeOK
  <2>2. OneFrame(toNode', Ask(q))
    BY <1>1, <2>1, FrameAppend, FramesTyped DEF Consistent, AskedOnce
  <2>3. OneToken(q)' /\ InStep(q)'
    BY <1>1, <1>2, <1>3 DEF Consistent, OneToken, InStep, AtNode, KeepsData, KeepsFrame
  <2>4. AskedOnce(q)'
    BY <1>2, <2>1, <2>2 DEF AskedOnce
  <2>5. QED BY <2>3, <2>4 DEF Consistent
<1>6. QED BY <1>4, <1>5

LEMMA FinishKeeps ==
    ASSUME IInv, NEW q \in Streams, Finish \/ LoopResumes
    PROVE  Consistent(q)'
<1>1. TypeOK
  BY DEF IInv
<1>2. /\ UNCHANGED <<toCore, producer, cancelled, sent, handler, slot, buffer, got, eof>>
      /\ \/ UNCHANGED toNode
         \/ toNode' = Append(toNode, Failure)
         \/ toNode' = Append(toNode, Closed)
  BY DEF Finish, FinishStarts, FinishDeletes, FinishRemovesStreams, FinishReports,
         FinishCloses, LoopResumes, nodeVars, readerVars
<1>3. KeepsData(q) /\ KeepsFrame(Ask(q)) /\ KeepsFrame(Credit(q))
  BY <1>1, <1>2, DataKept, FrameKept, FramesTyped, FramesDiffer
<1>4. QED BY <1>2, <1>3, Undisturbed DEF AtNode

LEMMA CoreReceiveKeeps ==
    ASSUME IInv, CoreReceive
    PROVE  ~fatal' /\ \A q \in Streams : Consistent(q)'
<1> DEFINE m == Head(toCore)
<1>1. /\ TypeOK /\ ~fatal
      /\ toCore \in Seq(ToCore) /\ toCore # <<>> /\ toCore' = Tail(toCore)
      /\ UNCHANGED <<toNode, producer, cancelled, sent>>
  BY DEF IInv, TypeOK, CoreReceive, nodeVars
<1>2. m \in ToCore /\ \A q : ~IsData(m, q) => KeepsData(q)
  BY <1>1, DataTail, DataKept
<1>3. \A q : KeepsFrame(Ask(q)) /\ KeepsFrame(Credit(q))
  BY <1>1, FrameKept
<1>4. CASE m = Abort /\ LoopAborts
  <2>1. UNCHANGED <<handler, slot, buffer, got, eof, fatal>>
    BY <1>4 DEF LoopAborts, readerVars, coreVars
  <2>2. ASSUME NEW q \in Streams PROVE Consistent(q)'
    <3>1. KeepsData(q)
      BY <1>2, <1>4, FramesDiffer
    <3>2. QED BY <1>1, <1>3, <2>1, <3>1, Undisturbed DEF AtNode
  <2>3. QED BY <1>1, <2>1, <2>2
<1>5. CASE m # Abort /\ LoopDelivers(m)
  <2>0. PICK s \in Streams : s = m.stream
    BY <1>2, <1>5, ToCoreCases
  <2>1. m \in Data /\ IsData(m, s) /\ (\A q : q # s => ~IsData(m, q))
    BY <1>2, <1>5, <2>0, ToCoreCases DEF IsData
  <2>2. Consistent(s) /\ ~NoData(toCore, s) /\ slot[s] = Empty /\ buffer[s] = 0
    BY <1>1, <2>1, DataTail DEF IInv, Consistent, OneToken
  <2>3. /\ UNCHANGED <<handler, buffer, got, eof, fatal>>
        /\ UNCHANGED slot \/ slot' = [slot EXCEPT ![s] = m]
    BY <1>5, <2>0, <2>2 DEF LoopDelivers
  <2>4. ASSUME NEW q \in Streams, q # s PROVE Consistent(q)'
    <3>1. KeepsData(q) /\ slot'[q] = slot[q]
      BY <1>1, <1>2, <2>1, <2>3, <2>4 DEF TypeOK
    <3>2. QED BY <1>1, <1>3, <2>3, <2>4, <3>1, Undisturbed DEF AtNode
  <2>5. NoData(toCore', s) /\ OneData(toCore', s)
    BY <1>1, <2>1, <2>2, DataTail DEF Consistent, OneToken
  <2>6. AllFit(toCore', s, Len(got[s]), sent[s]) /\ Fits(m, Len(got[s]), sent[s])
    BY <1>1, <2>1, <2>2, DataTail DEF Consistent, InStep
  <2>7. slot'[s] \in {Empty, m} /\ ~AtNode(s) /\ ~AtNode(s)'
    BY <1>1, <2>1, <2>2, <2>3 DEF Consistent, OneToken, AtNode, TypeOK
  <2>8. NoFrame(toNode', Credit(s)) /\ OneFrame(toNode', Credit(s))
    BY <1>3, <2>2 DEF Consistent, OneToken, KeepsFrame
  <2> HIDE DEF m
  <2>9. OneToken(s)'
    BY <2>2, <2>3, <2>5, <2>7, <2>8 DEF OneToken
  <2>10. AskedOnce(s)'
    BY <1>1, <2>2, <2>3 DEF Consistent, AskedOnce
  <2>11. InStep(s)'
    BY <1>1, <2>2, <2>3, <2>6, <2>7, <2>8 DEF Consistent, InStep
  <2>12. QED BY <1>1, <2>3, <2>4, <2>9, <2>10, <2>11 DEF Consistent
<1>6. QED BY <1>4, <1>5 DEF CoreReceive

LEMMA ReadKeeps ==
    ASSUME IInv, NEW s \in Streams, NEW q \in Streams, ReadFrame(s)
    PROVE  Consistent(q)'
<1>1. TypeOK /\ Consistent(q) /\ slot[s] \in Data
  BY DEF IInv, ReadFrame, TypeOK
<1>2. /\ UNCHANGED <<toCore, toNode, producer, cancelled, sent, handler, got>>
      /\ slot[s] # Empty /\ buffer[s] = 0 /\ slot' = [slot EXCEPT ![s] = Empty]
  BY DEF ReadFrame, nodeVars
<1>3. KeepsData(q) /\ KeepsFrame(Ask(q)) /\ KeepsFrame(Credit(q))
  BY <1>1, <1>2, DataKept, FrameKept
<1>4. CASE q # s
  <2>1. slot'[q] = slot[q] /\ buffer'[q] = buffer[q] /\ eof'[q] = eof[q]
    BY <1>1, <1>2, <1>4 DEF ReadFrame, TypeOK
  <2>2. QED BY <1>1, <1>2, <1>3, <1>4, <2>1, Undisturbed DEF AtNode
<1>5. CASE q = s
  <2>1. /\ NoData(toCore, q) /\ NoFrame(toNode, Credit(q)) /\ ~AtNode(q)
        /\ Fits(slot[q], Len(got[q]), sent[q])
    BY <1>1, <1>2, <1>5 DEF Consistent, OneToken, InStep
  <2>2. slot'[q] = Empty
    BY <1>1, <1>2, <1>5 DEF TypeOK
  <2>3. CASE slot[q].type = "end"
    <3>1. buffer'[q] = 0 /\ Len(got[q]) = Chunks
      BY <1>2, <1>5, <2>1, <2>3 DEF ReadFrame, Fits
    <3>2. OneToken(q)'
      BY <1>1, <1>2, <1>3, <2>1, <2>2, <3>1 DEF Consistent, OneToken, KeepsData, KeepsFrame, AtNode
    <3>3. InStep(q)'
      BY <1>1, <1>2, <1>3, <2>1, <2>2, <3>1 DEF Consistent, InStep, KeepsData, KeepsFrame, AtNode
    <3>4. AskedOnce(q)'
      BY <1>1, <1>2, <1>3 DEF Consistent, AskedOnce, KeepsFrame
    <3>5. QED BY <3>2, <3>3, <3>4 DEF Consistent
  <2>4. CASE slot[q].type # "end"
    <3>1. /\ buffer'[q] = Len(got[q]) + 1 /\ Len(got[q]) < sent[q]
          /\ eof'[q] = eof[q]
      BY <1>1, <1>2, <1>5, <2>1, <2>4 DEF ReadFrame, Fits, TypeOK
    <3>2. OneToken(q)'
      BY <1>1, <1>2, <1>3, <2>1, <2>2, <3>1 DEF Consistent, OneToken, KeepsData, KeepsFrame, AtNode
    <3>3. InStep(q)'
      BY <1>1, <1>2, <1>3, <2>1, <2>2, <3>1 DEF Consistent, InStep, KeepsData, KeepsFrame, AtNode
    <3>4. AskedOnce(q)'
      BY <1>1, <1>2, <1>3 DEF Consistent, AskedOnce, KeepsFrame
    <3>5. QED BY <3>2, <3>3, <3>4 DEF Consistent
  <2>5. QED BY <2>3, <2>4
<1>6. QED BY <1>4, <1>5

\* The consumer gives the token back.
LEMMA ConsumeKeeps ==
    ASSUME IInv, NEW s \in Streams, NEW q \in Streams, ConsumeChunk(s)
    PROVE  Consistent(q)'
<1>1. TypeOK /\ Consistent(q) /\ toNode \in Seq(ToNode)
  BY DEF IInv, TypeOK
<1>2. /\ UNCHANGED <<toCore, producer, cancelled, sent, handler, slot, eof>>
      /\ toNode' = Append(toNode, Credit(s)) /\ buffer[s] # 0
      /\ buffer'[s] = 0 /\ got'[s] = Append(got[s], buffer[s])
      /\ q # s => buffer'[q] = buffer[q] /\ got'[q] = got[q]
  BY <1>1 DEF ConsumeChunk, nodeVars, TypeOK
<1>3. KeepsData(q) /\ KeepsFrame(Ask(q))
  BY <1>1, <1>2, DataKept, FrameKept, FramesTyped, FramesDiffer
<1>4. CASE q # s
  <2>1. KeepsFrame(Credit(q))
    BY <1>1, <1>2, <1>4, FrameKept, FramesTyped, FramesDiffer
  <2>2. QED BY <1>1, <1>2, <1>3, <1>4, <2>1, Undisturbed DEF AtNode
<1>5. CASE q = s
  <2>1. /\ NoData(toCore, q) /\ slot[q] = Empty /\ ~AtNode(q)
        /\ NoFrame(toNode, Credit(q)) /\ sent[q] = Len(got[q]) + 1
    BY <1>1, <1>2, <1>5 DEF Consistent, OneToken, InStep, TypeOK
  <2>2. Len(got'[q]) = Len(got[q]) + 1
    <3>1. got[q] \in Seq(1..Chunks) /\ buffer[q] \in 1..Chunks
      BY <1>1, <1>2, <1>5, ChunksAssumption DEF TypeOK
    <3>2. QED BY <1>2, <1>5, <3>1, AppendProperties
  <2>3. OneFrame(toNode', Credit(q))
    BY <1>1, <1>2, <1>5, <2>1, FrameAppend, FramesTyped DEF Consistent, OneToken
  <2>4. ~eof[q]
    BY <1>1, <2>1, ChunksAssumption DEF Consistent, InStep, TypeOK
  <2>5. OneToken(q)'
    BY <1>1, <1>2, <1>3, <1>5, <2>1, <2>3 DEF Consistent, OneToken, KeepsData, AtNode
  <2>6. InStep(q)'
    <3>1. AllFit(toCore', q, Len(got'[q]), sent'[q])
      BY <1>2, <2>1, NoDataFits
    <3>2. Len(got[q]) \in Nat
      BY <1>1, LenProperties DEF TypeOK
    <3>3. QED BY <1>2, <1>5, <2>1, <2>2, <2>4, <3>1, <3>2 DEF InStep
  <2>7. AskedOnce(q)'
    BY <1>1, <1>2, <1>3 DEF Consistent, AskedOnce, KeepsFrame
  <2>8. QED BY <2>5, <2>6, <2>7 DEF Consistent
<1>6. QED BY <1>4, <1>5

LEMMA IInvStep == IInv /\ [Next]_vars => IInv'
<1> SUFFICES ASSUME IInv, [Next]_vars PROVE IInv'
  OBVIOUS
<1>1. TypeOK'
  BY TypeStep DEF IInv
<1>2. CASE UNCHANGED vars
  BY <1>1, <1>2 DEF vars, IInv, Consistent, OneToken, AskedOnce, InStep, AtNode
<1>3. CASE CoreReceive
  BY <1>1, <1>3, CoreReceiveKeeps DEF IInv
<1>4. CASE Next /\ ~CoreReceive
  <2>1. ~fatal'
    <3>1. fatal' = fatal
      BY <1>4 DEF Next, Node, Core, NodeReceive, Decide, HandlerFails, StartPipe, SendChunk,
         Resume, SendEnd, PipeReturns, SourceFails, Finish, FinishStarts, FinishDeletes,
         FinishRemovesStreams, FinishReports, FinishCloses, LoopResumes, Register, SendAsk,
         ReadFrame, ConsumeChunk, coreVars
    <3>2. QED BY <3>1 DEF IInv
  <2>2. ASSUME NEW q \in Streams PROVE Consistent(q)'
    <3>1. CASE NodeReceive
      BY <3>1, NodeReceiveKeeps
    <3>2. CASE Finish \/ LoopResumes
      BY <3>2, FinishKeeps
    <3>3. ASSUME NEW s \in Streams,
                 \/ Decide(s) \/ HandlerFails(s) \/ StartPipe(s)
                 \/ Resume(s) \/ PipeReturns(s) \/ SourceFails(s)
          PROVE  Consistent(q)'
      BY <3>3, QuietPipeKeeps
    <3>4. ASSUME NEW s \in Streams, SendChunk(s) \/ SendEnd(s) PROVE Consistent(q)'
      BY <3>4, SendKeeps
    <3>5. ASSUME NEW s \in Streams, Register(s) \/ SendAsk(s) PROVE Consistent(q)'
      BY <3>5, AskKeeps
    <3>6. ASSUME NEW s \in Streams, ReadFrame(s) PROVE Consistent(q)'
      BY <3>6, ReadKeeps
    <3>7. ASSUME NEW s \in Streams, ConsumeChunk(s) PROVE Consistent(q)'
      BY <3>7, ConsumeKeeps
    <3>8. QED
      BY <1>4, <3>1, <3>2, <3>3, <3>4, <3>5, <3>6, <3>7 DEF Next, Node, Core
  <2>3. QED BY <1>1, <2>1, <2>2 DEF IInv
<1>5. QED BY <1>2, <1>3, <1>4

LEMMA Inductive == Spec => []IInv
BY IInvInit, IInvStep, PTL DEF Spec

-----------------------------------------------------------------------------
(* What the token argument gives. *)

\* However a cancellation, a failure or a disconnection races with the frames of
\* a body, Peer.Receive never finds the reader's channel full: the core does not
\* stop over a producer that exceeded its credit.
THEOREM NeverOverflows == Spec => []NoOverflow
<1>1. IInv => NoOverflow
  BY DEF IInv, NoOverflow
<1>2. QED BY <1>1, Inductive, PTL

\* One chunk per stream at most has been sent and not yet been read to its end.
THEOREM OneChunkAhead == Spec => []OneUnacknowledged
<1>1. IInv => OneUnacknowledged
  BY DEF IInv, Consistent, InStep, OneUnacknowledged
<1>2. QED BY <1>1, Inductive, PTL

LEMMA TransferStep == IInv /\ [Next]_vars => [Transfer!Next]_(Transfer!vars)
<1> SUFFICES ASSUME IInv, [Next]_vars PROVE Transfer!Next \/ UNCHANGED <<sent, got, eof>>
  BY DEF Transfer!vars
<1> USE DEF IInv
<1>1. ASSUME NEW s \in Streams, SendChunk(s) PROVE Transfer!Offer(s)
  <2>1. Consistent(s) /\ producer[s] = "reading"
    BY <1>1 DEF SendChunk
  <2>2. sent[s] = Len(got[s])
    BY <2>1 DEF Consistent, InStep, AtNode
  <2>3. QED BY <1>1, <2>2 DEF SendChunk, Transfer!Offer, coreVars
<1>2. ASSUME NEW s \in Streams, ConsumeChunk(s) PROVE Transfer!Take(s)
  <2>1. /\ Consistent(s) /\ buffer[s] # 0 /\ TypeOK
        /\ got' = [got EXCEPT ![s] = Append(got[s], buffer[s])] /\ UNCHANGED <<sent, eof>>
    BY <1>2 DEF ConsumeChunk, nodeVars
  <2>2. buffer[s] = Len(got[s]) + 1 /\ Len(got[s]) < sent[s]
    BY <2>1 DEF Consistent, InStep
  <2>3. ~eof[s]
    BY <2>1, <2>2, ChunksAssumption DEF Consistent, InStep, TypeOK
  <2>4. QED BY <2>1, <2>2, <2>3 DEF Transfer!Take
<1>3. ASSUME NEW s \in Streams, ReadFrame(s)
      PROVE  Transfer!Complete(s) \/ UNCHANGED <<sent, got, eof>>
  <2>1. Consistent(s) /\ slot[s] # Empty /\ ~eof[s] /\ UNCHANGED <<sent, got>>
    BY <1>3 DEF ReadFrame, nodeVars
  <2>2. CASE slot[s].type = "end"
    <3>1. Len(got[s]) = Chunks
      BY <2>1, <2>2 DEF Consistent, InStep, Fits
    <3>2. eof' = [eof EXCEPT ![s] = TRUE]
      BY <1>3, <2>2 DEF ReadFrame
    <3>3. QED BY <2>1, <3>1, <3>2 DEF Transfer!Complete
  <2>3. CASE slot[s].type # "end"
    BY <1>3, <2>1, <2>3 DEF ReadFrame
  <2>4. QED BY <2>2, <2>3
<1>4. \/ UNCHANGED <<sent, got, eof>>
      \/ \E s \in Streams : SendChunk(s) \/ ConsumeChunk(s) \/ ReadFrame(s)
  <2>1. CASE NodeReceive
    BY <2>1 DEF NodeReceive, NodeAsked, NodeCredited, Fail, NodeClosed, nodeVars, coreVars
  <2>2. CASE CoreReceive
    BY <2>2 DEF CoreReceive, LoopAborts, LoopDelivers, nodeVars, coreVars, readerVars
  <2>3. CASE Next /\ ~NodeReceive /\ ~CoreReceive
    BY <2>3 DEF Next, Node, Core, Decide, HandlerFails, StartPipe, Resume, SendEnd, PipeReturns,
       SourceFails, Fail, Finish, FinishStarts, FinishDeletes, FinishRemovesStreams,
       FinishReports, FinishCloses, LoopResumes, Register, SendAsk, nodeVars, readerVars, coreVars
  <2>4. CASE UNCHANGED vars
    BY <2>4 DEF vars
  <2>5. QED BY <2>1, <2>2, <2>3, <2>4
<1>5. QED BY <1>1, <1>2, <1>3, <1>4 DEF Transfer!Next

\* The frames, credits and readers of a session implement the abstract transfer of
\* each body: chunks arrive in order, and a body cut short by any cancellation or
\* failure is never seen to end.
THEOREM ImplementsBodyTransfer == Spec => ImplementsTransfer
<1>1. Init => Transfer!Init
  BY DEF Init, Transfer!Init
<1>2. QED
  BY <1>1, Inductive, TransferStep, PTL DEF Spec, ImplementsTransfer, Transfer!Spec
=============================================================================
