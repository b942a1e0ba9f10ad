--------------------------- MODULE SharedCoreProofs ---------------------------
(***************************************************************************)
(* Proofs about SharedCore, for any windows and any session ids: its type  *)
(* invariant, that a window only sees its own traffic, and that neither a  *)
(* core nor a listener is left without a window.                           *)
(*                                                                         *)
(* None of the last three is inductive by itself.  Each part of IInv says  *)
(* what another one needs: an answer belongs to the command the operation  *)
(* still awaits (Dialogue), hence what it tells of the inlet is so         *)
(* (InletsExplained), hence the target it removes has none.                *)
(***************************************************************************)
EXTENDS SharedCore, TLAPS

\* The process is there and was not told to stop.
Up == life = "up" /\ ~stopped

Starting == task \in {"adding", "retrying"}

\* At most one of the command, its answer and its outcome is there.
Dialogue ==
    /\ control \notin {"unsent", "rejected"}
    /\ command # NoCommand =>
          /\ control = "pending" /\ answer = "none" /\ command.window = actor
          /\ command.type = "add" <=> Starting
    /\ answer # "none" => control = "pending"

\* An inlet is that of a running window, or of the one that starts or stops.
Explained(w) ==
    \/ running[w]
    \/ w = actor /\ Starting /\ "ok" \in {answer, control}
    \/ w = actor /\ task = "removing" /\ command # NoCommand

InletsExplained == \A w \in inlets : w \in targets /\ Explained(w)

Wanted ==
    /\ task \in {"idle", "launching", "adding", "retrying", "removing"}
    /\ task # "launching" => inspector /\ targets # {}
    /\ Starting => actor \in targets

\* The window of an operation in progress is not running.
ActorStopped == task \in {"launching", "adding", "retrying", "removing"} => ~running[actor]

\* A session that was let through is bound to its window or to none.
WellBound ==
    \A i \in sessions \cup asked : owner[i] # NoWindow /\ bound[i] \in {NoWindow, owner[i]}

IInv ==
    /\ TypeOK
    /\ ActorStopped
    /\ WellBound
    /\ WindowsIsolated
    /\ Up => Dialogue /\ InletsExplained /\ Wanted

-----------------------------------------------------------------------------
\* Every step keeps the types.
LEMMA TypeStep == TypeOK /\ [Next]_vars => TypeOK'
<1> SUFFICES ASSUME TypeOK, [Next]_vars PROVE TypeOK'
  OBVIOUS
<1> USE NoWindowAssumption DEF TypeOK, NoCommand, NoCallback, Tasks, Outcomes, coreVars, pipeVars,
                               sessionVars
<1>1. ASSUME NEW w \in Windows, Launch(w) PROVE TypeOK'
  BY <1>1 DEF Launch
<1>2. ASSUME NEW w \in Windows, Join(w) PROVE TypeOK'
  BY <1>2 DEF Join, AddInlet, SendCommand
<1>3. ASSUME NEW w \in Windows, Leave(w) PROVE TypeOK'
  BY <1>3 DEF Leave, SendCommand
<1>4. ASSUME NEW w \in Windows, LeaveUnknown(w) PROVE TypeOK'
  BY <1>4 DEF LeaveUnknown
<1>5. CASE Close
  BY ZenonT(40), <1>5 DEF Close, Forget, Unbind, StopInspector
<1>6. CASE Launched
  BY <1>6 DEF Launched, AddInlet, SendCommand
<1>7. CASE LaunchTimesOut
  BY <1>7 DEF LaunchTimesOut, Ends, StopInspector
<1>8. CASE Added
  BY <1>8 DEF Added, Ends
<1>9. CASE AddAnew
  BY <1>9 DEF AddAnew, SendCommand
<1>10. CASE UndoAdd
  BY <1>10 DEF UndoAdd, AddFailed, Ends, StopInspector
<1>11. CASE Removed
  BY <1>11 DEF Removed, Unbind, Ends, StopInspector
<1>12. CASE RemoveFailed
  BY <1>12 DEF RemoveFailed, Ends
<1>13. CASE StopReturns
  BY <1>13 DEF StopReturns, Ends
<1>14. CASE Closed
  BY <1>14 DEF Closed, Forget, Unbind
<1>15. CASE CoreAnswers
  BY <1>15 DEF CoreAnswers
<1>16. CASE AnswerArrives
  BY <1>16 DEF AnswerArrives
<1>17. CASE ControlTimesOut
  BY <1>17 DEF ControlTimesOut, StopInspector
<1>18. CASE CoreDies
  BY <1>18 DEF CoreDies
<1>19. CASE ExitHandled
  <2>1. CASE stopped
    BY <1>19, <2>1 DEF ExitHandled, Ends
  <2>2. CASE ~stopped
    <3>1. TellWindows
      BY <1>19, <2>2 DEF ExitHandled
    <3>2. /\ bound' \in [Ids -> Windows \cup {NoWindow}]
          /\ targets' \subseteq Windows
          /\ inspector' \in BOOLEAN
      BY <3>1 DEF TellWindows, Unbind
    <3>3. running' \in [Windows -> BOOLEAN]
      BY <3>1, Zenon DEF TellWindows
    <3>4. QED BY <1>19, <3>2, <3>3 DEF ExitHandled, Ends
  <2>3. QED BY <2>1, <2>2
<1>20. CASE PipeBreaks
  BY ZenonT(40), <1>20 DEF PipeBreaks, TellWindows, Unbind, StopInspector, Settled
<1>21. ASSUME NEW w \in Windows, Accept(w) PROVE TypeOK'
  BY <1>21 DEF Accept
<1>22. ASSUME NEW i \in Ids, RequestArrives(i) PROVE TypeOK'
  BY <1>22 DEF RequestArrives, Frame, MayBind, Tell
<1>23. ASSUME NEW i \in Ids, CallsBack(i) PROVE TypeOK'
  BY <1>23 DEF CallsBack, Tell
<1>24. ASSUME NEW i \in Ids, ClosedArrives(i) PROVE TypeOK'
  BY <1>24 DEF ClosedArrives, Frame, Tell
<1>25. CASE UNCHANGED vars
  BY <1>25 DEF vars, coreVars, pipeVars, sessionVars
<1>26. QED
  BY <1>1, <1>2, <1>3, <1>4, <1>5, <1>6, <1>7, <1>8, <1>9, <1>10, <1>11, <1>12,
     <1>13, <1>14, <1>15, <1>16, <1>17, <1>18, <1>19, <1>20, <1>21, <1>22,
     <1>23, <1>24, <1>25
  DEF Next, Client, Continue

\* A window starts only when it is not running, and stops running before its inlet goes.
LEMMA ActorStoppedStep == IInv /\ [Next]_vars => ActorStopped'
<1> SUFFICES ASSUME IInv, [Next]_vars PROVE ActorStopped'
  OBVIOUS
<1> USE NoWindowAssumption DEF IInv, TypeOK, ActorStopped, NoCommand, NoCallback, coreVars,
                               pipeVars, sessionVars
<1>1. ASSUME NEW w \in Windows, Launch(w) PROVE ActorStopped'
  BY <1>1 DEF Launch
<1>2. ASSUME NEW w \in Windows, Join(w) PROVE ActorStopped'
  BY <1>2 DEF Join, AddInlet, SendCommand
<1>3. ASSUME NEW w \in Windows, Leave(w) PROVE ActorStopped'
  BY <1>3 DEF Leave, SendCommand
<1>4. ASSUME NEW w \in Windows, LeaveUnknown(w) PROVE ActorStopped'
  BY <1>4 DEF LeaveUnknown
<1>5. CASE Close
  BY <1>5 DEF Close, Forget, Unbind, StopInspector
<1>6. CASE Launched
  BY <1>6 DEF Launched, AddInlet, SendCommand
<1>7. CASE LaunchTimesOut
  BY <1>7 DEF LaunchTimesOut, Ends, StopInspector
<1>8. CASE Added
  BY <1>8 DEF Added, Ends
<1>9. CASE AddAnew
  BY <1>9 DEF AddAnew, SendCommand
<1>10. CASE UndoAdd
  BY <1>10 DEF UndoAdd, AddFailed, Ends, StopInspector
<1>11. CASE Removed
  BY <1>11 DEF Removed, Unbind, Ends, StopInspector
<1>12. CASE RemoveFailed
  BY <1>12 DEF RemoveFailed, Ends
<1>13. CASE StopReturns
  BY <1>13 DEF StopReturns, Ends
<1>14. CASE Closed
  BY <1>14 DEF Closed, Forget, Unbind
<1>15. CASE CoreAnswers
  BY <1>15 DEF CoreAnswers
<1>16. CASE AnswerArrives
  BY <1>16 DEF AnswerArrives
<1>17. CASE ControlTimesOut
  BY <1>17 DEF ControlTimesOut, StopInspector
<1>18. CASE CoreDies
  BY <1>18 DEF CoreDies
<1>19. CASE ExitHandled
  BY <1>19 DEF ExitHandled, TellWindows, Unbind, Ends
<1>20. CASE PipeBreaks
  BY <1>20 DEF PipeBreaks, TellWindows, Unbind, StopInspector, Settled
<1>21. ASSUME NEW w \in Windows, Accept(w) PROVE ActorStopped'
  BY <1>21 DEF Accept
<1>22. ASSUME NEW i \in Ids, RequestArrives(i) PROVE ActorStopped'
  BY <1>22 DEF RequestArrives, Frame, MayBind, Tell
<1>23. ASSUME NEW i \in Ids, CallsBack(i) PROVE ActorStopped'
  BY <1>23 DEF CallsBack, Tell
<1>24. ASSUME NEW i \in Ids, ClosedArrives(i) PROVE ActorStopped'
  BY <1>24 DEF ClosedArrives, Frame, Tell
<1>25. CASE UNCHANGED vars
  BY <1>25 DEF vars, coreVars, pipeVars, sessionVars
<1>26. QED
  BY <1>1, <1>2, <1>3, <1>4, <1>5, <1>6, <1>7, <1>8, <1>9, <1>10, <1>11, <1>12,
     <1>13, <1>14, <1>15, <1>16, <1>17, <1>18, <1>19, <1>20, <1>21, <1>22,
     <1>23, <1>24, <1>25
  DEF Next, Client, Continue

\* A binding that lets a session through is its own, and only a stop or an exit drops it.
LEMMA BoundStep == IInv /\ [Next]_vars => (WellBound /\ WindowsIsolated)'
<1> SUFFICES ASSUME IInv, [Next]_vars PROVE (WellBound /\ WindowsIsolated)'
  OBVIOUS
<1> USE NoWindowAssumption DEF IInv, TypeOK, WellBound, WindowsIsolated, NoCommand,
                               NoCallback, coreVars, pipeVars, sessionVars
<1>1. ASSUME NEW w \in Windows, Launch(w) PROVE (WellBound /\ WindowsIsolated)'
  BY <1>1 DEF Launch
<1>2. ASSUME NEW w \in Windows, Join(w) PROVE (WellBound /\ WindowsIsolated)'
  BY <1>2 DEF Join, AddInlet, SendCommand
<1>3. ASSUME NEW w \in Windows, Leave(w) PROVE (WellBound /\ WindowsIsolated)'
  BY <1>3 DEF Leave, SendCommand
<1>4. ASSUME NEW w \in Windows, LeaveUnknown(w) PROVE (WellBound /\ WindowsIsolated)'
  BY <1>4 DEF LeaveUnknown
<1>5. CASE Close
  BY <1>5 DEF Close, Forget, Unbind, StopInspector
<1>6. CASE Launched
  BY <1>6 DEF Launched, AddInlet, SendCommand
<1>7. CASE LaunchTimesOut
  BY <1>7 DEF LaunchTimesOut, Ends, StopInspector
<1>8. CASE Added
  BY <1>8 DEF Added, Ends
<1>9. CASE AddAnew
  BY <1>9 DEF AddAnew, SendCommand
<1>10. CASE UndoAdd
  BY <1>10 DEF UndoAdd, AddFailed, Ends, StopInspector
<1>11. CASE Removed
  BY <1>11 DEF Removed, Unbind, Ends, StopInspector
<1>12. CASE RemoveFailed
  BY <1>12 DEF RemoveFailed, Ends
<1>13. CASE StopReturns
  BY <1>13 DEF StopReturns, Ends
<1>14. CASE Closed
  BY <1>14 DEF Closed, Forget, Unbind
<1>15. CASE CoreAnswers
  BY <1>15 DEF CoreAnswers
<1>16. CASE AnswerArrives
  BY <1>16 DEF AnswerArrives
<1>17. CASE ControlTimesOut
  BY <1>17 DEF ControlTimesOut, StopInspector
<1>18. CASE CoreDies
  BY <1>18 DEF CoreDies
<1>19. CASE ExitHandled
  BY <1>19 DEF ExitHandled, TellWindows, Unbind, Ends
<1>20. CASE PipeBreaks
  BY <1>20 DEF PipeBreaks, TellWindows, Unbind, StopInspector, Settled
<1>21. ASSUME NEW w \in Windows, Accept(w) PROVE (WellBound /\ WindowsIsolated)'
  BY <1>21 DEF Accept
<1>22. ASSUME NEW i \in Ids, RequestArrives(i) PROVE (WellBound /\ WindowsIsolated)'
  BY <1>22 DEF RequestArrives, Frame, MayBind, Tell
<1>23. ASSUME NEW i \in Ids, CallsBack(i) PROVE (WellBound /\ WindowsIsolated)'
  BY <1>23 DEF CallsBack, Tell
<1>24. ASSUME NEW i \in Ids, ClosedArrives(i) PROVE (WellBound /\ WindowsIsolated)'
  BY <1>24 DEF ClosedArrives, Frame, Tell
<1>25. CASE UNCHANGED vars
  BY <1>25 DEF vars, coreVars, pipeVars, sessionVars
<1>26. QED
  BY <1>1, <1>2, <1>3, <1>4, <1>5, <1>6, <1>7, <1>8, <1>9, <1>10, <1>11, <1>12,
     <1>13, <1>14, <1>15, <1>16, <1>17, <1>18, <1>19, <1>20, <1>21, <1>22,
     <1>23, <1>24, <1>25
  DEF Next, Client, Continue

\* An unanswered command stops the inspector, so an answer is to the last command sent.
LEMMA DialogueStep == IInv /\ [Next]_vars => (Up => Dialogue)'
<1> SUFFICES ASSUME IInv, [Next]_vars PROVE (Up => Dialogue)'
  OBVIOUS
<1> USE NoWindowAssumption DEF IInv, TypeOK, Up, Dialogue, Wanted, Starting, Outcomes,
                               NoCommand, NoCallback, coreVars, pipeVars, sessionVars
<1>1. ASSUME NEW w \in Windows, Launch(w) PROVE (Up => Dialogue)'
  BY <1>1 DEF Launch
<1>2. ASSUME NEW w \in Windows, Join(w) PROVE (Up => Dialogue)'
  BY <1>2 DEF Join, AddInlet, SendCommand
<1>3. ASSUME NEW w \in Windows, Leave(w) PROVE (Up => Dialogue)'
  BY <1>3 DEF Leave, SendCommand
<1>4. ASSUME NEW w \in Windows, LeaveUnknown(w) PROVE (Up => Dialogue)'
  BY <1>4 DEF LeaveUnknown
<1>5. CASE Close
  BY <1>5 DEF Close, Forget, Unbind, StopInspector
<1>6. CASE Launched
  BY <1>6 DEF Launched, AddInlet, SendCommand
<1>7. CASE LaunchTimesOut
  BY <1>7 DEF LaunchTimesOut, Ends, StopInspector
<1>8. CASE Added
  BY <1>8 DEF Added, Ends
<1>9. CASE AddAnew
  BY <1>9 DEF AddAnew, SendCommand
<1>10. CASE UndoAdd
  BY <1>10 DEF UndoAdd, AddFailed, Ends, StopInspector
<1>11. CASE Removed
  BY <1>11 DEF Removed, Unbind, Ends, StopInspector
<1>12. CASE RemoveFailed
  BY <1>12 DEF RemoveFailed, Ends
<1>13. CASE StopReturns
  BY <1>13 DEF StopReturns, Ends
<1>14. CASE Closed
  BY <1>14 DEF Closed, Forget, Unbind
<1>15. CASE CoreAnswers
  BY <1>15 DEF CoreAnswers
<1>16. CASE AnswerArrives
  BY <1>16 DEF AnswerArrives
<1>17. CASE ControlTimesOut
  BY <1>17 DEF ControlTimesOut, StopInspector
<1>18. CASE CoreDies
  BY <1>18 DEF CoreDies
<1>19. CASE ExitHandled
  BY <1>19 DEF ExitHandled, TellWindows, Unbind, Ends
<1>20. CASE PipeBreaks
  BY <1>20 DEF PipeBreaks, TellWindows, Unbind, StopInspector, Settled
<1>21. ASSUME NEW w \in Windows, Accept(w) PROVE (Up => Dialogue)'
  BY <1>21 DEF Accept
<1>22. ASSUME NEW i \in Ids, RequestArrives(i) PROVE (Up => Dialogue)'
  BY <1>22 DEF RequestArrives, Frame, MayBind, Tell
<1>23. ASSUME NEW i \in Ids, CallsBack(i) PROVE (Up => Dialogue)'
  BY <1>23 DEF CallsBack, Tell
<1>24. ASSUME NEW i \in Ids, ClosedArrives(i) PROVE (Up => Dialogue)'
  BY <1>24 DEF ClosedArrives, Frame, Tell
<1>25. CASE UNCHANGED vars
  BY <1>25 DEF vars, coreVars, pipeVars, sessionVars
<1>26. QED
  BY <1>1, <1>2, <1>3, <1>4, <1>5, <1>6, <1>7, <1>8, <1>9, <1>10, <1>11, <1>12,
     <1>13, <1>14, <1>15, <1>16, <1>17, <1>18, <1>19, <1>20, <1>21, <1>22,
     <1>23, <1>24, <1>25
  DEF Next, Client, Continue

\* An inlet appears with an accepted add, and is gone with any answer to its removal.
LEMMA InletsStep == IInv /\ [Next]_vars => (Up => InletsExplained)'
<1> SUFFICES ASSUME IInv, [Next]_vars PROVE (Up => InletsExplained)'
  OBVIOUS
<1> USE NoWindowAssumption DEF IInv, TypeOK, ActorStopped, Up, Dialogue, InletsExplained,
                               Explained, Starting, Outcomes, NoCommand, NoCallback,
                               coreVars, pipeVars, sessionVars
<1>1. ASSUME NEW w \in Windows, Launch(w) PROVE (Up => InletsExplained)'
  BY <1>1 DEF Launch
<1>2. ASSUME NEW w \in Windows, Join(w) PROVE (Up => InletsExplained)'
  BY <1>2 DEF Join, AddInlet, SendCommand
<1>3. ASSUME NEW w \in Windows, Leave(w) PROVE (Up => InletsExplained)'
  BY <1>3 DEF Leave, SendCommand
<1>4. ASSUME NEW w \in Windows, LeaveUnknown(w) PROVE (Up => InletsExplained)'
  BY <1>4 DEF LeaveUnknown
<1>5. CASE Close
  BY <1>5 DEF Close, Forget, Unbind, StopInspector, Wanted
<1>6. CASE Launched
  BY <1>6 DEF Launched, AddInlet, SendCommand
<1>7. CASE LaunchTimesOut
  BY <1>7 DEF LaunchTimesOut, Ends, StopInspector
<1>8. CASE Added
  BY <1>8 DEF Added, Ends
<1>9. CASE AddAnew
  BY <1>9 DEF AddAnew, SendCommand
<1>10. CASE UndoAdd
  BY <1>10 DEF UndoAdd, AddFailed, Ends, StopInspector
<1>11. CASE Removed
  BY <1>11 DEF Removed, Unbind, Ends, StopInspector
<1>12. CASE RemoveFailed
  BY <1>12 DEF RemoveFailed, Ends
<1>13. CASE StopReturns
  BY <1>13 DEF StopReturns, Ends
<1>14. CASE Closed
  BY <1>14 DEF Closed, Forget, Unbind
<1>15. CASE CoreAnswers
  <2>. SUFFICES ASSUME Up PROVE InletsExplained'
    BY <1>15 DEF CoreAnswers
  <2> DEFINE v == command.window
  <2>1. command # NoCommand /\ v = actor /\ (command.type = "add" <=> Starting)
    BY <1>15 DEF CoreAnswers
  <2>2. CASE command.type = "add" /\ inlets' = inlets \cup {v} /\ answer' = "ok"
    BY <1>15, <2>1, <2>2 DEF CoreAnswers, Wanted
  <2>3. CASE command.type = "add" /\ UNCHANGED inlets
    BY <1>15, <2>1, <2>3 DEF CoreAnswers
  <2>4. CASE command.type = "remove" /\ inlets' = inlets \ {v}
    BY <1>15, <2>1, <2>4 DEF CoreAnswers
  <2>5. QED BY <1>15, <2>2, <2>3, <2>4 DEF CoreAnswers
<1>16. CASE AnswerArrives
  BY <1>16 DEF AnswerArrives
<1>17. CASE ControlTimesOut
  BY <1>17 DEF ControlTimesOut, StopInspector
<1>18. CASE CoreDies
  BY <1>18 DEF CoreDies
<1>19. CASE ExitHandled
  BY <1>19 DEF ExitHandled, TellWindows, Unbind, Ends
<1>20. CASE PipeBreaks
  BY <1>20 DEF PipeBreaks, TellWindows, Unbind, StopInspector, Settled
<1>21. ASSUME NEW w \in Windows, Accept(w) PROVE (Up => InletsExplained)'
  BY <1>21 DEF Accept
<1>22. ASSUME NEW i \in Ids, RequestArrives(i) PROVE (Up => InletsExplained)'
  BY <1>22 DEF RequestArrives, Frame, MayBind, Tell
<1>23. ASSUME NEW i \in Ids, CallsBack(i) PROVE (Up => InletsExplained)'
  BY <1>23 DEF CallsBack, Tell
<1>24. ASSUME NEW i \in Ids, ClosedArrives(i) PROVE (Up => InletsExplained)'
  BY <1>24 DEF ClosedArrives, Frame, Tell
<1>25. CASE UNCHANGED vars
  BY <1>25 DEF vars, coreVars, pipeVars, sessionVars
<1>26. QED
  BY <1>1, <1>2, <1>3, <1>4, <1>5, <1>6, <1>7, <1>8, <1>9, <1>10, <1>11, <1>12,
     <1>13, <1>14, <1>15, <1>16, <1>17, <1>18, <1>19, <1>20, <1>21, <1>22,
     <1>23, <1>24, <1>25
  DEF Next, Client, Continue

\* The operation that takes the last target away stops the inspector.
LEMMA WantedStep == IInv /\ [Next]_vars => (Up => Wanted)'
<1> SUFFICES ASSUME IInv, [Next]_vars PROVE (Up => Wanted)'
  OBVIOUS
<1> USE NoWindowAssumption DEF IInv, TypeOK, Up, Wanted, Dialogue, Starting, NoCommand,
                               NoCallback, coreVars, pipeVars, sessionVars
<1>1. ASSUME NEW w \in Windows, Launch(w) PROVE (Up => Wanted)'
  BY <1>1 DEF Launch
<1>2. ASSUME NEW w \in Windows, Join(w) PROVE (Up => Wanted)'
  BY <1>2 DEF Join, AddInlet, SendCommand
<1>3. ASSUME NEW w \in Windows, Leave(w) PROVE (Up => Wanted)'
  BY <1>3 DEF Leave, SendCommand
<1>4. ASSUME NEW w \in Windows, LeaveUnknown(w) PROVE (Up => Wanted)'
  BY <1>4 DEF LeaveUnknown
<1>5. CASE Close
  BY <1>5 DEF Close, Forget, Unbind, StopInspector
<1>6. CASE Launched
  BY <1>6 DEF Launched, AddInlet, SendCommand
<1>7. CASE LaunchTimesOut
  BY <1>7 DEF LaunchTimesOut, Ends, StopInspector
<1>8. CASE Added
  BY <1>8 DEF Added, Ends
<1>9. CASE AddAnew
  BY <1>9 DEF AddAnew, SendCommand
<1>10. CASE UndoAdd
  BY <1>10 DEF UndoAdd, AddFailed, Ends, StopInspector
<1>11. CASE Removed
  BY <1>11 DEF Removed, Unbind, Ends, StopInspector
<1>12. CASE RemoveFailed
  BY <1>12 DEF RemoveFailed, Ends
<1>13. CASE StopReturns
  BY <1>13 DEF StopReturns, Ends
<1>14. CASE Closed
  BY <1>14 DEF Closed, Forget, Unbind
<1>15. CASE CoreAnswers
  BY <1>15 DEF CoreAnswers
<1>16. CASE AnswerArrives
  BY <1>16 DEF AnswerArrives
<1>17. CASE ControlTimesOut
  BY <1>17 DEF ControlTimesOut, StopInspector
<1>18. CASE CoreDies
  BY <1>18 DEF CoreDies
<1>19. CASE ExitHandled
  BY <1>19 DEF ExitHandled, TellWindows, Unbind, Ends
<1>20. CASE PipeBreaks
  BY <1>20 DEF PipeBreaks, TellWindows, Unbind, StopInspector, Settled
<1>21. ASSUME NEW w \in Windows, Accept(w) PROVE (Up => Wanted)'
  BY <1>21 DEF Accept
<1>22. ASSUME NEW i \in Ids, RequestArrives(i) PROVE (Up => Wanted)'
  BY <1>22 DEF RequestArrives, Frame, MayBind, Tell
<1>23. ASSUME NEW i \in Ids, CallsBack(i) PROVE (Up => Wanted)'
  BY <1>23 DEF CallsBack, Tell
<1>24. ASSUME NEW i \in Ids, ClosedArrives(i) PROVE (Up => Wanted)'
  BY <1>24 DEF ClosedArrives, Frame, Tell
<1>25. CASE UNCHANGED vars
  BY <1>25 DEF vars, coreVars, pipeVars, sessionVars
<1>26. QED
  BY <1>1, <1>2, <1>3, <1>4, <1>5, <1>6, <1>7, <1>8, <1>9, <1>10, <1>11, <1>12,
     <1>13, <1>14, <1>15, <1>16, <1>17, <1>18, <1>19, <1>20, <1>21, <1>22,
     <1>23, <1>24, <1>25
  DEF Next, Client, Continue

-----------------------------------------------------------------------------
\* The strengthening all the theorems below follow from.
THEOREM InductiveInvariant == Spec => []IInv
<1>1. Init => IInv
  BY NoWindowAssumption DEF Init, IInv, TypeOK, ActorStopped, WellBound, WindowsIsolated, Up,
     Tasks, Outcomes, NoCommand, NoCallback
<1>2. IInv /\ [Next]_vars => IInv'
  BY TypeStep, ActorStoppedStep, BoundStep, DialogueStep, InletsStep, WantedStep DEF IInv
<1>3. QED BY <1>1, <1>2, PTL DEF Spec

\* Every variable of the shared core has its type in every reachable state.
THEOREM TypeCorrect == Spec => []TypeOK
<1>1. IInv => TypeOK
  BY DEF IInv
<1>2. QED BY <1>1, InductiveInvariant, PTL

\* However many windows share a core, and however their starts and stops race with
\* late answers, time-outs and exits of the core, a callback reaches the engine of
\* the window whose inlet accepted its session (SharedCore.bindSession).
THEOREM Isolation == Spec => []WindowsIsolated
<1>1. IInv => WindowsIsolated
  BY DEF IInv
<1>2. QED BY <1>1, InductiveInvariant, PTL

\* A core that was not told to stop never listens for a window the agent dropped:
\* an inlet command that is not answered in time stops the core (Inspector.inlet).
THEOREM NoUnownedInlet == Spec => []OwnedInlets
<1>1. IInv => OwnedInlets
  BY DEF IInv, OwnedInlets, Up, InletsExplained
<1>2. QED BY <1>1, InductiveInvariant, PTL

\* No operation, failed ones included, leaves a core behind that no window uses
\* (SharedCore.start and stop, Inspector.start).
THEOREM CoreIsWanted == Spec => []NoStrayCore
<1>1. IInv => NoStrayCore
  BY DEF IInv, NoStrayCore, Up, Wanted
<1>2. QED BY <1>1, InductiveInvariant, PTL
=============================================================================
