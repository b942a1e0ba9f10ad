------------------------------ MODULE SharedCore ------------------------------
(***************************************************************************)
(* The windows that share one capture core: the queue of operations of     *)
(* agent/sharedCore.ts, the inlet commands and the child process of        *)
(* core/inspector.ts, the control loop of engine/runtime.go, and the       *)
(* sessions whose callbacks are handed to the window they belong to.       *)
(*                                                                         *)
(* Operations run one after the other.  While one awaits an inlet command, *)
(* the start or the exit of the process, frames of the core, timers and    *)
(* the exit of the core are handled.  A command that is settled continues  *)
(* its operation in a microtask: only frames of the same read precede it.  *)
(*                                                                         *)
(* Only the process last launched has state here: another is launched only *)
(* once the agent gave the last one up, and whatever is left of that one   *)
(* has no inlet commands to answer and no inlet to accept connections.     *)
(***************************************************************************)
EXTENDS FiniteSets

CONSTANTS
    Windows,   \* the windows, each with an Engine of its own
    Ids,       \* the session ids one core process gets to use
    NoWindow

ASSUME NoWindowAssumption == NoWindow \notin Windows

VARIABLES
    task,      \* what the operation at the head of the queue awaits, or idle
    actor,     \* the window it is for
    inspector, \* SharedCore.inspector is set (to the process last launched)
    targets,   \* the windows in SharedCore.targets
    bound,     \* SharedCore.requests: the window of a session id
    running,   \* Engine.running
    life,      \* of the process: none, up, dead, reaped (its exit was handled)
    stopped,   \* Inspector.stopping is set: the child is let go and killed
    control,   \* the inlet command the operation awaits
    sessions,  \* Inspector.sessions
    inlets,    \* the windows whose inlet the core listens on
    command,   \* the inlet command on its way to the core
    answer,    \* the answer on its way back
    owner,     \* the window whose inlet accepted a session of this process
    due,       \* the frames of a session that are still to arrive
    asked,     \* sessions whose request the agent answered
    told       \* the callback being made: the window's engine and the session

coreVars == <<inlets, owner>>
pipeVars == <<command, answer>>
sessionVars == <<due, asked>>
vars == <<task, actor, inspector, targets, bound, running, life, stopped, control,
          sessions, told, coreVars, pipeVars, sessionVars>>

NoCommand == [type |-> "none", window |-> NoWindow]
NoCallback == [window |-> NoWindow, id |-> NoWindow]

Init ==
    /\ task = "idle" /\ actor = NoWindow
    /\ inspector = FALSE /\ targets = {}
    /\ bound = [i \in Ids |-> NoWindow]
    /\ running = [w \in Windows |-> FALSE]
    /\ life = "none" /\ stopped = FALSE
    /\ control = "none" /\ sessions = {}
    /\ inlets = {} /\ command = NoCommand /\ answer = "none"
    /\ owner = [i \in Ids |-> NoWindow]
    /\ due = [i \in Ids |-> {}]
    /\ asked = {}
    /\ told = NoCallback

\* A command whose promise is settled: its continuation is the next microtask.
Settled == control \in {"ok", "busy", "error", "rejected"}

Unbind(W) == bound' = [i \in Ids |-> IF bound[i] \in W THEN NoWindow ELSE bound[i]]

\* Inspector.stop: the child is let go of, so its exit tells nobody.
StopInspector ==
    /\ stopped' = TRUE
    /\ sessions' = IF stopped THEN sessions ELSE {}

\* Inspector.inlet: the frame is only written while the pipe is writable.
SendCommand(type, w) ==
    /\ IF stopped
       THEN control' = "unsent" /\ UNCHANGED command
       ELSE control' = "pending" /\ command' = [type |-> type, window |-> w]
    /\ UNCHANGED answer

\* The operation is over: the next one may run.
Ends == task' = "idle" /\ actor' = NoWindow

-----------------------------------------------------------------------------
(* SharedCore.start, called by Engine.start. *)

\* The first window: a process of its own, with nothing of an earlier one.
Launch(w) ==
    /\ task = "idle" /\ ~running[w] /\ ~inspector
    /\ task' = "launching" /\ actor' = w
    /\ life' = "up" /\ stopped' = FALSE /\ sessions' = {}
    /\ inlets' = {} /\ command' = NoCommand /\ answer' = "none"
    /\ owner' = [i \in Ids |-> NoWindow] /\ due' = [i \in Ids |-> {}] /\ asked' = {}
    /\ told' = NoCallback
    /\ UNCHANGED <<inspector, targets, bound, running, control>>

\* The core is there: the target is added before its inlet.
AddInlet(w) ==
    /\ task' = "adding" /\ actor' = w
    /\ targets' = targets \cup {w}
    /\ SendCommand("add", w)
    /\ UNCHANGED <<bound, running, life, stopped, sessions, coreVars, sessionVars>>

\* The process reported itself and its control loop ready.
Launched ==
    /\ task = "launching"
    /\ inspector' = TRUE
    /\ AddInlet(actor)
    /\ told' = NoCallback

\* As a plausible slip would have it: the child is left to itself.
LaunchTimesOutLeft ==
    /\ task = "launching"
    /\ Ends
    /\ told' = NoCallback
    /\ UNCHANGED <<inspector, targets, bound, running, life, stopped, control, sessions,
                   coreVars, pipeVars, sessionVars>>

\* The child does not come up in time.  (An exit before it is up: ExitHandled.)
LaunchTimesOut ==
    /\ task = "launching"
    /\ Ends
    /\ StopInspector
    /\ told' = NoCallback
    /\ UNCHANGED <<inspector, targets, bound, running, life, control, coreVars, pipeVars, sessionVars>>

\* A further window.
Join(w) ==
    /\ task = "idle" /\ ~running[w] /\ inspector
    /\ AddInlet(w)
    /\ told' = NoCallback
    /\ UNCHANGED inspector

\* The port is set, and Engine.listen marks the capture as running.
Added ==
    /\ task \in {"adding", "retrying"} /\ control = "ok"
    /\ Ends /\ control' = "none"
    /\ running' = [running EXCEPT ![actor] = TRUE]
    /\ told' = NoCallback
    /\ UNCHANGED <<inspector, targets, bound, life, stopped, sessions, coreVars, pipeVars, sessionVars>>

\* The preferred port is taken: any free one will do.
AddAnew ==
    /\ task = "adding" /\ control = "busy" /\ inspector
    /\ task' = "retrying"
    /\ SendCommand("add", actor)
    /\ told' = NoCallback
    /\ UNCHANGED <<actor, inspector, targets, bound, running, life, stopped, sessions, coreVars, sessionVars>>

\* There is no fallback from the second try, nor without an inspector.
AddFailed ==
    \/ control \in {"error", "rejected"}
    \/ control = "busy" /\ (task = "retrying" \/ ~inspector)

\* The window that did not start was the only one: the inspector is stopped too.
\* If its exit was handled meanwhile, that fails and the start ends all the same.
UndoAdd ==
    /\ task \in {"adding", "retrying"} /\ AddFailed
    /\ control' = "none"
    /\ targets' = targets \ {actor}
    /\ IF targets' = {} /\ inspector
       THEN task' = "undoing" /\ StopInspector /\ UNCHANGED actor
       ELSE Ends /\ UNCHANGED <<stopped, sessions>>
    /\ told' = NoCallback
    /\ UNCHANGED <<inspector, bound, running, life, coreVars, pipeVars, sessionVars>>

-----------------------------------------------------------------------------
(* SharedCore.stop, called by Engine.stop, and SharedCore.close. *)

\* A window that is not a target has nothing to stop.
Leave(w) ==
    /\ task = "idle" /\ w \in targets
    /\ running' = [running EXCEPT ![w] = FALSE]
    /\ task' = "removing" /\ actor' = w
    /\ SendCommand("remove", w)
    /\ told' = NoCallback
    /\ UNCHANGED <<inspector, targets, bound, life, stopped, sessions, coreVars, sessionVars>>

\* It may be one the exit of the core made the agent forget.
LeaveUnknown(w) ==
    /\ task = "idle" /\ running[w] /\ w \notin targets
    /\ running' = [running EXCEPT ![w] = FALSE]
    /\ told' = NoCallback
    /\ UNCHANGED <<task, actor, inspector, targets, bound, life, stopped, control, sessions,
                   coreVars, pipeVars, sessionVars>>

\* The bindings go after the inlet; the last window takes the core with it.
Removed ==
    /\ task = "removing" /\ control = "ok"
    /\ control' = "none"
    /\ targets' = targets \ {actor}
    /\ Unbind({actor})
    /\ IF targets' = {}
       THEN /\ inspector' = FALSE
            /\ IF inspector
               THEN task' = "stopping" /\ StopInspector /\ UNCHANGED actor
               ELSE Ends /\ UNCHANGED <<stopped, sessions>>
       ELSE Ends /\ UNCHANGED <<inspector, stopped, sessions>>
    /\ told' = NoCallback
    /\ UNCHANGED <<running, life, coreVars, pipeVars, sessionVars>>

\* As a plausible slip would have it: the failed command is not forgotten.
RemoveFailedKept ==
    /\ task = "removing" /\ control \in {"error", "rejected"}
    /\ Ends
    /\ told' = NoCallback
    /\ UNCHANGED <<inspector, targets, bound, running, life, stopped, control, sessions,
                   coreVars, pipeVars, sessionVars>>

\* The stop fails; the target stays registered.
RemoveFailed ==
    /\ task = "removing" /\ control \in {"error", "rejected"}
    /\ Ends /\ control' = "none"
    /\ told' = NoCallback
    /\ UNCHANGED <<inspector, targets, bound, running, life, stopped, sessions,
                   coreVars, pipeVars, sessionVars>>

\* The end of close.
Forget == task' = "closed" /\ targets' = {} /\ Unbind(Windows)

\* The agent shuts down.
Close ==
    /\ task = "idle"
    /\ inspector' = FALSE
    /\ IF inspector
       THEN task' = "closing" /\ StopInspector /\ UNCHANGED <<targets, bound>>
       ELSE Forget /\ UNCHANGED <<stopped, sessions>>
    /\ told' = NoCallback
    /\ UNCHANGED <<actor, running, life, control, coreVars, pipeVars, sessionVars>>

\* Inspector.stop returns once the child has exited.
StopReturns ==
    /\ task \in {"undoing", "stopping"} /\ life = "reaped"
    /\ Ends
    /\ inspector' = FALSE
    /\ told' = NoCallback
    /\ UNCHANGED <<targets, bound, running, life, stopped, control, sessions,
                   coreVars, pipeVars, sessionVars>>

\* The agent's shutdown goes on once the child has exited.
Closed ==
    /\ task = "closing" /\ life = "reaped"
    /\ Forget
    /\ told' = NoCallback
    /\ UNCHANGED <<actor, inspector, running, life, stopped, control, sessions,
                   coreVars, pipeVars, sessionVars>>

-----------------------------------------------------------------------------
(* What happens to an inlet command, and the exit of the process. *)

\* runtime.run and the host's inlet control.  A removed inlet may still report
\* an error; its connections are then left open.
CoreAnswers ==
    /\ life = "up" /\ command # NoCommand
    /\ LET w == command.window IN
       \/ /\ command.type = "add" /\ w \notin inlets
          /\ inlets' = inlets \cup {w} /\ answer' = "ok"
       \/ /\ command.type = "add"
          /\ answer' \in {"busy", "error"} /\ UNCHANGED inlets
       \/ /\ command.type = "remove"
          /\ inlets' = inlets \ {w}
          /\ answer' \in (IF w \in inlets THEN {"ok", "error"} ELSE {"error"})
    /\ command' = NoCommand
    /\ told' = NoCallback
    /\ UNCHANGED <<task, actor, inspector, targets, bound, running, life, stopped, control,
                   sessions, owner, sessionVars>>

\* An answer nobody waits for any more is dropped.  Output of a process may be
\* read after its exit was handled.
AnswerArrives ==
    /\ answer # "none"
    /\ answer' = "none"
    /\ control' = IF control = "pending" THEN answer ELSE control
    /\ told' = NoCallback
    /\ UNCHANGED <<task, actor, inspector, targets, bound, running, life, stopped,
                   sessions, command, coreVars, sessionVars>>

\* As plausible slips would have it: a late answer finds the inspector in use; the
\* timer is dropped with the inspector.
ControlTimesOutOpen ==
    /\ control \in {"pending", "unsent"}
    /\ control' = "rejected"
    /\ told' = NoCallback
    /\ UNCHANGED <<task, actor, inspector, targets, bound, running, life, stopped, sessions,
                   coreVars, pipeVars, sessionVars>>
ControlTimesOutInUse ==
    /\ inspector /\ control \in {"pending", "unsent"}
    /\ control' = "rejected"
    /\ StopInspector
    /\ told' = NoCallback
    /\ UNCHANGED <<task, actor, inspector, targets, bound, running, life,
                   coreVars, pipeVars, sessionVars>>

\* After ten seconds the command fails, and the inspector with it.
ControlTimesOut ==
    /\ control \in {"pending", "unsent"}
    /\ control' = "rejected"
    /\ StopInspector
    /\ told' = NoCallback
    /\ UNCHANGED <<task, actor, inspector, targets, bound, running, life,
                   coreVars, pipeVars, sessionVars>>

\* The process ends: by itself, or killed.
CoreDies ==
    /\ life = "up"
    /\ life' = "dead" /\ inlets' = {}
    /\ told' = NoCallback
    /\ UNCHANGED <<task, actor, inspector, targets, bound, running, stopped, control,
                   sessions, owner, pipeVars, sessionVars>>

\* The exit handler of SharedCore.start: every window stops, and everything
\* in flight has failed.
TellWindows ==
    IF inspector
    THEN /\ inspector' = FALSE
         /\ running' = [w \in Windows |-> running[w] /\ w \notin targets]
         /\ targets' = {}
         /\ Unbind(Windows)
    ELSE UNCHANGED <<inspector, targets, bound, running>>

\* The exit event of the child.  The handler of one that was stopped is not
\* called; sessions it took on since then have failed.
ExitHandled ==
    /\ life = "dead" /\ ~Settled
    /\ life' = "reaped"
    /\ IF stopped
       THEN /\ bound' = [i \in Ids |-> IF i \in sessions THEN NoWindow ELSE bound[i]]
            /\ UNCHANGED <<inspector, targets, running>>
       ELSE TellWindows
    /\ sessions' = {}
    /\ IF task = "launching" THEN Ends ELSE UNCHANGED <<task, actor>>
    /\ told' = NoCallback
    /\ UNCHANGED <<stopped, control, coreVars, pipeVars, sessionVars>>

\* A write to the process that is gone fails before its exit is handled: the
\* same handlers run, and the inspector is stopped, which rejects the command.
PipeBreaks ==
    /\ life = "dead" /\ ~Settled /\ ~stopped /\ task # "launching"
    /\ TellWindows
    /\ StopInspector
    /\ control' = IF control = "pending" THEN "rejected" ELSE control
    /\ told' = NoCallback
    /\ UNCHANGED <<task, actor, life, coreVars, pipeVars, sessionVars>>

-----------------------------------------------------------------------------
(* The sessions of the core, and their callbacks. *)

\* A client's request through the inlet of w.  Ids are skipped for certificates.
Accept(w) ==
    /\ life = "up" /\ w \in inlets
    /\ \E i \in Ids :
          /\ owner[i] = NoWindow
          /\ owner' = [owner EXCEPT ![i] = w]
          /\ due' = [due EXCEPT ![i] = {"request", "closed"}]
    /\ told' = NoCallback
    /\ UNCHANGED <<task, actor, inspector, targets, bound, running, life, stopped, control,
                   sessions, inlets, pipeVars, asked>>

\* A frame about session i is read; a timer's microtasks precede it.
Frame(i, type) ==
    /\ type \in due[i] /\ control # "rejected"
    /\ due' = [due EXCEPT ![i] = @ \ {type}]
    /\ UNCHANGED <<task, actor, inspector, targets, running, life, stopped, control,
                   coreVars, pipeVars>>

\* bindSession: the window is still there and the id is not another's.
MayBind(i) == owner[i] \in targets /\ bound[i] \in {NoWindow, owner[i]}

\* The engine bound to i is called, if there is one.
Tell(w, i) == told' = IF w = NoWindow THEN NoCallback ELSE [window |-> w, id |-> i]

\* As a plausible slip would have it: a binding that is there is kept.
RequestKeepsBinding(i) ==
    /\ Frame(i, "request")
    /\ IF owner[i] \in targets
       THEN /\ bound' = [bound EXCEPT ![i] = IF @ = NoWindow THEN owner[i] ELSE @]
            /\ sessions' = sessions \cup {i}
            /\ Tell(bound'[i], i)
            /\ asked' = IF stopped THEN asked ELSE asked \cup {i}
       ELSE told' = NoCallback /\ UNCHANGED <<bound, sessions, asked>>

\* A request is bound and handed to its engine; refused, only an abort is sent.
RequestArrives(i) ==
    /\ Frame(i, "request")
    /\ IF MayBind(i)
       THEN /\ bound' = [bound EXCEPT ![i] = owner[i]]
            /\ sessions' = sessions \cup {i}
            /\ Tell(bound'[i], i)
            /\ asked' = IF stopped THEN asked ELSE asked \cup {i}
       ELSE told' = NoCallback /\ UNCHANGED <<bound, sessions, asked>>

\* Later callbacks name the session only: a response, data, a WebSocket frame.
CallsBack(i) ==
    /\ i \in asked /\ control # "rejected"
    /\ Tell(bound[i], i)
    /\ UNCHANGED <<task, actor, inspector, targets, bound, running, life, stopped, control,
                   sessions, coreVars, pipeVars, sessionVars>>

\* `closed', or a failure reported before it.
ClosedArrives(i) ==
    /\ Frame(i, "closed")
    /\ IF i \in sessions
       THEN /\ Tell(bound[i], i)
            /\ bound' = [bound EXCEPT ![i] = NoWindow]
            /\ sessions' = sessions \ {i}
       ELSE told' = NoCallback /\ UNCHANGED <<bound, sessions>>
    /\ UNCHANGED asked

-----------------------------------------------------------------------------
Client == \E w \in Windows : Launch(w) \/ Join(w) \/ Leave(w) \/ LeaveUnknown(w)

\* The operation continues.
Continue == Added \/ AddAnew \/ UndoAdd \/ Removed \/ RemoveFailed \/ StopReturns \/ Closed

Next ==
    \/ Client \/ Close
    \/ Launched \/ LaunchTimesOut
    \/ Continue
    \/ CoreAnswers \/ AnswerArrives \/ ControlTimesOut
    \/ CoreDies \/ ExitHandled \/ PipeBreaks
    \/ \E w \in Windows : Accept(w)
    \/ \E i \in Ids : RequestArrives(i) \/ CallsBack(i) \/ ClosedArrives(i)

Spec == Init /\ [][Next]_vars

\* Node runs what is due; a child that was told to stop is killed after two seconds.
Fairness ==
    /\ WF_vars(Continue)
    /\ WF_vars(Launched \/ LaunchTimesOut)
    /\ WF_vars(ControlTimesOut)
    /\ WF_vars(ExitHandled)
    /\ WF_vars(stopped /\ CoreDies)

FairSpec == Spec /\ Fairness

-----------------------------------------------------------------------------
(* Properties. *)

Tasks == {"idle", "launching", "adding", "retrying", "undoing", "removing", "stopping",
          "closing", "closed"}
Outcomes == {"ok", "busy", "error"}

\* Every variable has its type; a queue at rest awaits no command and is for no window.
TypeOK ==
    /\ task \in Tasks
    /\ actor \in Windows \cup {NoWindow}
    /\ inspector \in BOOLEAN
    /\ targets \subseteq Windows
    /\ bound \in [Ids -> Windows \cup {NoWindow}]
    /\ running \in [Windows -> BOOLEAN]
    /\ life \in {"none", "up", "dead", "reaped"}
    /\ stopped \in BOOLEAN
    /\ control \in Outcomes \cup {"none", "pending", "unsent", "rejected"}
    /\ sessions \subseteq Ids
    /\ inlets \subseteq Windows
    /\ command \in [type : {"add", "remove"}, window : Windows] \cup {NoCommand}
    /\ answer \in Outcomes \cup {"none"}
    /\ owner \in [Ids -> Windows \cup {NoWindow}]
    /\ due \in [Ids -> SUBSET {"request", "closed"}]
    /\ asked \subseteq Ids
    /\ told \in [window : Windows, id : Ids] \cup {NoCallback}
    /\ control # "none" <=> task \in {"adding", "retrying", "removing"}
    /\ task \in {"launching", "adding", "retrying", "undoing", "removing", "stopping"}
         => actor \in Windows

\* A window only ever sees its own traffic: a callback about a session of this
\* process goes to the engine of the window whose inlet accepted it, although ids
\* restart with each process and bindings of an earlier one may be left
\* (SharedCore.bindSession and the handlers of SharedCore.start).
WindowsIsolated == told # NoCallback => told.window = owner[told.id]

\* No listener without a window: a core that was not told to stop only listens for
\* windows the agent still knows, however late it answers (Inspector.inlet, stop).
OwnedInlets == life = "up" /\ ~stopped => inlets \subseteq targets

\* No core without a window: between operations, a process that was not told to
\* stop is the one the agent uses, for some window (start's cleanup, stop).
NoStrayCore == task = "idle" /\ life = "up" /\ ~stopped => inspector /\ targets # {}

\* No operation blocks the queue for ever, whether the core answers late, never, or
\* exits at any point of it (the timers of Inspector, SharedCore.serial).
OperationsEnd == task # "idle" ~> task \in {"idle", "closed"}

\* One transport process with an inlet for each capture session: between
\* operations, no window that the agent routes to the core is left running on an
\* inspector that was stopped under it.
RunningIsServed ==
    task = "idle" => \A w \in targets : running[w] => inspector /\ ~stopped
=============================================================================
