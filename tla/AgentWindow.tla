------------------------------ MODULE AgentWindow ------------------------------
(***************************************************************************)
(* A window's mirror of its capture session: AgentClient of                *)
(* extension/client.ts, the requests of agent/main.ts it calls, and the    *)
(* events that the session's Engine publishes meanwhile.                   *)
(*                                                                         *)
(* Both directions of the socket are sequences of lines.  The agent serves *)
(* the requests of a socket one after the other; the window handles the    *)
(* lines of one read in one turn, and what a result wakes continues after  *)
(* all of them.  What other clients of the agent (MCP, a socket of this    *)
(* session that was lost) and the core do to the session can happen at     *)
(* any time.  A lost connection loses the lines in flight.                 *)
(***************************************************************************)
EXTENDS Naturals, SequencesExt

CONSTANTS
    Ids,        \* the names of records
    MaxLines,   \* bound: nothing else happens to the session with that many lines unread
    MaxCalls    \* bound: calls the window makes itself while others wait for results

VARIABLES
    records,    \* Engine.transactions: what each record shows, or that there is none
    state,      \* what `state' reports of the engine: running, recording
    attached,   \* the agent sends the session's events to the socket
    serving,    \* the request the socket's queue in the agent is working on
    toAgent,    \* requests on their way, or behind the one being served
    toWindow,   \* lines on their way: events and results
    phase,      \* AgentClient.establish: none, hello, mirroring, ready
    pending,    \* AgentClient.pending: the methods of the calls in progress, in order
    mirror,     \* AgentClient.transactions
    shown,      \* AgentClient.state
    chunk,      \* how many lines of the current read are still to be handled
    resolved    \* results whose callers continue after the read

agentVars == <<records, state, attached, serving>>
wireVars == <<toAgent, toWindow>>
windowVars == <<phase, pending, mirror, shown, chunk, resolved>>
vars == <<agentVars, wireVars, windowVars>>

Statuses == {"none", "pending", "paused", "done"}
States == [running : BOOLEAN, recording : BOOLEAN]
NoRecords == [i \in Ids |-> "none"]
Nothing == [method |-> "none"]

Init ==
    /\ records = NoRecords
    /\ state = [running |-> FALSE, recording |-> TRUE]
    /\ attached = FALSE /\ serving = Nothing
    /\ toAgent = <<>> /\ toWindow = <<>>
    /\ phase = "none" /\ pending = <<>>
    /\ mirror = NoRecords
    /\ shown = [running |-> FALSE, recording |-> TRUE]
    /\ chunk = 0 /\ resolved = <<>>

-----------------------------------------------------------------------------
(* The lines the agent writes. *)

Transaction(i, status) == [type |-> "transaction", id |-> i, status |-> status]
Removed(S) == [type |-> "removed", ids |-> S]
Reset == [type |-> "reset"]
State(s) == [type |-> "state", state |-> s]
Result(method, s, r) == [type |-> "result", method |-> method, ok |-> TRUE,
                         state |-> s, records |-> r]
Error(method) == [type |-> "result", method |-> method, ok |-> FALSE,
                  state |-> state, records |-> NoRecords]

\* Lines for a socket: only one that said hello gets the events of its session.
Send(lines) == toWindow' = IF attached' THEN toWindow \o lines ELSE toWindow

\* Engine.publish for several records.
Published(S, status) ==
    [k \in 1 .. Cardinality(S) |-> Transaction(SetToSeq(S)[k], status)]

Present == {i \in Ids : records[i] # "none"}
Unfinished == {i \in Ids : records[i] \in {"pending", "paused"}}
Without(S) == [i \in Ids |-> IF i \in S THEN "none" ELSE records[i]]
Finished == [i \in Ids |-> IF i \in Unfinished THEN "done" ELSE records[i]]

\* enforceEntryLimit: the records E are evicted.
Evicted(E) == IF E = {} THEN <<>> ELSE <<Removed(E)>>

-----------------------------------------------------------------------------
(* The session changes: requests of its clients' traffic, and the core. *)

Changes ==
    /\ Len(toWindow) < MaxLines /\ Len(pending) <= MaxCalls
    /\ UNCHANGED <<attached, serving, toAgent, windowVars>>

\* Engine.add: a record is added, older ones or itself give way to the limit.
Added(i) ==
    /\ Changes
    /\ state.running /\ state.recording /\ records[i] \notin {"pending", "paused"}
    /\ \E E \in SUBSET (Present \cup {i}) :
          /\ records' = [Without(E) EXCEPT ![i] = IF i \in E THEN "none" ELSE "pending"]
          /\ Send(Evicted(E) \o (IF i \in E THEN <<>> ELSE <<Transaction(i, "pending")>>))
    /\ UNCHANGED state

\* A record pauses at a breakpoint, another client continues it, or it finishes.
Progresses(i, status) ==
    /\ Changes
    /\ <<records[i], status>> \in
          {<<"pending", "paused">>, <<"paused", "pending">>,
           <<"pending", "done">>, <<"paused", "done">>}
    /\ records' = [records EXCEPT ![i] = status]
    /\ Send(<<Transaction(i, status)>>)
    /\ UNCHANGED state

\* The exit of the core: the windows are told before its sessions fail.
CoreExits ==
    /\ Changes
    /\ state.running
    /\ state' = [state EXCEPT !.running = FALSE]
    /\ records' = Finished
    /\ Send(<<Reset, State(state')>> \o Published(Unfinished, "done"))

\* Engine.delete and Engine.clear by another client of the agent.
OtherDeletes(S) ==
    /\ Changes
    /\ records' = Without(S)
    /\ Send(<<Reset, State(state)>>)
    /\ UNCHANGED state

\* record, start and stop by another client.
OtherSets(s) ==
    /\ Changes
    /\ state' = s
    /\ records' = IF s.running THEN records ELSE Finished
    /\ Send((IF s.running THEN <<>> ELSE Published(Unfinished, "done")) \o <<State(s)>>)

\* Nobody is connected for three seconds, or the agent exits: the next connection
\* finds a new session.
SessionEnds ==
    /\ ~attached /\ serving = Nothing
    /\ records' = NoRecords
    /\ state' = [running |-> FALSE, recording |-> TRUE]
    /\ UNCHANGED <<attached, serving, wireVars, windowVars>>

-----------------------------------------------------------------------------
(* The agent serves the requests of the socket (main.ts). *)

\* The next request, when the one before was answered.
Due(methods) == serving = Nothing /\ toAgent # <<>> /\ Head(toAgent).method \in methods

Serves(method) ==
    /\ Due({method})
    /\ toAgent' = Tail(toAgent)
    /\ UNCHANGED <<attached, serving, windowVars>>

\* Those that wait: for other operations, for the core or for the replayed request.
Begins ==
    /\ Due({"hello", "settings", "start", "stop", "compose"})
    /\ serving' = Head(toAgent)
    /\ toAgent' = Tail(toAgent)
    /\ attached' = (attached \/ serving'.method = "hello")
    /\ UNCHANGED <<records, state, toWindow, windowVars>>

Ends(method) ==
    /\ serving.method = method
    /\ serving' = Nothing
    /\ UNCHANGED <<attached, toAgent, windowVars>>

\* `hello' and `settings' apply the limit and tell all sockets of the session.
Configured(method) ==
    /\ Ends(method)
    /\ \E E \in SUBSET Present :
          /\ records' = Without(E)
          /\ Send(Evicted(E) \o <<State(state), Result(method, state, NoRecords)>>)
    /\ UNCHANGED state

Started ==
    /\ Ends("start")
    /\ \/ /\ state' = [state EXCEPT !.running = TRUE]
          /\ Send(<<State(state'), Result("start", state', NoRecords)>>)
       \/ /\ ~state.running
          /\ Send(<<Error("start")>>) /\ UNCHANGED state
    /\ UNCHANGED records

\* Engine.stop begins: no event says so.
StopBegins ==
    /\ serving.method = "stop" /\ state.running
    /\ state' = [state EXCEPT !.running = FALSE]
    /\ UNCHANGED <<records, attached, serving, wireVars, windowVars>>

\* What is unfinished when the core has let go of it is over.
Stopped ==
    /\ Ends("stop")
    /\ ~state.running
    /\ records' = Finished
    /\ Send(Published(Unfinished, "done")
              \o <<State(state), Result("stop", state, NoRecords)>>)
    /\ UNCHANGED state

\* A replay ends with its record, or after a minute; what it adds are Added, Progresses.
Composed ==
    /\ Ends("compose")
    /\ \/ Send(<<Result("compose", state, NoRecords)>>)
       \/ Send(<<Error("compose")>>)
    /\ UNCHANGED <<records, state>>

Snapshot(method) ==
    /\ Serves(method)
    /\ Send(<<Result(method, state, records)>>)
    /\ UNCHANGED <<records, state>>

Recording ==
    /\ Serves("record")
    /\ state' = [state EXCEPT !.recording = Head(toAgent).value]
    /\ Send(<<State(state'), Result("record", state', NoRecords)>>)
    /\ UNCHANGED records

\* `delete' and `clear': the event, the state that follows it, and the result.
Deleted ==
    /\ Serves("delete")
    /\ records' = Without(Head(toAgent).ids)
    /\ Send(<<Reset, State(state), Result("delete", state, NoRecords)>>)
    /\ UNCHANGED state

\* As a plausible slip would have it: nobody answers a call that failed.
ResumedSilently ==
    /\ Serves("resume")
    /\ LET i == Head(toAgent).id IN
       IF records[i] = "paused"
       THEN /\ records' = [records EXCEPT ![i] = "pending"]
            /\ Send(<<Transaction(i, "pending"), Result("resume", state, NoRecords)>>)
       ELSE UNCHANGED <<records, toWindow>>
    /\ UNCHANGED state

\* The request at a breakpoint continues first; `resume' of another one fails.
Resumed ==
    /\ Serves("resume")
    /\ LET i == Head(toAgent).id IN
       IF records[i] = "paused"
       THEN /\ records' = [records EXCEPT ![i] = "pending"]
            /\ Send(<<Transaction(i, "pending"), Result("resume", state, NoRecords)>>)
       ELSE Send(<<Error("resume")>>) /\ UNCHANGED records
    /\ UNCHANGED state

-----------------------------------------------------------------------------
(* The window connects and calls. *)

\* AgentClient.request.
Request(r) == pending' = Append(pending, r.method) /\ toAgent' = Append(toAgent, r)

\* dial, or a second after the connection was lost.
Connect ==
    /\ phase = "none"
    /\ phase' = "hello"
    /\ Request([method |-> "hello"])
    /\ UNCHANGED <<agentVars, toWindow, mirror, shown, chunk, resolved>>

Call(r) ==
    /\ phase = "ready" /\ resolved = <<>>
    /\ Len(pending) < MaxCalls
    /\ Request(r)
    /\ UNCHANGED <<agentVars, toWindow, phase, mirror, shown, chunk, resolved>>

Calls == {[method |-> m] : m \in {"settings", "start", "stop", "compose"}}
           \cup [method : {"record"}, value : BOOLEAN]
           \cup [method : {"delete"}, ids : {{i} : i \in Ids} \cup {Ids}]
           \cup [method : {"resume"}, id : Ids]

\* A line is handled: the first one of a read, which may bring further ones, or the next.
Reads(type) ==
    /\ toWindow # <<>> /\ Head(toWindow).type = type
    /\ chunk > 0 \/ resolved = <<>>
    /\ toWindow' = Tail(toWindow)
    /\ chunk' \in (IF chunk > 0 THEN {chunk - 1} ELSE 0 .. Len(toWindow) - 1)
    /\ UNCHANGED <<agentVars, phase>>

ReadTransaction ==
    /\ Reads("transaction")
    /\ mirror' = [mirror EXCEPT ![Head(toWindow).id] = Head(toWindow).status]
    /\ UNCHANGED <<toAgent, pending, shown, resolved>>

ReadRemoved ==
    /\ Reads("removed")
    /\ mirror' = [i \in Ids |-> IF i \in Head(toWindow).ids THEN "none" ELSE mirror[i]]
    /\ UNCHANGED <<toAgent, pending, shown, resolved>>

ReadState ==
    /\ Reads("state")
    /\ shown' = Head(toWindow).state
    /\ UNCHANGED <<toAgent, pending, mirror, resolved>>

\* The records changed in a way no event tells: a snapshot is asked for.
ReadReset ==
    /\ Reads("reset")
    /\ Request([method |-> "resync"])
    /\ UNCHANGED <<mirror, shown, resolved>>

\* A snapshot replaces the mirror at once, before any line that follows it.
Replace(m) == mirror' = m.records /\ shown' = m.state

Snapshots == {"snapshot", "resync"}

\* As a plausible slip would have it: the records of the snapshot are added.
ReadResultAdded ==
    /\ Reads("result")
    /\ LET m == Head(toWindow) IN
       /\ pending' = Tail(pending)
       /\ IF m.ok /\ m.method \in Snapshots
          THEN /\ shown' = m.state
               /\ mirror' = [i \in Ids |-> IF m.records[i] = "none" THEN mirror[i]
                                                                    ELSE m.records[i]]
          ELSE UNCHANGED <<mirror, shown>>
       /\ resolved' = IF m.ok THEN Append(resolved, m) ELSE resolved
    /\ UNCHANGED toAgent

ReadResult ==
    /\ Reads("result")
    /\ LET m == Head(toWindow) IN
       /\ pending' = Tail(pending)
       /\ IF m.ok /\ m.method \in Snapshots THEN Replace(m) ELSE UNCHANGED <<mirror, shown>>
       /\ resolved' = IF m.ok THEN Append(resolved, m) ELSE resolved
    /\ UNCHANGED toAgent

\* AgentClient.apply, for the calls that report the state.
Applied == {"start", "stop", "record", "resume"}

\* The caller of the oldest result continues, after the read.
Continue ==
    /\ resolved # <<>> /\ chunk = 0
    /\ resolved' = Tail(resolved)
    /\ LET m == Head(resolved) IN
       /\ shown' = IF m.method \in Applied \cup {"hello"} THEN m.state ELSE shown
       /\ phase' = CASE m.method = "hello" -> "mirroring"
                     [] m.method = "snapshot" -> "ready"
                     [] OTHER -> phase
       /\ IF m.method = "hello"
          THEN Request([method |-> "snapshot"])
          ELSE UNCHANGED <<pending, toAgent>>
    /\ UNCHANGED <<agentVars, toWindow, mirror, chunk>>

\* As a plausible slip would have it: lines of a lost socket still count.
DisconnectedStillRead ==
    /\ phase' = "none" /\ pending' = <<>>
    /\ shown' = [shown EXCEPT !.running = FALSE]
    /\ attached' = FALSE /\ serving' = Nothing
    /\ toAgent' = <<>>
    /\ UNCHANGED <<records, state, toWindow, mirror, chunk, resolved>>

\* The socket is gone: every call fails.  What the agent still does for it is
\* done for nobody.
Disconnected ==
    /\ phase' = "none" /\ pending' = <<>>
    /\ shown' = [shown EXCEPT !.running = FALSE]
    /\ attached' = FALSE /\ serving' = Nothing
    /\ toAgent' = <<>> /\ toWindow' = <<>>
    /\ UNCHANGED <<records, state, mirror, chunk, resolved>>

\* Either end closes it, or it fails.
Disconnect ==
    /\ phase # "none" /\ resolved = <<>> /\ chunk = 0
    /\ Disconnected

\* As a plausible slip would have it: only the handshake has a timeout.
TimesOutOnHello ==
    /\ phase = "hello" /\ resolved = <<>> /\ chunk = 0
    /\ Disconnected

\* hello, the first snapshot and a start take thirty seconds at most.
TimesOut ==
    /\ resolved = <<>> /\ chunk = 0
    /\ phase \in {"hello", "mirroring"} \/ Contains(pending, "start")
    /\ Disconnected

-----------------------------------------------------------------------------
Session ==
    \/ \E i \in Ids : Added(i) \/ \E s \in Statuses : Progresses(i, s)
    \/ CoreExits \/ SessionEnds
    \/ \E S \in {{i} : i \in Ids} \cup {Ids} : OtherDeletes(S)
    \/ \E s \in States : OtherSets(s)

Serve ==
    \/ Begins
    \/ \E m \in {"hello", "settings"} : Configured(m)
    \/ Started \/ StopBegins \/ Stopped \/ Composed
    \/ \E m \in Snapshots : Snapshot(m)
    \/ Recording \/ Deleted \/ Resumed

Read == ReadTransaction \/ ReadRemoved \/ ReadState \/ ReadReset \/ ReadResult

Next ==
    \/ Session \/ Serve
    \/ Connect \/ \E r \in Calls : Call(r)
    \/ Read \/ Continue
    \/ Disconnect \/ TimesOut

Spec == Init /\ [][Next]_vars

\* Node runs what is due, and the timers of the handshake fire between two reads.
Fairness == WF_vars(Read) /\ WF_vars(Continue) /\ SF_vars(TimesOut)

FairSpec == Spec /\ Fairness

-----------------------------------------------------------------------------
(* Properties. *)

Methods == {"hello", "snapshot", "resync", "settings", "start", "stop", "compose", "record",
            "delete", "resume"}
Requests == Calls \cup [method : {"hello"} \cup Snapshots]
Records == [Ids -> Statuses]
Results == [type : {"result"}, method : Methods, ok : BOOLEAN, state : States, records : Records]
Lines == [type : {"transaction"}, id : Ids, status : Statuses]
           \cup [type : {"removed"}, ids : SUBSET Ids]
           \cup [type : {"state"}, state : States]
           \cup {Reset} \cup Results

\* Every variable has its type; a socket nobody greeted on gets no line.
TypeOK ==
    /\ records \in Records /\ state \in States
    /\ attached \in BOOLEAN /\ serving \in Requests \cup {Nothing}
    /\ toAgent \in Seq(Requests) /\ toWindow \in Seq(Lines)
    /\ phase \in {"none", "hello", "mirroring", "ready"}
    /\ pending \in Seq(Methods)
    /\ mirror \in Records /\ shown \in States
    /\ chunk \in 0 .. Len(toWindow) /\ resolved \in Seq(Results)
    /\ ~attached => toWindow = <<>>

IsSnapshot(m) == m.type = "result" /\ m.method \in Snapshots

\* What a line says of the records.
About(m, i) ==
    \/ m.type = "transaction" /\ m.id = i
    \/ m.type = "removed" /\ i \in m.ids
    \/ IsSnapshot(m)
Says(m, i) == CASE m.type = "transaction" -> m.status
                [] m.type = "removed" -> "none"
                [] OTHER -> m.records[i]

\* No change of the records is left that only a snapshot not yet taken will show.
Fresh ==
    \/ \E k \in DOMAIN toWindow :
          IsSnapshot(toWindow[k]) /\ \A l \in k .. Len(toWindow) : toWindow[l] # Reset
    \/ /\ phase = "ready"
       /\ \A k \in DOMAIN toWindow : toWindow[k] # Reset
       /\ \A k \in DOMAIN toAgent : toAgent[k].method \notin Snapshots

\* The mirror shows what the agent has, once the lines on their way are read: the last
\* of them about a record says what it is now, and without one the mirror does,
\* whatever snapshots, events and evictions overtake each other (AgentClient.receive,
\* resync; Engine.add, clear, delete).
MirrorFollows ==
    Fresh => \A i \in Ids :
        LET about == {k \in DOMAIN toWindow : About(toWindow[k], i)} IN
        IF about = {} THEN mirror[i] = records[i]
        ELSE Says(toWindow[Max(about)], i) = records[i]

MethodsOf(s) == [k \in 1 .. Len(s) |-> s[k].method]
IsResult(m) == m.type = "result"

\* How many results are among the first k lines of q.
Answers(q, k) == Cardinality({l \in 1 .. k : IsResult(q[l])})

\* The calls the agent did not answer yet: the one in hand, and those behind it.
Behind == (IF serving = Nothing THEN <<>> ELSE <<serving.method>>) \o MethodsOf(toAgent)

\* Every call in progress has exactly one request, being served, or result on its way, in
\* the order of the calls, and a lost connection leaves none behind (AgentClient.request,
\* attach, and the queue of each socket in main.ts).
CallsMatched ==
    LET answered == Answers(toWindow, Len(toWindow)) IN
    /\ Len(pending) = answered + Len(Behind)
    /\ \A k \in DOMAIN toWindow :
          IsResult(toWindow[k]) => pending[Answers(toWindow, k)] = toWindow[k].method
    /\ \A k \in DOMAIN Behind : pending[answered + k] = Behind[k]

\* Connecting never hangs, whatever the agent does: it ends with a mirror or fails, and
\* can be tried again (AgentClient.connect, establish and the timers of request).
ConnectingEnds == phase \in {"hello", "mirroring"} ~> phase \in {"none", "ready"}
=============================================================================
