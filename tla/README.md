# Verification of Tapline

Tapline captures HTTP(S) traffic for VS Code. This directory holds TLA+ models of the parts
where its correctness is decided by the order in which things happen, the TLC runs that check
them on small instances, and theorems about them proved with TLAPS.

## 1. The system

Three kinds of processes work together.

```
  VS Code windows            the agent (one per user)              the capture core (one)
  extension/client.ts  --->  agent/main.ts                         engine/*.go in sing-box
  mirror of the traffic  JSON  sessions, one Engine per window
  panels <-> webview     lines agent/sharedCore.ts                 runtime.run  (control loop)
                               core/inspector.ts  <== two pipes ==> internal/ipc (Peer, BodyReader)
                               core/streams.ts       framed JSON    session.go, proxy.go, websocket.go
                               core/engine.ts                        clients <-> origins
                               agent/mcp/*
```

| Component | State it keeps | Operations | Hard behaviour |
| --- | --- | --- | --- |
| Body streams (`core/streams.ts`, `engine/internal/ipc/body.go`, `peer.go`) | readers, credits, pipes in progress | pipe, receive, cancel; Reader, Receive, RemoveStreams, Read, ack | one chunk of credit; cancellation between a credit and the microtask it wakes; a frame too many stops the whole core |
| Core sessions (`engine/session.go`, `runtime.go`) | sessions by id, a context and a `sync.Once` each | session, disconnected, finish, askBody; the control loop | finish is called by four parties at once; `closed` races with the session's own callbacks |
| Inspector (`core/inspector.ts`) | live sessions, tunnels, inlet commands, resends, the child | start, stop, inlet, message, relay, fail | callbacks await; frames of one read are handled before any of them continues; child may exit at any time |
| Capture engine (`core/engine.ts`, `sse.ts`) | records, holds, matched rules, captured bytes | request, response, data, end, closed, failure, resume, abort, clear, delete, compose, start, stop | breakpoints wait for a user across everything else; maps keyed by ids a new core hands out again |
| Shared core (`agent/sharedCore.ts`) | windows' inlets, session bindings, one inspector | start, stop, close, bindSession, onExit | a queue of operations against a child that exits by itself; commands that time out |
| Agent (`agent/main.ts`) | sockets, sessions with a grace timer, two queues | hello, settings, start, stop, the calls, promotion, shutdown | reconnection against teardown; two agents starting at once |
| Agent client (`extension/client.ts`) | mirror of the records, agent state, calls in flight | connect, upgrade, call, resync | events around a snapshot; results applied a microtask late |
| Transports (`engine/proxy.go`, `websocket.go`, `http3.go`, `listener.go`, `internal/upstream`) | connections, caches | handlers, relays, resend | two writers on one connection; tunnels half closed; a client that leaves after its last byte |
| MCP (`agent/mcp/*`) | one listener for all windows | listen, tool calls, list_requests | windows that want different ports; a listing while records come and go |
| Extension (`extension/*`) | preferences, panel, tree, terminals' environment, the editor's proxy, the status of the certificate | messages of the pages, operations on stores | several windows write one setting; an operation interleaved with what it read before |
| Pages (`webview/*`) | rows, selection, search, drafts | messages, clicks, effects | questions and answers that cross; files read while the user goes on |

What makes each correct: a body arrives in order, in full or visibly cut short, with bounded
memory; a session that ends leaves nothing behind in either process; what the user sees of a
request (pending, paused) is what can still happen to it; a window only sees its own traffic;
the mirror agrees with the agent once messages have been delivered, and the page with the mirror;
a crash of the core settles everything in flight; nothing is sent that is not shown.

## 2. Modules

| Module | Models | Checked in |
| --- | --- | --- |
| `BodyTransfer` | abstract: a producer at most one chunk ahead of an in-order consumer | refined by `SessionStreams` |
| `SessionStreams`, `SessionStreamsProofs` | one session in both processes and the bodies the agent sends to the core | `session_streams` |
| `Capture`, `CaptureProofs` | the records and breakpoints of one window over several lives of the core | `capture` |
| `SharedCore`, `SharedCoreProofs` | windows, inlets, bindings; start/stop queue, timeouts, crash | `shared_core` |
| `AgentWindow` | mirror and calls between one window and the agent | `WindowParts`, proved in `WindowPartsProofs` |
| `AgentEndpoint` | socket file, agents starting at once, upgrade and promotion, grace periods, shutdown | `WindowParts`, proved in `WindowPartsProofs` |
| `TrackedConn` | a connection of the capture listener: the pump, deadlines, the handoff | `Components`, proved in `ComponentsProofs` |
| `Tunnel` | an opaque tunnel with a socket in Node at its far end | `Components`, proved in `ComponentsProofs` |
| `Exchange` | one inspected exchange through proxy.go, the inspector and the record | `Components`, proved in `ExchangeProofs` |
| `WebSocketRelay` | two relays, resends, and closing | `Components`, proved in `ComponentsProofs` |
| `EngineRuntime` | dials, packet flows and the shutdown of the Go engine | `Components`, proved in `ComponentsProofs` |
| `Replay` | composed requests and the queue of a window's commands | `Components`, proved in `ComponentsProofs` |
| `Rules` | what rules and breakpoint edits make of a message | `AgentParts`, proved in `AgentPartsProofs` |
| `Records` | what a record keeps of bodies, events and frames; the event-stream parser | `AgentParts` |
| `CoreData` | frames on the pipe, headers, fragments, transports | `AgentParts` |
| `TrafficPanel`, `PanelSearch`, `Selection`, `TrafficTree` | the panel, its search, its table and the tree of hosts | `AgentParts` |
| `Query` | what the text in the search box means, in the page and in the window | `AgentParts` |
| `FrameResend` | a message of a WebSocket resent from the page, to the core and back | `AgentParts` |
| `SettingsPage` | the settings tab, the store of preferences and its migration | `AgentParts`, proved in `ControlPartsProofs` |
| `RulesEditor`, `Composer` | the rules on their way to the agent; the body of a composed request | `AgentParts`, proved in `ControlPartsProofs` |
| `EditorProxy`, `Environment` | the editor's own proxy; the environment of terminals and debug sessions | `AgentParts`, proved in `ControlPartsProofs` |
| `CaptureGate` | the certificate store and the start of a capture | `AgentParts`, proved in `ControlPartsProofs` |
| `RootIdentity` | the files of the root certificate and the sessions that load or make them | `AgentParts`, proved in `ControlPartsProofs` |
| `McpEndpoint`, `McpListing` | the MCP listener and its callers; the paging of `list_requests` | `AgentParts`, proved in `ControlPartsProofs` |

**Unions.** `Components`, `AgentParts` (with `ControlParts`, which it extends) and `WindowParts` instantiate a number of modules each and
check them in one run. The modules in a union share no state in the code either: they meet the
rest of the system through what they are asked and what they report, which each of them takes as an
unconstrained input. A behaviour of a union is therefore one of a single part, named by `part`, while
the variables of the others stay as they began; the composed state space is the sum of the parts'
and not their product, and nothing is lost by it. Where components do interact over shared state,
one module models them together: both processes of a session in `SessionStreams`, `Tunnel` and
`Exchange`; the window, the page and the store in `TrafficPanel` and `RulesEditor`; all windows in
`SharedCore`, `AgentEndpoint`, `EditorProxy` and `McpEndpoint`. A property of a union is a conjunction
of properties its parts state; section 3 lists which.

### SessionStreams

The two control pipes are the sequences `toCore` and `toNode`; each process takes the oldest
frame of its pipe. Stream ids carry the session id, so sessions share only the pipes and the fate
of the core: a single session is modelled. `Streams` are the streams the agent sends
(`<id>:request:out`, `<id>:response:out`), `Replies` those the response callback asks for.

In the agent, `producer[s]` is the program counter of the callback and then of `Streams.pipe`:
asked, delayed (decided, perhaps sleeping for a throttle rule), reading its source, waiting for
credit, released (the promise is resolved, its microtask has not run), done. Every frame handler
(`NodeReceive`) is one step, as in Node; the pipes' own steps interleave with them. A throttle's
latency and the engine's decision (a breakpoint may wait for ever) are unconstrained.

In the core, the control loop (`CoreReceive`), the goroutine that ends the session (`Finish...`,
one step per shared effect of `session.finish`), the handler of the exchange (`Register`,
`SendAsk`) and the body readers interleave freely. The `select` of `Peer.Receive` takes any ready
case; its `default` sets `fatal`, on which the core stops. An abort makes the control loop run
`finish` itself, or wait in `sync.Once` (`loop = "finishing"`).

### Capture

One window's `Engine`, driven by inspector callbacks. `turn` models the event loop: the frames of
one read of the pipe are handled in one turn, and callbacks they wake continue only after it, all of
them before anything else runs. `call[s]` is the program counter of a session's current callback:
waiting for the body, held at a breakpoint, resumed or aborted (promise resolved), relaying, over.
`id[s]` is the name the core gave the session; `next` restarts at 1 with each core, and ids may be
skipped since tunnels and certificates draw from the same counter. `kept` is the engine's insertion-ordered map.
`End` is what the end of sessions does to what they wait for; `Ended` adds the engine's `closed` or
`failure`. Rules appear as the set of phases in which they put a breakpoint; what they do to a
message is the matter of `Rules`. Response-phase records are looked up by id, as the code does.

`mode` says how far a stop or start came, also one that fails. The core may refuse to remove the inlet
(`RemoveRefused`): the stop throws before it settles anything, and the window's sessions go on (`refused`). Or it
does not answer in ten seconds (`RemoveTimesOut`): the inspector forgets its sessions and kills the core, the stop
throws, and the window stays bound to an inspector without a process (`failing`, then `wedged`), on which further
stops throw after their first line (`StopFails`). A start joins the inspector there is and, when its command fails
and no other window is left, stops it (`StartFails`), after which the next one launches another. `Cut` is what
`Inspector.shutdown` does to the sessions: the sockets and streams are closed, and of the callbacks only the
relays of responses return and report an end. The other sessions' records stay pending until a stop succeeds;
`lost` is the history of these, and `PendingIsLive` excuses them and nothing else. That nothing a killed core wrote is read after
its exit was handled is a bound.

### SharedCore

The agent's `SharedCore` with an `Engine` for each window, the `Inspector` of the process, and the
process. `serial` runs one operation at a time: `task` is what the current one awaits (the start of
the process, an `add`, the second `add` on any free port, a `remove`, the exit of a child it
stopped) and `actor` the window it is for. `control` is the promise of the inlet command: pending,
unsent (the pipe was no longer writable, so only the timer settles it), settled with an outcome, or
rejected. The operation's next step is its microtask after that, which precedes timers and events:
`ExitHandled` and `PipeBreaks` wait while `Settled`, and frames of the same read may precede it but
do not follow a timer's rejection. `command` and `answer` are the command on its way to
`runtime.run` and its result.

Only the process last launched has state: `SharedCore` launches another only once it gave the last
one up, and `Launch` resets the process's variables. What is left out by this is output of an older
process that is read after a newer one is up. The bindings (`bound`, `SharedCore.requests`) are not
reset: an operation that failed may leave some to the next process, whose session ids start again.
`told` is the callback being made; every other step clears it. `StopInspector` is `Inspector.stop`
up to its first await, idempotent as the code's `stopping` promise. `TellWindows` is the exit handler
of `SharedCore.start`. `PipeBreaks` stands for `fatal` (an error on stdin, stdout or the child) once the
process is gone. A failing `verifyCore` or `spawn` changes nothing and has no action; `register` and
`forget` only name windows. A session's frames are `request`, callbacks in any number, `closed` (or a
`failure`, which does the same here), in any order for the first and the last, as `session_ghost` shows.

### AgentWindow and AgentEndpoint

`AgentWindow` is `AgentClient` and what the agent does for its socket. `records` and `state` are the session's in the
agent, `mirror` and `shown` the window's; a record is reduced to what it shows (none, pending, paused, done).
`toAgent` are the requests on their way or in the `queue` of the socket in `main.ts`, which serves them
one by one (`serving` is one that awaits something), `toWindow` the lines on their way back. Every event
is sent to the socket in the step that changes the session, in the order of the code: eviction before
the record that caused it, `reset` and the state before the failures of a core's exit. `chunk` counts
the lines of the current read still to be handled; the callers of the results among them
(`resolved`) continue after the last. A snapshot is applied at once, `start`, `stop`, `record` and `resume`
report the state a microtask later. `pending` is in the order of the calls, as results are.

The session also changes by itself (`Session`): traffic, the exit of the core, MCP, and requests that a
lost socket left in the agent. `abort` and `annotate` differ from these only in what they write into a
record; `clear` is `delete` of everything. A connection is one attempt at a time.

`AgentEndpoint` is how windows find an agent. `file` is the canonical path as a name: whoever
unlinks it removes the socket of whoever it names. `phase[a]` is the life of each process, with the
probe of `main.ts` in two steps (its answer, and the unlink and listen); `staged` is an agent started
for an upgrade, which has a path of its own until `promoted`; `clients` and `exitTimer` decide when an
agent leaves. `stage[w]`, `link` and `previous` are `connect`, `establish` and `upgrade` of
`AgentClient` with the socket it is replacing. Processes may be killed and windows closed at any moment.

### The parts of the core: TrackedConn, Tunnel, Exchange, WebSocketRelay, EngineRuntime

`TrackedConn` has the pump as a program counter (`pump`), the channel with one slot (`incoming`),
`SetReadDeadline` in two steps under `deadlineMu` (`setting`), and the server's `Read` step by step (`reader`): it
begins, takes a result off the channel, and checks a timeout against the deadline as it is by then. A deadline is none,
ahead or past, and time passes it at any moment. `due` is a history of the Read under way: whether a deadline in
force had passed at some moment of it.

`Tunnel` follows a CONNECT through the handler in `proxy.go` (which takes the first frame of the
stream out off the reader's channel and puts it back), the control loop, `Peer.Pipe`, and Node's duplex
(`Streams.writer`, `Streams.reader`) with the socket to the origin. Writes, ends and destruction of
the duplex are steps of their own, as Node makes them.

`Exchange` has the handler of `proxy.go` as `stage` (asked, upstream, asked again, writing), the two
callbacks of the inspector, the pieces of the origin's body as they are piped to Node (`produced`),
tapped there (`tapped`), and forwarded (`read`, `given`), and `session.disconnected` with the five
seconds in which a delivered body drains. `record` is the outcome the engine writes. The upload may end or fail at any
time, whether the client is there or not.

`WebSocketRelay` has the two relays, `sender.mu` (`holder`), messages of two writes, resends with their
five-second timer, and `websocketBody.Close` step by step. The server may stop reading at any write.

`EngineRuntime` has `DialContext` and the accept loop (a connection is accepted, registered, offered,
served), packet flows with the two goroutines that copy a bypassed one, and the two goroutines that
end it all. `Replay` is `compose` with its ports and polling, and the queue of the window that asked.

### The parts of the agent: Rules, Records, CoreData, McpEndpoint, McpListing

`Rules` runs the callbacks of one request and its response over a list of matching rules, rule by rule
(`todo`), with the user's edits at a breakpoint. A body is its text and the codings applied to it; a
Content-Length is the body it was counted for. `meant` is what the rules and the user want the
receiver to read.

`Records` feeds characters to `SSEParser` as the code does, one at a time, in any chunks, and compares
with `WholeEvents`, a definition that sees the whole text at once. Captured bytes, frames, their limits
(which may change meanwhile) and the gRPC timer are in the same module.

`CoreData` holds algorithms, one per behaviour (`subject`): the framing of `wire.ts` over a pipe that cuts its
bytes anywhere, the fragments of an edited WebSocket message, headers through `headers.go`, and the
pool of transports with its eviction.

`McpEndpoint` has the windows' settings as sent and as the agent knows them, sessions that outlive
their sockets, the listener and the window a tool call reaches; `McpListing` reads pages while records
are added, evicted and deleted.

`RootIdentity` is `certificate.ts` as the sessions of windows call it in their hello. An identity is a number and
each of the four files says whose it is. A file is written whole or not at all, one agent runs in a directory, and
the agent may be killed between any two writes; the directory is deleted only as a whole. (`ca.p12` is kept
whatever it holds, so that deleting single files could leave one of another identity.)

### The parts of the extension and its pages

`TrafficPanel` is `trafficPanel.ts` and `useTraffic.ts` with the two message queues between them.
`PanelSearch` adds the search that only the window can answer, on the same queues. `Selection` is the
table's selection; React's effects run within the action that causes them, as before any next event.
`TrafficTree` shows nodes as VS Code last fetched them. `RulesEditor` is the page's copy of the rules, its
save timer, the store (which other windows write), the refresh that compares snapshots, and the echo.
`Composer` is the draft of a body, the header that goes with it and files whose readers hold the draft
they were opened with. `EditorProxy` is the queue of operations of each window on the one `http.proxy`
setting, each in two steps around `config.update`; what a window remembers of a synchronization is decided in the
second step, by whether the capture runs by then (`Remembered`), and `stranded` are the ports forgotten as they were
written. `Environment` makes the variables of targets and
profiles. `CaptureGate` is the chain of operations on the certificate store, each in the steps its
platform's commands take, the start that awaits it, and removal.

`Query` has the parser, the terms the page decides from its rows, the text it sends the window for the others, the
window's scan of headers and bodies, and the sort. Texts are sequences of atoms; eleven transactions hold one
case of each that a term tells apart. Values with a quote or a backslash are left out: the page sends values as
JSON, which the parser of the window does not undo. A pattern has at most one star, and numbers no fraction.

`SettingsPage` has the values a page shows, its drafts and the one save it may have under way, the requests and posts
between page and window, the jobs of the window and the store, which another window may write. One setting of each type
stands for all of its type. A draft changed while its save is on its way is dropped by the answer, as the code does.

`FrameResend` follows a resend from the button (a list that is paused may offer a message that has left the record)
through the window, the agent's engine and inspector with its ten seconds, and back to the page with its fifteen. What
the core does with it is `WebSocketRelay`; here it delivers or refuses, and may answer too late.

## 3. Runs

| Run | Shows |
| --- | --- |
| `session_streams` | `TypeOK`, `NoOverflow`, `OneUnacknowledged`, the refinement `ImplementsTransfer`, and under fairness `CancelledPipesReturn` and `BodiesArrive` |
| `capture` | `TypeOK`, `KeptWithinLimit`, `PendingIsLive`, `PausedCanContinue` |
| `shared_core` | `TypeOK`, `WindowsIsolated`, `OwnedInlets`, `NoStrayCore`, and under fairness `OperationsEnd` |
| `components` | the parts of the core, below |
| `agent_parts` | the parts of the agent, the extension and its pages, below |
| `window_parts` | `TypeOK`, `MirrorFollows`, `CallsMatched` (`AgentWindow`), and under fairness `ConnectingEnds` (`AgentWindow`) and `AgentsLeave` (`AgentEndpoint`) |
| `session_ghost` | finding 1: `ClosedSessionForgotten` fails |
| `capture_held_over` | finding 2: `HeldIsLive` fails |
| `shared_core_wedged` | finding 3: `RunningIsServed` fails |
| `agent_endpoint_stolen` | finding 4: `NeverSteals` fails |
| `tunnel_stranded` | finding 5: `FailureArrives` fails |
| `replay_stuck` | finding 6: `ContinueIsServed` fails |

The properties of the unions:

| Run | Property | Made of |
| --- | --- | --- |
| `components` | `NoStaleTimeout`, `DataIsRead` | of `TrackedConn`: a Read times out only if a deadline in force had passed while it was under way; the pump misses no wake-up |
| | `TransfersAreWhole` | `Tunnel`: `CreditsSuffice`, `EndIsComplete`, `UploadsAwaitTheOrigin`; `Exchange`: `CompletedIsWhole`, `DeliveredIsRecorded` |
| | `EndsArrive` | `Tunnel`: `OrderlyEndArrives`; `Exchange`: `LeavingEnds` |
| | `MessagesArrive` | `WebSocketRelay`: `MessagesWhole`, `AckedIsWritten`, `CloseIsClean` |
| | `RepeatsAreAnswered` | `WebSocketRelay`: `ResendAnswered`; `Replay`: `ReplayIsAnswered` |
| | `ReplayIsWhole` | of `Replay`: the record returned is that of its own exchange |
| | `NothingOutlivesTheEngine`, `ShutdownCompletes` | of `EngineRuntime` |
| `agent_parts` | `RulesApply` | `Rules`: `BodyArrives`, `HostFollows`, `TouchedIsShown` |
| | `RecordIsWhole` | `Records`: `BodyIsWhole`, `DecodesInTime`, `EventsAreRecent`, `FramesAreRecent`; `FrameResend`: `ResendsAreDelivered`, `ResendIsTold`, `FramesInOrder` |
| | `PanelFollows` | `TableFollows`, `InspectorFollows`, `SearchSettles`, `SelectionIsHonest`, `TreeIsWhole`; `Query`: `RowsAreMeant`, `MinusNegates`, `QuickIsTyped`, `OrderIsKept` |
| | `DataArrives` | `CoreData`: `FramesSurvive`, `HeadersSurvive`, `FragmentsKeepMessage`, `TransportFits` |
| | `ProxyIsChosen` | `EditorProxy`: `ProxyIsChosen`; `Environment`: `TerminalsTrustTheProxy`, `AnnouncedIsInjected` |
| | `CaptureIsGated` | `CaptureGate`: `GateHolds`, `StatusIsWhole`; `RootIdentity`: `RootIsTrusted` |
| | `RulesSettle` | of `RulesEditor`; `SettingsPage`: `TabFollows`, `StoreIsValid`, `OneAtATime` |
| | `ShownIsSent` | of `Composer` |
| | `McpServes` | `ServedWhileWanted`, `CallsReachTheirWindow`, `ListingIsComplete` |

### Bounds

`session_streams` has a request and a response stream of two chunks: the second chunk is
the first one that needs a credit, and its end the first frame that follows one; every later chunk
repeats that cycle. One session end, one error to report and any number of late callbacks fit.
The proofs lift these bounds, and those of `shared_core`, `capture`, `components` and `window_parts` below
for every invariant, and those of `agent_parts` for the invariants section 4 names. `Capture` is bounded by `Requests` (two: one can evict, displace,
outlive or share the id of the other) and by `Limits`, the values of `maxEntries` (reached by the
first request, or never exceeded). Ids run to `Requests`, so a skipped id is possible. Starts, stops,
clears, deletions and failures of them are unbounded. `shared_core` has two windows, so that one can be served while the
other starts, fails or stops, and one session id, which every process uses anew: nothing relates two
ids of one process. Processes, commands and time-outs are unbounded. Deadlock is not checked there:
the agent exits after `close`.

`window_parts`: one record (lines about different records do not affect each other; it can be evicted
by its own addition), at most `MaxLines` = 2 unread lines before the session changes again, so that a
line, or two of them, overtake a snapshot, and one call of the window's own besides the resyncs
(`MaxCalls`). Connections are unbounded. Two agents and two windows, one of them of the newer release
(`Newer`): an upgrade needs the old and the new agent, a theft two that start at once. An agent that
is off may start again, so restarts are unbounded.

`components`: two chunks each way (`Chunks`, `Downloads`, `Uploads`, `Pieces`), the second being the first that
waits for a credit or a slot; one resend against one message of the client, the smallest pair of
writers; two dials, so that one is accepted while the other is offered, and one flow; two composes, one of the
window and one of MCP, the only two kinds, with at most `MaxAnswers` clicks of Continue.

`agent_parts`: two rules (one can undo or follow the other); five characters, enough for a line, its
terminator in two characters, a blank line and the beginning of the next event, under two limits that
a text can exceed, and one item kept of two or more; three events for the panel (a record, a click and
a change); a filter put on and taken off, with two questions and one piece of news on their way, so
that answers cross; headers of two bytes and three frames of up to two, which cuts in a header and in
a body and lets a frame follow an empty one; a pool of two, so that a third entry evicts; three rows;
three requests on one host; two changes of the filters and of the sort (two terms, a term and a filter,
a filter and an order); two messages kept of three relayed, so that one is evicted while it can be seen,
and two clicks.
For the parts of `ControlParts`: two editor windows over two ports with three starts or edits and two operations under
way (one window sets the proxy, the user or the other window sets it after, the first one stops), up to
the first race that `ProxyIsChosen` leaves out; two operations on the certificate store behind each
other and one change from outside; one kind of rules with two identities, two edits and one write from
elsewhere; two files picked in six actions; five settings pushed by two windows over two ports; five
records listed in pages of at most two; two patterns in a list; three deeds on the settings (the tab is
opened, something is typed or pressed, and another window, or the capture, comes between); four
identities made or lost with their directory. Each bound was
chosen so that the case the property guards against (an overtaking, an eviction, a crossing, an undo)
happens within it: the mutants in `PROJECT.json` are caught under these bounds.

### Fairness

`FairSpec` of a module states what must go on by itself: the control loop, the goroutine inside
`finish`, Node's event loop, pipes that may continue, and readers with a frame pending do continue:
nothing in the code lets them wait for anything else. Origins keep producing bytes and consumers keep
reading, the condition under which `BodiesArrive` is meant. No fairness is assumed of callbacks (a
breakpoint waits for the user), of handlers, or of anything that fails or disconnects. In `SharedCore`,
microtasks run, the timers of the start (15 s) and of an inlet command (10 s) fire, the exit of a
process that is gone is handled, and a child that was told to stop is gone after two seconds
(`SIGKILL`). The core need not answer, nor the process exit by itself. In `AgentWindow`, lines that
arrived are read, their callers continue, and the timers of the handshake fire between reads, however
often one comes (strong fairness, as a timer is only disabled during a read). Nothing is assumed of
the agent there. In `AgentEndpoint`, a running agent takes its steps and fires its timer, and a window goes on
with an upgrade it began.

In `TrackedConn` the pump, the listener's goroutine and a deadline being set go on; the server begins
its reads and takes what is there; the pump's look at the deadline and the check of a timeout in `Read`
(`ReadChecks`) are strongly fair, since a deadline that is being moved keeps
disabling them for as long as its mutex is held and no longer. In `Tunnel` and `Exchange` both control
loops, the copy loop, the handler and the timer of the drain go on, a dial ends one way or another, and
a client's leaving is noticed (the pump's job); neither clients nor origins are assumed to do anything.
In `WebSocketRelay` the cleanup, a resend and its timer go on, and a write on a closed connection fails;
a server that does not read is assumed nothing of. In `EngineRuntime` the goroutines of a cancelled
engine go on, and the accept loop ends although connections keep arriving (strong fairness: its
`select` has the cancelled context among its cases). In `Replay` a compose polls and its minute passes.

### Findings

1. *A ghost session* (`session_ghost`). A client that leaves after its session was stored and before
   its request callback was sent has `closed` precede `request` on the pipe. The inspector then
   adds a session that is already over; its record stays pending until the capture stops.
2. *A hold for a session that is over* (`capture_held_over`). If the end of the body and `closed` come
   in one read, or the capture stops while the body is awaited, the hold is registered after
   everything that could have released it.
3. *Windows on a stopped inspector* (`shared_core_wedged`). An inlet command that times out stops the
   inspector without its exit handlers. When other windows remain, they stay running and registered on
   it; their traffic goes nowhere, and each later command takes its ten seconds to fail.
4. *A stolen socket* (`agent_endpoint_stolen`). Two agents that start over a stale file are both refused by
   it; the slower one unlinks the socket the faster one listens on by then, and its window is on its own.
5. *A stranded tunnel* (`tunnel_stranded`). Node clears `connecting` before it emits `error`, so the branch
   that answers 502 never runs; the duplex is destroyed without an end, and the client keeps waiting.
6. *A Continue behind its request* (`replay_stuck`). A window's requests are handled in turn, and a compose
   returns when its exchange is over: Continue for a breakpoint it meets is not read before it timed out.

Some properties name a case they leave out, where the code is known to behave otherwise. The table's
inspector may keep an older row if a click and a focus passed each other (`TrafficPanel.crossed`). A
search keeps the answer it got for a transaction that was still pending (`PanelSearch.early`). A rule changed
and changed back between two refreshes is not echoed (`RulesEditor.undone`), and so a setting (`SettingsPage.undone`). The
error of a change of state that nobody on the page asked for ends whatever save it waits for (`SettingsPage.stray`). An edit of the user that
falls into an update of the proxy setting is overwritten, and a window that takes another window's proxy for the
user's own puts it back when that is gone (`EditorProxy.raced`). The window's half of a synchronization
is decided after `config.update`, from `client.running` as it is then (`settingsPanel.ts:59`): a capture that moved to another port and
stops while that is being written leaves its port in `http.proxy`, and the window no longer takes it for its own, so nothing
puts back what was there before (`EditorProxy.stranded`; a defect, against the comment at `settingsPanel.ts:44`).
A record whose core was killed for a stop or start that failed stays pending until a stop succeeds (`Capture.lost`). A response whose record was
deleted before it came is edited without one (`Rules.recorded`), and a response made by the agent
itself needs no drain (`Exchange.local`). An older state may be put back in a window by the result of a call
read together with a state event (`AgentWindow` has no property of `shown`). The ids a new core hands
out again may find rules matched by a session of the one before (`Capture.matched`), as may bindings in
`SharedCore`, where they are shown harmless.

## 4. Proofs

Every invariant of the runs `session_streams`, `capture`, `shared_core`, `components` and
`window_parts`, six of `agent_parts`, and the refinement of `BodyTransfer`, are theorems for every value
of the constants. The assumptions are those the modules declare; each says what the program guarantees or what the model
would be meaningless without, and TLC evaluates all of them. Each invariant is proved from an inductive
one, which has the initial states and is kept by each action.

| Module | Theorems | Assumptions |
| --- | --- | --- |
| `SessionStreamsProofs` | `TypeCorrect`, `NeverOverflows`, `OneChunkAhead`, `ImplementsBodyTransfer` | replies are streams; a number of chunks |
| `SharedCoreProofs` | `TypeCorrect`, `Isolation`, `NoUnownedInlet`, `CoreIsWanted` | `NoWindow` is no window |
| `CaptureProofs` | `CaptureTyped`, `CaptureBounded`, `CaptureSettled`, `CapturePaused` | limits are positive numbers, as the setting's schema has it |
| `WindowPartsProofs` | `WindowPartsTyped`, `WindowMirror`, `WindowCalls` | the names of nobody name nobody; records are finitely many |
| `ComponentsProofs` | `NoTimeoutIsStale`, `ResendsAreWhole`, `NothingIsLeft`, `ReplaysAreWhole`; for `ExchangeProofs`, the invariant of `Tunnel` | bounds are numbers; the names of two things differ |
| `ExchangeProofs` | `TransfersWhole`, `ComponentsTyped` | as above, and `Pieces # 0`: the response has a body |
| `AgentPartsProofs` | `CaptureGated`, `ProxyChosen`, `McpAnswers`, `ComposedIsShown`, `RulesAreSettled`, `RulesAreApplied`; for the first five, the invariants of `ControlPartsProofs` | the names of nobody and nothing name nobody, and nothing is no list of rules; bounds are numbers, and the size of a page and the number of patterns at least 1 |

**SessionStreams.** `NoOverflow` is not inductive. The strengthening is a token argument, `Consistent(s)` for each
stream: exactly one of "the pipe may send", "a frame of s is on its way to the core", "it is in the
reader's slot", "its bytes are in the reader's buffer", "its credit is on its way back" holds at
most once (`OneToken`); a stream is asked for at most once, so no second pipe starts (`AskedOnce`);
and the number of chunks sent agrees with what the consumer got and where the token is, with every
frame in flight carrying the next number (`InStep`). `IInv` is `TypeOK`, `~fatal` and these. From it,
a frame can only reach a reader whose slot is empty, so the `default` of the `select` is never taken.
The lemmas about frames in a pipe (what appending a frame or taking the first one does to the
number of frames of a stream) are proved once and cited by the step lemmas. `TransferStep` shows
that each step is an `Offer`, a `Take`, a `Complete` or a stutter of `BodyTransfer`.

**SharedCore.** The first two parts of `IInv`, `TypeOK` and `ActorStopped` (the window of a start or stop in
progress is not running), hold always. `WellBound` says that a session the agent answered is bound to
the window whose inlet accepted it or to none: with the check of `bindSession` it gives isolation
although bindings outlive a process. The rest is needed only while a process is up and was not told to
stop: `Dialogue` relates the command, its answer and the promise (a command or an answer on its way is
the one the operation awaits, and is for its window), `InletsExplained` says whose inlets are open in
each phase of an operation, and `Wanted` that the agent still refers to the process and why. A late
answer is harmless because `ControlTimesOut` leaves that regime in the same step.

**Capture.** `PausedCanContinue` is the hard one. A breakpoint waits under an id, ids come again with each
core, and a callback that waited for a body goes on to hold without a look at what the id names by
then. It is right because of the event loop: `Drained` (callbacks that can continue do so before
anything but frames of the same read) gives `Numbered` (the core that runs numbered every session
whose callback has, or may yet get, its body), and this `ClaimIsUndisputed` (no other record of its id
is in the list while it reads). `PausedIsHeld` then relates what is shown to the callback held under the
record's id, or to one about to continue. What a killed core's sessions leave is in `lost` for `PendingIsLive`, which two lemmas
about a stop of nothing and about `Cut` establish (`StopNothingKeeps`, `CutKeeps`). `OnePerId`, `SubjectIsNamesake` and `HolderWaits` tie records,
callbacks and holds to ids. Three lemmas say what the list operations do: `WithoutProperties` (a
deletion removes exactly the records named and keeps the order), `NewestProperties` (eviction leaves
at most the limit) and `PutProperties` (`Map.set`).

**WindowParts.** Every step of the session and of the agent `Acts`: it writes lines that tell what changed of the
records, or that a snapshot is needed, and one result for the request it answers. `WInv` says what the
lines still unread, and those read, make of the mirror: whenever the window has a snapshot or is
promised one that nothing outdates (`Current`), the last line about each record says what the record is,
and without a line the mirror does (`Follows`). It says the same of the calls: requests, queue and
results on their way are, in this order, the calls pending (`Matched`). `EInv` adds to the types of
`AgentEndpoint` that only an agent that listens or stops has clients, and that its exit timer runs exactly
while it has none.

**Components.** One inductive invariant per part; `[Next]_vars` of the union is a step of one part and leaves the
others' variables alone.

- `TrackedConn`: `InOrder` counts what the pump took off the socket against what the server read, with at most
  one result between them, for each place of the pump; `Remembers` says that the history of the Read under way has
  the deadline in force whenever that has passed.
- `WebSocketRelay`: `WriterHolds` says that who writes holds `sender.mu` and that one half-way through its message
  wrote last, so no other writer's half lies in between; `WrittenUnlessFailed` that a resend without an
  error was written, before it is acknowledged; `Closes` that sockets are closed only after closing was set.
- `EngineRuntime`: the accept loop has returned, with every connection closed, before anybody waits for the flows.
- `Replay`: a compose of the window keeps the first place of the queue as long as it lasts (`FirstInLine`), so no
  other command of the window moves on meanwhile.
- `Tunnel`: the token argument of `SessionStreams` in both directions (`Down`, `Up`: frames and credits on the
  pipes, in the handler's hand and in the reader's slot together are at most one), with the counting
  lemmas `CountAppended` and `CountTaken` for what a step does to the messages of one kind in a pipe. To
  this `OriginFirst` (nothing goes either way before the origin is dialled), `NothingLost` (what was sent is
  what the client got and what is on its way) and `EndIsLast`.
- `Exchange`: three tokens, for a question of the core (`Question`), the body on its way to Node (`Incoming`) and the
  body on its way back (`Outgoing`). The rest is the order in which a session ends, which is where a
  record could say something false: `DecidesFirst` (nothing is relayed before Node has decided), `RecordedFirst`
  (the record of a body of the origin's is complete before the core hears of its end), `EndsOnce` and
  `FailsFirst` (one end, and a failure before the closing), and `LeftEarly` (who is recorded as disconnected
  had not been given everything). `Pieces # 0` is needed there and not a convenience: without a body
  there is no end to wait for, and the response is not a transfer.

**ControlParts.** One inductive invariant per part again, over the same lemmas about the union.

- `CaptureGate` and `RootIdentity` (`CaptureGated`): `GateInv` says that operations on the store run one
  behind the other, that the status known is what the store shows unless it drifted, and that a start that goes on was
  vetted; `RootInv` says that the files are written in one order, so that whatever is on the disk between two
  writes of a killed agent is a beginning of one identity, and that whoever holds an identity holds that one.
- `EditorProxy` and `Environment` (`ProxyChosen`): `ProxyInv` says of each window what it takes for the user's own
  value (`WindowRight`) and of each operation between its two steps what it is about to write (`WritesRight`), until
  the first of the races the property leaves out, a port forgotten as it was written being one of `stranded`; `EnvironmentInv`
  that the terminals' environment is the one of the profiles chosen while a capture runs, and none otherwise.
- `McpEndpoint` and `McpListing` (`McpAnswers`): `McpInv` is the property with the types and finitely many windows; `ListingInv` is a count: every record due is in the listing, before the page
  that is being read, or skipped, and there are no more skipped than were deleted meanwhile (`Skipped`, `Among`).
- `Composer` (`ComposedIsShown`): of the readers of files at most one counts (`Counts`), the one opened last over a draft
  that has not changed since; whatever the others bring is dropped, so that body and header shown are those sent.
- `RulesEditor` (`RulesAreSettled`): `EditorInv` follows the rules through the four places that hold them. While the
  store is as the last refresh saw it, what was sent last, in either direction, is the store; a page to which
  nothing is on its way shows that, or the rules it has just sent, or some that the window will refuse.
- `SettingsPage` (`RulesAreSettled`): `PageIsTold` says the same of the values posted last. `PageWaits` is a count: saves
  on their way, under way and answered are together one while the page waits and none while it does not, which
  breaks, as the property says, when an error that nobody asked for has let it go. `StoreIsKept` says where each
  stored value comes from: a save, or an earlier version's setting that the migration has looked at.

**AgentParts.** `RulesInv` (`RulesAreApplied`) says what the body is at each place of the callbacks: once replaced, it is the
text meant, not encoded; until then it is what came under the headers it came with, but for a response at a
breakpoint, which is shown decoded before it becomes the body. The lemma `Decoded` says what `decodeBody` returns, and
`BodyReplaced` what one rule does to the body; that the codings excepted by the property must be excepted shows in
`UnderstoodCodings`.

**Left to TLC.** Liveness (`CancelledPipesReturn`, `BodiesArrive`, `OperationsEnd`, `ConnectingEnds`, `AgentsLeave`, `DataIsRead`,
`EndsArrive`, `RepeatsAreAnswered`, `ShutdownCompletes`), which is out of the prover's reach, and four invariants of
`agent_parts`: `RecordIsWhole`, `PanelFollows`, `DataArrives` and `TypeOK`. What `CoreData`, `Records` and `Query` compute is
defined by recursion over their data or by folds, and induction over data is out of reach too; `TypeOK` is about them as well.

## 5. Not modelled

- *Contents.* What keys and certificates contain, TLS and dialling, QUIC, the decoding of protobuf messages, the
  JSON text of a frame, the compression and handshake of WebSockets, and what is done to single headers beyond
  those of `CoreData` and `Rules`: libraries, or conversions no property is about.
- *Matching.* Whether a rule's pattern matches a request is an input of `Rules`, whether a record satisfies a filter
  one of `PanelSearch` (`Query` says when it does).
- *Wording and layout.* Formatting, statistics, curl commands, logs, icons, what MCP tools print, and the remaining
  commands of the extension, which call the client and show its answer.
- *The core itself.* sing-box is third-party and not in the repository; the patches that embed the engine
  are glue to it.
- *Left for later.* Two handshakes of one window at once after a lost socket; output of an older core read after a newer
  one is up.

`PROJECT.json` lists every component with its status and every hazard with the properties that cover it.
