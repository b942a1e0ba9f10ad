------------------------------- MODULE Exchange -------------------------------
(***************************************************************************)
(* One inspected HTTP exchange, from the request the core reads to the     *)
(* record of it: proxy.go asks Node for its decision on the request and on *)
(* the response (session.askBody), hands the body of the response over and *)
(* forwards to the client what comes back; inspector.ts decides, taps and  *)
(* relays; engine.ts finishes the record.                                  *)
(*                                                                         *)
(* A client may leave at any time.  One that left after its last byte has  *)
(* five seconds in which the core drains what is still on its way.         *)
(***************************************************************************)
EXTENDS Naturals, Sequences

CONSTANT Pieces   \* bound: pieces of the body of a response

VARIABLES
    toNode, toCore,  \* the two pipes, FIFO
    framing,     \* how the response tells its end: "length" or "chunked"
    stage,       \* onRequest and onResponse in the core, then the writer of the response
    reply,       \* the answer that askBody waits for
    local,       \* session.local
    uploaded,    \* the body of the request was read to its end
    produced,    \* pieces of the origin's body that Pipe sent to Node
    owed,        \* Pipe awaits its credit
    exhausted,   \* Pipe sent the end
    channel,     \* the reader's frame of the stream out
    read,        \* forwardBody.read
    delivered,   \* session.delivered
    eof,         \* output.EOF()
    given,       \* history: pieces forwarded while the client was there
    client,      \* the client is there
    noticed,     \* its leaving was noticed: session.disconnected ran
    draining,    \* the timer of disconnected is set
    drainedOut,  \* it fired
    over,        \* session.finish ran
    known,       \* inspector.sessions has it
    deciding,    \* the handler of the engine that is awaited
    relaying,    \* what Node is sending to the client: nothing, its own body, the origin's
    inbox,       \* frames of the stream in that Node has not relayed
    tapped,      \* pieces relayed
    credit,      \* Node may send the next frame out
    record       \* the state of the record

origin == <<produced, owed, exhausted>>
forwarding == <<channel, read, delivered, eof, given>>
leaving == <<client, noticed, draining, drainedOut>>
core == <<framing, stage, reply, local, uploaded, origin, forwarding, leaving, over>>
node == <<known, deciding, relaying, inbox, tapped, credit, record>>
exchangeVars == <<toNode, toCore, core, node>>

Fresh ==
    /\ toNode = <<>> /\ toCore = <<>>
    /\ reply = "none" /\ local = FALSE /\ uploaded = FALSE
    /\ produced = 0 /\ owed = FALSE /\ exhausted = FALSE /\ channel = "none" /\ read = 0
    /\ delivered = FALSE /\ eof = FALSE /\ given = 0 /\ noticed = FALSE
    /\ draining = FALSE /\ drainedOut = FALSE
    /\ known = FALSE /\ deciding = "none" /\ relaying = "nothing" /\ inbox = <<>>
    /\ tapped = 0 /\ credit = TRUE /\ record = "none"

Init ==
    /\ Fresh /\ framing \in {"length", "chunked"}
    /\ stage = "asked" /\ client = TRUE /\ over = FALSE

\* A request that was refused before it had a session.
Over == Fresh /\ framing = "length" /\ stage = "done" /\ client = FALSE /\ over = TRUE

-----------------------------------------------------------------------------
(* The core. *)

\* session.finish, once: what Node is told; frames for its readers are dropped from now on.
Finish(messages) ==
    /\ over' = TRUE
    /\ toNode' = IF over THEN toNode ELSE toNode \o messages
Answers == {"go", "local", "error"}
Aborted == <<"aborted">>
Failed == <<"failure", "aborted">>

\* onRequest: askBody sends the request, and a worker pipes its body.
Ask ==
    /\ stage = "asked" /\ stage' = "asking" /\ toNode' = Append(toNode, "request")
    /\ UNCHANGED <<toCore, framing, reply, local, uploaded, origin, forwarding, leaving,
                   over, node>>

\* Pipe of the request's body ends, or fails because the client left or broke the framing; it
\* may outlast the response.
UploadEnds ==
    /\ stage # "asked" /\ ~uploaded /\ ~over /\ uploaded' = TRUE
    /\ UNCHANGED <<toNode, toCore, framing, stage, reply, local, origin, forwarding,
                   leaving, over, node>>
UploadFails ==
    /\ stage # "asked" /\ ~uploaded /\ uploaded' = TRUE
    /\ Finish(Failed)
    /\ UNCHANGED <<toCore, framing, stage, reply, local, origin, forwarding, leaving, node>>

\* The select of askBody: the reply (an error fails the response) ...
Answered ==
    /\ stage \in {"asking", "askingResponse"} /\ reply # "none" /\ reply' = "none"
    /\ stage' = CASE reply = "error" -> "done"
                  [] reply = "local" -> "writing"
                  [] reply = "go" /\ stage = "asking" -> "upstream"
                  [] reply = "go" /\ stage = "askingResponse" -> "writing"
    /\ local' = (reply = "local")
    /\ IF reply = "error" THEN Finish(Failed) ELSE UNCHANGED <<toNode, over>>
    /\ UNCHANGED <<toCore, framing, uploaded, origin, forwarding, leaving, node>>
\* ... or the end of the session.
GivesUp ==
    /\ stage \in {"asking", "askingResponse"} /\ over /\ stage' = "done"
    /\ UNCHANGED <<toNode, toCore, framing, reply, local, uploaded, origin, forwarding,
                   leaving, over, node>>

\* The round trip to the origin fails, or its response is shown to Node; that of a session
\* that is over goes to the client as it is.
RoundTripFails ==
    /\ stage = "upstream" /\ stage' = "done" /\ Finish(Failed)
    /\ UNCHANGED <<toCore, framing, reply, local, uploaded, origin, forwarding, leaving,
                   node>>
Respond ==
    /\ stage = "upstream"
    /\ IF over THEN stage' = "done" /\ UNCHANGED toNode
       ELSE stage' = "askingResponse" /\ toNode' = Append(toNode, "response")
    /\ UNCHANGED <<toCore, framing, reply, local, uploaded, origin, forwarding, leaving,
                   over, node>>

\* Pipe of the response's body: a piece, the end, or an error of the origin.
Piping == stage \in {"askingResponse", "writing"} /\ ~local /\ ~owed /\ ~exhausted /\ ~over
Produce ==
    /\ Piping
    /\ IF produced < Pieces
       THEN produced' = produced + 1 /\ owed' = TRUE /\ UNCHANGED exhausted
            /\ toNode' = Append(toNode, "piece")
       ELSE exhausted' = TRUE /\ toNode' = Append(toNode, "end")
            /\ UNCHANGED <<produced, owed>>
    /\ UNCHANGED <<toCore, framing, stage, reply, local, uploaded, forwarding, leaving,
                   over, node>>
OriginBreaks ==
    /\ Piping /\ Finish(Failed)
    /\ UNCHANGED <<toCore, framing, stage, reply, local, uploaded, origin, forwarding,
                   leaving, node>>

\* forwardBody.Read of a piece, which the writer passes on to the client. The body of a
\* local response (localResponse) has no session to mark.
ForwardPiece ==
    /\ stage = "writing" /\ channel = "piece" /\ channel' = "none"
    /\ read' = read + 1 /\ given' = given + (IF client THEN 1 ELSE 0)
    /\ delivered' = (delivered \/ (~local /\ framing = "length" /\ read' = Pieces))
    /\ toNode' = Append(toNode, "credit")
    /\ UNCHANGED <<toCore, framing, stage, reply, local, uploaded, origin, eof, leaving,
                   over, node>>

\* The writer reads on to the end, and closes the body: `finish' with EOF().
ForwardEnd ==
    /\ stage = "writing" /\ channel = "end" /\ channel' = "none"
    /\ stage' = "done" /\ eof' = TRUE /\ Finish(<<"completed">>)
    /\ UNCHANGED <<toCore, framing, reply, local, uploaded, origin, read, delivered,
                   given, leaving, node>>

\* It stops before the end if its reader is cancelled, or if what it writes finds no client;
\* after the last byte of a response of known length it writes nothing.
WriterStops ==
    /\ stage = "writing"
    /\ over \/ (~client /\ channel = "piece") \/ (~client /\ framing = "chunked")
    /\ stage' = "done" /\ Finish(Aborted)
    /\ UNCHANGED <<toCore, framing, reply, local, uploaded, origin, forwarding, leaving,
                   node>>

ClientLeaves ==
    /\ client /\ client' = FALSE
    /\ UNCHANGED <<toNode, toCore, framing, stage, reply, local, uploaded, origin,
                   forwarding, noticed, draining, drainedOut, over, node>>

\* A plausible slip: it is not asked what was delivered.
DisconnectedAtOnce ==
    /\ ~client /\ ~noticed /\ stage # "asked" /\ noticed' = TRUE
    /\ Finish(Aborted)
    /\ UNCHANGED <<toCore, framing, stage, reply, local, uploaded, origin, forwarding,
                   client, draining, drainedOut, node>>

\* session.disconnected, when the connection's context ends.
Disconnected ==
    /\ ~client /\ ~noticed /\ stage # "asked" /\ noticed' = TRUE
    /\ IF delivered
       THEN draining' = ~over /\ UNCHANGED <<toNode, over>>
       ELSE Finish(Aborted) /\ UNCHANGED draining
    /\ UNCHANGED <<toCore, framing, stage, reply, local, uploaded, origin, forwarding,
                   client, drainedOut, node>>

\* Five seconds.
DrainTimesOut ==
    /\ draining /\ ~over /\ draining' = FALSE /\ drainedOut' = TRUE /\ Finish(Failed)
    /\ UNCHANGED <<toCore, framing, stage, reply, local, uploaded, origin, forwarding,
                   client, noticed, node>>

\* Peer.Receive, and an abort (closed by engine.go's handler of it).
CoreReceives ==
    /\ toCore # <<>> /\ toCore' = Tail(toCore)
    /\ LET m == Head(toCore) IN
       /\ reply' = IF m \in Answers /\ stage \in {"asking", "askingResponse"}
                   THEN m ELSE reply
       /\ owed' = (owed /\ m # "credit")
       /\ channel' = IF m \in {"piece", "end"} /\ ~over THEN m ELSE channel
       /\ IF m = "abort" THEN Finish(Aborted) ELSE UNCHANGED <<toNode, over>>
    /\ UNCHANGED <<framing, stage, local, uploaded, produced, exhausted, read, delivered,
                   eof, given, leaving, node>>

-----------------------------------------------------------------------------
(* Node. *)

\* The messages of inspector.ts; `closed' and `failure' cancel the streams of the session.
Forget ==
    /\ known' = FALSE /\ relaying' = "nothing" /\ inbox' = <<>>
    /\ deciding' = "none"
NodeReceives ==
    /\ toNode # <<>> /\ toNode' = Tail(toNode)
    /\ LET m == Head(toNode) IN
       /\ CASE m = "request" ->
                  /\ known' = TRUE /\ deciding' = "request" /\ record' = "pending"
                  /\ UNCHANGED <<toCore, relaying, inbox, credit>>
            [] m = "response" ->
                  /\ IF known THEN deciding' = "response" /\ UNCHANGED toCore
                     ELSE toCore' = Append(toCore, "abort") /\ UNCHANGED deciding
                  /\ UNCHANGED <<known, relaying, inbox, credit, record>>
            [] m \in {"piece", "end"} ->
                  /\ inbox' = Append(inbox, m)
                  /\ UNCHANGED <<toCore, known, deciding, relaying, credit, record>>
            [] m = "credit" ->
                  /\ credit' = TRUE
                  /\ UNCHANGED <<toCore, known, deciding, relaying, inbox, record>>
            [] m = "failure" ->
                  /\ Forget /\ toCore' = Append(toCore, "abort")
                  /\ record' = IF record = "pending" THEN "failed" ELSE record
                  /\ UNCHANGED credit
            [] m \in {"aborted", "completed"} ->
                  /\ Forget
                  /\ record' = IF record # "pending" THEN record
                               ELSE IF m = "aborted" THEN "disconnected" ELSE "completed"
                  /\ UNCHANGED <<toCore, credit>>
    /\ UNCHANGED <<core, tapped>>

\* The engine decides: it goes on, answers by itself, or aborts at a breakpoint. The client's
\* body is drained in any case.
Decide(answer) ==
    /\ deciding # "none" /\ known /\ deciding' = "none"
    /\ answer = "local" => deciding = "request"
    /\ toCore' = Append(toCore, answer)
    /\ relaying' = CASE answer = "local" -> "own"
                     [] answer = "go" /\ deciding = "response" -> "origin's"
                     [] OTHER -> relaying
    /\ credit' = TRUE
    /\ UNCHANGED <<toNode, core, known, inbox, tapped, record>>

\* Inspector.relay: a piece is tapped and sent on, and what the reader gave is credited.
RelayPiece ==
    /\ relaying # "nothing" /\ credit /\ tapped < Pieces
    /\ IF relaying = "own"
       THEN toCore' = Append(toCore, "piece") /\ UNCHANGED inbox
       ELSE /\ inbox # <<>> /\ Head(inbox) = "piece" /\ inbox' = Tail(inbox)
            /\ toCore' = toCore \o <<"credit", "piece">>
    /\ tapped' = tapped + 1 /\ credit' = FALSE
    /\ UNCHANGED <<toNode, core, known, deciding, relaying, record>>

\* The end goes out once the last piece was credited. It ends the record of a response that
\* came from the origin; that of a local one ends with `closed'.
RelayEnd ==
    /\ relaying # "nothing" /\ credit
    /\ IF relaying = "own" THEN tapped = Pieces /\ UNCHANGED <<inbox, record>>
       ELSE /\ inbox # <<>> /\ Head(inbox) = "end" /\ inbox' = Tail(inbox)
            /\ record' = "completed"
    /\ toCore' = Append(toCore, "end") /\ relaying' = "nothing"
    /\ UNCHANGED <<toNode, core, known, deciding, tapped, credit>>

-----------------------------------------------------------------------------
CoreStep == Ask \/ Answered \/ GivesUp \/ ForwardPiece \/ ForwardEnd \/ WriterStops
Next ==
    \/ CoreStep \/ UploadEnds \/ UploadFails \/ RoundTripFails \/ Respond
    \/ Produce \/ OriginBreaks \/ ClientLeaves \/ Disconnected \/ DrainTimesOut
    \/ CoreReceives \/ NodeReceives
    \/ \E answer \in Answers : Decide(answer)
    \/ RelayPiece \/ RelayEnd

\* The core and Node go on; neither the origin, the client nor a breakpoint has to.
FairSpec ==
    /\ Init /\ [][Next]_exchangeVars
    /\ WF_exchangeVars(CoreStep) /\ WF_exchangeVars(Disconnected)
    /\ WF_exchangeVars(DrainTimesOut) /\ WF_exchangeVars(CoreReceives)
    /\ WF_exchangeVars(NodeReceives)

-----------------------------------------------------------------------------
(* Properties. *)

Frames == {"piece", "end"}

TypeOK ==
    /\ toNode \in Seq({"request", "response", "credit", "failure", "aborted", "completed"}
                      \cup Frames)
    /\ toCore \in Seq({"credit", "abort"} \cup Answers \cup Frames)
    /\ framing \in {"length", "chunked"}
    /\ stage \in {"asked", "asking", "upstream", "askingResponse", "writing", "done"}
    /\ reply \in {"none"} \cup Answers /\ channel \in {"none"} \cup Frames
    /\ {local, uploaded, owed, exhausted, delivered, eof, client, noticed, draining,
        drainedOut, over, known, credit} \subseteq BOOLEAN
    /\ {produced, read, given, tapped} \subseteq 0..Pieces
    /\ deciding \in {"none", "request", "response"}
    /\ relaying \in {"nothing", "own", "origin's"} /\ inbox \in Seq(Frames)
    /\ record \in {"none", "pending", "completed", "disconnected", "failed"}

\* A client that was given all of the origin's response, and leaves at once, is not recorded
\* as one that disconnected (session.go: "Let that completed body drain before cancelling").
DeliveredIsRecorded ==
    record = "disconnected" /\ ~local =>
        ~(framing = "length" /\ given = Pieces) /\ ~eof

\* A response that the core calls complete was forwarded in full, and one that the record
\* calls complete was tapped in full (proxy.go body.finish; engine.ts responseEnd).
CompletedIsWhole ==
    /\ eof => read = Pieces
    /\ record = "completed" => tapped = Pieces

\* A client that left ends its session, and the record of it is not left open, whatever the
\* exchange was waiting for (session.go disconnected; inspector.ts `closed').
LeavingEnds == ~client ~> over /\ record # "pending"
=============================================================================
