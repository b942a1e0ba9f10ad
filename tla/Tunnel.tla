-------------------------------- MODULE Tunnel --------------------------------
(***************************************************************************)
(* A CONNECT that is not inspected: proxy.go hands both directions of the  *)
(* client's socket to Node as two streams, and inspector.ts ties them to a *)
(* socket of its own to the origin (core/inspector.ts, `case 'connect'').  *)
(*                                                                         *)
(* Each direction has one chunk in flight.  The core learns that the       *)
(* tunnel is opaque from the first frame of the stream out (the 200 that   *)
(* Node writes once it is connected); the handler takes that frame off the *)
(* reader's channel to see it, and puts it back for the copy loop.         *)
(***************************************************************************)
EXTENDS Naturals, Sequences

CONSTANTS
    Downloads,   \* bound: chunks the origin sends
    Uploads      \* bound: chunks the client sends


VARIABLES
    toCore, toNode,  \* the two pipes, FIFO
    handler,     \* the handler of the CONNECT in the core
    held,        \* the frame it took off the channel
    registered,  \* the reader of the stream out is known to the peer
    channel,     \* that reader's channel: one frame
    answered,    \* the inspect reply is in the handler's channel
    over,        \* session.finish ran: the context is cancelled
    fatal,       \* Peer.Receive reported a broken protocol: the whole core ends
    pipe,        \* Peer.Pipe of the stream in: idle, reading, or waiting for its credit
    token,       \* a credit is in its channel
    client,      \* the client's connection
    pending,     \* chunks the client sent that Pipe has not read
    copied,      \* chunks of the stream out that were written to the client
    ended,       \* how the copy loop ended, and after how many chunks
    up,          \* Node's socket to the origin
    socket,      \* Node's duplex over the two streams
    queue,       \* chunks written to it that await their turn
    inflight,    \* a chunk out awaits its credit
    ending,      \* the duplex was ended: `end' follows the queue
    sent,        \* chunks the origin sent, the 200 included
    lost         \* a chunk of the client reached a duplex nobody reads yet

core == <<handler, held, registered, channel, answered, over, fatal, pipe, token,
          client, pending, copied, ended>>
node == <<up, socket, queue, inflight, ending, sent, lost>>
tunnelVars == <<toCore, toNode, core, node>>

Msg(type) == [type |-> type, n |-> 0]
Chunk(n) == [type |-> "chunk", n |-> n]
NotEnded == [how |-> "no", n |-> 0]

Init ==
    /\ toCore = <<>> /\ toNode = <<>>
    /\ handler = "created" /\ held = Msg("none") /\ registered = FALSE /\ channel = <<>>
    /\ answered = FALSE /\ over = FALSE /\ fatal = FALSE
    /\ pipe = "idle" /\ token = FALSE /\ client = "open" /\ pending = 0 /\ copied = 0
    /\ ended = NotEnded
    /\ up = "none" /\ socket = "none" /\ queue = <<>> /\ inflight = FALSE
    /\ ending = FALSE /\ sent = 0 /\ lost = FALSE

\* A tunnel that was refused.
Over ==
    /\ toCore = <<>> /\ toNode = <<>>
    /\ handler = "gone" /\ held = Msg("none") /\ registered = FALSE /\ channel = <<>>
    /\ answered = FALSE /\ over = TRUE /\ fatal = FALSE
    /\ pipe = "idle" /\ token = FALSE /\ client = "left" /\ pending = 0 /\ copied = 0
    /\ ended = NotEnded
    /\ up = "none" /\ socket = "none" /\ queue = <<>> /\ inflight = FALSE
    /\ ending = FALSE /\ sent = 0 /\ lost = FALSE

-----------------------------------------------------------------------------
(* The core. *)

\* session.finish: the context is cancelled, the readers removed, `closed' sent, once.
FinishWith(messages) ==
    /\ over' = TRUE
    /\ registered' = (registered /\ over)
    /\ toNode' = toNode \o messages \o IF over THEN <<>> ELSE <<Msg("closed")>>

\* The handler registers its reader and asks; a client that left has ended the session
\* before that, and is asked about all the same.
Ask ==
    /\ handler = "created"
    /\ handler' = "asking" /\ registered' = TRUE
    /\ toNode' = Append(toNode, Msg("connect"))
    /\ UNCHANGED <<toCore, held, channel, answered, over, fatal, pipe, token, client,
                   pending, copied, ended, node>>

\* The select of the handler takes any case that is ready.
Reject ==
    /\ handler = "asking" /\ over
    /\ handler' = "gone"
    /\ UNCHANGED <<toCore, toNode, held, registered, channel, answered, over, fatal, pipe,
                   token, client, pending, copied, ended, node>>

Inspect ==
    /\ handler = "asking" /\ answered
    /\ handler' = "gone" /\ FinishWith(<<>>)
    /\ UNCHANGED <<toCore, held, channel, answered, fatal, pipe, token, client, pending,
                   copied, ended, node>>

TakeFirst ==
    /\ handler = "asking" /\ channel # <<>>
    /\ handler' = "holding" /\ held' = Head(channel) /\ channel' = <<>>
    /\ UNCHANGED <<toCore, toNode, registered, answered, over, fatal, pipe, token, client,
                   pending, copied, ended, node>>

\* A send into a full channel would block the handler for ever.
PutBack ==
    /\ handler = "holding" /\ channel = <<>>
    /\ handler' = "relaying" /\ channel' = <<held>> /\ pipe' = "reading"
    /\ UNCHANGED <<toCore, toNode, held, registered, answered, over, fatal, token, client,
                   pending, copied, ended, node>>

\* Peer.Receive, for the head of the pipe.
CoreReceives ==
    /\ toCore # <<>> /\ ~fatal
    /\ toCore' = Tail(toCore)
    /\ LET m == Head(toCore)
           taken == m.type \in {"chunk", "end"} /\ registered /\ ~over
           credit == m.type = "credit" /\ pipe # "idle" /\ ~over
       IN  /\ channel' = IF taken /\ channel = <<>> THEN <<m>> ELSE channel
           /\ token' = (token \/ credit)
           /\ answered' = (answered \/ m.type = "inspect")
           /\ fatal' = ((taken /\ channel # <<>>) \/ (credit /\ token))
    /\ UNCHANGED <<toNode, handler, held, registered, over, pipe, client, pending, copied,
                   ended, node>>

\* io.Copy(client, out): the credit goes back once the chunk was consumed.
Copy ==
    /\ handler = "relaying" /\ ~over /\ ended = NotEnded
    /\ channel # <<>> /\ channel' = <<>>
    /\ LET m == Head(channel)
       IN  \/ /\ m.type = "chunk" /\ client = "open"
              /\ copied' = copied + 1 /\ toNode' = Append(toNode, Msg("credit"))
              /\ UNCHANGED <<over, registered, ended>>
           \/ /\ m.type = "chunk" /\ client = "left"      \* the write fails
              /\ FinishWith(<<Msg("credit")>>)
              /\ ended' = [how |-> "failed", n |-> copied] /\ UNCHANGED copied
           \/ /\ m.type = "end"
              /\ FinishWith(<<>>)
              /\ ended' = [how |-> "end", n |-> copied] /\ UNCHANGED copied
    /\ UNCHANGED <<toCore, handler, held, answered, fatal, pipe, token, client, pending, node>>

PipeReads ==
    /\ pipe = "reading" /\ pending > 0 /\ ~over
    /\ pending' = pending - 1 /\ pipe' = "waiting"
    /\ toNode' = Append(toNode, Chunk(0))
    /\ UNCHANGED <<toCore, handler, held, registered, channel, answered, over, fatal, token,
                   client, copied, ended, node>>

PipeGoesOn ==
    /\ pipe = "waiting" /\ token
    /\ pipe' = "reading" /\ token' = FALSE
    /\ UNCHANGED <<toCore, toNode, handler, held, registered, channel, answered, over, fatal,
                   client, pending, copied, ended, node>>

\* The pump sees the client leave, even half-way, and cancels the connection's context.
Disconnected ==
    /\ client = "left" /\ ~over
    /\ FinishWith(<<>>)
    /\ UNCHANGED <<toCore, handler, held, channel, answered, fatal, pipe, token, client,
                   pending, copied, ended, node>>

-----------------------------------------------------------------------------
(* Node. *)

\* Once the duplex is destroyed its `close' destroys the socket to the origin.
Destroyed ==
    /\ socket' = IF socket = "none" THEN "none" ELSE "destroyed"
    /\ up' = IF up = "none" THEN "none" ELSE "closed"

NodeReceives ==
    /\ toNode # <<>>
    /\ toNode' = Tail(toNode)
    /\ LET m == Head(toNode)
       IN  \/ /\ m.type = "connect"                       \* inspected
              /\ toCore' = Append(toCore, Msg("inspect"))
              /\ UNCHANGED <<up, socket, inflight, lost>>
           \/ /\ m.type = "connect"
              /\ socket' = "open" /\ up' = "connecting"
              /\ UNCHANGED <<toCore, inflight, lost>>
           \/ /\ m.type = "chunk"
              /\ toCore' = IF socket = "open" THEN Append(toCore, Msg("credit")) ELSE toCore
              /\ lost' = (lost \/ (socket = "open" /\ up = "connecting"))
              /\ UNCHANGED <<up, socket, inflight>>
           \/ /\ m.type = "credit" /\ inflight' = FALSE
              /\ UNCHANGED <<toCore, up, socket, lost>>
           \/ /\ m.type = "closed" /\ Destroyed
              /\ UNCHANGED <<toCore, inflight, lost>>
    /\ UNCHANGED <<core, queue, ending, sent>>

Connected ==
    /\ up = "connecting"
    /\ up' = "open" /\ queue' = <<Chunk(0)>> /\ sent' = 1      \* the 200
    /\ UNCHANGED <<toCore, toNode, core, socket, inflight, ending, lost>>

\* A socket that fails is no longer `connecting' when it says so: its error handler
\* returns at once, and `close' destroys the duplex.
Refused ==
    /\ up = "connecting" /\ Destroyed
    /\ UNCHANGED <<toCore, toNode, core, queue, inflight, ending, sent, lost>>

OriginSends ==
    /\ up = "open" /\ sent <= Downloads
    /\ sent' = sent + 1 /\ queue' = Append(queue, Chunk(sent))
    /\ UNCHANGED <<toCore, toNode, core, up, socket, inflight, ending, lost>>

\* Wrong: the duplex is destroyed as soon as the origin is done.
OriginEndsAtOnce ==
    /\ up = "open" /\ ending' = TRUE /\ Destroyed
    /\ UNCHANGED <<toCore, toNode, core, queue, inflight, sent, lost>>

\* `end' of the socket ends the duplex once the chunks before it are written.
OriginEnds ==
    /\ up = "open" /\ up' = "ended" /\ ending' = TRUE
    /\ UNCHANGED <<toCore, toNode, core, socket, queue, inflight, sent, lost>>

OriginResets ==
    /\ up = "open" /\ Destroyed
    /\ UNCHANGED <<toCore, toNode, core, queue, inflight, ending, sent, lost>>

WriterSends ==
    /\ socket = "open" /\ ~inflight /\ queue # <<>>
    /\ toCore' = Append(toCore, Head(queue)) /\ queue' = Tail(queue) /\ inflight' = TRUE
    /\ UNCHANGED <<toNode, core, up, socket, ending, sent, lost>>

\* `finish' comes after the last credit; only then is the duplex destroyed.
WriterFinishes ==
    /\ socket = "open" /\ ~inflight /\ queue = <<>> /\ ending
    /\ toCore' = Append(toCore, Msg("end")) /\ Destroyed
    /\ UNCHANGED <<toNode, core, queue, inflight, ending, sent, lost>>

-----------------------------------------------------------------------------

ClientSends ==
    /\ client = "open" /\ ~over /\ pending < Uploads
    /\ pending' = pending + 1
    /\ UNCHANGED <<toCore, toNode, handler, held, registered, channel, answered, over, fatal,
                   pipe, token, client, copied, ended, node>>

ClientLeaves ==
    /\ client = "open" /\ client' = "left"
    /\ UNCHANGED <<toCore, toNode, handler, held, registered, channel, answered, over, fatal,
                   pipe, token, pending, copied, ended, node>>

CoreStep ==
    \/ Ask \/ Reject \/ Inspect \/ TakeFirst \/ PutBack
    \/ CoreReceives \/ Copy \/ PipeReads \/ PipeGoesOn \/ Disconnected
NodeStep == NodeReceives \/ WriterSends \/ WriterFinishes
Decides == Reject \/ Inspect \/ TakeFirst
Writes == WriterSends \/ WriterFinishes
Dialled == Connected \/ Refused

Next ==
    \/ CoreStep \/ NodeStep \/ Dialled
    \/ OriginSends \/ OriginEnds \/ OriginResets \/ ClientSends \/ ClientLeaves

\* Both processes run and a dial is decided; neither end need ever do anything.
Fairness ==
    /\ WF_tunnelVars(Ask) /\ WF_tunnelVars(Decides)
    /\ WF_tunnelVars(PutBack) /\ WF_tunnelVars(CoreReceives)
    /\ WF_tunnelVars(Copy) /\ WF_tunnelVars(PipeGoesOn)
    /\ WF_tunnelVars(Disconnected)
    /\ WF_tunnelVars(NodeReceives)
    /\ WF_tunnelVars(Writes)
    /\ WF_tunnelVars(Dialled)

Spec == Init /\ [][Next]_tunnelVars
FairSpec == Spec /\ Fairness

-----------------------------------------------------------------------------
(* Properties. *)

TypeOK ==
    /\ \A i \in 1..Len(toCore) : toCore[i].type \in {"inspect", "chunk", "end", "credit"}
    /\ \A i \in 1..Len(toNode) :
           toNode[i].type \in {"connect", "chunk", "credit", "closed"}
    /\ handler \in {"created", "asking", "holding", "relaying", "gone"}
    /\ pipe \in {"idle", "reading", "waiting"}
    /\ {registered, answered, over, fatal, token, inflight, ending, lost} \subseteq BOOLEAN
    /\ Len(channel) <= 1 /\ client \in {"open", "left"}
    /\ pending \in 0..Uploads /\ sent \in 0..(Downloads + 1) /\ copied \in 0..sent
    /\ up \in {"none", "connecting", "open", "ended", "closed"}
    /\ socket \in {"none", "open", "destroyed"}

\* Neither end sends beyond its credit, which would end the core and every session of it,
\* and the handler that puts the first frame back never finds the channel taken.
\* (peer.go, Receive; proxy.go, `out.Messages() <- first'.)
CreditsSuffice == ~fatal /\ (handler = "holding" => channel = <<>> \/ over)

\* No byte of the client reaches Node before its socket to the origin is piped: the
\* `data' listener that counts bytes would consume it.  (inspector.ts, case 'connect'.)
UploadsAwaitTheOrigin == ~lost

\* A client that is told the end has been given all the origin sent before it.
EndIsComplete == ended.how = "end" => ended.n = sent

\* An origin that ends in order ends the session: the end gets past the queue, the
\* credits and the destruction of the duplex.
OrderlyEndArrives == ending ~> over

\* An origin that cannot be reached, or that resets the connection, is told the client.
FailureArrives == (up = "closed") ~> over
=============================================================================
