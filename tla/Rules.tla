---------------------------------- MODULE Rules ----------------------------------
(***************************************************************************)
(* What the interception rules make of one request and its response: the   *)
(* request and response callbacks of core/engine.ts with the helpers of    *)
(* core/rules.ts, the editor shown at a breakpoint, and how the core puts  *)
(* the result on the wire.  (When the callbacks run, and what else happens *)
(* meanwhile, is the matter of Capture.)                                   *)
(*                                                                         *)
(* A body is its text and the codings applied to it, in order; a message   *)
(* is where it goes, its Host, Content-Encoding and Content-Length headers *)
(* (the latter as the body it was counted for) and its body.               *)
(***************************************************************************)
EXTENDS Naturals, Sequences, SequencesExt

CONSTANT MaxRules  \* how many rules match the request

VARIABLES
    came,      \* the codings of what came: the request, then the response
    rules,     \* the enabled rules that match, in order
    pc,        \* where the exchange is
    todo,      \* the rules the callback has still to look at
    recorded,  \* the session has a record (t)
    message,   \* the message as edited so far: method, url, headers, body
    replaced,  \* body !== undefined
    hold,      \* a breakpoint was met
    applied,   \* the rules the record names
    touched,   \* what is sent may differ from what came
    named,     \* a header edit named the Host
    meant      \* what the receiver is to read

vars == <<came, rules, pc, todo, recorded, message, replaced, hold, applied, touched,
          named, meant>>

Destinations == {"origin", "other"}
\* Content-Encoding: none, known ones, and one that nobody here decodes.
Codings == {<<>>, <<"gzip">>, <<"odd">>, <<"gzip", "br">>}
Texts == {"sent", "set", "edited", "noise"}
Bodies == [text : Texts, coding : Codings]
Messages ==
    [url : Destinations, host : Destinations, encoding : Codings, length : Bodies,
     body : Bodies]

\* What came in a given coding.
Plain(text) == [text |-> text, coding |-> <<>>]
Incoming(c) ==
    LET b == [text |-> "sent", coding |-> c] IN
    [url |-> "origin", host |-> "origin", encoding |-> c, length |-> b, body |-> b]

\* Rules as they are stored; a rewrite edits the URL or the headers (Host), and the body.
Edits(heads) == [head : heads, body : {"keep", "set", "replace"}]
Rule ==
    [kind : {"block", "mapLocal", "mapRemote", "throttle"}]
        \cup [kind : {"breakpoint"}, on : {"request", "response"}]
        \cup [kind : {"rewrite"}, on : {"request"}, edit : Edits({"none", "url", "host"})]
        \cup [kind : {"rewrite"}, on : {"response"}, edit : Edits({"none"})]

Begin(list, coding, known) ==
    /\ rules = list /\ todo = list /\ pc = "request"
    /\ came = coding /\ message = Incoming(coding)
    /\ recorded = known
    /\ replaced = FALSE /\ hold = FALSE
    /\ applied = 0 /\ touched = FALSE /\ named = FALSE
    /\ meant = "sent"

Init ==
    \E list \in BoundedSeq(Rule, MaxRules), coding \in Codings, known \in BOOLEAN :
        Begin(list, coding, known)

-----------------------------------------------------------------------------
(* Helpers of core/rules.ts. *)

Decodable == {"gzip", "br"}

\* As a plausible slip would have it: the coding applied last goes first, as it must, but
\* a body that cannot be decoded becomes empty.
DecodeOrNothing(b, encoding) ==
    IF encoding = <<>> THEN b
    ELSE IF b.coding # <<>> /\ Last(b.coding) = Head(encoding) /\ Head(encoding) \in Decodable
    THEN [b EXCEPT !.coding = Front(b.coding)]
    ELSE Plain("noise")

\* decodeBody: the first coding the header names is undone; what cannot be decoded is
\* returned as it is.
DecodeBody(b, encoding) ==
    IF /\ encoding # <<>> /\ Head(encoding) \in Decodable
       /\ b.coding # <<>> /\ Last(b.coding) = Head(encoding)
    THEN [b EXCEPT !.coding = Front(b.coding)]
    ELSE b

\* A replacement in the text of b; what is still encoded does not survive as text.
Replace(b) == IF b.coding = <<>> THEN Plain("edited") ELSE Plain("noise")

\* A body that is shown and not editable.
Binary(b) == b.coding # <<>>

\* The message with a body that is ours: sized, and not encoded.
Resized(m) == [m EXCEPT !.length = m.body, !.encoding = <<>>]

Shown(m) == DecodeBody(m.body, m.encoding)

-----------------------------------------------------------------------------
(* The loops over the rules. *)

Phase == IF pc = "request" THEN "request" ELSE "response"

\* The edit of a body by a rewrite; in the order of the code, `body' first.
EditBody(edit) ==
    CASE edit.body = "keep" ->
            UNCHANGED <<replaced, meant>>
      [] edit.body = "set" ->
            /\ replaced' = TRUE /\ meant' = "set"
      [] edit.body = "replace" ->
            /\ replaced' = TRUE /\ meant' = "edited"

BodyAfter(edit) ==
    CASE edit.body = "keep" -> message.body
      [] edit.body = "set" -> Plain("set")
      [] edit.body = "replace" -> Replace(Shown(message))

\* block and mapLocal answer the request, and no later rule is looked at.
Answers(rule) ==
    /\ pc = "request" /\ rule.kind \in {"block", "mapLocal"}
    /\ pc' = "answered" /\ todo' = <<>>
    /\ applied' = applied + 1 /\ touched' = TRUE
    /\ UNCHANGED <<message, replaced, hold, named, meant>>

MapsRemote(rule) ==
    /\ pc = "request" /\ rule.kind = "mapRemote"
    /\ message' = [message EXCEPT !.url = "other", !.host = "other"]
    /\ todo' = Tail(todo)
    /\ applied' = applied + 1 /\ touched' = TRUE /\ named' = FALSE
    /\ UNCHANGED <<pc, replaced, hold, meant>>

\* URL and Host, then header edits, then the body.
RewritesRequest(rule) ==
    /\ pc = "request" /\ rule.kind = "rewrite" /\ rule.on = "request"
    /\ LET e == rule.edit IN
        /\ message' = [message EXCEPT
               !.url = IF e.head = "url" THEN "other" ELSE @,
               !.host = IF e.head = "none" THEN @ ELSE "other",
               !.body = BodyAfter(e)]
        /\ named' = (e.head = "host" \/ (named /\ e.head # "url"))
        /\ EditBody(e)
    /\ todo' = Tail(todo)
    /\ applied' = applied + 1 /\ touched' = TRUE
    /\ UNCHANGED <<pc, hold>>

RewritesResponse(rule) ==
    /\ pc = "response" /\ rule.kind = "rewrite" /\ rule.on = "response"
    /\ message' = [message EXCEPT !.body = BodyAfter(rule.edit)]
    /\ EditBody(rule.edit)
    /\ todo' = Tail(todo)
    /\ applied' = applied + 1 /\ touched' = TRUE
    /\ UNCHANGED <<pc, hold, named>>

\* A throttle counts as applied to the request; a breakpoint only once it was left, and
\* only where there is a record to show.
Passes(rule) ==
    /\ pc \in {"request", "response"}
    /\ \/ rule.kind \in {"throttle", "breakpoint"}
       \/ rule.kind = "rewrite" /\ rule.on # Phase
       \/ pc = "response" /\ rule.kind \in {"block", "mapLocal", "mapRemote"}
    /\ hold' = (hold \/ (rule.kind = "breakpoint" /\ rule.on = Phase /\ recorded))
    /\ applied' = IF pc = "request" /\ rule.kind = "throttle" THEN applied + 1 ELSE applied
    /\ todo' = Tail(todo)
    /\ UNCHANGED <<pc, message, replaced, touched, named, meant>>

Apply ==
    /\ todo # <<>>
    /\ LET rule == Head(todo) IN
        \/ Answers(rule) \/ MapsRemote(rule) \/ RewritesRequest(rule)
        \/ RewritesResponse(rule) \/ Passes(rule)
    /\ UNCHANGED <<came, rules, recorded>>

-----------------------------------------------------------------------------
(* Breakpoints. *)

\* The body is decoded and shown.  A response loses its Content-Encoding at once, and what
\* was shown becomes its body.
Hold ==
    /\ pc \in {"request", "response"} /\ todo = <<>> /\ hold
    /\ pc' = IF pc = "request" THEN "requestHeld" ELSE "responseHeld"
    /\ hold' = FALSE
    /\ IF pc = "response"
       THEN message' = [message EXCEPT
                !.body = Shown(message),
                !.encoding = IF replaced THEN @ ELSE <<>>]
       ELSE UNCHANGED message
    /\ UNCHANGED <<came, rules, todo, recorded, replaced, applied, touched, named, meant>>

\* Continue in the editor: it always sends the headers as they stand in it, and the body
\* unless that is binary.  `to' is the URL in it, and `typed' whether the text was changed.
ContinueRequest(to, typed) ==
    /\ pc = "requestHeld" /\ pc' = "requestOut"
    /\ LET shown == IF replaced THEN message.body ELSE Shown(message)
           editable == ~Binary(shown) IN
        /\ typed => editable
        /\ message' = [message EXCEPT !.url = to,
               !.body = IF typed THEN Plain("edited") ELSE IF editable THEN shown ELSE @]
        /\ replaced' = (replaced \/ editable)
        /\ meant' = IF typed THEN "edited" ELSE meant
    /\ named' = (named \/ to # message.url)

\* The other clients may continue a request with no edit at all.
ContinueBare ==
    /\ pc = "requestHeld" /\ pc' = "requestOut"
    /\ UNCHANGED <<message, replaced, meant, named>>

ContinueResponse(typed) ==
    /\ pc = "responseHeld" /\ pc' = "responseOut"
    /\ typed => ~Binary(message.body)
    /\ message' = IF typed THEN [message EXCEPT !.body = Plain("edited")] ELSE message
    /\ meant' = IF typed THEN "edited" ELSE meant
    /\ replaced' = TRUE
    /\ UNCHANGED named

Continue ==
    /\ \/ \E to \in Destinations, typed \in BOOLEAN : ContinueRequest(to, typed)
       \/ ContinueBare
       \/ \E typed \in BOOLEAN : ContinueResponse(typed)
    /\ applied' = applied + 1 /\ touched' = TRUE
    /\ UNCHANGED <<came, rules, todo, recorded, hold>>

Abort ==
    /\ pc \in {"requestHeld", "responseHeld"}
    /\ pc' = "aborted" /\ applied' = applied + 1
    /\ UNCHANGED <<came, rules, todo, recorded, message, replaced, hold, touched, named,
                   meant>>

-----------------------------------------------------------------------------
(* The decisions go to the core. *)

SendRequest ==
    /\ \/ pc = "request" /\ todo = <<>> /\ ~hold
       \/ pc = "requestOut"
    /\ pc' = "requested"
    /\ message' = IF replaced THEN Resized(message) ELSE message
    /\ UNCHANGED <<came, rules, todo, recorded, replaced, hold, applied, touched, named,
                   meant>>

\* The server answers, in any coding; the record may have been deleted meanwhile, or
\* have made room for newer ones.
Respond ==
    /\ pc = "requested" /\ pc' = "response"
    /\ came' \in Codings /\ message' = Incoming(came')
    /\ recorded' \in {recorded, FALSE}
    /\ todo' = rules
    /\ replaced' = FALSE /\ touched' = FALSE /\ named' = FALSE
    /\ applied' = 0 /\ meant' = "sent"
    /\ UNCHANGED <<rules, hold>>

\* The headers of an edited body are only adapted if there is a record.
SendResponse ==
    /\ \/ pc = "response" /\ todo = <<>> /\ ~hold
       \/ pc = "responseOut"
    /\ pc' = "responded"
    /\ message' = IF replaced /\ recorded THEN Resized(message) ELSE message
    /\ UNCHANGED <<came, rules, todo, recorded, replaced, hold, applied, touched, named,
                   meant>>

Next == Apply \/ Hold \/ Continue \/ Abort \/ SendRequest \/ Respond \/ SendResponse

Spec == Init /\ [][Next]_vars

-----------------------------------------------------------------------------
(* Properties. *)

TypeOK ==
    /\ came \in Codings /\ rules \in Seq(Rule) /\ todo \in Seq(Rule) /\ Len(todo) <= Len(rules)
    /\ pc \in {"request", "requestHeld", "requestOut", "requested", "answered", "aborted",
               "response", "responseHeld", "responseOut", "responded"}
    /\ message \in Messages
    /\ {recorded, replaced, hold, touched, named} \subseteq BOOLEAN
    /\ applied \in 0..Len(rules) + 1
    /\ meant \in Texts

Sent == pc \in {"requested", "responded"}

\* What the receiver of the message makes of it, by its headers.
Reads(m) ==
    IF m.length = m.body /\ m.encoding = m.body.coding THEN m.body.text ELSE "noise"

\* One coding at most, which decodeBody knows.
Understood(c) == Len(c) <= 1 /\ ToSet(c) \subseteq Decodable

\* Whatever was edited, in whatever order, the receiver reads the text that the rules and
\* the user meant, under headers that fit it (engine.ts, "if (body !== undefined)").
\* Excepted are bodies that decodeBody cannot decode, and responses without a record.
BodyArrives ==
    Sent /\ Understood(came) /\ (pc = "requested" \/ recorded) => Reads(message) = meant

\* The Host header follows the URL, unless an edit of the headers says otherwise; the
\* editor of a breakpoint is one (README, "`Host` follows").
HostFollows == pc = "requested" => message.host = message.url \/ named

\* An exchange that was touched shows it in the table.
TouchedIsShown == Sent /\ touched => applied > 0
=============================================================================
