--------------------------- MODULE AgentPartsProofs ---------------------------
(***************************************************************************)
(* What AgentParts keeps: a behaviour of it is one of one part, so an      *)
(* invariant of the part is one of the whole.  The invariants of the parts *)
(* are in ControlPartsProofs.                                              *)
(***************************************************************************)
EXTENDS AgentParts, ControlPartsProofs

-----------------------------------------------------------------------------
(* Rules. *)

RulesTyped ==
    /\ came \in Ruled!Codings /\ rules \in Seq(Ruled!Rule) /\ todo \in Seq(Ruled!Rule)
    /\ recorded \in BOOLEAN /\ replaced \in BOOLEAN /\ hold \in BOOLEAN
    /\ touched \in BOOLEAN /\ named \in BOOLEAN
    /\ message \in Ruled!Messages /\ applied \in Nat /\ meant \in Ruled!Texts

\* A body that was replaced is the text meant.  One that was not is what came, but for the
\* response at a breakpoint, which is shown decoded; the editor then makes it the body.
BodyIsMeant ==
    /\ replaced => message.body = Ruled!Plain(meant)
    /\ ~replaced => meant = "sent"
    /\ ~replaced /\ pc \notin {"responseHeld", "aborted"} =>
           message.body = message.length /\ message.body.text = "sent"
           /\ message.body.coding = came /\ message.encoding = came
    /\ ~replaced /\ pc = "responseHeld" => message.body = Ruled!Plain("sent")
    /\ pc = "responseOut" => replaced
    /\ pc = "requested" \/ (pc = "responded" /\ recorded) => Ruled!Reads(message) = meant

RulesInv ==
    /\ RulesTyped
    /\ Ruled!Understood(came) => BodyIsMeant
    /\ pc \in {"request", "requestHeld", "requestOut", "requested"} =>
           message.host = message.url \/ named
    /\ touched => applied # 0

LEMMA RulesHolds ==
    ASSUME RulesInv
    PROVE  Ruled!BodyArrives /\ Ruled!HostFollows /\ Ruled!TouchedIsShown
BY DEF RulesInv, RulesTyped, BodyIsMeant, Ruled!BodyArrives, Ruled!HostFollows,
       Ruled!TouchedIsShown, Ruled!Sent

LEMMA UnderstoodCodings ==
    ASSUME NEW c \in Ruled!Codings, Ruled!Understood(c)
    PROVE  c = <<>> \/ c = <<"gzip">>
<1>1. Len(c) <= 1 /\ \A i \in DOMAIN c : c[i] \in {"gzip", "br"}
  BY DEF Ruled!Understood, Ruled!ToSet, Ruled!Decodable
<1>2. CASE c = <<"odd">>
  <2>1. 1 \in DOMAIN c /\ c[1] = "odd" BY <1>2
  <2> QED BY <1>1, <2>1
<1>3. CASE c = <<"gzip", "br">> BY <1>1, <1>3
<1> QED BY <1>2, <1>3 DEF Ruled!Codings

LEMMA Undone == Ruled!Front(<<"gzip">>) = <<>> /\ Ruled!Last(<<"gzip">>) = "gzip"
                /\ Head(<<"gzip">>) = "gzip" /\ <<"gzip">> # <<>>
BY DEF Ruled!Front, Ruled!Last

LEMMA Decoded ==
    ASSUME NEW b \in Ruled!Bodies, NEW c \in Ruled!Codings
    PROVE  /\ Ruled!DecodeBody(b, c) \in Ruled!Bodies
           /\ b.coding = <<>> => Ruled!DecodeBody(b, c) = b
           /\ b.coding = c /\ Ruled!Understood(c) =>
                  Ruled!DecodeBody(b, c) = Ruled!Plain(b.text)
<1> DEFINE d == Ruled!DecodeBody(b, c)
<1>1. b.text \in Ruled!Texts /\ b = [text |-> b.text, coding |-> b.coding] BY DEF Ruled!Bodies
<1>2. Ruled!Plain(b.text) \in Ruled!Bodies
  BY <1>1 DEF Ruled!Plain, Ruled!Bodies, Ruled!Codings
<1>3. c = <<>> \/ (c # <<>> /\ Head(c) \in {"gzip", "odd"}) BY DEF Ruled!Codings
<1>4. CASE b.coding = <<"gzip">> /\ c # <<>> /\ Head(c) = "gzip"
  <2>1. d = [b EXCEPT !.coding = <<>>]
    BY <1>4, Undone DEF Ruled!DecodeBody, Ruled!Decodable
  <2>2. d = Ruled!Plain(b.text) BY <1>1, <2>1 DEF Ruled!Plain
  <2> QED BY <1>2, <1>4, <2>2, Undone
<1>5. CASE ~(b.coding = <<"gzip">> /\ c # <<>> /\ Head(c) = "gzip")
  <2>1. \/ b.coding = <<>>
        \/ b.coding # <<>> /\ Ruled!Last(b.coding) \in {"odd", "br"}
        \/ b.coding = <<"gzip">>
    BY DEF Ruled!Bodies, Ruled!Codings, Ruled!Last
  <2>2. d = b
    BY <1>3, <1>5, <2>1, Undone DEF Ruled!DecodeBody, Ruled!Decodable
  <2>3. b.coding = c /\ Ruled!Understood(c) => b = Ruled!Plain(b.text)
    <3>1. c = <<"gzip">> => c # <<>> /\ Head(c) = "gzip" BY Undone
    <3>2. b.coding = c /\ Ruled!Understood(c) => b.coding = <<>>
      BY <1>5, <3>1, UnderstoodCodings
    <3> QED BY <1>1, <3>2 DEF Ruled!Plain
  <2> QED BY <2>2, <2>3
<1> QED BY <1>4, <1>5

LEMMA RulesBegin ==
    ASSUME Ruled!Init
    PROVE  RulesInv
<1>1. PICK list \in Ruled!BoundedSeq(Ruled!Rule, MaxRules), coding \in Ruled!Codings,
           known \in BOOLEAN : Ruled!Begin(list, coding, known)
  BY DEF Ruled!Init
<1>2. list \in Seq(Ruled!Rule)
  <2>1. PICK m \in 0 .. MaxRules : list \in [1 .. m -> Ruled!Rule]
    BY DEF Ruled!BoundedSeq, Ruled!SeqOf
  <2>2. m \in Nat BY BoundsAssumption
  <2> QED BY <2>1, <2>2
<1>3. Ruled!Incoming(coding) \in Ruled!Messages
  BY DEF Ruled!Incoming, Ruled!Messages, Ruled!Bodies, Ruled!Texts, Ruled!Destinations
<1>4. RulesTyped BY <1>1, <1>2, <1>3 DEF RulesTyped, Ruled!Begin, Ruled!Texts
<1>5. BodyIsMeant BY <1>1 DEF BodyIsMeant, Ruled!Begin, Ruled!Incoming
<1> QED BY <1>1, <1>4, <1>5 DEF RulesInv, Ruled!Begin, Ruled!Incoming

\* What the code makes of the body of a message, one part at a time.
LEMMA BodyReplaced ==
    ASSUME RulesInv, NEW e, e.body \in {"keep", "set", "replace"}, Ruled!EditBody(e),
           pc \in {"request", "response"}
    PROVE  /\ replaced' \in BOOLEAN /\ meant' \in Ruled!Texts
           /\ Ruled!BodyAfter(e) \in Ruled!Bodies
           /\ e.body = "keep" => Ruled!BodyAfter(e) = message.body /\ UNCHANGED <<replaced, meant>>
           /\ e.body # "keep" /\ Ruled!Understood(came) =>
                  replaced' /\ Ruled!BodyAfter(e) = Ruled!Plain(meant')
<1>1. message.body \in Ruled!Bodies /\ message.encoding \in Ruled!Codings
  BY DEF RulesInv, RulesTyped, Ruled!Messages
<1>2. \A said \in Ruled!Texts : Ruled!Plain(said) \in Ruled!Bodies
  BY DEF Ruled!Plain, Ruled!Bodies, Ruled!Codings
<1>3. CASE e.body = "keep"
  BY <1>1, <1>3 DEF Ruled!EditBody, Ruled!BodyAfter, RulesInv, RulesTyped
<1>4. CASE e.body = "set"
  BY <1>2, <1>4 DEF Ruled!EditBody, Ruled!BodyAfter, Ruled!Texts
<1>5. CASE e.body = "replace"
  <2>1. /\ Ruled!BodyAfter(e) = Ruled!Replace(Ruled!Shown(message))
        /\ replaced' = TRUE /\ meant' = "edited"
    BY <1>5 DEF Ruled!EditBody, Ruled!BodyAfter
  <2>2. Ruled!BodyAfter(e) \in Ruled!Bodies
    BY <1>2, <2>1 DEF Ruled!Replace, Ruled!Texts
  <2>3. Ruled!Understood(came) => Ruled!Shown(message).coding = <<>>
    <3>1. Ruled!Understood(came) => BodyIsMeant BY DEF RulesInv
    <3>2. Ruled!Understood(came) /\ replaced => message.body.coding = <<>>
      BY <3>1 DEF BodyIsMeant, Ruled!Plain
    <3>3. Ruled!Understood(came) /\ ~replaced =>
              message.body.coding = came /\ message.encoding = came
      BY <3>1 DEF BodyIsMeant
    <3>4. replaced \in BOOLEAN BY DEF RulesInv, RulesTyped
    <3> QED BY <1>1, <3>2, <3>3, <3>4, Decoded DEF Ruled!Shown, Ruled!Plain
  <2> QED BY <1>5, <2>1, <2>2, <2>3 DEF Ruled!Replace, Ruled!Texts
<1> QED BY <1>3, <1>4, <1>5

LEMMA RuleTaken ==
    ASSUME RulesTyped, todo # <<>>
    PROVE  Head(todo) \in Ruled!Rule /\ Tail(todo) \in Seq(Ruled!Rule)
BY DEF RulesTyped

LEMMA RulesApplied ==
    ASSUME RulesInv, Ruled!Apply
    PROVE  RulesInv'
<1> RulesTyped /\ (Ruled!Understood(came) => BodyIsMeant) BY DEF RulesInv
<1>1. PICK rule \in Ruled!Rule :
          /\ rule = Head(todo)
          /\ \/ Ruled!Answers(rule) \/ Ruled!MapsRemote(rule) \/ Ruled!RewritesRequest(rule)
             \/ Ruled!RewritesResponse(rule) \/ Ruled!Passes(rule)
          /\ UNCHANGED <<came, rules, recorded>> /\ Tail(todo) \in Seq(Ruled!Rule)
  BY RuleTaken DEF Ruled!Apply
<1>2. applied + 1 \in Nat /\ applied + 1 # 0 BY DEF RulesTyped
<1>3. CASE Ruled!Answers(rule)
  <2>1. /\ UNCHANGED <<came, rules, recorded, message, replaced, hold, named, meant>>
        /\ pc = "request" /\ pc' = "answered" /\ todo' = <<>> /\ applied' = applied + 1 /\ touched' = TRUE
    BY <1>1, <1>3 DEF Ruled!Answers
  <2>2. RulesTyped' BY <1>2, <2>1 DEF RulesTyped
  <2>3. BodyIsMeant => BodyIsMeant' BY <2>1 DEF BodyIsMeant
  <2> QED BY <1>2, <2>1, <2>2, <2>3 DEF RulesInv
<1>4. CASE Ruled!MapsRemote(rule)
  <2>1. /\ UNCHANGED <<came, rules, recorded, pc, replaced, hold, meant>>
        /\ message' = [message EXCEPT !.url = "other", !.host = "other"]
        /\ pc = "request" /\ todo' = Tail(todo) /\ applied' = applied + 1 /\ touched' = TRUE /\ named' = FALSE
    BY <1>1, <1>4 DEF Ruled!MapsRemote
  <2>2. /\ message' \in Ruled!Messages /\ message'.url = message'.host
        /\ message'.body = message.body /\ message'.length = message.length
        /\ message'.encoding = message.encoding
    BY <2>1 DEF RulesTyped, Ruled!Messages, Ruled!Destinations
  <2>3. RulesTyped' BY <1>1, <1>2, <2>1, <2>2 DEF RulesTyped
  <2>4. BodyIsMeant => BodyIsMeant' BY <2>1, <2>2 DEF BodyIsMeant
  <2> QED BY <1>2, <2>1, <2>2, <2>3, <2>4 DEF RulesInv
<1>5. CASE Ruled!RewritesRequest(rule)
  <2>1. PICK e : e = rule.edit OBVIOUS
  <2>2. e.head \in {"none", "url", "host"} /\ e.body \in {"keep", "set", "replace"}
    BY <1>5, <2>1 DEF Ruled!RewritesRequest, Ruled!Rule, Ruled!Edits
  <2>3. /\ UNCHANGED <<came, rules, recorded, pc, hold>>
        /\ message' = [message EXCEPT
               !.url = IF e.head = "url" THEN "other" ELSE @,
               !.host = IF e.head = "none" THEN @ ELSE "other",
               !.body = Ruled!BodyAfter(e)]
        /\ named' = (e.head = "host" \/ (named /\ e.head # "url"))
        /\ Ruled!EditBody(e)
        /\ pc = "request" /\ todo' = Tail(todo) /\ applied' = applied + 1 /\ touched' = TRUE
    BY <1>1, <1>5, <2>1 DEF Ruled!RewritesRequest
  <2>4. /\ replaced' \in BOOLEAN /\ meant' \in Ruled!Texts
        /\ Ruled!BodyAfter(e) \in Ruled!Bodies
        /\ e.body = "keep" => Ruled!BodyAfter(e) = message.body /\ UNCHANGED <<replaced, meant>>
        /\ e.body # "keep" /\ Ruled!Understood(came) =>
               replaced' /\ Ruled!BodyAfter(e) = Ruled!Plain(meant')
    BY <2>2, <2>3, BodyReplaced
  <2>5. PICK b \in Ruled!Bodies : b = Ruled!BodyAfter(e) BY <2>4
  <2>6. /\ message' \in Ruled!Messages /\ message'.body = b
        /\ message'.length = message.length /\ message'.encoding = message.encoding
        /\ message'.url = IF e.head = "url" THEN "other" ELSE message.url
        /\ message'.host = IF e.head = "none" THEN message.host ELSE "other"
    BY <2>3, <2>5 DEF RulesTyped, Ruled!Messages, Ruled!Destinations
  <2>7. RulesTyped' BY <1>1, <1>2, <2>3, <2>4, <2>6 DEF RulesTyped
  <2>8. Ruled!Understood(came) => BodyIsMeant'
    BY <2>3, <2>4, <2>5, <2>6 DEF BodyIsMeant
  <2>9. message'.host = message'.url \/ named' BY <2>2, <2>3, <2>6 DEF RulesInv
  <2> QED BY <1>2, <2>3, <2>7, <2>8, <2>9 DEF RulesInv
<1>6. CASE Ruled!RewritesResponse(rule)
  <2>1. PICK e : e = rule.edit OBVIOUS
  <2>2. e.body \in {"keep", "set", "replace"}
    BY <1>6, <2>1 DEF Ruled!RewritesResponse, Ruled!Rule, Ruled!Edits
  <2>3. /\ UNCHANGED <<came, rules, recorded, pc, hold, named>>
        /\ message' = [message EXCEPT !.body = Ruled!BodyAfter(e)]
        /\ Ruled!EditBody(e)
        /\ pc = "response" /\ todo' = Tail(todo) /\ applied' = applied + 1 /\ touched' = TRUE
    BY <1>1, <1>6, <2>1 DEF Ruled!RewritesResponse
  <2>4. /\ replaced' \in BOOLEAN /\ meant' \in Ruled!Texts
        /\ Ruled!BodyAfter(e) \in Ruled!Bodies
        /\ e.body = "keep" => Ruled!BodyAfter(e) = message.body /\ UNCHANGED <<replaced, meant>>
        /\ e.body # "keep" /\ Ruled!Understood(came) =>
               replaced' /\ Ruled!BodyAfter(e) = Ruled!Plain(meant')
    BY <2>2, <2>3, BodyReplaced
  <2>5. PICK b \in Ruled!Bodies : b = Ruled!BodyAfter(e) BY <2>4
  <2>6. /\ message' \in Ruled!Messages /\ message'.body = b
        /\ message'.length = message.length /\ message'.encoding = message.encoding
    BY <2>3, <2>5 DEF RulesTyped, Ruled!Messages
  <2>7. RulesTyped' BY <1>1, <1>2, <2>3, <2>4, <2>6 DEF RulesTyped
  <2>8. Ruled!Understood(came) => BodyIsMeant'
    BY <2>3, <2>4, <2>5, <2>6 DEF BodyIsMeant
  <2> QED BY <1>2, <2>3, <2>7, <2>8 DEF RulesInv
<1>7. CASE Ruled!Passes(rule)
  <2>1. /\ UNCHANGED <<came, rules, recorded, pc, message, replaced, touched, named, meant>>
        /\ todo' = Tail(todo) /\ hold' \in BOOLEAN /\ applied' \in {applied, applied + 1}
    BY <1>1, <1>7 DEF Ruled!Passes, RulesTyped
  <2>2. RulesTyped' BY <1>1, <1>2, <2>1 DEF RulesTyped
  <2>3. BodyIsMeant => BodyIsMeant' BY <2>1 DEF BodyIsMeant
  <2> QED BY <1>2, <2>1, <2>2, <2>3 DEF RulesInv
<1> QED BY <1>1, <1>3, <1>4, <1>5, <1>6, <1>7

LEMMA RulesHeld ==
    ASSUME RulesInv, Ruled!Hold
    PROVE  RulesInv'
<1> RulesTyped /\ (Ruled!Understood(came) => BodyIsMeant) BY DEF RulesInv
<1>1. /\ UNCHANGED <<came, rules, todo, recorded, replaced, applied, touched, named, meant>>
      /\ hold' = FALSE
      /\ \/ pc = "request" /\ pc' = "requestHeld" /\ UNCHANGED message
         \/ /\ pc = "response" /\ pc' = "responseHeld"
            /\ message' = [message EXCEPT !.body = Ruled!Shown(message),
                                          !.encoding = IF replaced THEN @ ELSE <<>>]
  BY DEF Ruled!Hold
<1>2. CASE pc = "request" /\ pc' = "requestHeld" /\ UNCHANGED message
  <2>1. RulesTyped' BY <1>1, <1>2 DEF RulesTyped
  <2>2. BodyIsMeant => BodyIsMeant' BY <1>1, <1>2 DEF BodyIsMeant
  <2> QED BY <1>1, <1>2, <2>1, <2>2 DEF RulesInv
<1>3. CASE pc = "response" /\ pc' = "responseHeld"
  <2>1. message.body \in Ruled!Bodies /\ message.encoding \in Ruled!Codings
    BY DEF RulesTyped, Ruled!Messages
  <2>2. PICK b : b = Ruled!Shown(message) OBVIOUS
  <2>3. /\ b \in Ruled!Bodies
        /\ message.body.coding = <<>> => b = message.body
        /\ message.body.coding = message.encoding /\ Ruled!Understood(message.encoding) =>
               b = Ruled!Plain(message.body.text)
    BY <2>1, <2>2, Decoded DEF Ruled!Shown
  <2>4. message' \in Ruled!Messages /\ message'.body = b
    BY <1>1, <1>3, <2>2, <2>3 DEF RulesTyped, Ruled!Messages, Ruled!Codings
  <2>5. RulesTyped' BY <1>1, <2>4 DEF RulesTyped
  <2>6. Ruled!Understood(came) => b = Ruled!Plain(meant)
    <3>1. Ruled!Understood(came) /\ replaced => b = Ruled!Plain(meant)
      BY <2>3 DEF BodyIsMeant, Ruled!Plain
    <3>2. Ruled!Understood(came) /\ ~replaced => b = Ruled!Plain(meant)
      BY <1>3, <2>3 DEF BodyIsMeant
    <3> QED BY <3>1, <3>2 DEF RulesTyped
  <2>7. Ruled!Understood(came) => BodyIsMeant'
    BY <1>1, <1>3, <2>4, <2>6 DEF BodyIsMeant
  <2> QED BY <1>1, <1>3, <2>5, <2>7 DEF RulesInv
<1> QED BY <1>1, <1>2, <1>3

LEMMA RulesContinued ==
    ASSUME RulesInv, Ruled!Continue
    PROVE  RulesInv'
<1> RulesTyped /\ (Ruled!Understood(came) => BodyIsMeant) BY DEF RulesInv
<1>1. /\ UNCHANGED <<came, rules, todo, recorded, hold>>
      /\ applied' = applied + 1 /\ touched' = TRUE /\ applied' \in Nat /\ applied' # 0
  BY DEF Ruled!Continue, RulesTyped
<1>2. \A said \in Ruled!Texts : Ruled!Plain(said) \in Ruled!Bodies
  BY DEF Ruled!Plain, Ruled!Bodies, Ruled!Codings
<1>3. message.body \in Ruled!Bodies /\ message.encoding \in Ruled!Codings
  BY DEF RulesTyped, Ruled!Messages
<1>4. ASSUME NEW to \in Ruled!Destinations, NEW edited \in BOOLEAN,
             Ruled!ContinueRequest(to, edited)
      PROVE  RulesInv'
  <2>1. PICK b : b = IF replaced THEN message.body ELSE Ruled!Shown(message) OBVIOUS
  <2>2. /\ pc = "requestHeld" /\ pc' = "requestOut"
        /\ edited => b.coding = <<>>
        /\ message' = [message EXCEPT !.url = to,
               !.body = IF edited THEN Ruled!Plain("edited") ELSE IF b.coding = <<>> THEN b ELSE @]
        /\ replaced' = (replaced \/ b.coding = <<>>)
        /\ meant' = IF edited THEN "edited" ELSE meant
        /\ named' = (named \/ to # message.url)
    BY <1>4, <2>1 DEF Ruled!ContinueRequest, Ruled!Binary
  <2>3. /\ b \in Ruled!Bodies
        /\ Ruled!Understood(came) => b = Ruled!Plain(meant)
    <3>1. CASE replaced BY <1>3, <2>1, <3>1 DEF BodyIsMeant
    <3>2. CASE ~replaced
      <4>1. b = Ruled!DecodeBody(message.body, message.encoding) BY <2>1, <3>2 DEF Ruled!Shown
      <4>2. Ruled!Understood(came) =>
                /\ message.body.text = "sent" /\ meant = "sent"
                /\ message.body.coding = came /\ message.encoding = came
        BY <2>2, <3>2 DEF BodyIsMeant
      <4> QED BY <1>3, <4>1, <4>2, Decoded
    <3> QED BY <3>1, <3>2
  <2>4. PICK c \in Ruled!Bodies :
            c = IF edited THEN Ruled!Plain("edited") ELSE IF b.coding = <<>> THEN b ELSE message.body
    BY <1>2, <1>3, <2>3 DEF Ruled!Texts
  <2>5. /\ message' \in Ruled!Messages /\ message'.body = c /\ message'.url = to
        /\ message'.length = message.length /\ message'.encoding = message.encoding
        /\ message'.host = message.host
    BY <2>2, <2>4 DEF RulesTyped, Ruled!Messages
  <2>6. RulesTyped' BY <1>1, <2>2, <2>5 DEF RulesTyped, Ruled!Texts
  <2>7. Ruled!Understood(came) => replaced' /\ c = Ruled!Plain(meant')
    <3>1. Ruled!Understood(came) => b.coding = <<>> BY <2>3 DEF Ruled!Plain
    <3>2. CASE edited BY <2>2, <2>4, <3>1, <3>2
    <3>3. CASE ~edited BY <2>2, <2>3, <2>4, <3>1, <3>3
    <3> QED BY <3>2, <3>3
  <2>8. Ruled!Understood(came) => BodyIsMeant'
    BY <1>1, <2>2, <2>5, <2>7 DEF BodyIsMeant
  <2>9. message'.host = message'.url \/ named' BY <2>2, <2>5 DEF RulesInv
  <2> QED BY <1>1, <2>2, <2>6, <2>8, <2>9 DEF RulesInv
<1>5. CASE Ruled!ContinueBare
  <2>1. pc = "requestHeld" /\ pc' = "requestOut" /\ UNCHANGED <<message, replaced, meant, named>>
    BY <1>5 DEF Ruled!ContinueBare
  <2>2. RulesTyped' BY <1>1, <2>1 DEF RulesTyped
  <2>3. BodyIsMeant => BodyIsMeant' BY <1>1, <2>1 DEF BodyIsMeant
  <2> QED BY <1>1, <2>1, <2>2, <2>3 DEF RulesInv
<1>6. ASSUME NEW edited \in BOOLEAN, Ruled!ContinueResponse(edited)
      PROVE  RulesInv'
  <2>1. /\ pc = "responseHeld" /\ pc' = "responseOut" /\ replaced' = TRUE /\ named' = named
        /\ message' = IF edited THEN [message EXCEPT !.body = Ruled!Plain("edited")] ELSE message
        /\ meant' = IF edited THEN "edited" ELSE meant
    BY <1>6 DEF Ruled!ContinueResponse
  <2>2. /\ message' \in Ruled!Messages
        /\ message'.body = IF edited THEN Ruled!Plain("edited") ELSE message.body
    BY <1>2, <2>1 DEF RulesTyped, Ruled!Messages, Ruled!Texts
  <2>3. RulesTyped' BY <1>1, <2>1, <2>2 DEF RulesTyped, Ruled!Texts
  <2>4. Ruled!Understood(came) => message'.body = Ruled!Plain(meant')
    BY <2>1, <2>2 DEF BodyIsMeant, RulesTyped
  <2>5. Ruled!Understood(came) => BodyIsMeant' BY <1>1, <2>1, <2>4 DEF BodyIsMeant
  <2> QED BY <1>1, <2>1, <2>3, <2>5 DEF RulesInv
<1> QED BY <1>4, <1>5, <1>6 DEF Ruled!Continue

LEMMA ResizedReads ==
    ASSUME NEW m \in Ruled!Messages
    PROVE  /\ Ruled!Resized(m) \in Ruled!Messages
           /\ Ruled!Resized(m).body = m.body /\ Ruled!Resized(m).host = m.host
           /\ Ruled!Resized(m).url = m.url
           /\ \A said : m.body = Ruled!Plain(said) => Ruled!Reads(Ruled!Resized(m)) = said
<1> DEFINE r == Ruled!Resized(m)
<1>1. r = [m EXCEPT !.length = m.body, !.encoding = <<>>] BY DEF Ruled!Resized
<1>2. m.body \in Ruled!Bodies BY DEF Ruled!Messages
<1>3. r \in Ruled!Messages BY <1>1, <1>2 DEF Ruled!Messages, Ruled!Codings
<1>4. /\ r.body = m.body /\ r.host = m.host /\ r.url = m.url
      /\ r.length = m.body /\ r.encoding = <<>>
  BY <1>1 DEF Ruled!Messages
<1> HIDE DEF r
<1>5. \A said : m.body = Ruled!Plain(said) => Ruled!Reads(r) = said
  <2> SUFFICES ASSUME NEW said, m.body = Ruled!Plain(said) PROVE Ruled!Reads(r) = said
    OBVIOUS
  <2>1. m.body.text = said /\ m.body.coding = <<>> BY DEF Ruled!Plain
  <2> QED BY <1>4, <2>1 DEF Ruled!Reads
<1> QED BY <1>3, <1>4, <1>5 DEF r

LEMMA RulesSent ==
    ASSUME RulesInv, Ruled!SendRequest \/ Ruled!SendResponse
    PROVE  RulesInv'
<1> RulesTyped /\ (Ruled!Understood(came) => BodyIsMeant) BY DEF RulesInv
<1>1. /\ UNCHANGED <<came, rules, todo, recorded, replaced, hold, applied, touched, named, meant>>
      /\ \/ /\ pc \in {"request", "requestOut"} /\ pc' = "requested"
            /\ message' = IF replaced THEN Ruled!Resized(message) ELSE message
         \/ /\ pc \in {"response", "responseOut"} /\ pc' = "responded"
            /\ message' = IF replaced /\ recorded THEN Ruled!Resized(message) ELSE message
  BY DEF Ruled!SendRequest, Ruled!SendResponse
<1>2. /\ message' \in Ruled!Messages /\ message'.body = message.body
      /\ message'.host = message.host /\ message'.url = message.url
  BY <1>1, ResizedReads DEF RulesTyped
<1>3. RulesTyped' BY <1>1, <1>2 DEF RulesTyped
<1>4. Ruled!Understood(came) => BodyIsMeant'
  <2>1. CASE replaced /\ (pc' = "requested" \/ recorded)
    <3>1. message' = Ruled!Resized(message) BY <1>1, <2>1
    <3>2. Ruled!Understood(came) => Ruled!Reads(message') = meant
      BY <2>1, <3>1, ResizedReads DEF BodyIsMeant, RulesTyped
    <3> QED BY <1>1, <1>2, <2>1, <3>2 DEF BodyIsMeant
  <2>2. CASE replaced /\ pc' = "responded" /\ ~recorded
    BY <1>1, <1>2, <2>2 DEF BodyIsMeant
  <2>3. CASE ~replaced
    <3>1. message' = message BY <1>1, <2>3
    <3>2. Ruled!Understood(came) =>
              /\ message.body = message.length /\ message.body.text = "sent" /\ meant = "sent"
              /\ message.body.coding = came /\ message.encoding = came
      BY <1>1, <2>3 DEF BodyIsMeant
    <3>3. Ruled!Understood(came) => Ruled!Reads(message) = meant BY <3>2 DEF Ruled!Reads
    <3> QED BY <1>1, <2>3, <3>1, <3>2, <3>3 DEF BodyIsMeant
  <2> QED BY <1>1, <2>1, <2>2, <2>3 DEF RulesTyped
<1> QED BY <1>1, <1>2, <1>3, <1>4 DEF RulesInv

LEMMA RulesSteps ==
    ASSUME RulesInv, Ruled!Next \/ UNCHANGED ruledVars
    PROVE  RulesInv'
<1> RulesTyped /\ (Ruled!Understood(came) => BodyIsMeant) BY DEF RulesInv
<1>1. CASE Ruled!Abort
  <2>1. /\ UNCHANGED <<came, rules, todo, recorded, message, replaced, hold, touched, named, meant>>
        /\ pc' = "aborted" /\ applied' = applied + 1 /\ applied' \in Nat /\ applied' # 0
    BY <1>1 DEF Ruled!Abort, RulesTyped
  <2>2. RulesTyped' BY <2>1 DEF RulesTyped
  <2>3. BodyIsMeant => BodyIsMeant' BY <2>1 DEF BodyIsMeant
  <2> QED BY <2>1, <2>2, <2>3 DEF RulesInv
<1>2. CASE Ruled!Respond
  <2>1. /\ UNCHANGED <<rules, hold>>
        /\ pc' = "response" /\ came' \in Ruled!Codings /\ message' = Ruled!Incoming(came')
        /\ recorded' \in BOOLEAN /\ todo' = rules
        /\ replaced' = FALSE /\ touched' = FALSE /\ named' = FALSE
        /\ applied' = 0 /\ meant' = "sent"
    BY <1>2 DEF Ruled!Respond, RulesTyped
  <2>2. \A c \in Ruled!Codings : Ruled!Incoming(c) \in Ruled!Messages
    BY DEF Ruled!Incoming, Ruled!Messages, Ruled!Bodies, Ruled!Texts, Ruled!Destinations
  <2>3. RulesTyped' BY <2>1, <2>2 DEF RulesTyped, Ruled!Texts
  <2>4. BodyIsMeant' BY <2>1 DEF BodyIsMeant, Ruled!Incoming
  <2> QED BY <2>1, <2>3, <2>4 DEF RulesInv
<1>3. CASE UNCHANGED ruledVars
  <2>1. UNCHANGED <<came, rules, pc, todo, recorded, message, replaced, hold, applied, touched,
                    named, meant>>
    BY <1>3 DEF ruledVars
  <2>2. RulesTyped' BY <2>1 DEF RulesTyped
  <2>3. BodyIsMeant => BodyIsMeant' BY <2>1 DEF BodyIsMeant
  <2> QED BY <2>1, <2>2, <2>3 DEF RulesInv
<1> QED BY <1>1, <1>2, <1>3, RulesApplied, RulesHeld, RulesContinued, RulesSent DEF Ruled!Next

-----------------------------------------------------------------------------
(* The union. *)

LEMMA PartBegins ==
    ASSUME Init
    PROVE  /\ part \in Parts
           /\ part = "root" => Rooted!Init
           /\ part = "gate" => Gate!Init
           /\ part = "proxy" => Proxy!Init
           /\ part = "environment" => Routed!Init
           /\ part = "mcp" => Mcp!Init
           /\ part = "listing" => Listing!Init
           /\ part = "composer" => Composed!Init
           /\ part = "editor" => Editor!Init
           /\ part = "settings" => Settings!Init
           /\ part = "rules" => Ruled!Init
BY Zenon DEF Init, ControlsBegin

LEMMA PartSteps ==
    ASSUME [Next]_vars
    PROVE  /\ part' = part
           /\ part = "root" => (Rooted!Next \/ UNCHANGED rootedVars)
           /\ part = "gate" => (Gate!Next \/ UNCHANGED gateVars)
           /\ part = "proxy" => (Proxy!Next \/ UNCHANGED proxyVars)
           /\ part = "environment" => (Routed!Next \/ UNCHANGED routedVars)
           /\ part = "mcp" => (Mcp!Next \/ UNCHANGED mcpVars)
           /\ part = "listing" => (Listing!Next \/ UNCHANGED listingVars)
           /\ part = "composer" => (Composed!Next \/ UNCHANGED composedVars)
           /\ part = "editor" => (Editor!Next \/ UNCHANGED editorVars)
           /\ part = "settings" => (Settings!Next \/ UNCHANGED settingsVars)
           /\ part = "rules" => (Ruled!Next \/ UNCHANGED ruledVars)
<1>1. CASE Next
  <2>1. part' = part /\ Step(part) BY <1>1 DEF Next
  <2>2. part \in Controls => ControlStep(part) BY <2>1, Zenon DEF Step, Controls
  <2>3. part = "rules" => Ruled!Next
    <3> SUFFICES ASSUME part = "rules" PROVE Ruled!Next
      OBVIOUS
    <3>1. Step("rules") /\ "rules" \notin Controls BY <2>1 DEF Controls
    <3> QED BY <3>1 DEF Step
  <2>4. part \in Controls <=> part \in {"root", "gate", "proxy", "environment", "mcp", "listing",
                                        "composer", "editor", "settings"}
    BY DEF Controls
  <2> QED BY <2>1, <2>2, <2>3, <2>4 DEF ControlStep
<1>2. CASE UNCHANGED vars
  BY <1>2 DEF vars, controlVars
<1> QED BY <1>1, <1>2


\* A capture starts only with a certificate the system trusted, no status is one of an
\* operation half done, and what a session signs with is what its clients are told to trust,
\* for every number of windows, operations and kills (certificateTrust.ts ensureTrusted and
\* serial, certificate.ts).
THEOREM CaptureGated == Spec => []CaptureIsGated
<1> DEFINE Gated == (part = "gate" => GateInv) /\ (part = "root" => RootInv)
<1>1. Init => Gated
  BY PartBegins, GateBegins, RootBegins
<1>2. Gated /\ [Next]_vars => Gated'
  <2> SUFFICES ASSUME Gated, [Next]_vars PROVE Gated'
    OBVIOUS
  <2>1. part' = part BY PartSteps
  <2>2. part = "gate" => GateInv' BY PartSteps, GateSteps
  <2>3. part = "root" => RootInv' BY PartSteps, RootSteps
  <2> QED BY <2>1, <2>2, <2>3
<1>3. Gated => CaptureIsGated
  BY GateHolds, RootHolds DEF CaptureIsGated
<1> QED BY <1>1, <1>2, <1>3, PTL DEF Spec

\* At rest the editor's proxy is that of a live capture or the user's, however windows and
\* user take turns, but for a port that a window forgot as it wrote it (settingsPanel.ts:59);
\* and no runtime is sent through the capture that would refuse its certificate. For every
\* number of windows, ports, starts and edits (settingsPanel.ts, captureEnvironment.ts).
THEOREM ProxyChosen == Spec => []ProxyIsChosen
<1> DEFINE Chosen == (part = "proxy" => ProxyInv) /\ (part = "environment" => EnvironmentInv)
<1>1. Init => Chosen
  BY PartBegins, ProxyBegins, EnvironmentBegins
<1>2. Chosen /\ [Next]_vars => Chosen'
  <2> SUFFICES ASSUME Chosen, [Next]_vars PROVE Chosen'
    OBVIOUS
  <2>1. part' = part BY PartSteps
  <2>2. part = "proxy" => ProxyInv' BY PartSteps, ProxySteps
  <2>3. part = "environment" => EnvironmentInv' BY PartSteps, EnvironmentSteps
  <2> QED BY <2>1, <2>2, <2>3
<1>3. Chosen => ProxyIsChosen
  BY ProxyHolds, EnvironmentHolds DEF ProxyIsChosen
<1> QED BY <1>1, <1>2, <1>3, PTL DEF Spec

\* MCP is served while a window wants it, a tool reaches the window it was meant for, and a
\* listing leaves out no more records than were deleted meanwhile.
THEOREM McpAnswers == Spec => []McpServes
<1> DEFINE Inv == (part = "mcp" => McpInv) /\ (part = "listing" => ListingInv)
<1>1. Init => Inv BY PartBegins, McpBegins, ListingBegins
<1>2. Inv /\ [Next]_vars => Inv' BY PartSteps, McpSteps, ListingSteps
<1>3. Inv => McpServes BY ListingHolds DEF McpInv, McpServes
<1> QED BY <1>1, <1>2, <1>3, PTL DEF Spec

\* What Send sends is what the composer shows.
THEOREM ComposedIsShown == Spec => []ShownIsSent
<1> DEFINE Inv == part = "composer" => ComposerInv
<1>1. Init => Inv BY PartBegins, ComposerBegins
<1>2. Inv /\ [Next]_vars => Inv' BY PartSteps, ComposerSteps
<1>3. Inv => ShownIsSent BY DEF ComposerInv, ShownIsSent
<1> QED BY <1>1, <1>2, <1>3, PTL DEF Spec

\* The rules page and the settings page end up with what the user last asked for, and what
\* the page waits for is what it asked, for every number of edits, saves and other windows
\* (useTraffic.ts, preferences.ts, Settings.tsx, settingsPanel.ts).
THEOREM RulesAreSettled == Spec => []RulesSettle
<1> DEFINE Inv == (part = "editor" => EditorInv) /\ (part = "settings" => SettingsInv)
<1>1. Init => Inv BY PartBegins, EditorBegins, SettingsBegin
<1>2. Inv /\ [Next]_vars => Inv' BY PartSteps, EditorSteps, SettingsSteps
<1>3. Inv => RulesSettle BY EditorHolds, SettingsHold DEF RulesSettle
<1> QED BY <1>1, <1>2, <1>3, PTL DEF Spec

\* Whatever rules match, however many and in whatever order, and whatever the user does at
\* breakpoints: the receiver reads the text they mean under headers that fit it, at the host
\* its URL names, and the record says that it was touched (engine.ts, rules.ts).
THEOREM RulesAreApplied == Spec => []RulesApply
<1> DEFINE Inv == part = "rules" => RulesInv
<1>1. Init => Inv BY PartBegins, RulesBegin
<1>2. Inv /\ [Next]_vars => Inv' BY PartSteps, RulesSteps
<1>3. Inv => RulesApply BY RulesHolds DEF RulesApply
<1> QED BY <1>1, <1>2, <1>3, PTL DEF Spec
=============================================================================
