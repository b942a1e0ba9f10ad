--------------------------------- MODULE Query ---------------------------------
(***************************************************************************)
(* What the search box of the panel means: a text is parsed into terms     *)
(* (webview/lib/filter.ts), the page decides those its rows can decide,    *)
(* sends the others to the window as text, which parses it again and scans *)
(* headers and bodies (utils/search.ts), and shows the rows that both let  *)
(* through, sorted.  How questions and answers cross is in PanelSearch.    *)
(*                                                                         *)
(* Texts are sequences of atoms, in lower case as both sides compare them; *)
(* `includes' finds whole atoms.  A value holds neither a quote nor a      *)
(* backslash: those do not survive the way to the window.                  *)
(***************************************************************************)
EXTENDS Integers, Sequences, SequencesExt, FiniteSetsExt

CONSTANT MaxFilters    \* bound: changes of the filters and of the sort

VARIABLES
    typed,      \* the tokens of the search box
    quick,      \* the quick filter
    atHost,     \* the host the table is restricted to, or none
    noTunnels,  \* CONNECT tunnels are hidden
    sort,       \* column and direction
    found,      \* the last answer of the window: the query it is for, and its ids
    tries

vars == <<typed, quick, atHost, noTunnels, sort, found, tries>>

Includes(text, needle) ==
    \E i \in 0..Len(text) - Len(needle) : SubSeq(text, i + 1, i + Len(needle)) = needle

\* A pattern with one star.
Wildcard(pattern, text) ==
    LET star == SelectInSeq(pattern, LAMBDA a : a = "*")
        head == SubSeq(pattern, 1, star - 1)
        tail == SubSeq(pattern, star + 1, Len(pattern)) IN
    /\ IsPrefix(head, text) /\ IsSuffix(tail, text)
    /\ Len(text) >= Len(head) + Len(tail)

-----------------------------------------------------------------------------
(* Tokens and terms. *)

Aliases ==
    [status |-> "status", code |-> "status", method |-> "method", host |-> "host",
     domain |-> "host", server |-> "server", ip |-> "server", path |-> "path", url |-> "url",
     type |-> "type", mime |-> "type", proto |-> "proto", protocol |-> "proto",
     version |-> "proto", size |-> "size", bytes |-> "size", dur |-> "dur",
     duration |-> "dur", time |-> "dur", rule |-> "rule", body |-> "body",
     header |-> "header", req |-> "req", request |-> "req", res |-> "res",
     response |-> "res"]
RemoteKeys == {"body", "header", "req", "res"}

\* A token as it is written: -name:value, with the value quoted or not.
Word(v) == [minus |-> FALSE, name |-> "", op |-> "", quoted |-> FALSE, value |-> v]
Keyed(name, op, v) == [Word(v) EXCEPT !.name = name, !.op = op]
Quoted(token) == [token EXCEPT !.quoted = TRUE]
Minus(token) ==
    IF token.name = "" THEN [token EXCEPT !.value = <<"-">> \o token.value]
    ELSE [token EXCEPT !.minus = TRUE]

\* What the regular expression makes of it: a bare value ends at a space, and a key without
\* a value is a word.
Lexed(token) ==
    LET v == token.value
        space == SelectInSeq(v, LAMBDA a : a = " ")
        bare == <<token.name, token.op>> IN
    IF token.quoted THEN <<token>>
    ELSE IF v = <<>> THEN <<Word(IF token.minus THEN <<"-">> \o bare ELSE bare)>>
    ELSE IF space = 0 THEN <<token>>
    ELSE <<[token EXCEPT !.value = SubSeq(v, 1, space - 1)],
           Word(SubSeq(v, space + 1, Len(v)))>>

\* The terms of one token: none, or one.  A key that is not one, or that is the scheme of a
\* URL, belongs to a word.
TermsOf(token) ==
    LET v == token.value
        scheme == token.op = ":" /\ v # <<>> /\ v[1] = "//"
        keyed == token.name \in DOMAIN Aliases /\ ~scheme
        word == IF token.name = "" THEN v ELSE <<token.name, token.op>> \o v
        dashed == token.name = "" /\ Len(word) > 1 /\ word[1] = "-"
        term ==
            IF keyed
            THEN [key |-> Aliases[token.name],
                  op |-> IF token.op \in {">", "<"} THEN token.op ELSE "=",
                  value |-> v, negate |-> token.minus]
            ELSE [key |-> "text", op |-> "=",
                  value |-> IF dashed THEN Tail(word) ELSE word,
                  negate |-> token.minus \/ dashed] IN
    IF term.value = <<>> THEN <<>> ELSE <<term>>

ParseQuery(tokens) ==
    LET all == FlattenSeq([i \in DOMAIN tokens |-> Lexed(tokens[i])]) IN
    FlattenSeq([i \in DOMAIN all |-> TermsOf(all[i])])

IsRemote(term) == term.key \in RemoteKeys
Remote(terms) == SelectSeq(terms, IsRemote)

\* The remote terms as the text that the window will parse.
RemoteQuery(terms) ==
    [i \in DOMAIN Remote(terms) |->
        LET t == Remote(terms)[i] IN
        [minus |-> t.negate, name |-> t.key, op |-> t.op, quoted |-> TRUE, value |-> t.value]]

-----------------------------------------------------------------------------
(* Numbers in a query. *)

Digit == <<"0", "1", "2", "3", "4", "5", "6", "7", "8", "9">>
AreDigits(v) == ToSet(v) \subseteq ToSet(Digit)
Digits(n) == <<Digit[n \div 100 + 1], Digit[((n \div 10) % 10) + 1], Digit[(n % 10) + 1]>>
NaN == -1
Value(digits) ==
    FoldLeft(LAMBDA n, d : 10 * n + SelectInSeq(Digit, LAMBDA x : x = d) - 1, 0, digits)

\* 10k, 2m, 500, with or without a b: kibibytes and so on.
Amount(v) ==
    LET plain == IF v # <<>> /\ Last(v) = "b" THEN Front(v) ELSE v
        scales == [k |-> 1024, m |-> 1048576, g |-> 1073741824]
        scaled == plain # <<>> /\ Last(plain) \in DOMAIN scales
        digits == IF scaled THEN Front(plain) ELSE plain IN
    IF digits = <<>> \/ ~AreDigits(digits) THEN NaN
    ELSE Value(digits) * (IF scaled THEN scales[Last(plain)] ELSE 1)

\* parseFloat: the digits it begins with.
Leading(v) ==
    LET n == Max({k \in 0..Len(v) : AreDigits(SubSeq(v, 1, k))}) IN
    IF n = 0 THEN NaN ELSE Value(SubSeq(v, 1, n))

Compare(actual, op, v) ==
    LET wanted == IF op = "=" THEN Leading(v) ELSE Amount(v) IN
    \/ wanted = NaN
    \/ CASE op = ">" -> actual > wanted
         [] op = "<" -> actual < wanted
         [] OTHER -> actual = wanted

-----------------------------------------------------------------------------
(* The transactions. *)

Base ==
    [method |-> <<"get">>, scheme |-> "https", host |-> <<"a", ".com">>,
     server |-> <<"10.1">>, path |-> <<"/", "v1">>, state |-> "completed", status |-> 200,
     duration |-> 20, size |-> 10, rules |-> 0, version |-> <<"2", ".", "0">>,
     tls |-> TRUE, paused |-> FALSE, grpc |-> FALSE, frames |-> FALSE, events |-> FALSE,
     error |-> <<>>, type |-> <<"text", "/", "plain">>,
     requestHeaders |-> <<>>, responseHeaders |-> <<>>, trailers |-> <<>>,
     requestBody |-> <<>>, responseBody |-> <<"not", " ", "found">>, binary |-> FALSE]

\* Some of each kind, in the order in which they were captured.
Transactions ==
    <<[Base EXCEPT !.type = <<"application", "/", "json">>, !.size = 10240,
                   !.requestHeaders = <<[name |-> <<"x", "-", "id">>, value |-> <<"42">>]>>],
      [Base EXCEPT !.method = <<"options">>, !.type = <<"text", "/", "html">>, !.rules = 1],
      [Base EXCEPT !.method = <<"connect">>, !.scheme = "connect", !.path = <<>>,
                   !.type = <<>>, !.state = "pending", !.version = <<"1", ".", "1">>,
                   !.tls = FALSE, !.duration = 0, !.size = 0, !.responseBody = <<>>],
      [Base EXCEPT !.path = <<"/", "page", ".html", "?">>, !.status = 404,
                   !.type = <<"text", "/", "html">>],
      [Base EXCEPT !.status = 302, !.type = <<"text", "/", "html">>, !.server = <<>>,
                   !.responseBody = <<"not">>],
      [Base EXCEPT !.path = <<"/", "app", ".js">>, !.host = <<"b", ".com">>,
                   !.version = <<"3", ".", "0">>, !.duration = 900],
      [Base EXCEPT !.method = <<"post">>, !.state = "error", !.status = 0, !.type = <<>>,
                   !.error = <<"not", " ", "found">>, !.version = <<>>, !.duration = 5],
      [Base EXCEPT !.scheme = "wss", !.status = 101, !.frames = TRUE, !.type = <<>>,
                   !.version = <<"1", ".", "1">>, !.host = <<"b", ".com">>],
      [Base EXCEPT !.method = <<"post">>, !.grpc = TRUE, !.binary = TRUE,
                   !.type = <<"application", "/", "grpc">>,
                   !.trailers = <<[name |-> <<"x", "-", "id">>, value |-> <<"7">>]>>],
      [Base EXCEPT !.state = "pending", !.status = 0, !.paused = TRUE, !.type = <<>>,
                   !.requestBody = <<"42">>, !.responseBody = <<>>, !.duration = 0],
      [Base EXCEPT !.events = TRUE, !.state = "pending", !.type = <<"text", "/", "stream">>,
                   !.responseHeaders = <<[name |-> <<"x">>, value |-> <<"42">>]>>]>>
All == DOMAIN Transactions

Url(t) == <<t.scheme, ":", "//">> \o t.host \o t.path
\* The text of a status; there is none before the response.
StatusText(t) == IF t.status = 0 THEN <<>> ELSE Digits(t.status)
Websocket(t) == t.frames \/ t.status = 101 \/ t.scheme \in {"ws", "wss"}

Ends(t, atoms) ==
    \E i \in DOMAIN t.path : t.path[i] \in atoms /\ (i = Len(t.path) \/ t.path[i + 1] = "?")
TypeHas(t, atoms) == \E i \in DOMAIN t.type : t.type[i] \in atoms

IsJsRow(t) ==
    \/ TypeHas(t, {"javascript", "ecmascript", "typescript"})
    \/ t.type \in {<<"text", "/", "js">>, <<"application", "/", "js">>}
    \/ Ends(t, {".js", ".mjs", ".cjs", ".ts", ".jsx", ".tsx"})

\* A page by its address; one by its type alone is none if it only says what went wrong.
IsHtmlRow(t) ==
    /\ t.scheme # "connect" /\ t.method # <<"options">>
    /\ \/ Ends(t, {".html", ".htm", ".xhtml", "/html"})
       \/ /\ TypeHas(t, {"html"})
          /\ t.status < 400 /\ t.state # "error"
          /\ t.status \notin {301, 302, 307, 308}

IsJsonRow(t) == TypeHas(t, {"json"}) \/ Ends(t, {".json"})

\* What the words js, html, json and ws say of a type.
IsKind(t, kind) ==
    CASE kind = <<"js">> -> IsJsRow(t)
      [] kind = <<"html">> -> IsHtmlRow(t)
      [] kind = <<"json">> -> IsJsonRow(t)
      [] kind = <<"ws">> -> Websocket(t)
      [] OTHER -> FALSE
KindWords == {<<"js">>, <<"html">>, <<"json">>, <<"ws">>}

StatusMatches(t, v) ==
    CASE v = <<"pending">> -> t.state = "pending"
      [] v \in {<<"error">>, <<"err">>} -> t.state = "error" \/ t.status >= 400
      [] v = <<"paused">> -> t.paused
      [] Len(v) = 2 /\ AreDigits(<<v[1]>>) /\ v[2] = "xx" -> t.status \div 100 = Value(<<v[1]>>)
      [] OTHER -> IsPrefix(v, StatusText(t))

\* The names of a version of HTTP.
VersionNames(n) ==
    {<<"h" \o n>>, <<"http" \o n>>, <<"http", "/", n>>, <<"http", "/", n, ".", "0">>,
     <<n, ".", "0">>, <<n>>}
OldNames == {<<"h1">>, <<"http1">>, <<"http", "/", "1", ".", "1">>, <<"1", ".", "1">>}

ProtoMatches(t, v) ==
    CASE v \in {<<"ws">>, <<"websocket">>} -> Websocket(t)
      [] v = <<"sse">> -> t.events
      [] v = <<"grpc">> -> t.grpc
      [] v \in OldNames -> t.version \in {<<"1", ".", "1">>, <<"1", ".", "0">>}
      [] v \in VersionNames("2") -> t.version \in {<<"2", ".", "0">>, <<"2">>}
      [] v \in VersionNames("3") -> t.version \in {<<"3", ".", "0">>, <<"3">>}
      [] v \in {<<"tls">>, <<"https">>} -> t.tls
      [] v \in {<<"connect">>, <<"tunnel">>} -> t.scheme = "connect"
      [] OTHER -> Includes(<<t.scheme, " ", "http", "/">> \o t.version, v)

Like(pattern, text) ==
    IF Contains(pattern, "*") THEN Wildcard(pattern, text) ELSE Includes(text, pattern)

\* What a row says of a term of its own; a remote one it leaves to the window.
Hit(t, term) ==
    LET v == term.value IN
    CASE term.key = "text" ->
            \/ Includes(Url(t), v) \/ Includes(t.method, v) \/ Includes(t.error, v)
            \/ IsPrefix(v, StatusText(t))
            \/ v # <<"js">> /\ Includes(t.type, v)
            \/ IsKind(t, v)
      [] term.key = "status" -> StatusMatches(t, v)
      [] term.key = "method" -> \E i \in DOMAIN v : v[i] # "," /\ <<v[i]>> = t.method
      [] term.key = "host" -> Like(v, t.host)
      [] term.key = "server" -> Includes(t.server, v)
      [] term.key = "path" -> Like(v, t.path)
      [] term.key = "url" -> Like(v, Url(t))
      [] term.key = "type" -> IF v \in KindWords THEN IsKind(t, v) ELSE Includes(t.type, v)
      [] term.key = "proto" -> ProtoMatches(t, v)
      [] term.key = "size" -> Compare(t.size, term.op, v)
      [] term.key = "dur" -> t.state # "pending" /\ Compare(t.duration, term.op, v)
      [] term.key = "rule" -> (t.rules > 0) = (v \notin {<<"none">>, <<"false">>, <<"0">>})
TermMatches(t, term) == IsRemote(term) \/ Hit(t, term) # term.negate

\* The window's half.
HeaderText(headers) ==
    FlattenSeq([i \in DOMAIN headers |->
                  headers[i].name \o <<":", " ">> \o headers[i].value \o <<"\n">>])
HeaderMatches(headers, v) ==
    LET equals == SelectInSeq(v, LAMBDA a : a = "=")
        name == IF equals = 0 THEN v ELSE SubSeq(v, 1, equals - 1)
        wanted == IF equals = 0 THEN <<>> ELSE SubSeq(v, equals + 1, Len(v)) IN
    \E i \in DOMAIN headers :
        IF wanted = <<>> THEN Includes(headers[i].name, name)
        ELSE headers[i].name = name /\ Includes(headers[i].value, wanted)
Found(t, term) ==
    LET v == term.value
        body(text) == ~t.binary /\ Includes(text, v) IN
    CASE term.key = "body" -> body(t.requestBody) \/ body(t.responseBody)
      [] term.key = "header" -> \E h \in {t.requestHeaders, t.responseHeaders, t.trailers} :
                                    HeaderMatches(h, v)
      [] term.key = "req" -> Includes(HeaderText(t.requestHeaders), v) \/ body(t.requestBody)
      [] term.key = "res" -> Includes(HeaderText(t.responseHeaders), v) \/ body(t.responseBody)
Holds(t, term) == ~IsRemote(term) \/ Found(t, term) # term.negate
SearchTransactions(query) ==
    LET terms == Remote(ParseQuery(query)) IN
    IF terms = <<>> THEN {}
    ELSE {i \in All : \A n \in DOMAIN terms : Holds(Transactions[i], terms[n])}

-----------------------------------------------------------------------------
(* The rows that the table shows. *)

QuickFilters == {"all", "2xx", "3xx", "4xx", "5xx", "pending", "error", "json", "js", "html",
                 "ws"}
Century == [x \in {"2xx", "3xx", "4xx", "5xx"} |->
               CASE x = "2xx" -> 2 [] x = "3xx" -> 3 [] x = "4xx" -> 4 [] x = "5xx" -> 5]
QuickMatches(t, q) ==
    CASE q = "all" -> TRUE
      [] q = "pending" -> t.state = "pending"
      [] q = "error" -> t.state = "error" \/ t.status >= 400
      [] q \in {"json", "js", "html", "ws"} -> IsKind(t, <<q>>)
      [] OTHER -> t.status \div 100 = Century[q]

Terms == ParseQuery(typed)
\* The ids that the window found; none are known before it answers.
RemoteIds == IF found.query = RemoteQuery(Terms) THEN found.ids ELSE {}

RowMatches(i, terms) ==
    LET t == Transactions[i] IN
    /\ noTunnels => t.scheme # "connect"
    /\ atHost # <<>> => t.host = atHost
    /\ QuickMatches(t, quick)
    /\ \A n \in DOMAIN terms : TermMatches(t, terms[n])
    /\ Remote(terms) # <<>> => i \in RemoteIds

Columns == {"sequence", "status", "method", "httpVersion", "url", "serverAddress",
            "timestamp", "duration", "responseBytes"}
Numeric == {"sequence", "timestamp", "duration", "responseBytes"}
Number(i, column) ==
    CASE column = "duration" -> Transactions[i].duration
      [] column = "responseBytes" -> Transactions[i].size
      [] OTHER -> i
\* The others are texts, or compare as if they were; what is not there is the empty text.
Text(i, column) ==
    LET t == Transactions[i] IN
    CASE column = "status" -> StatusText(t)
      [] column = "method" -> t.method
      [] column = "httpVersion" -> t.version
      [] column = "url" -> Url(t)
      [] column = "serverAddress" -> t.server

\* How a locale orders texts, as far as these go.
Collation ==
    <<"//", "/", ".", ":", ".com", ".html", ".js", "?", "10.1">> \o Digit \o
    <<"a", "app", "b", "connect", "get", "https", "options", "page", "post", "v1", "wss">>
Rank(atom) == SelectInSeq(Collation, LAMBDA a : a = atom)
TextLess(x, y) ==
    \E n \in 0..Len(x) :
        /\ IsPrefix(SubSeq(x, 1, n), y) /\ n < Len(y)
        /\ n = Len(x) \/ Rank(x[n + 1]) < Rank(y[n + 1])
Less(column, i, j) ==
    IF column \in Numeric THEN Number(i, column) < Number(j, column)
    ELSE TextLess(Text(i, column), Text(j, column))

\* Rows that a column does not tell apart stay as they were captured.
SortRows(rows, order) ==
    LET first(i, j) == IF order.ascending THEN Less(order.column, i, j)
                       ELSE Less(order.column, j, i) IN
    SortSeq(rows, LAMBDA i, j : first(i, j) \/ (~first(j, i) /\ i < j))
ToggleSort(order, column) ==
    [column |-> column,
     ascending |-> IF order.column = column THEN ~order.ascending
                   ELSE column # "responseBytes"]

Visible ==
    LET terms == Terms IN
    SortRows(SelectSeq([i \in All |-> i], LAMBDA i : RowMatches(i, terms)), sort)
IsFiltered == typed # <<>> \/ quick # "all" \/ atHost # <<>> \/ noTunnels

-----------------------------------------------------------------------------

Words == {Word(<<"js">>), Word(<<"html">>), Word(<<"json">>), Word(<<"ws">>), Word(<<"4", "0", "4">>),
          Word(<<"get">>), Word(<<"not", " ", "found">>), Quoted(Word(<<"not", " ", "found">>))}
Local == {Keyed("https", ":", <<"//", "a", ".com">>), Keyed("foo", ":", <<"bar">>),
          Keyed("code", ":", <<"5", "xx">>), Keyed("status", ":", <<"4", "0">>),
          Keyed("status", "=", <<"paused">>), Keyed("method", ":", <<"get", ",", "post">>),
          Keyed("domain", ":", <<"*", ".com">>), Keyed("host", ":", <<"b">>),
          Keyed("ip", ":", <<"10.1">>), Keyed("path", ":", <<"/", "*">>),
          Keyed("url", ":", <<"app">>), Keyed("mime", ":", <<"plain">>),
          Keyed("proto", ":", <<"sse">>), Keyed("proto", ":", <<"grpc">>),
          Keyed("proto", ":", <<"h1">>), Keyed("version", ":", <<"2", ".", "0">>),
          Keyed("proto", ":", <<"h3">>), Keyed("proto", ":", <<"tls">>),
          Keyed("proto", ":", <<"tunnel">>), Keyed("protocol", ":", <<"wss">>),
          Keyed("size", ">", <<"9", "k">>), Keyed("bytes", ":", <<"1", "0">>),
          Keyed("dur", "<", <<"9">>), Keyed("time", ">", <<"x">>),
          Keyed("rule", ":", <<"none">>)}
Asked == {Keyed("body", ":", <<"not", " ", "found">>), Keyed("body", ":", <<>>),
          Quoted(Keyed("body", ":", <<"not", " ", "found">>)),
          Keyed("header", ":", <<"x">>),
          Keyed("header", "=", <<"x", "-", "id", "=", "42">>),
          Keyed("request", ":", <<"42">>), Keyed("res", ">", <<"42">>)}
QuickToken(q) ==
    CASE q \in DOMAIN Century -> Keyed("status", ":", <<Digit[Century[q] + 1], "xx">>)
      [] q \in {"pending", "error"} -> Keyed("status", ":", <<q>>)
      [] OTHER -> Keyed("type", ":", <<q>>)
Tokens == Words \cup Local \cup Asked \cup {Minus(token) : token \in Asked}

Init ==
    /\ typed = <<>> /\ quick = "all" /\ atHost = <<>> /\ noTunnels = FALSE
    /\ sort = [column |-> "timestamp", ascending |-> TRUE]
    /\ found = [query |-> <<>>, ids |-> {}]
    /\ tries = 0

Try == tries < MaxFilters /\ tries' = tries + 1

Type(token) ==
    /\ Try /\ typed' = Append(typed, token)
    /\ UNCHANGED <<quick, atHost, noTunnels, sort, found>>
PickQuick(q) ==
    /\ Try /\ quick' = q
    /\ UNCHANGED <<typed, atHost, noTunnels, sort, found>>
HideTunnels ==
    /\ Try /\ noTunnels' = ~noTunnels
    /\ UNCHANGED <<typed, quick, atHost, sort, found>>
\* A host is picked in the tree or the statistics, or all filters are cleared.
PickHost(host) ==
    /\ Try /\ typed' = <<>> /\ quick' = "all" /\ noTunnels' = FALSE
    /\ atHost' = host
    /\ UNCHANGED <<sort, found>>
SortBy(column) ==
    /\ Try /\ sort' = ToggleSort(sort, column)
    /\ UNCHANGED <<typed, quick, atHost, noTunnels, found>>

\* The window answers what the page asks.
Answer ==
    /\ Remote(Terms) # <<>> /\ found.query # RemoteQuery(Terms)
    /\ found' = [query |-> RemoteQuery(Terms),
                 ids |-> SearchTransactions(RemoteQuery(Terms))]
    /\ UNCHANGED <<typed, quick, atHost, noTunnels, sort, tries>>

Next ==
    \/ \E token \in Tokens : Type(token)
    \/ \E q \in QuickFilters : PickQuick(q)
    \/ HideTunnels
    \/ \E host \in {<<>>} \cup {t.host : t \in ToSet(Transactions)} : PickHost(host)
    \/ \E column \in Columns : SortBy(column)
    \/ Answer

Spec == Init /\ [][Next]_vars

-----------------------------------------------------------------------------
(* Properties. *)

TypeOK ==
    /\ typed \in Seq(Tokens) /\ quick \in QuickFilters
    /\ noTunnels \in BOOLEAN /\ tries \in 0..MaxFilters
    /\ sort \in [column : Columns, ascending : BOOLEAN]
    /\ found.ids \subseteq All

\* What a term says of a transaction, whoever decides it.
Means(t, term) == (IF IsRemote(term) THEN Found(t, term) ELSE Hit(t, term)) # term.negate

\* The table shows the rows that pass the filters and of which every term typed holds, none
\* of them before the window has answered what only it can tell; unfiltered it shows all.
RowsAreMeant ==
    LET terms == Terms
        rows == ToSet(Visible)
        passing == {i \in All :
                       LET t == Transactions[i] IN
                       /\ noTunnels => t.scheme # "connect"
                       /\ atHost \in {<<>>, t.host}
                       /\ QuickMatches(t, quick)
                       /\ \A n \in DOMAIN terms : Means(t, terms[n])}
        answered == Remote(terms) = <<>> \/ found.query = RemoteQuery(terms) IN
    /\ rows = IF answered THEN passing ELSE {}
    /\ ~IsFiltered => rows = All

\* A minus before a word or a key turns its term around.
MinusNegates ==
    \A i \in DOMAIN typed :
        LET token == typed[i] IN
        /\ ~token.minus /\ ~Contains(token.value, " ")
        /\ ~token.quoted \/ token.name # ""
        => ParseQuery(<<Minus(token)>>)
             = [n \in DOMAIN ParseQuery(<<token>>) |->
                  [ParseQuery(<<token>>)[n] EXCEPT !.negate = TRUE]]

\* A quick filter is the term of the same name.
QuickIsTyped ==
    quick # "all" =>
        \A i \in All : \A n \in DOMAIN ParseQuery(<<QuickToken(quick)>>) :
            QuickMatches(Transactions[i], quick)
                = TermMatches(Transactions[i], ParseQuery(<<QuickToken(quick)>>)[n])

\* The order of the rows does not depend on the order in which they came.
OrderIsKept == SortRows(Reverse(Visible), sort) = Visible

QueryIsMeant == RowsAreMeant /\ MinusNegates /\ QuickIsTyped /\ OrderIsKept
=============================================================================
