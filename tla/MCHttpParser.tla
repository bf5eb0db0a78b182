---------------------------- MODULE MCHttpParser ----------------------------
(***************************************************************************)
(* Inputs for HttpParser: abstract messages, written out as a client or a  *)
(* server writes them, with what a correct parser must make of them.       *)
(***************************************************************************)
EXTENDS HttpParser

CRLF == <<"CR", "LF">>
A == <<"a">>

(* The decimal numeral of a number below 1000.                             *)
Numeral(n) ==
    LET digit(k) == Digits[(k % 10) + 1] IN
    CASE n < 10 -> <<digit(n)>>
      [] n \in 10 .. 99 -> <<digit(n \div 10), digit(n)>>
      [] OTHER -> <<digit(n \div 100), digit(n \div 10), digit(n)>>

(* The value of a Connection header with these tokens.                     *)
Tokens(ts) == FlattenSeq([i \in 1 .. Len(ts) |->
                            IF i = 1 THEN ts[i] ELSE <<",", "SP">> \o ts[i]])

(* A message: first line, connection tokens, other headers, body.          *)
Request == [method |-> "GET", url |-> <<"/">>, version |-> <<1, 1>>, status |-> 0, reason |-> <<>>,
            connection |-> <<>>, headers |-> <<>>, coding |-> "none", body |-> <<>>]
Response == [Request EXCEPT !.method = "DELETE", !.status = 200, !.reason = <<"O", "K">>]

HeadersOf(m) ==
    (IF m.connection = <<>> THEN <<>> ELSE <<<<CONNECTION, Tokens(m.connection)>>>>)
    \o m.headers
    \o CASE m.coding = "length" -> <<<<CONTENT_LENGTH, Numeral(Len(m.body))>>>>
         [] m.coding = "chunked" -> <<<<TRANSFER_ENCODING, CHUNKED>>>>
         [] OTHER -> <<>>

FirstLineOf(m) ==
    LET http == <<"H", "T", "T", "P", "/", Digits[m.version[1] + 1], ".", Digits[m.version[2] + 1]>>
    IN IF m.status = 0
       THEN method_strings[m.method] \o <<"SP">> \o m.url
            \o (IF m.version = <<0, 9>> THEN <<>> ELSE <<"SP">> \o http) \o CRLF
       ELSE http \o <<"SP">> \o Numeral(m.status) \o <<"SP">> \o m.reason \o CRLF

HeadOf(m) ==
    FirstLineOf(m)
    \o FlattenSeq([i \in 1 .. Len(HeadersOf(m)) |->
                     HeadersOf(m)[i][1] \o <<":", "SP">> \o HeadersOf(m)[i][2] \o CRLF])
    \o CRLF

(* A chunked body is sent as two chunks and a trailer.                     *)
Half(m) == Len(m.body) \div 2
Chunk(data) == <<HexDigits[Len(data) + 1]>> \o <<";", "x">> \o CRLF \o data \o CRLF
BodyOf(m) ==
    IF m.coding # "chunked" THEN m.body
    ELSE Chunk(SubSeq(m.body, 1, Half(m))) \o Chunk(SubSeq(m.body, Half(m) + 1, Len(m.body)))
         \o <<"0">> \o CRLF \o <<"t", ":", "v">> \o CRLF \o CRLF

Wire(m) == HeadOf(m) \o BodyOf(m)

(* RFC 2616: does the connection live on, does it change protocols?        *)
KeepsAlive(m) ==
    /\ IF m.version = <<1, 1>>
       THEN CLOSE \notin Range(m.connection) /\ <<PROXY_CONNECTION, CLOSE>> \notin Range(m.headers)
       ELSE KEEP_ALIVE \in Range(m.connection)
    /\ m.status = 0 \/ m.coding # "none" \/ m.status \in {100, 204, 304}
ChangesProtocol(m) ==
    \/ m.method = "CONNECT"
    \/ UPGRADE \in Range(m.connection) /\ \E h \in Range(m.headers) : h[1] = UPGRADE

Event(kind) == <<<<kind, <<>>>>>>
EventsOf(m) ==
    Event("message_begin")
    \o <<IF m.status = 0 THEN <<"url", m.url>> ELSE <<"status", m.reason>>>>
    \o FlattenSeq([i \in 1 .. Len(HeadersOf(m)) |->
                     <<<<"header_field", HeadersOf(m)[i][1]>>, <<"header_value", HeadersOf(m)[i][2]>>>>])
    \o <<<<"headers_complete", <<m.method, m.version[1], m.version[2], ChangesProtocol(m),
                                 KeepsAlive(m)>>>>>>
    \o (CASE m.body = <<>> -> <<>>
         [] m.body # <<>> /\ m.coding = "chunked" ->
              Event("chunk_header") \o <<<<"body", SubSeq(m.body, 1, Half(m))>>>> \o Event("chunk_complete")
              \o Event("chunk_header") \o <<<<"body", SubSeq(m.body, Half(m) + 1, Len(m.body))>>>>
              \o Event("chunk_complete")
              \o Event("chunk_header") \o <<<<"header_field", <<"t">>>>, <<"header_value", <<"v">>>>>>
              \o Event("chunk_complete")
         [] OTHER -> <<<<"body", m.body>>>>)
    \o Event("message_complete")

(* Inputs.  A well-formed stream of messages, and one behind them that the *)
(* parser must not look at.                                                *)
Input(type, ms, tail, errno) ==
    LET good == FlattenSeq([i \in 1 .. Len(ms) |-> Wire(ms[i])]) IN
    [type |-> type, text |-> good \o tail, errnos |-> {errno}, taken |-> Len(good),
     events |-> FlattenSeq([i \in 1 .. Len(ms) |-> EventsOf(ms[i])]),
     header |-> Len(HeadOf(ms[1])), answers |-> {"OK"}, skip |-> FALSE]

Requests(ms) == Input("HTTP_REQUEST", ms, <<>>, "OK")
Responses(ms) == Input("HTTP_RESPONSE", ms, <<>>, "OK")

Post == [Request EXCEPT !.method = "POST", !.coding = "length", !.body = <<"x", "LF", "CR">>]
ChunkedPost == [Request EXCEPT !.method = "PUT", !.coding = "chunked", !.body = <<"x", "CR", "LF">>,
                               !.connection = <<KEEP_ALIVE>>]
Upgrade == [Request EXCEPT !.connection = <<KEEP_ALIVE, UPGRADE>>,
                           !.headers = <<<<UPGRADE, A>>>>]
Close == [Request EXCEPT !.connection = <<A, CLOSE>>]

MethodInputs == {Requests(<<[Request EXCEPT !.method = m,
                                           !.url = IF m = "CONNECT" THEN <<"h", ":", "1">> ELSE <<"/">>]>>)
                   : m \in DOMAIN method_strings}

GoodInputs ==
    {Requests(<<Post, Request>>), Requests(<<ChunkedPost, Request>>), Requests(<<Close>>),
     Requests(<<[Request EXCEPT !.version = <<1, 0>>, !.connection = <<KEEP_ALIVE, A>>], Request>>),
     Requests(<<[Request EXCEPT !.version = <<0, 9>>,
                                !.url = <<"h", ":", "/", "/", "u", "@", "h", "?", "q", "#", "f">>]>>),
     Requests(<<[Request EXCEPT !.headers = <<<<A, <<>>>>, <<<<"c", "o", "n", "t", "e">>, A>>,
                                              <<PROXY_CONNECTION, CLOSE>>>>]>>),
     Responses(<<[Response EXCEPT !.status = 204], [Response EXCEPT !.coding = "length",
                                                                   !.body = A]>>),
     Responses(<<[Response EXCEPT !.body = <<"b", "LF">>]>>),
     Input("HTTP_BOTH", <<[Request EXCEPT !.method = "HEAD"]>>, <<>>, "OK"),
     Input("HTTP_BOTH", <<[Response EXCEPT !.status = 100]>>, <<>>, "OK")}

(* Line ends without CR, a value on two lines, and a method whose second   *)
(* letter http_parser lets pass.                                           *)
Written(text, m) ==
    [Requests(<<m>>) EXCEPT !.text = text, !.taken = Len(text)]
OddInputs ==
    LET get == <<"G", "E", "T", "SP", "/", "SP", "H", "T", "T", "P", "/", "1", ".", "1">>
        folded == [Request EXCEPT !.headers = <<<<A, <<"b", "SP", "c">>>>>>]
    IN {Written(get \o <<"LF", "A", ":", "b", "LF", "LF">>,
                [Request EXCEPT !.headers = <<<<<<"A">>, <<"b">>>>>>]),
        Written(get \o CRLF \o <<"a", ":", "b">> \o CRLF \o <<"SP", "c">> \o CRLF \o CRLF, folded),
        Written([get EXCEPT ![2] = "X"] \o CRLF \o CRLF, Request)}

(* What comes behind the last message of HTTP: more data, another protocol.*)
TailInputs ==
    {Input("HTTP_REQUEST", <<Close>>, Wire(Request), "CLOSED_CONNECTION"),
     Input("HTTP_REQUEST", <<Upgrade>>, Wire(Request), "OK"),
     Input("HTTP_REQUEST", <<[Upgrade EXCEPT !.coding = "length", !.body = A]>>, CRLF, "OK"),
     Input("HTTP_REQUEST", <<[Request EXCEPT !.method = "CONNECT", !.url = <<"h", ":", "1">>]>>, A,
           "OK")}

(* Lengths at the limit of their integer, and headers at theirs.           *)
Long(n) == [Request EXCEPT !.headers = <<<<A, [i \in 1 .. n |-> "b"]>>>>]
LimitInputs ==
    LET cl(n) == [Request EXCEPT !.headers = <<<<CONTENT_LENGTH, Numeral(n)>>>>]
        chunk(size) == Input("HTTP_REQUEST",
                             <<[Request EXCEPT !.headers = <<<<TRANSFER_ENCODING, CHUNKED>>>>]>>,
                             size \o CRLF, "INVALID_CONTENT_LENGTH")
        fit == HTTP_MAX_HEADER_SIZE - Len(HeadOf(Long(0)))
    IN {Input("HTTP_REQUEST", <<cl(249)>>, <<>>, "INVALID_EOF_STATE"),
        Input("HTTP_REQUEST", <<cl(255)>>, <<>>, "INVALID_CONTENT_LENGTH"),
        Input("HTTP_REQUEST", <<cl(256)>>, <<>>, "INVALID_CONTENT_LENGTH"),
        chunk(<<"f", "f">>), chunk(<<"1", "0", "0">>),
        [Requests(<<Long(fit)>>) EXCEPT !.errnos = {"OK", "HEADER_OVERFLOW"}],
        Input("HTTP_REQUEST", <<Long(fit + 1)>>, <<>>, "HEADER_OVERFLOW")}

(* Malformed input; a text replaces the end of a good message.             *)
BadInputs ==
    LET bad(m, keep, text, errno) ==
           [Input(IF m.status = 0 THEN "HTTP_REQUEST" ELSE "HTTP_RESPONSE", <<m>>, <<>>, errno)
              EXCEPT !.text = SubSeq(Wire(m), 1, keep) \o text]
        chunk(text, errno) == bad(ChunkedPost, Len(HeadOf(ChunkedPost)), text, errno)
    IN {bad(Request, 0, <<"g">>, "INVALID_METHOD"), bad(Request, 2, <<"M">>, "INVALID_METHOD"),
        bad(Request, 4, <<"?">>, "INVALID_URL"), bad(Request, 6, <<"X">>, "INVALID_CONSTANT"),
        bad(Request, 7, <<"X">>, "STRICT"), bad(Request, 11, <<"0">>, "INVALID_VERSION"),
        bad(Request, 12, <<"0", "0", "0">>, "INVALID_VERSION"),
        bad(Request, 15, <<"X">>, "LF_EXPECTED"), bad(Request, 16, <<"@">>, "INVALID_HEADER_TOKEN"),
        bad(Long(1), 17, <<"SP">>, "INVALID_HEADER_TOKEN"), bad(Request, 17, A, "STRICT"),
        bad(Response, 0, <<"X">>, "INVALID_CONSTANT"), bad(Response, 9, <<"X">>, "INVALID_STATUS"),
        bad(Response, 12, <<"9">>, "INVALID_STATUS"), bad(Response, 16, A, "STRICT"),
        chunk(<<"x">>, "INVALID_CHUNK_SIZE"),
        chunk(<<"1", "x">>, "INVALID_CHUNK_SIZE"), chunk(<<"1", "CR", "LF", "x", "x">>, "STRICT")}

(* The applications that pause the parser or refuse a message, and one     *)
(* that asks for no body: a client that has sent HEAD.                     *)
Applications ==
    {[Requests(<<Post, Request>>) EXCEPT !.answers = {"OK", "PAUSED"}],
     [Requests(<<ChunkedPost>>) EXCEPT !.answers = {"OK", "PAUSED"}],
     [Requests(<<Upgrade>>) EXCEPT !.answers = {"OK", "PAUSED", "CB"}],
     LET m == [Response EXCEPT !.coding = "length", !.body = A] IN
     [Responses(<<m>>) EXCEPT !.text = HeadOf(m), !.skip = TRUE,
                              !.events = SelectSeq(@, LAMBDA e : e[1] # "body")]}

MCInputs == MethodInputs \union GoodInputs \union OddInputs \union TailInputs
            \union LimitInputs \union BadInputs \union Applications
=============================================================================
