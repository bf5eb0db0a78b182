----------------------------- MODULE HttpParser -----------------------------
(***************************************************************************)
(* http_parser_execute(): the state machine that turns the bytes of a      *)
(* connection, cut into segments anywhere, into callbacks.                 *)
(*                                                                         *)
(* The input is a sequence of characters fed in segments.  A step handles  *)
(* one case of the big switch for one character; REEXECUTE is a step that  *)
(* leaves p where it is.  `trace' is what the callbacks have told the      *)
(* application, with consecutive data callbacks of one kind joined, for    *)
(* http_parser.h promises nothing about how a string is cut.  A callback   *)
(* answers "OK", "CB" (it fails) or "PAUSED" (it pauses the parser).       *)
(***************************************************************************)
EXTENDS HttpUrl

CONSTANTS
    Inputs,                 \* what may be fed and answered, see MCHttpParser
    SegmentSizes,           \* how much one call of execute() may be given
    HTTP_MAX_HEADER_SIZE,   \* 80 * 1024 in the build
    ULLONG_MAX              \* 2^64 - 1 in the build

(* A call is given at least one byte, unless it tells the end; a length    *)
(* holds at least two hexadecimal digits.                                  *)
ASSUME ParserAssumption ==
    /\ \A i \in Inputs : i.text \in Seq(STRING)
    /\ SegmentSizes \subseteq Nat \ {0}
    /\ HTTP_MAX_HEADER_SIZE \in Nat
    /\ ULLONG_MAX \in Nat /\ ULLONG_MAX >= 255

VARIABLES
    parser,     \* struct http_parser
    input,      \* the element of Inputs that is fed
    pc,         \* "idle" outside execute(); "top" of the loop; "exec" at
                \* the switch; "loop" in an inner loop; "eof" at the end
    p,          \* the next character, counted from 1 over all segments
    end,        \* data + len
    start,      \* `start' of the inner loops
    marks,      \* the five FOR_mark pointers, 0 for NULL
    trace,      \* the callbacks made
    asserted    \* no assert() has failed

vars == <<parser, input, pc, p, end, start, marks, trace, asserted>>

-----------------------------------------------------------------------------
(* Tables.                                                                 *)
CONNECTION == <<"c","o","n","n","e","c","t","i","o","n">>
PROXY_CONNECTION == <<"p","r","o","x","y","-">> \o CONNECTION
CONTENT_LENGTH == <<"c","o","n","t","e","n","t","-","l","e","n","g","t","h">>
TRANSFER_ENCODING == <<"t","r","a","n","s","f","e","r","-","e","n","c","o","d","i","n","g">>
UPGRADE == <<"u","p","g","r","a","d","e">>
CHUNKED == <<"c","h","u","n","k","e","d">>
KEEP_ALIVE == <<"k","e","e","p","-","a","l","i","v","e">>
CLOSE == <<"c","l","o","s","e">>

method_strings ==
    [DELETE |-> <<"D","E","L","E","T","E">>, GET |-> <<"G","E","T">>,
     HEAD |-> <<"H","E","A","D">>, POST |-> <<"P","O","S","T">>, PUT |-> <<"P","U","T">>,
     CONNECT |-> <<"C","O","N","N","E","C","T">>, OPTIONS |-> <<"O","P","T","I","O","N","S">>,
     TRACE |-> <<"T","R","A","C","E">>, COPY |-> <<"C","O","P","Y">>,
     LOCK |-> <<"L","O","C","K">>, MKCOL |-> <<"M","K","C","O","L">>,
     MOVE |-> <<"M","O","V","E">>, PROPFIND |-> <<"P","R","O","P","F","I","N","D">>,
     PROPPATCH |-> <<"P","R","O","P","P","A","T","C","H">>,
     SEARCH |-> <<"S","E","A","R","C","H">>, UNLOCK |-> <<"U","N","L","O","C","K">>,
     BIND |-> <<"B","I","N","D">>, REBIND |-> <<"R","E","B","I","N","D">>,
     UNBIND |-> <<"U","N","B","I","N","D">>, ACL |-> <<"A","C","L">>,
     REPORT |-> <<"R","E","P","O","R","T">>,
     MKACTIVITY |-> <<"M","K","A","C","T","I","V","I","T","Y">>,
     CHECKOUT |-> <<"C","H","E","C","K","O","U","T">>, MERGE |-> <<"M","E","R","G","E">>,
     MSEARCH |-> <<"M","-","S","E","A","R","C","H">>, NOTIFY |-> <<"N","O","T","I","F","Y">>,
     SUBSCRIBE |-> <<"S","U","B","S","C","R","I","B","E">>,
     UNSUBSCRIBE |-> <<"U","N","S","U","B","S","C","R","I","B","E">>,
     PATCH |-> <<"P","A","T","C","H">>, PURGE |-> <<"P","U","R","G","E">>,
     MKCALENDAR |-> <<"M","K","C","A","L","E","N","D","A","R">>,
     LINK |-> <<"L","I","N","K">>, UNLINK |-> <<"U","N","L","I","N","K">>]

(* The method a first letter stands for until a later one says otherwise.  *)
FirstGuess ==
    [A |-> "ACL", B |-> "BIND", C |-> "CONNECT", D |-> "DELETE", G |-> "GET", H |-> "HEAD",
     L |-> "LOCK", M |-> "MKCOL", N |-> "NOTIFY", O |-> "OPTIONS", P |-> "POST",
     R |-> "REPORT", S |-> "SUBSCRIBE", T |-> "TRACE", U |-> "UNLOCK"]

(* The letters that say otherwise: <<guess, index, letter, method>>.       *)
Corrections ==
    {<<"CONNECT", 1, "H", "CHECKOUT">>, <<"CONNECT", 2, "P", "COPY">>,
     <<"MKCOL", 1, "O", "MOVE">>, <<"MKCOL", 1, "E", "MERGE">>, <<"MKCOL", 1, "-", "MSEARCH">>,
     <<"MKCOL", 2, "A", "MKACTIVITY">>, <<"MKCOL", 3, "A", "MKCALENDAR">>,
     <<"SUBSCRIBE", 1, "E", "SEARCH">>, <<"REPORT", 2, "B", "REBIND">>,
     <<"POST", 1, "R", "PROPFIND">>, <<"POST", 1, "U", "PUT">>, <<"POST", 1, "A", "PATCH">>,
     <<"LOCK", 1, "I", "LINK">>, <<"PUT", 2, "R", "PURGE">>,
     <<"UNLOCK", 2, "S", "UNSUBSCRIBE">>, <<"UNLOCK", 2, "B", "UNBIND">>,
     <<"PROPFIND", 4, "P", "PROPPATCH">>, <<"UNLOCK", 3, "I", "UNLINK">>}

(* A wrong second letter is let through for every other first guess.       *)
Lenient == DOMAIN method_strings \ {"CONNECT", "MKCOL", "SUBSCRIBE", "REPORT", "POST", "LOCK"}

(* What the header states are matching, and where a hit or a miss leads.   *)
Matchers ==
    [h_matching_connection |-> <<CONNECTION, "h_connection", "h_general">>,
     h_matching_proxy_connection |-> <<PROXY_CONNECTION, "h_connection", "h_general">>,
     h_matching_content_length |-> <<CONTENT_LENGTH, "h_content_length", "h_general">>,
     h_matching_transfer_encoding |-> <<TRANSFER_ENCODING, "h_transfer_encoding", "h_general">>,
     h_matching_upgrade |-> <<UPGRADE, "h_upgrade", "h_general">>,
     h_matching_transfer_encoding_chunked |->
        <<CHUNKED, "h_transfer_encoding_chunked", "h_general">>,
     h_matching_connection_keep_alive |->
        <<KEEP_ALIVE, "h_connection_keep_alive", "h_matching_connection_token">>,
     h_matching_connection_close |->
        <<CLOSE, "h_connection_close", "h_matching_connection_token">>,
     h_matching_connection_upgrade |->
        <<UPGRADE, "h_connection_upgrade", "h_matching_connection_token">>]

(* The flag a header state raises when its header ends.                    *)
FlagOf ==
    [h_connection_keep_alive |-> "F_CONNECTION_KEEP_ALIVE",
     h_connection_close |-> "F_CONNECTION_CLOSE",
     h_connection_upgrade |-> "F_CONNECTION_UPGRADE",
     h_transfer_encoding_chunked |-> "F_CHUNKED"]

UrlStates == {"s_req_schema", "s_req_schema_slash", "s_req_schema_slash_slash",
              "s_req_server_start", "s_req_server", "s_req_server_with_at", "s_req_path",
              "s_req_query_string_start", "s_req_query_string", "s_req_fragment_start",
              "s_req_fragment"}
BodyStates == {"s_chunk_data", "s_chunk_data_almost_done", "s_chunk_data_done",
               "s_body_identity", "s_body_identity_eof", "s_message_done"}
PARSING_HEADER(s) == s \notin BodyStates

MarkKinds == {"header_field", "header_value", "url", "body", "status"}
NoMarks == [k \in MarkKinds |-> 0]

-----------------------------------------------------------------------------

(* The test of a length that is about to get another digit.                *)
Overflows(length, base) == (ULLONG_MAX - base) \div base < length

(* Mutant: nread goes on.                                                  *)
MutUncounted(ps) == ps

(* nread starts anew.                                                      *)
Uncounted(ps) == [ps EXCEPT !.nread = 0]

start_state(ps) == IF ps.type = "HTTP_REQUEST" THEN "s_start_req" ELSE "s_start_res"

http_message_needs_eof(ps) ==
    /\ ps.type # "HTTP_REQUEST"
    /\ ~ (ps.status_code \div 100 = 1 \/ ps.status_code \in {204, 304})
    /\ ps.flags \intersect {"F_SKIPBODY", "F_CHUNKED"} = {}
    /\ ps.content_length = ULLONG_MAX

http_should_keep_alive(ps) ==
    /\ IF ps.http_major > 0 /\ ps.http_minor > 0
       THEN "F_CONNECTION_CLOSE" \notin ps.flags
       ELSE "F_CONNECTION_KEEP_ALIVE" \in ps.flags
    /\ ~ http_message_needs_eof(ps)

NEW_MESSAGE(ps) == IF http_should_keep_alive(ps) THEN start_state(ps) ELSE "s_dead"

http_parser_init(t) ==
    [type |-> t, flags |-> {}, header_state |-> "h_general", index |-> 0, nread |-> 0,
     content_length |-> 0, http_major |-> 0, http_minor |-> 0, status_code |-> 0,
     method |-> "DELETE", http_errno |-> "OK", upgrade |-> FALSE,
     state |-> CASE t = "HTTP_REQUEST" -> "s_start_req"
                 [] t = "HTTP_RESPONSE" -> "s_start_res"
                 [] OTHER -> "s_start_req_or_res"]

Init ==
    /\ input \in Inputs
    /\ parser = http_parser_init(input.type)
    /\ pc = "idle" /\ p = 1 /\ end = 1 /\ start = 0
    /\ marks = NoMarks /\ trace = <<>> /\ asserted = TRUE

-----------------------------------------------------------------------------
(* How a case of the switch ends.  `next' is "top" for break, which        *)
(* consumes the character, "exec" for REEXECUTE, which does not, and       *)
(* "idle" for RETURN((p - data) + 1).                                      *)
ch == input.text[p]
To(s) == [parser EXCEPT !.state = s]
At(S) == pc = "exec" /\ parser.state \in S
Keep == UNCHANGED <<input, end>>

(* goto error, with the errno set: everything from p on is unread.         *)
Fails(ps, errno) ==
    /\ parser' = [ps EXCEPT !.http_errno = errno]
    /\ pc' = "idle" /\ p' = p /\ marks' = NoMarks /\ start' = 0

(* An earlier COUNT_HEADER_SIZE may have found too many header bytes.      *)
Goes(ps, ms, next) ==
    IF ps.nread > HTTP_MAX_HEADER_SIZE
    THEN Fails(ps, "HEADER_OVERFLOW")
    ELSE /\ parser' = ps
         /\ pc' = next /\ p' = IF next = "exec" THEN p ELSE p + 1
         /\ marks' = IF next = "idle" THEN NoMarks ELSE ms
         /\ start' = 0

Ends(ps, ms, next) == Goes(ps, ms, next) /\ UNCHANGED <<trace, asserted>> /\ Keep
Error(errno) == Fails(parser, errno) /\ UNCHANGED <<trace, asserted>> /\ Keep
Break(ps) == Ends(ps, marks, "top")
Reexecute(ps) == Ends(ps, marks, "exec")
Abort == asserted' = FALSE /\ UNCHANGED <<parser, pc, p, start, marks, trace>> /\ Keep

(* The callbacks.  A data callback joins the one before it.                *)
Told(event) ==
    LET n == Len(trace) IN
    IF n > 0 /\ event[1] \in MarkKinds /\ trace[n][1] = event[1]
    THEN [trace EXCEPT ![n] = <<event[1], @[2] \o event[2]>>]
    ELSE Append(trace, event)

(* CALLBACK_NOTIFY_ and CALLBACK_DATA_: a callback that does not answer OK *)
(* makes execute() return, with the current character consumed unless the  *)
(* case was to look at it again.                                           *)
Calls(event, ps, after, ms, next) ==
    \E answer \in input.answers :
        /\ trace' = Told(event)
        /\ IF answer = "OK"
           THEN Goes(after, ms, next)
           ELSE /\ parser' = [ps EXCEPT !.http_errno = answer]
                /\ pc' = "idle" /\ p' = IF next = "exec" THEN p ELSE p + 1
                /\ marks' = NoMarks /\ start' = 0
        /\ UNCHANGED asserted /\ Keep

Notify(kind, ps, next) == Calls(<<kind, <<>>>>, ps, ps, marks, next)

(* The data callback for the characters from its mark up to `last'.        *)
CallbackData(kind, ms, last, ps, after, next) ==
    IF ms[kind] = 0
    THEN Ends(after, ms, next)
    ELSE Calls(<<kind, SubSeq(input.text, ms[kind], last)>>, ps, after,
               [ms EXCEPT ![kind] = 0], next)

MARK(kind) == IF marks[kind] = 0 THEN [marks EXCEPT ![kind] = p] ELSE marks

-----------------------------------------------------------------------------
(* The frame of http_parser_execute().                                     *)

(* Mutant: the URL is forgotten at the end of a segment.                   *)
MutContinuesNotUrl(k) ==
    \/ k = "header_field" /\ parser.state = "s_header_field"
    \/ k = "header_value" /\ parser.state = "s_header_value"
    \/ k = "status" /\ parser.state = "s_res_status"

(* A string that was being read when the last segment ended continues at   *)
(* the first character of the next one.                                    *)
Continues(k) ==
    \/ k = "header_field" /\ parser.state = "s_header_field"
    \/ k = "header_value" /\ parser.state = "s_header_value"
    \/ k = "url" /\ parser.state \in UrlStates
    \/ k = "status" /\ parser.state = "s_res_status"

(* The application feeds the next segment.                                 *)
Execute ==
    /\ pc = "idle" /\ parser.http_errno = "OK" /\ p <= Len(input.text)
    /\ ~ (parser.upgrade /\ trace # <<>> /\ trace[Len(trace)][1] = "message_complete")
    /\ \E n \in SegmentSizes :
          end' = IF p + n <= Len(input.text) THEN p + n ELSE Len(input.text) + 1
    /\ pc' = "top"
    /\ marks' = [k \in MarkKinds |-> IF Continues(k) THEN p ELSE 0]
    /\ UNCHANGED <<parser, input, p, start, trace, asserted>>

(* http_parser_execute() with length 0, at the end of the connection.      *)
ExecuteEof ==
    /\ pc = "idle" /\ parser.http_errno = "OK" /\ p > Len(input.text)
    /\ pc' = "eof"
    /\ IF parser.state = "s_body_identity_eof"
       THEN \E answer \in input.answers : /\ parser' = [parser EXCEPT !.http_errno = answer]
                                    /\ trace' = Told(<<"message_complete", <<>>>>)
       ELSE /\ parser' = IF parser.state \in {"s_dead", "s_start_req_or_res", "s_start_res",
                                              "s_start_req"}
                         THEN parser ELSE [parser EXCEPT !.http_errno = "INVALID_EOF_STATE"]
            /\ UNCHANGED trace
    /\ UNCHANGED <<input, p, end, start, marks, asserted>>

(* http_parser_pause(parser, 0): the application goes on.                  *)
Unpause ==
    /\ pc = "idle" /\ parser.http_errno = "PAUSED"
    /\ parser' = [parser EXCEPT !.http_errno = "OK"]
    /\ UNCHANGED <<input, pc, p, end, start, marks, trace, asserted>>

(* The head of the loop counts the header bytes.                           *)
LoopHead ==
    /\ pc = "top" /\ p # end
    /\ Ends([parser EXCEPT !.nread = IF PARSING_HEADER(parser.state) THEN @ + 1 ELSE @],
            marks, "exec")

(* Out of bytes: the strings still marked are delivered as far as they go. *)
LoopEnd ==
    /\ pc = "top" /\ p = end
    /\ LET set == {k \in MarkKinds : marks[k] # 0} IN
       IF \E k1, k2 \in set : k1 # k2 THEN Abort
       ELSE /\ IF set = {} THEN UNCHANGED <<parser, trace>>
               ELSE \E k \in set, answer \in input.answers :
                      /\ trace' = Told(<<k, SubSeq(input.text, marks[k], p - 1)>>)
                      /\ parser' = [parser EXCEPT !.http_errno = answer]
            /\ pc' = "idle" /\ marks' = NoMarks
            /\ UNCHANGED <<input, p, end, start, asserted>>

-----------------------------------------------------------------------------
(* Between messages, and the first character of a message.                 *)
Dead ==
    /\ At({"s_dead"})
    /\ IF ch \in {"CR", "LF"} THEN Break(parser) ELSE Error("CLOSED_CONNECTION")

Fresh(ps) == [ps EXCEPT !.flags = {}, !.content_length = ULLONG_MAX]

StartReqOrRes ==
    /\ At({"s_start_req_or_res"})
    /\ CASE ch \in {"CR", "LF"} -> Break(parser)
         [] ch = "H" -> Notify("message_begin", Fresh(To("s_res_or_resp_H")), "top")
         [] OTHER -> Reexecute([Fresh(To("s_start_req")) EXCEPT !.type = "HTTP_REQUEST"])

ResOrRespH ==
    /\ At({"s_res_or_resp_H"})
    /\ CASE ch = "T" -> Break([To("s_res_HT") EXCEPT !.type = "HTTP_RESPONSE"])
         [] ch = "E" -> Break([To("s_req_method") EXCEPT !.type = "HTTP_REQUEST",
                                                         !.method = "HEAD", !.index = 2])
         [] OTHER -> Error("INVALID_CONSTANT")

StartRes ==
    /\ At({"s_start_res"})
    /\ CASE ch = "H" -> Notify("message_begin", Fresh(To("s_res_H")), "top")
         [] ch \in {"CR", "LF"} -> Notify("message_begin", Fresh(parser), "top")
         [] OTHER -> Error("INVALID_CONSTANT")

StartReq ==
    /\ At({"s_start_req"})
    /\ CASE ch \in {"CR", "LF"} -> Break(parser)
         [] ch \in DOMAIN FirstGuess ->
              Notify("message_begin",
                     [Fresh(To("s_req_method")) EXCEPT !.method = FirstGuess[ch], !.index = 1],
                     "top")
         [] OTHER -> Error("INVALID_METHOD")

(* The constant parts "HTTP/" of both kinds of first line.                 *)
Constant ==
    [s_res_H |-> <<"T", "s_res_HT">>, s_res_HT |-> <<"T", "s_res_HTT">>,
     s_res_HTT |-> <<"P", "s_res_HTTP">>, s_res_HTTP |-> <<"/", "s_res_first_http_major">>,
     s_req_http_H |-> <<"T", "s_req_http_HT">>, s_req_http_HT |-> <<"T", "s_req_http_HTT">>,
     s_req_http_HTT |-> <<"P", "s_req_http_HTTP">>,
     s_req_http_HTTP |-> <<"/", "s_req_first_http_major">>]

ConstantChar ==
    /\ At(DOMAIN Constant)
    /\ IF ch = Constant[parser.state][1]
       THEN Break(To(Constant[parser.state][2])) ELSE Error("STRICT")

(* One more digit of a version or of a status, which may have three.       *)
Digit(ps, field, errno) ==
    IF IS_NUM(ch) /\ 10 * ps[field] + NumOf(ch) <= 999
    THEN Break([ps EXCEPT ![field] = 10 * @ + NumOf(ch)])
    ELSE Error(errno)

FirstDigit(s, field) == [To(s) EXCEPT ![field] = NumOf(ch)]

Version ==
    \/ /\ At({"s_res_first_http_major"})
       /\ IF IS_NUM(ch) THEN Break(FirstDigit("s_res_http_major", "http_major"))
          ELSE Error("INVALID_VERSION")
    \/ /\ At({"s_req_first_http_major"})
       /\ IF IS_NUM(ch) /\ ch # "0" THEN Break(FirstDigit("s_req_http_major", "http_major"))
          ELSE Error("INVALID_VERSION")
    \/ /\ At({"s_res_http_major", "s_req_http_major"})
       /\ IF ch = "."
          THEN Break(To(IF parser.state = "s_res_http_major" THEN "s_res_first_http_minor"
                        ELSE "s_req_first_http_minor"))
          ELSE Digit(parser, "http_major", "INVALID_VERSION")
    \/ /\ At({"s_res_first_http_minor", "s_req_first_http_minor"})
       /\ IF IS_NUM(ch)
          THEN Break(FirstDigit(IF parser.state = "s_res_first_http_minor"
                                THEN "s_res_http_minor" ELSE "s_req_http_minor", "http_minor"))
          ELSE Error("INVALID_VERSION")
    \/ /\ At({"s_res_http_minor"})
       /\ IF ch = "SP" THEN Break(To("s_res_first_status_code"))
          ELSE Digit(parser, "http_minor", "INVALID_VERSION")
    \/ /\ At({"s_req_http_minor"})
       /\ CASE ch = "CR" -> Break(To("s_req_line_almost_done"))
            [] ch = "LF" -> Break(To("s_header_field_start"))
            [] OTHER -> Digit(parser, "http_minor", "INVALID_VERSION")

-----------------------------------------------------------------------------
(* The rest of a status line.                                              *)
StatusCode ==
    \/ /\ At({"s_res_first_status_code"})
       /\ CASE IS_NUM(ch) -> Break(FirstDigit("s_res_status_code", "status_code"))
            [] ch = "SP" -> Break(parser)
            [] OTHER -> Error("INVALID_STATUS")
    \/ /\ At({"s_res_status_code"})
       /\ CASE ch = "SP" -> Break(To("s_res_status_start"))
            [] ch = "CR" -> Break(To("s_res_line_almost_done"))
            [] ch = "LF" -> Break(To("s_header_field_start"))
            [] OTHER -> Digit(parser, "status_code", "INVALID_STATUS")

AfterLine(c) == IF c = "CR" THEN "s_res_line_almost_done" ELSE "s_header_field_start"

Status ==
    \/ /\ At({"s_res_status_start"})
       /\ IF ch \in {"CR", "LF"} THEN Break(To(AfterLine(ch)))
          ELSE Ends([To("s_res_status") EXCEPT !.index = 0], MARK("status"), "top")
    \/ /\ At({"s_res_status"})
       /\ IF ch \in {"CR", "LF"}
          THEN CallbackData("status", marks, p - 1, To(AfterLine(ch)), To(AfterLine(ch)), "top")
          ELSE Break(parser)
    \/ /\ At({"s_res_line_almost_done"})
       /\ IF ch = "LF" THEN Break(To("s_header_field_start")) ELSE Error("STRICT")

-----------------------------------------------------------------------------
(* The rest of a request line.                                             *)
ReqMethod ==
    /\ At({"s_req_method"})
    /\ LET name == method_strings[parser.method]
           i == parser.index
           corrected == {k \in Corrections : <<k[1], k[2], k[3]>> = <<parser.method, i, ch>>}
           next == [parser EXCEPT !.index = @ + 1]
       IN CASE ch = "SP" /\ i = Len(name) ->
                 Break([next EXCEPT !.state = "s_req_spaces_before_url"])
            [] i < Len(name) /\ ch = name[i + 1] -> Break(next)
            [] corrected # {} ->
                 Break([next EXCEPT !.method = (CHOOSE k \in corrected : TRUE)[4]])
            [] i = 1 /\ parser.method \in Lenient /\ ch # "NUL" -> Break(next)
            [] OTHER -> Error("INVALID_METHOD")

UrlStep(s, ms) ==
    IF parse_url_char(s, ch) = "s_dead"
    THEN Error("INVALID_URL") ELSE Ends(To(parse_url_char(s, ch)), ms, "top")

ReqUrl ==
    \/ /\ At({"s_req_spaces_before_url"})
       /\ IF ch = "SP" THEN Break(parser)
          ELSE UrlStep(IF parser.method = "CONNECT" THEN "s_req_server_start" ELSE parser.state,
                       MARK("url"))
    \/ /\ At(UrlStates)
       /\ IF \/ ch \notin {"SP", "CR", "LF"}
             \/ parser.state \in {"s_req_schema", "s_req_schema_slash",
                                  "s_req_schema_slash_slash", "s_req_server_start"}
          THEN UrlStep(parser.state, marks)
          ELSE LET old == [parser EXCEPT !.http_major = 0, !.http_minor = 9]   \* HTTP/0.9
                   ps == CASE ch = "SP" -> To("s_req_http_start")
                           [] ch = "CR" -> [old EXCEPT !.state = "s_req_line_almost_done"]
                           [] ch = "LF" -> [old EXCEPT !.state = "s_header_field_start"]
               IN CallbackData("url", marks, p - 1, ps, ps, "top")

ReqLineEnd ==
    \/ /\ At({"s_req_http_start"})
       /\ CASE ch = "H" -> Break(To("s_req_http_H"))
            [] ch = "SP" -> Break(parser)
            [] OTHER -> Error("INVALID_CONSTANT")
    \/ /\ At({"s_req_line_almost_done"})
       /\ IF ch = "LF" THEN Break(To("s_header_field_start")) ELSE Error("LF_EXPECTED")

-----------------------------------------------------------------------------
(* Headers.                                                                *)
HeaderFieldStart ==
    /\ At({"s_header_field_start"})
    /\ CASE ch = "CR" -> Break(To("s_headers_almost_done"))
         [] ch = "LF" -> Reexecute(To("s_headers_almost_done"))
         [] ch \notin {"CR", "LF"} /\ TOKEN(ch) = "0x0" -> Error("INVALID_HEADER_TOKEN")
         [] OTHER ->
              LET c == TOKEN(ch)
                  h == CASE c = "c" -> "h_C"
                         [] c = "p" -> "h_matching_proxy_connection"
                         [] c = "t" -> "h_matching_transfer_encoding"
                         [] c = "u" -> "h_matching_upgrade"
                         [] OTHER -> "h_general"
              IN Ends([To("s_header_field") EXCEPT !.index = 0, !.header_state = h],
                      MARK("header_field"), "top")

(* A letter of a word a header state is matching.                          *)
Matched(ps, c) ==
    LET m == Matchers[ps.header_state]
        i == ps.index + 1
    IN [ps EXCEPT !.index = i,
                  !.header_state = CASE i >= Len(m[1]) \/ c # m[1][i + 1] -> m[3]
                                     [] i = Len(m[1]) - 1 -> m[2]
                                     [] OTHER -> @]

Prefix(ps, c, word) ==
    [ps EXCEPT !.index = @ + 1, !.header_state = IF c \in DOMAIN word THEN word[c] ELSE "h_general"]

FieldChar(ps, c) ==
    CASE ps.header_state = "h_general" -> ps
      [] ps.header_state = "h_C" -> Prefix(ps, c, [o |-> "h_CO"])
      [] ps.header_state = "h_CO" -> Prefix(ps, c, [n |-> "h_CON"])
      [] ps.header_state = "h_CON" ->
           Prefix(ps, c, [n |-> "h_matching_connection", t |-> "h_matching_content_length"])
      [] ps.header_state \in DOMAIN Matchers -> Matched(ps, c)
      [] ps.header_state \in {"h_connection", "h_content_length", "h_transfer_encoding",
                              "h_upgrade"} ->
           [ps EXCEPT !.header_state = "h_general"]    \* no token is a space

(* The inner loops: `from' is their `start', p - from what they count.     *)
from == IF pc = "exec" THEN p ELSE start

Counted(ps) == [ps EXCEPT !.nread = @ + (p - from)]
InLoop(S) == parser.state \in S /\ (pc = "exec" \/ pc = "loop")
Loops(ps) ==
    /\ parser' = ps /\ pc' = "loop" /\ p' = p + 1 /\ start' = from
    /\ UNCHANGED <<marks, trace, asserted>> /\ Keep

HeaderField ==
    /\ InLoop({"s_header_field"}) /\ p # end
    /\ CASE TOKEN(ch) # "0x0" -> Loops(FieldChar(parser, TOKEN(ch)))
         [] ch = ":" ->
              LET ps == [Counted(parser) EXCEPT !.state = "s_header_value_discard_ws"] IN
              IF ps.nread > HTTP_MAX_HEADER_SIZE
              THEN Ends(Counted(parser), marks, "top")
              ELSE CallbackData("header_field", marks, p - 1, ps, ps, "top")
         [] OTHER -> IF Counted(parser).nread > HTTP_MAX_HEADER_SIZE
                     THEN Ends(Counted(parser), marks, "top")
                     ELSE Error("INVALID_HEADER_TOKEN")

(* The segment ends in the loop: p steps back, and forward again.          *)
LoopCut ==
    /\ pc = "loop" /\ p = end
    /\ IF Counted(parser).nread > HTTP_MAX_HEADER_SIZE
       THEN Fails(Counted(parser), "HEADER_OVERFLOW")
       ELSE /\ parser' = Counted(parser) /\ pc' = "top" /\ start' = 0
            /\ UNCHANGED <<p, marks>>
    /\ UNCHANGED <<trace, asserted>> /\ Keep

(* The first character of a value.                                         *)
ConnectionToken(c) ==
    CASE c = "k" -> "h_matching_connection_keep_alive"
      [] c = "c" -> "h_matching_connection_close"
      [] c = "u" -> "h_matching_connection_upgrade"
      [] OTHER -> "h_matching_connection_token"

ValueStart ==
    LET c == LOWER(ch)
        ps == [To("s_header_value") EXCEPT !.index = 0]
        is(h) == Ends([ps EXCEPT !.header_state = h], MARK("header_value"), "top")
    IN CASE parser.header_state = "h_upgrade" ->
              Ends([ps EXCEPT !.header_state = "h_general", !.flags = @ \union {"F_UPGRADE"}],
                   MARK("header_value"), "top")
         [] parser.header_state = "h_transfer_encoding" ->
              is(IF c = "c" THEN "h_matching_transfer_encoding_chunked" ELSE "h_general")
         [] parser.header_state = "h_content_length" ->
              IF IS_NUM(ch) THEN Ends([ps EXCEPT !.content_length = NumOf(ch)],
                                      MARK("header_value"), "top")
              ELSE Error("INVALID_CONTENT_LENGTH")
         [] parser.header_state = "h_connection" -> is(ConnectionToken(c))
         [] parser.header_state = "h_matching_connection_token_start" -> is(parser.header_state)
         [] OTHER -> is("h_general")

HeaderValueStart ==
    \/ /\ At({"s_header_value_discard_ws"})
       /\ CASE ch \in {"SP", "HT"} -> Break(parser)
            [] ch = "CR" -> Break(To("s_header_value_discard_ws_almost_done"))
            [] ch = "LF" -> Break(To("s_header_value_discard_lws"))
            [] OTHER -> ValueStart
    \/ At({"s_header_value_start"}) /\ ValueStart

(* Another character of a value, other than in h_general.                  *)
TakesFlag(ps) == [ps EXCEPT !.flags = IF ps.header_state \in DOMAIN FlagOf
                                      THEN @ \union {FlagOf[ps.header_state]} ELSE @]

ValueChar(ps) ==
    LET c == LOWER(ch)
        becomes(h) == [ps EXCEPT !.header_state = h]
        nextToken(q) == [q EXCEPT !.header_state = "h_matching_connection_token_start", !.index = 0]
    IN CASE ps.header_state \in DOMAIN Matchers -> Matched(ps, c)
         [] ps.header_state = "h_matching_connection_token_start" ->
              CASE c \in {"k", "c", "u"} -> becomes(ConnectionToken(c))
                [] c \notin {"k", "c", "u"} /\ TOKEN(c) # "0x0" ->
                     becomes("h_matching_connection_token")
                [] c = "SP" -> ps
                [] OTHER -> becomes("h_general")
         [] ps.header_state = "h_matching_connection_token" ->
              IF ch = "," THEN nextToken(ps) ELSE ps
         [] ps.header_state = "h_transfer_encoding_chunked" ->
              IF ch = "SP" THEN ps ELSE becomes("h_general")
         [] ps.header_state \in DOMAIN FlagOf \ {"h_transfer_encoding_chunked"} ->
              CASE ch = "," -> nextToken(TakesFlag(ps))
                [] ch = "SP" -> ps
                [] OTHER -> becomes("h_matching_connection_token")
         [] OTHER -> becomes("h_general")

(* Mutant: a stretch without a line end is not skipped.                    *)
MutLineEndStays ==
    LET ends == {q \in p .. end - 1 : input.text[q] \in {"CR", "LF"}}
    IN IF ends = {} THEN p ELSE CHOOSE q \in ends : \A r \in ends : q <= r

(* h_general runs to the end of the line, looked for in a bounded stretch. *)
LineEnd ==
    LET limit == IF end - p < HTTP_MAX_HEADER_SIZE THEN end - p ELSE HTTP_MAX_HEADER_SIZE
        ends == {q \in p .. p + limit - 1 : input.text[q] \in {"CR", "LF"}}
    IN IF ends = {} THEN end ELSE CHOOSE q \in ends : \A r \in ends : q <= r

HeaderValue ==
    /\ InLoop({"s_header_value"}) /\ p # end
    /\ LET done == To("s_header_almost_done")
           more == [parser EXCEPT !.content_length =
                        (10 * @ + NumOf(ch)) % (ULLONG_MAX + 1)]
       IN CASE ch = "CR" ->
                 CallbackData("header_value", marks, p - 1, done, Counted(done), "top")
            [] ch = "LF" ->
                 IF Counted(done).nread > HTTP_MAX_HEADER_SIZE
                 THEN Ends(Counted(done), marks, "top")
                 ELSE CallbackData("header_value", marks, p - 1, Counted(done), Counted(done),
                                   "exec")
            [] ch \notin {"CR", "LF"} /\ parser.header_state = "h_general" ->
                 /\ parser' = parser /\ pc' = "loop" /\ p' = LineEnd /\ start' = from
                 /\ UNCHANGED <<marks, trace, asserted>> /\ Keep
            [] ch \notin {"CR", "LF"}
               /\ parser.header_state \in {"h_connection", "h_transfer_encoding"} -> Abort
            [] ch \notin {"CR", "LF"} /\ parser.header_state = "h_content_length" ->
                 CASE ch = "SP" -> Loops(parser)
                   [] IS_NUM(ch) /\ ~ Overflows(parser.content_length, 10) -> Loops(more)
                   [] OTHER -> Error("INVALID_CONTENT_LENGTH")
            [] OTHER -> Loops(ValueChar(parser))

(* The line ends behind a value; the next one may continue the value.      *)
HeaderEnd ==
    \/ /\ At({"s_header_almost_done"})
       /\ IF ch = "LF" THEN Break(To("s_header_value_lws")) ELSE Error("STRICT")
    \/ /\ At({"s_header_value_lws"})
       /\ IF ch \in {"SP", "HT"} THEN Reexecute(To("s_header_value_start"))
          ELSE Reexecute(TakesFlag(To("s_header_field_start")))
    \/ /\ At({"s_header_value_discard_ws_almost_done"})
       /\ IF ch = "LF" THEN Break(To("s_header_value_discard_lws")) ELSE Error("STRICT")
    \/ /\ At({"s_header_value_discard_lws"})
       /\ LET ps == TakesFlag(To("s_header_field_start")) IN
          IF ch \in {"SP", "HT"} THEN Break(To("s_header_value_discard_ws"))
          ELSE CallbackData("header_value", MARK("header_value"), p - 1, ps, ps, "exec")

-----------------------------------------------------------------------------
(* The end of the headers.  on_headers_complete may ask for no body by     *)
(* answering 1 ("SKIP").                                                   *)
Upgrades(ps) == {"F_UPGRADE", "F_CONNECTION_UPGRADE"} \subseteq ps.flags \/ ps.method = "CONNECT"

HeadersAlmostDone ==
    /\ At({"s_headers_almost_done"})
    /\ CASE ch # "LF" -> Error("STRICT")
         [] ch = "LF" /\ "F_TRAILING" \in parser.flags ->
              Notify("chunk_complete", To("s_message_done"), "exec")
         [] OTHER ->
              LET ps == [To("s_headers_done") EXCEPT !.upgrade = Upgrades(parser)] IN
              \E answer \in IF input.skip THEN {"SKIP"} ELSE input.answers :
                 /\ trace' = Told(<<"headers_complete",
                                    <<ps.method, ps.http_major, ps.http_minor, ps.upgrade,
                                      http_should_keep_alive(ps)>>>>)
                 /\ IF answer \in {"OK", "SKIP"}
                    THEN Goes([ps EXCEPT !.flags = IF answer = "SKIP" THEN @ \union {"F_SKIPBODY"}
                                                   ELSE @], marks, "exec")
                    ELSE Fails(ps, answer)
                 /\ UNCHANGED asserted /\ Keep

(* Where the body begins, or the message is already complete.              *)
HeadersDone ==
    /\ At({"s_headers_done"})
    /\ LET ps == Uncounted(parser)
           chunked == "F_CHUNKED" \in ps.flags
           skip == "F_SKIPBODY" \in ps.flags
           hasBody == chunked \/ (ps.content_length > 0 /\ ps.content_length # ULLONG_MAX)
           complete(next) ==
              Notify("message_complete", [ps EXCEPT !.state = NEW_MESSAGE(ps)], next)
           body(s) == Break([ps EXCEPT !.state = s])
       IN CASE ch # "LF" -> Error("STRICT")
            [] ch = "LF" /\ ps.upgrade /\ (ps.method = "CONNECT" \/ skip \/ ~ hasBody) ->
                 complete("idle")
            [] OTHER ->
                 CASE skip -> complete("top")
                   [] ~ skip /\ chunked -> body("s_chunk_size_start")
                   [] ~ skip /\ ~ chunked /\ hasBody -> body("s_body_identity")
                   [] OTHER -> IF http_message_needs_eof(ps) /\ ps.content_length # 0
                               THEN body("s_body_identity_eof") ELSE complete("top")

-----------------------------------------------------------------------------
(* Bodies.                                                                 *)
ToRead == IF parser.content_length < end - p THEN parser.content_length ELSE end - p

BodyIdentity ==
    /\ At({"s_body_identity"})
    /\ IF parser.content_length \in {0, ULLONG_MAX} THEN Abort
       ELSE LET left == parser.content_length - ToRead
                ps == [parser EXCEPT !.content_length = left]
            IN IF left = 0
               THEN \* the last byte is looked at again in s_message_done
                    \E answer \in input.answers :
                       /\ trace' = Told(<<"body", SubSeq(input.text, p, p + ToRead - 1)>>)
                       /\ parser' = [ps EXCEPT !.state = "s_message_done", !.http_errno = answer]
                       /\ pc' = IF answer = "OK" THEN "exec" ELSE "idle"
                       /\ p' = p + ToRead - 1 /\ marks' = NoMarks
                       /\ UNCHANGED <<start, asserted>> /\ Keep
               ELSE /\ parser' = ps /\ p' = p + ToRead /\ pc' = "top" /\ marks' = MARK("body")
                    /\ UNCHANGED <<start, trace, asserted>> /\ Keep

BodyIdentityEof ==
    /\ At({"s_body_identity_eof"})
    /\ p' = end /\ pc' = "top" /\ marks' = MARK("body")
    /\ UNCHANGED <<parser, start, trace, asserted>> /\ Keep

MessageDone ==
    /\ At({"s_message_done"})
    /\ Notify("message_complete", To(NEW_MESSAGE(parser)), IF parser.upgrade THEN "idle" ELSE "top")

ChunkSizeStart ==
    /\ At({"s_chunk_size_start"})
    /\ CASE parser.nread # 1 \/ "F_CHUNKED" \notin parser.flags -> Abort
         [] parser.nread = 1 /\ "F_CHUNKED" \in parser.flags /\ unhex(ch) = -1 ->
              Error("INVALID_CHUNK_SIZE")
         [] OTHER -> Break([To("s_chunk_size") EXCEPT !.content_length = unhex(ch)])

ChunkSize ==
    /\ At({"s_chunk_size", "s_chunk_parameters"})
    /\ CASE "F_CHUNKED" \notin parser.flags -> Abort
         [] "F_CHUNKED" \in parser.flags /\ ch = "CR" -> Break(To("s_chunk_size_almost_done"))
         [] OTHER ->
              CASE parser.state = "s_chunk_parameters" -> Break(parser)
                [] parser.state = "s_chunk_size" /\ unhex(ch) = -1 ->
                     IF ch \in {";", "SP"} THEN Break(To("s_chunk_parameters"))
                     ELSE Error("INVALID_CHUNK_SIZE")
                [] OTHER ->
                     IF Overflows(parser.content_length, 16)
                     THEN Error("INVALID_CONTENT_LENGTH")
                     ELSE Break([parser EXCEPT !.content_length =
                                   (16 * @ + unhex(ch)) % (ULLONG_MAX + 1)])

ChunkSizeAlmostDone ==
    /\ At({"s_chunk_size_almost_done"})
    /\ CASE "F_CHUNKED" \notin parser.flags -> Abort
         [] "F_CHUNKED" \in parser.flags /\ ch # "LF" -> Error("STRICT")
         [] OTHER ->
              LET last == parser.content_length = 0 IN
              Notify("chunk_header",
                     [Uncounted(parser) EXCEPT
                        !.flags = IF last THEN @ \union {"F_TRAILING"} ELSE @,
                        !.state = IF last THEN "s_header_field_start" ELSE "s_chunk_data"], "top")

ChunkData ==
    /\ At({"s_chunk_data"})
    /\ IF "F_CHUNKED" \notin parser.flags \/ parser.content_length \in {0, ULLONG_MAX} THEN Abort
       ELSE LET left == parser.content_length - ToRead IN
            /\ parser' = [parser EXCEPT !.content_length = left,
                                        !.state = IF left = 0 THEN "s_chunk_data_almost_done" ELSE @]
            /\ p' = p + ToRead /\ pc' = "top" /\ marks' = MARK("body")
            /\ UNCHANGED <<start, trace, asserted>> /\ Keep

ChunkDataEnd ==
    \/ /\ At({"s_chunk_data_almost_done"})
       /\ CASE "F_CHUNKED" \notin parser.flags \/ parser.content_length # 0 -> Abort
            [] "F_CHUNKED" \in parser.flags /\ parser.content_length = 0 /\ ch # "CR" ->
                 Error("STRICT")
            [] OTHER -> CallbackData("body", marks, p - 1, To("s_chunk_data_done"),
                                     To("s_chunk_data_done"), "top")
    \/ /\ At({"s_chunk_data_done"})
       /\ CASE "F_CHUNKED" \notin parser.flags -> Abort
            [] "F_CHUNKED" \in parser.flags /\ ch # "LF" -> Error("STRICT")
            [] OTHER -> Notify("chunk_complete", Uncounted(To("s_chunk_size_start")), "top")

-----------------------------------------------------------------------------
FirstLine == Dead \/ StartReqOrRes \/ ResOrRespH \/ StartRes \/ StartReq \/ ConstantChar
             \/ Version \/ StatusCode \/ Status \/ ReqMethod \/ ReqUrl \/ ReqLineEnd
Headers == HeaderFieldStart \/ HeaderField \/ LoopCut \/ HeaderValueStart \/ HeaderValue
           \/ HeaderEnd \/ HeadersAlmostDone \/ HeadersDone
Body == BodyIdentity \/ BodyIdentityEof \/ MessageDone \/ ChunkSizeStart \/ ChunkSize
        \/ ChunkSizeAlmostDone \/ ChunkData \/ ChunkDataEnd

Next == /\ asserted
        /\ \/ Execute \/ ExecuteEof \/ Unpause \/ LoopHead \/ LoopEnd
           \/ FirstLine \/ Headers \/ Body

Spec == Init /\ [][Next]_vars /\ WF_vars(Next)

-----------------------------------------------------------------------------
(* An input says what a correct parser makes of it: `events', `errnos' and *)
(* `taken', the number of characters that belong to HTTP.                  *)
Stopped == pc = "idle" /\ ~ ENABLED Execute /\ ~ ENABLED ExecuteEof /\ ~ ENABLED Unpause
Over == pc = "eof" \/ Stopped

(* However the input is cut and wherever callbacks pause the parser, the   *)
(* callbacks tell the messages of the input, in order and with every       *)
(* string whole, and the last message is told before the input is over.    *)
TellsMessages ==
    /\ Len(trace) <= Len(input.events)
    /\ \A i \in 1 .. Len(trace) :
          \/ trace[i] = input.events[i]
          \/ /\ i = Len(trace) /\ trace[i][1] = input.events[i][1]
             /\ trace[i][1] \in MarkKinds /\ IsPrefix(trace[i][2], input.events[i][2])
    /\ Over /\ parser.http_errno = "OK" => trace = input.events

(* The parser refuses what is malformed, too large or behind the last      *)
(* message of a connection, with the errno for it, and nothing else, no    *)
(* matter where segments end.                                              *)
RefusesOnlyBad ==
    Over => parser.http_errno \in input.errnos \union {"CB", "PAUSED"}

(* execute() leaves the bytes of the other protocol alone: it returns just *)
(* behind the request that asked for the upgrade.                          *)
LeavesUpgradeData ==
    Over /\ parser.http_errno = "OK" /\ parser.upgrade => p = input.taken + 1

(* COUNT_HEADER_SIZE: headers of more than HTTP_MAX_HEADER_SIZE bytes are  *)
(* never reported complete, and the byte counted twice at each cut does    *)
(* not get headers of half that size refused.                              *)
HeadersBounded ==
    /\ "PAUSED" \notin input.answers /\ (\E i \in 1 .. Len(trace) : trace[i][1] = "headers_complete")
         => input.header <= HTTP_MAX_HEADER_SIZE
    /\ parser.http_errno = "HEADER_OVERFLOW" => 2 * input.header > HTTP_MAX_HEADER_SIZE

(* The callbacks tell of the messages of the stream and of nothing behind  *)
(* them, and a message is refused only for what is wrong with it.          *)
ReadsMessages == TellsMessages /\ RefusesOnlyBad /\ LeavesUpgradeData /\ HeadersBounded

(* None of the asserts of http_parser_execute() can fail: no header state  *)
(* is out of place, a chunk starts with a fresh byte count, a body is      *)
(* never read past its length, and at most one mark is left over.          *)
AssertsHold == asserted

(* execute() looks at no byte behind the segment it was given, whatever it *)
(* skips, re-executes or takes in one go, and no string it tells ends      *)
(* before it starts.                                                       *)
ReadsInSegment ==
    /\ p <= end /\ end <= Len(input.text) + 1
    /\ pc = "exec" => p < end
    /\ \A k \in MarkKinds : marks[k] <= p

(* The parser stays within its asserts and its segment, whatever is fed.   *)
StaysInBounds == AssertsHold /\ ReadsInSegment

(* Every call of execute() returns: REEXECUTE never goes round in circles. *)
ExecuteReturns == []<>(pc \in {"idle", "eof"})
=============================================================================
