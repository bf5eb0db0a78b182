----------------------------- MODULE MuduoHttp ------------------------------
(***************************************************************************)
(* muduo::net::HttpServer on one connection: HttpContext::parseRequest()   *)
(* takes lines out of the input buffer, and onMessage() answers at most    *)
(* one request for each segment that arrives.                              *)
(*                                                                         *)
(* A line is a sequence of words and separators.  The parser looks at a    *)
(* line only when its CRLF has arrived, so where in a word a segment ends  *)
(* makes no difference.  Environment: a client that sends a few requests   *)
(* cut into segments anywhere, waiting for the answer to one before it     *)
(* sends the next or not; the application's callback, which may ask for    *)
(* the connection to be closed.                                            *)
(***************************************************************************)
EXTENDS Naturals, Sequences, SequencesExt, FiniteSetsExt

CONSTANT Visits   \* what clients do, see Visit

\* A request as its sender has it: a header is its name and the words of its value.
Sent(method, path, query, version, headers) ==
  [method |-> method, path |-> path, query |-> query, version |-> version, headers |-> headers]

\* waits: whether the client waits for answers.
Visit(requests, waits) == [requests |-> requests, waits |-> waits]

CRLF == <<"CR", "LF">>

Wire(r) ==
  <<r.method, "SP">> \o r.path \o r.query \o <<"SP", r.version>> \o CRLF
    \o FlattenSeq([i \in DOMAIN r.headers |-> <<r.headers[i][1], ":">> \o r.headers[i][2] \o CRLF])
    \o CRLF

VARIABLES
  visit,     \* what this client does
  arrived,   \* how many words of it have been read from the socket
  inbuf,     \* the words in the input buffer
  context,   \* the connection's HttpContext
  open,        \* the connection has not been shut down
  httpPc,    \* the loop thread: "poll", "parse", "request" or, after a failed assert, "abort"
  handed,    \* history: the requests given to httpCallback_
  answers    \* history: the answers sent

httpVars == <<visit, arrived, inbuf, context, open, httpPc, handed, answers>>

Methods == {"GET", "POST", "HEAD", "PUT", "DELETE"}

NoHeaders == [field \in {} |-> <<>>]

NewRequest ==
  [method_ |-> "kInvalid", version_ |-> "kUnknown", path_ |-> <<>>, query_ |-> <<>>,
   headers_ |-> NoHeaders]

Init ==
  /\ visit \in Visits
  /\ arrived = 0
  /\ inbuf = <<>>
  /\ context = [state_ |-> "kExpectRequestLine", request_ |-> NewRequest]
  /\ open = TRUE
  /\ httpPc = "poll"
  /\ handed = <<>>
  /\ answers = <<>>

-----------------------------------------------------------------------------
(* Segments.                                                                 *)

\* The words of the first n requests.
Ahead(n) == Len(FlattenSeq([i \in 1..n |-> Wire(visit.requests[i])]))

Stream == FlattenSeq([i \in DOMAIN visit.requests |-> Wire(visit.requests[i])])

\* How far the client goes before the next answer.
Allowed ==
  IF visit.waits /\ Len(answers) < Len(visit.requests) THEN Ahead(Len(answers) + 1) ELSE Len(Stream)

Arrives(n) ==
  /\ httpPc = "poll"
  /\ arrived + n <= Allowed
  /\ visit.waits => open
  /\ inbuf' = inbuf \o SubSeq(Stream, arrived + 1, arrived + n)
  /\ arrived' = arrived + n
  /\ httpPc' = "parse"
  /\ UNCHANGED <<visit, context, open, handed, answers>>

-----------------------------------------------------------------------------
(* parseRequest(), one action for each way through its loop.  In the states  *)
(* kExpectBody and kGotAll the loop goes round for ever: there is no action. *)

\* std::find(): where words has w from start on, one behind the end if nowhere.
Find(words, start, w) ==
  Min({i \in DOMAIN words : i >= start /\ words[i] = w} \cup {Len(words) + 1})

LineEnds == {i \in 1..Len(inbuf) - 1 : inbuf[i] = "CR" /\ inbuf[i + 1] = "LF"}

\* The line open to findCRLF().
Line == SubSeq(inbuf, 1, Min(LineEnds) - 1)

\* buf->retrieveUntil(crlf + 2)
RetrieveLine == inbuf' = SubSeq(inbuf, Min(LineEnds) + 2, Len(inbuf))

\* setMethod(); it asserts that the method has not been set yet.
SetMethod(request, words) ==
  [request EXCEPT !.method_ = IF Len(words) = 1 /\ words[1] \in Methods THEN words[1] ELSE "kInvalid"]

\* setPath() and setQuery(); the query begins with its question mark.
SetTarget(request, target) ==
  LET question == Find(target, 1, "?")
  IN  [request EXCEPT !.path_ = SubSeq(target, 1, question - 1),
                      !.query_ = IF question <= Len(target)
                                   THEN SubSeq(target, question, Len(target)) ELSE @]

\* Mutant: a version that has been set is kept.
MutSetVersion(request, rest) ==
  [request EXCEPT !.version_ = IF @ # "kUnknown" THEN @
                                 ELSE IF rest = <<"HTTP/1.1">> THEN "kHttp11"
                                 ELSE IF rest = <<"HTTP/1.0">> THEN "kHttp10" ELSE @]

\* setVersion(), if the rest of the line is a version known.
SetVersion(request, rest) ==
  [request EXCEPT !.version_ = CASE rest = <<"HTTP/1.1">> -> "kHttp11"
                                 [] rest = <<"HTTP/1.0">> -> "kHttp10"
                                 [] OTHER -> @]

\* What processRequestLine() returns, and what it makes of the request, set as
\* far as it got.
processRequestLine(request, line) ==
  LET space == Find(line, 1, "SP")
      next == Find(line, space + 1, "SP")
      named == SetMethod(request, SubSeq(line, 1, space - 1))
      rest == SubSeq(line, next + 1, Len(line))
  IN  CASE space > Len(line) -> [ok |-> FALSE, request |-> request]
        [] space <= Len(line) /\ (named.method_ = "kInvalid" \/ next > Len(line)) ->
             [ok |-> FALSE, request |-> named]
        [] OTHER -> [ok |-> rest \in {<<"HTTP/1.0">>, <<"HTTP/1.1">>},
                     request |-> SetVersion(SetTarget(named, SubSeq(line, space + 1, next - 1)), rest)]

AtLine(state) == httpPc = "parse" /\ context.state_ = state /\ LineEnds # {}

\* HttpRequest::setMethod() asserts method_ == kInvalid.
MethodAssertFails == context.request_.method_ # "kInvalid" /\ "SP" \in Range(Line)

RequestLine ==
  /\ AtLine("kExpectRequestLine") /\ ~MethodAssertFails
  /\ \E parsed \in {processRequestLine(context.request_, line) : line \in {Line}} :
       /\ parsed.ok
       /\ context' = [state_ |-> "kExpectHeaders", request_ |-> parsed.request]
  /\ RetrieveLine
  /\ UNCHANGED <<visit, arrived, open, httpPc, handed, answers>>

\* parseRequest() fails and onMessage() sends a 400, if the connection is up.
\* The line stays in the buffer and the request as it is.
BadRequestLine ==
  /\ AtLine("kExpectRequestLine") /\ ~MethodAssertFails
  /\ \E parsed \in {processRequestLine(context.request_, line) : line \in {Line}} :
       /\ ~parsed.ok
       /\ context' = [context EXCEPT !.request_ = parsed.request]
  /\ answers' = IF open THEN Append(answers, [status |-> 400, close |-> TRUE]) ELSE answers
  /\ open' = FALSE
  /\ httpPc' = "poll"
  /\ UNCHANGED <<visit, arrived, inbuf, handed>>

Aborts ==
  /\ AtLine("kExpectRequestLine") /\ MethodAssertFails
  /\ httpPc' = "abort"
  /\ UNCHANGED <<visit, arrived, inbuf, context, open, handed, answers>>

\* The value between the white space at its ends.
Trimmed(words) ==
  LET kept == {i \in DOMAIN words : words[i] # "SP"}
  IN  IF kept = {} THEN <<>> ELSE SubSeq(words, Min(kept), Max(kept))

\* addHeader(): headers_[field] = value.
addHeader(headers, line, colon) ==
  LET field == SubSeq(line, 1, colon - 1)
      value == Trimmed(SubSeq(line, colon + 1, Len(line)))
  IN  [f \in DOMAIN headers \cup {field} |-> IF f = field THEN value ELSE headers[f]]

HeaderLine ==
  /\ AtLine("kExpectHeaders") /\ ":" \in Range(Line)
  /\ \E line \in {Line} :
       context' = [context EXCEPT !.request_.headers_ =
                     addHeader(@, line, Find(line, 1, ":"))]
  /\ RetrieveLine
  /\ UNCHANGED <<visit, arrived, open, httpPc, handed, answers>>

\* A line without a colon ends the headers, be it empty or not.
HeadersEnd ==
  /\ AtLine("kExpectHeaders") /\ ":" \notin Range(Line)
  /\ context' = [context EXCEPT !.state_ = "kGotAll"]
  /\ RetrieveLine
  /\ httpPc' = "request"
  /\ UNCHANGED <<visit, arrived, open, handed, answers>>

\* The rest of the line is awaited.
Returns ==
  /\ httpPc = "parse" /\ context.state_ \in {"kExpectRequestLine", "kExpectHeaders"}
  /\ LineEnds = {}
  /\ httpPc' = "poll"
  /\ UNCHANGED <<visit, arrived, inbuf, context, open, handed, answers>>

-----------------------------------------------------------------------------
(* onMessage() has a request.                                                *)

getHeader(request, field) ==
  IF field \in DOMAIN request.headers_ THEN request.headers_[field] ELSE <<>>

AsksToClose(request) ==
  \/ getHeader(request, <<"Connection">>) = <<"close">>
  \/ request.version_ = "kHttp10" /\ getHeader(request, <<"Connection">>) # <<"Keep-Alive">>

\* Mutant: the state is left as it is.
MutReset == [context EXCEPT !.request_ = [NewRequest EXCEPT !.version_ = context.request_.version_]]

\* reset(): HttpRequest::swap() does not swap version_.
Reset ==
  [state_ |-> "kExpectRequestLine",
   request_ |-> [NewRequest EXCEPT !.version_ = context.request_.version_]]

\* onRequest() and reset(); the callback may set closeConnection_.
OnRequest(closes) ==
  /\ httpPc = "request"
  /\ handed' = Append(handed, context.request_)
  /\ LET answer == [status |-> 200, close |-> closes \/ AsksToClose(context.request_)]
     IN  /\ answers' = IF open THEN Append(answers, answer) ELSE answers
         /\ open' = (open /\ ~answer.close)
  /\ context' = Reset
  /\ httpPc' = "poll"
  /\ UNCHANGED <<visit, arrived, inbuf>>

OnMessage ==
  \/ RequestLine \/ BadRequestLine \/ Aborts \/ HeaderLine \/ HeadersEnd \/ Returns
  \/ \E closes \in BOOLEAN : OnRequest(closes)

Next == OnMessage \/ \E n \in 1..Len(Stream) : Arrives(n)

-----------------------------------------------------------------------------
(* Properties.                                                               *)

Good(r) == r.method \in Methods /\ r.version \in {"HTTP/1.0", "HTTP/1.1"} /\ r.path # <<>>

AllGood == \A i \in DOMAIN visit.requests : Good(visit.requests[i])

\* The request that r should arrive as: of headers that repeat the last counts.
Meant(r) ==
  [method_ |-> r.method, version_ |-> IF r.version = "HTTP/1.1" THEN "kHttp11" ELSE "kHttp10",
   path_ |-> r.path, query_ |-> r.query,
   headers_ |-> [f \in {<<h[1]>> : h \in Range(r.headers)} |->
                   Trimmed(r.headers[Max({i \in DOMAIN r.headers : <<r.headers[i][1]>> = f})][2])]]

\* However requests are cut and run together, the application gets them whole
\* and in order, and nothing of one is left over in the next, although reset()
\* keeps the version.
RequestsWhole ==
  AllGood => \A i \in DOMAIN handed : handed[i] = Meant(visit.requests[i])

\* A client that waits for its answers is never kept waiting: when onMessage()
\* returns, every request that has arrived to its last word has been handed to
\* the application and answered.
WaitingIsServed ==
  AllGood /\ visit.waits /\ httpPc = "poll" =>
    \A n \in DOMAIN visit.requests : Ahead(n) <= arrived => Len(handed) >= n /\ Len(answers) >= n

\* The connection is shut down by the first answer that says so and by no
\* other, and nothing is answered behind it; a request of HTTP/1.0 or with
\* Connection: close has such an answer.
ClosesWhenAsked ==
  /\ \A i \in DOMAIN answers : answers[i].close => i = Len(answers) /\ ~open
  /\ ~open => answers # <<>> /\ Last(answers).close
  /\ AllGood => \A i \in DOMAIN answers :
       LET r == Meant(visit.requests[i])
           connection == getHeader(r, <<"Connection">>)
       IN  connection = <<"close">> \/ (r.version_ = "kHttp10" /\ connection = <<>>)
             => answers[i].close

\* The server serves what it is asked, as it is asked.
RequestsServed == RequestsWhole /\ WaitingIsServed /\ ClosesWhenAsked

\* parseRequest() returns: each round of its loop takes a line or is the last.
ParseReturns == []<>(httpPc \in {"poll", "abort"})
=============================================================================
