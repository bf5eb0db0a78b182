---------------------------- MODULE HttpHandler ----------------------------
(***************************************************************************)
(* HTTPHandler, its HTTPCodec and HTTPServer's routing on one connection:  *)
(* the bytes of the client's requests arrive in segments, each of them     *)
(* makes the loop thread run OnData(), and http_parser_execute() calls the *)
(* codec back for every piece of a request it sees.                        *)
(*                                                                         *)
(* The stream is modelled as http_parser tells it apart: the characters of *)
(* URLs, header names, header values and bodies, and what is between them. *)
(* A string that is cut by the end of a segment is reported in two         *)
(* callbacks; one that is cut exactly at its end is reported once more,    *)
(* with no character, when its terminator comes.                           *)
(***************************************************************************)
EXTENDS HttpRequest

CONSTANTS
  Scripts,   \* sequences of requests a client may send
  apps_,     \* the path prefixes given to HTTPServer::Handle(), in order
  SplitIn    \* the kinds of strings a segment may end in

VARIABLES
  script,             \* the requests of this connection's client
  read,               \* how much of the stream has been read from the socket
  buf,                \* what OnData() has yet to have parsed
  parsed,             \* this call of http_parser_execute() has consumed something
  errno,              \* HTTP_PARSER_ERRNO(&parser_) != HPE_OK
  upgrade,            \* parser_.upgrade
  parseState_,
  cur_header_name_,
  cur_header_value_,
  request_,
  conn,               \* "connected", "closing" (forceCloseInLoop queued) or "closed"
  pc,                 \* the loop thread: "poll", "execute" or, after a failed assert, "abort"
  handed              \* history: the requests given to OnRequest(), and the application's index

headerVars == <<parseState_, cur_header_name_, cur_header_value_>>
parserVars == <<buf, parsed, errno, upgrade>>
vars == <<script, read, parserVars, headerVars, request_, conn, pc, handed>>

Kinds == {"url", "field", "value", "body"}

\* A request as its client means it; one that is not ok holds a byte http_parser refuses.
ClientRequest ==
  [url : String \ {<<>>}, headers : Seq((String \ {<<>>}) \X String), body : String,
   upgrade : BOOLEAN, ok : BOOLEAN]

ASSUME ScriptsAssumption == Scripts \subseteq Seq(ClientRequest)
ASSUME AppsAssumption == apps_ \in Seq(String)
ASSUME SplitInAssumption == SplitIn \subseteq Kinds

-----------------------------------------------------------------------------
(* The stream.                                                               *)

\* Buffer::kCheapPrepend
kCheapPrepend == 8

Mark(kind) == <<[k |-> kind, c |-> ""]>>

Chars(kind, string) == [i \in DOMAIN string |-> [k |-> kind, c |-> string[i]]]

HeaderBytes(header) ==
  Chars("field", header[1]) \o Mark("fieldEnd") \o Chars("value", header[2]) \o Mark("valueEnd")

\* "complete" is no byte: the parser sees the end of a message at its last byte.
RequestBytes(r) ==
  IF ~r.ok THEN Mark("begin") \o Mark("bad")
  ELSE Mark("begin") \o Chars("url", r.url) \o Mark("urlEnd")
       \o FlattenSeq([i \in DOMAIN r.headers |-> HeaderBytes(r.headers[i])])
       \o Mark(IF r.upgrade THEN "headersEndUpgrade" ELSE "headersEnd")
       \o Chars("body", r.body) \o Mark("complete")

Stream == FlattenSeq([i \in DOMAIN script |-> RequestBytes(script[i])])

\* A segment ends where a byte ends, and in or at the end of a string only if SplitIn says so.
MayEnd(stream, n) ==
  n < Len(stream) =>
    stream[n + 1].k # "complete" /\ (stream[n].k \in Kinds => stream[n].k \in SplitIn)

-----------------------------------------------------------------------------
ParseStates == {"Nothing", "Begin", "Name", "Value"}

IsRequest(r) ==
  /\ r.url_ \in String /\ r.body_ \in String
  /\ IsMap(r.headers_map_) /\ IsMap(r.method_get_params_)
  /\ r.is_upgrade_ \in BOOLEAN

TypeOK ==
  /\ script \in Scripts
  /\ read \in 0..Len(Stream)
  /\ parsed \in BOOLEAN /\ errno \in BOOLEAN /\ upgrade \in BOOLEAN
  /\ parseState_ \in ParseStates
  /\ cur_header_name_ \in String /\ cur_header_value_ \in String
  /\ IsRequest(request_)
  /\ conn \in {"connected", "closing", "closed"}
  /\ pc \in {"poll", "execute", "abort"}
  /\ pc = "poll" => buf = <<>>
  /\ \A i \in DOMAIN handed : IsRequest(handed[i].request) /\ handed[i].app \in 0..Len(apps_)

Init ==
  /\ script \in Scripts
  /\ read = 0
  /\ buf = <<>> /\ parsed = FALSE /\ errno = FALSE /\ upgrade = FALSE
  /\ parseState_ = "Nothing"
  /\ cur_header_name_ = <<>> /\ cur_header_value_ = <<>>
  /\ request_ = NewRequest
  /\ conn = "connected"
  /\ pc = "poll"
  /\ handed = <<>>

\* A segment arrives, and OnData() takes all of it out of the input buffer.
Arrives(n) ==
  /\ pc = "poll" /\ conn = "connected"
  /\ \E stream \in {Stream} :
       /\ read + n <= Len(stream)
       /\ MayEnd(stream, read + n)
       /\ buf' = SubSeq(stream, read + 1, read + n)
  /\ read' = read + n
  /\ parsed' = FALSE
  /\ pc' = "execute"
  /\ UNCHANGED <<script, errno, upgrade, headerVars, request_, conn, handed>>

-----------------------------------------------------------------------------
(* What http_parser_execute() calls back, in the order it sees the bytes.    *)

Parsing == pc = "execute" /\ ~errno /\ buf # <<>>

Sees(kinds) == Parsing /\ buf[1].k \in kinds

Consume(n) == buf' = SubSeq(buf, n + 1, Len(buf)) /\ parsed' = TRUE

\* The characters of one kind at the front of the segment, and the terminator
\* when it is there too.
Run(kind) == SelectInSeq(buf, LAMBDA b : b.k # kind)

ChunkLength(kind) == IF Run(kind) = 0 THEN Len(buf) ELSE Run(kind) - 1

Chunk(kind) == [i \in 1..ChunkLength(kind) |-> buf[i].c]

ConsumeChunk(kind, terminator) ==
  Consume(ChunkLength(kind) + IF Run(kind) # 0 /\ buf[Run(kind)].k = terminator THEN 1 ELSE 0)

OnMessageBegin ==
  /\ Sees({"begin"})
  /\ Consume(1)
  /\ parseState_' = "Begin"
  /\ UNCHANGED <<script, read, errno, upgrade, cur_header_name_, cur_header_value_, request_, conn, pc,
                 handed>>

OnUrl ==
  /\ Sees({"url", "urlEnd"})
  /\ ConsumeChunk("url", "urlEnd")
  /\ request_' = SetUrl(request_, Chunk("url"))
  /\ UNCHANGED <<script, read, errno, upgrade, headerVars, conn, pc, handed>>

OnHeaderField ==
  /\ Sees({"field", "fieldEnd"})
  /\ ConsumeChunk("field", "fieldEnd")
  /\ IF parseState_ = "Value"
       THEN /\ request_' = AddHeader(request_, cur_header_name_, cur_header_value_)
            /\ cur_header_name_' = Chunk("field")
       ELSE /\ cur_header_name_' = IF parseState_ \in {"Name", "Begin"}
                                     THEN cur_header_name_ \o Chunk("field")
                                     ELSE cur_header_name_
            /\ UNCHANGED request_
  /\ parseState_' = "Name"
  /\ UNCHANGED <<script, read, errno, upgrade, cur_header_value_, conn, pc, handed>>

\* Mutant: a chunk replaces the one before it, as OnUrl()'s and OnBody()'s do.
MutHeaderValue ==
  /\ Sees({"value", "valueEnd"})
  /\ ConsumeChunk("value", "valueEnd")
  /\ cur_header_value_' = Chunk("value")
  /\ parseState_' = "Value"
  /\ UNCHANGED <<script, read, errno, upgrade, cur_header_name_, request_, conn, pc, handed>>

OnHeaderValue ==
  /\ Sees({"value", "valueEnd"})
  /\ ConsumeChunk("value", "valueEnd")
  /\ cur_header_value_' = CASE parseState_ = "Name" -> Chunk("value")
                            [] parseState_ = "Value" -> cur_header_value_ \o Chunk("value")
                            [] OTHER -> cur_header_value_
  /\ parseState_' = "Value"
  /\ UNCHANGED <<script, read, errno, upgrade, cur_header_name_, request_, conn, pc, handed>>

OnHeadersComplete ==
  /\ Sees({"headersEnd", "headersEndUpgrade"})
  /\ Consume(1)
  /\ upgrade' = (buf[1].k = "headersEndUpgrade")
  /\ LET complete == ParseUrl(AddHeader(request_, cur_header_name_, cur_header_value_))
     IN  request_' = IF upgrade' THEN SetUpgrade(complete) ELSE complete
  /\ UNCHANGED <<script, read, errno, headerVars, conn, pc, handed>>

OnBody ==
  /\ Sees({"body"})
  /\ ConsumeChunk("body", "none")
  /\ request_' = SetBody(request_, Chunk("body"))
  /\ UNCHANGED <<script, read, errno, upgrade, headerVars, conn, pc, handed>>

-----------------------------------------------------------------------------
(* http_parser_execute() returns, and OnData() goes on.                      *)

\* Some of the data was parsed and rest was not: rest is put in front of the
\* empty input buffer, where there is room for kCheapPrepend bytes, and parsed
\* next.  Every element of the stream stands for a byte at least.
PutBack(rest) ==
  \/ rest = <<>> /\ buf' = <<>> /\ pc' = "poll"
  \/ /\ rest # <<>>
     /\ Len(SelectSeq(rest, LAMBDA b : b.k # "complete")) <= kCheapPrepend
     /\ buf' = rest /\ pc' = "execute"
  \/ rest # <<>> /\ buf' = <<>> /\ pc' = "abort"

\* HTTPServer::OnRequest(): the first application whose prefix matches, or none.
Route(url) ==
  LET matching == {i \in DOMAIN apps_ : IsPrefix(apps_[i], url)}
  IN  IF matching = {} THEN 0 ELSE Min(matching)

\* Mutant: what follows an upgrade request is dropped.
MutMessageComplete ==
  /\ Sees({"complete"})
  /\ handed' = Append(handed, [request |-> request_, app |-> Route(request_.url_)])
  /\ request_' = CleanUp(request_)
  /\ conn' \in {conn} \cup (IF Route(request_.url_) = 0 THEN {} ELSE {"closing"})
  /\ IF upgrade THEN buf' = <<>> /\ pc' = "poll" /\ UNCHANGED parsed
               ELSE Consume(1) /\ UNCHANGED pc
  /\ UNCHANGED <<script, read, errno, upgrade, headerVars>>

\* The application may call ForceClose() while it handles the request.  After
\* an upgrade request the parser returns at once.
OnMessageComplete ==
  /\ Sees({"complete"})
  /\ handed' = Append(handed, [request |-> request_, app |-> Route(request_.url_)])
  /\ request_' = CleanUp(request_)
  /\ conn' \in {conn} \cup (IF Route(request_.url_) = 0 THEN {} ELSE {"closing"})
  /\ IF upgrade THEN PutBack(Tail(buf)) /\ parsed' = FALSE
               ELSE Consume(1) /\ UNCHANGED pc
  /\ UNCHANGED <<script, read, errno, upgrade, headerVars>>

\* Mutant: OnParseError() only logs.
MutParseError == UNCHANGED conn

\* HTTPHandler::HandleError() calls ForceClose().
OnParseError == conn' = "closing"

\* A byte the parser refuses: it returns how much it parsed before.
ExecuteFails ==
  /\ Sees({"bad"})
  /\ errno' = TRUE
  /\ OnParseError
  /\ IF parsed THEN PutBack(buf) ELSE buf' = <<>> /\ pc' = "poll"
  /\ parsed' = FALSE
  /\ UNCHANGED <<script, read, upgrade, headerVars, request_, handed>>

\* Mutant: the parser starts over with the byte after the one it refused.
MutExecuteRefuses ==
  /\ pc = "execute" /\ errno
  /\ OnParseError
  /\ buf' = Tail(buf) /\ errno' = FALSE
  /\ UNCHANGED <<script, read, parsed, upgrade, headerVars, request_, pc, handed>>

\* The parser in its error state returns 0: the loop breaks and the bytes are gone.
ExecuteRefuses ==
  /\ pc = "execute" /\ errno
  /\ OnParseError
  /\ buf' = <<>> /\ pc' = "poll"
  /\ UNCHANGED <<script, read, parsed, errno, upgrade, headerVars, request_, handed>>

ExecuteEnds ==
  /\ pc = "execute" /\ ~errno /\ buf = <<>>
  /\ pc' = "poll"
  /\ UNCHANGED <<script, read, parserVars, headerVars, request_, conn, handed>>

\* The functor forceClose() queued runs before the loop polls again.
ForceCloseInLoop ==
  /\ pc = "poll" /\ conn = "closing"
  /\ conn' = "closed"
  /\ UNCHANGED <<script, read, parserVars, headerVars, request_, pc, handed>>

PeerCloses ==
  /\ pc = "poll" /\ conn = "connected"
  /\ conn' = "closed"
  /\ UNCHANGED <<script, read, parserVars, headerVars, request_, pc, handed>>

LoopStep ==
  \/ OnMessageBegin \/ OnUrl \/ OnHeaderField \/ OnHeaderValue \/ OnHeadersComplete
  \/ OnBody \/ OnMessageComplete
  \/ ExecuteFails \/ ExecuteRefuses \/ ExecuteEnds
  \/ ForceCloseInLoop

Next == LoopStep \/ PeerCloses \/ \E n \in 1..Len(Stream) : Arrives(n)

Spec == Init /\ [][Next]_vars

\* The loop thread does not stop in a callback; the client may send no more.
FairSpec == Spec /\ WF_vars(LoopStep)

-----------------------------------------------------------------------------
(* What the client means.                                                    *)

\* The number of requests before the first that is not well formed.
GoodRequests == SelectInSeq(Append(script, [ok |-> FALSE]), LAMBDA r : ~r.ok) - 1

\* What cur_header_name_ and cur_header_value_ hold after request i: they are not cleared
\* when a request ends.
Carried ==
  LET after[i \in 0..Len(script)] ==
        IF i = 0 THEN <<<<>>, <<>>>>
        ELSE LET headers == script[i].headers
             IN  CASE headers = <<>> -> after[i - 1]
                   [] Len(headers) = 1 -> <<after[i - 1][1] \o headers[1][1], headers[1][2]>>
                   [] OTHER -> Last(headers)
  IN  after

\* The headers of request i as the codec adds them: the name left by the request before it
\* is in front of the first one, and is added with its value when there is none.
AddedHeaders(i) ==
  LET headers == script[i].headers
      before == Carried[i - 1]
  IN  IF headers = <<>> THEN <<before>> ELSE [headers EXCEPT ![1][1] = before[1] \o @]

\* The first value of each name.
FirstOfEach(pairs) ==
  [name \in {pairs[j][1] : j \in DOMAIN pairs} |->
     pairs[SelectInSeq(pairs, LAMBDA p : p[1] = name)][2]]

\* Requests are handed to the server in the order they were sent, each once and each
\* with all of its headers, however the segments cut names and values; only
\* what HTTPCodec keeps from the request before is mixed in.
HeadersReassembled ==
  /\ Len(handed) <= Len(script)
  /\ \A i \in DOMAIN handed :
       /\ handed[i].request.headers_map_ = FirstOfEach(AddedHeaders(i))
       /\ handed[i].request.is_upgrade_ = script[i].upgrade

\* OnUrl() and OnBody() see a whole string when no segment ends in it: the server then gets
\* the URL and the body that the client meant, or the body of an earlier request if there is
\* none, and the request goes to the first application whose prefix the URL has.
WholeStringsKept ==
  \A i \in DOMAIN handed :
    LET url == script[i].url
        bodies == SelectSeq(SubSeq(script, 1, i), LAMBDA r : r.body # <<>>)
    IN  /\ handed[i].request.url_ = url
        /\ \A a \in DOMAIN apps_ :
             handed[i].app = a
               <=> IsPrefix(apps_[a], url) /\ \A b \in 1..(a - 1) : ~IsPrefix(apps_[b], url)
        /\ handed[i].request.body_ = IF bodies = <<>> THEN <<>> ELSE Last(bodies).body

\* What the codec hands over is what the client sent, put together again from the pieces that
\* http_parser tells of: header fields and values by HeadersReassembled, the rest by
\* WholeStringsKept.
RequestsReassembled == HeadersReassembled /\ WholeStringsKept

\* The parts of a URL behind its first '?', as the positions of the separators around them.
QueryParts(url) ==
  LET query == FindFrom(url, 1, {"?"})
      seps == {query, Len(url) + 1} \cup {i \in query..Len(url) : url[i] = "&"}
  IN  {p \in seps \X seps : p[1] < p[2] /\ \A s \in seps : s <= p[1] \/ p[2] <= s}

\* ParseUrl() finds every parameter of the URL, a key, the first '=' and a value, and
\* nothing else: empty keys and values, values with '=' or '?' in them and keys that
\* occur twice, of which the last counts, included.  Every part has an '=' here; a key
\* without one takes the next part for its continuation.
ParsesUrl ==
  \A i \in DOMAIN handed :
    LET url == script[i].url
        params == handed[i].request.method_get_params_
        parts == QueryParts(url)
        Equals(p) == FindFrom(url, p[1] + 1, {"="})
        KeyOf(p) == SubSeq(url, p[1] + 1, Equals(p) - 1)
    IN  /\ DOMAIN params = {KeyOf(p) : p \in parts}
        /\ \A p \in parts :
             (\A q \in parts : q[1] > p[1] => KeyOf(q) # KeyOf(p))
               => params[KeyOf(p)] = SubSeq(url, Equals(p) + 1, p[2] - 1)

\* http_parser.h: a data callback "will be called arbitrarily many times for each string",
\* "each providing just a few characters more data".  The URL and the body handed over
\* are all of what the client sent.
StringsIntact ==
  \A i \in DOMAIN handed :
    /\ handed[i].request.url_ = script[i].url
    /\ script[i].body # <<>> => handed[i].request.body_ = script[i].body

\* Nothing after a malformed request reaches an application.
NothingAfterError == Len(handed) <= GoodRequests

\* The position of the stream at which request i ends.
EndOf(i) == Len(FlattenSeq([j \in 1..i |-> RequestBytes(script[j])]))

LongestScript == Max({Len(s) : s \in Scripts})

\* A request that has been read as a whole is handed to the server, pipelined behind
\* others or not, unless prepend() aborts.
ReadIsHanded ==
  \A i \in 1..LongestScript :
    (i <= GoodRequests /\ read >= EndOf(i)) ~> (Len(handed) >= i \/ pc = "abort")

\* A connection whose client sent a malformed request is closed.
ErrorCloses == errno ~> (conn = "closed" \/ pc = "abort")
=============================================================================
