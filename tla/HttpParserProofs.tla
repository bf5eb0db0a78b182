-------------------------- MODULE HttpParserProofs --------------------------
(***************************************************************************)
(* Proofs about http_parser_execute(): for every input, cut and answer of  *)
(* the callbacks its asserts hold and it reads within its segment.         *)
(***************************************************************************)
EXTENDS HttpParser, SequenceTheorems, WellFoundedInduction, TLAPS

(* struct http_parser.                                                     *)
Fields == {"type", "flags", "header_state", "index", "nread", "content_length", "http_major",
           "http_minor", "status_code", "method", "http_errno", "upgrade", "state"}

Whole(ps) == DOMAIN ps = Fields /\ ps.content_length \in 0 .. ULLONG_MAX

(* The header states while a name is read, and while a value is.           *)
FieldStates == {"h_general", "h_C", "h_CO", "h_CON", "h_matching_connection",
                "h_matching_proxy_connection", "h_matching_content_length",
                "h_matching_transfer_encoding", "h_matching_upgrade", "h_connection",
                "h_content_length", "h_transfer_encoding", "h_upgrade"}
ValueStates == {"h_general", "h_content_length", "h_matching_transfer_encoding_chunked",
                "h_transfer_encoding_chunked", "h_matching_connection_token_start",
                "h_matching_connection_token", "h_matching_connection_keep_alive",
                "h_matching_connection_close", "h_matching_connection_upgrade",
                "h_connection_keep_alive", "h_connection_close", "h_connection_upgrade"}

(* The states inside a chunked body; where its size is being read.         *)
SizeStates == {"s_chunk_size", "s_chunk_parameters", "s_chunk_size_almost_done"}
ChunkStates == SizeStates \union {"s_chunk_size_start", "s_chunk_data", "s_chunk_data_almost_done",
                                  "s_chunk_data_done"}

(* What a state promises of the rest of the parser.  A chunk is about to   *)
(* start with n header bytes counted.                                      *)
Sound(ps, n) ==
    /\ Whole(ps)
    /\ ps.state = "s_header_field" => ps.header_state \in FieldStates
    /\ ps.state = "s_header_value" => ps.header_state \in ValueStates
    /\ ps.state \in ChunkStates => "F_CHUNKED" \in ps.flags
    /\ ps.state = "s_chunk_size_start" => ps.nread = n
    /\ ps.state \in SizeStates => ps.content_length < ULLONG_MAX
    /\ ps.state \in {"s_body_identity", "s_chunk_data"} => ps.content_length \in 1 .. ULLONG_MAX - 1
    /\ ps.state = "s_chunk_data_almost_done" => ps.content_length = 0

(* The states that promise something.                                      *)
Special == ChunkStates \union {"s_header_field", "s_header_value", "s_body_identity"}

(* The string that may be marked in a state.                               *)
MayMark(k, s) ==
    \/ k = "header_field" /\ s = "s_header_field"
    \/ k = "header_value" /\ s = "s_header_value"
    \/ k = "url" /\ s \in UrlStates
    \/ k = "status" /\ s = "s_res_status"
    \/ k = "body" /\ s \in {"s_body_identity", "s_body_identity_eof", "s_chunk_data",
                            "s_chunk_data_almost_done"}

MarkStates == UrlStates \union {"s_header_field", "s_header_value", "s_res_status",
                                "s_body_identity", "s_body_identity_eof", "s_chunk_data",
                                "s_chunk_data_almost_done"}

Marked(s, ms, q) ==
    /\ ms \in [MarkKinds -> 0 .. q]
    /\ \A k \in MarkKinds : ms[k] # 0 => MayMark(k, s)

InPlace ==
    /\ input \in Inputs
    /\ p \in Nat /\ end \in Nat /\ 1 <= p /\ p <= end /\ end <= Len(input.text) + 1

(* The inductive invariant.                                                *)
ParserInv ==
    /\ asserted = TRUE
    /\ InPlace
    /\ pc \in {"idle", "top", "exec", "loop", "eof"}
    /\ DOMAIN parser = Fields
    /\ pc \in {"idle", "eof"} => marks = NoMarks
    /\ pc \in {"top", "exec", "loop"} => Marked(parser.state, marks, p)
    /\ pc = "idle" /\ parser.http_errno \in {"OK", "PAUSED"} => Sound(parser, 0)
    /\ pc = "top" => Sound(parser, 0)
    /\ pc \in {"exec", "loop"} => Sound(parser, 1)
    /\ pc = "exec" => p < end
    /\ pc = "loop" => parser.state \in {"s_header_field", "s_header_value"}

-----------------------------------------------------------------------------
(* Characters.                                                             *)

(* A decimal digit has a value.                                            *)
LEMMA NumFacts == ASSUME NEW c, IS_NUM(c) PROVE NumOf(c) \in 0 .. 9
<1>1. DOMAIN Digits = 1 .. 10
  BY DEF Digits
<1>2. \E i \in 1 .. 10 : Digits[i] = c
  BY <1>1 DEF IS_NUM, Range
<1>3. PICK i \in 1 .. 10 : i = (CHOOSE j \in 1 .. 10 : Digits[j] = c)
  BY <1>2
<1> QED
  BY <1>3 DEF NumOf

(* How long a sequence joined with the first part of another one is.       *)
LEMMA JoinedLength ==
    ASSUME NEW S, NEW m \in Nat, NEW n \in Nat, NEW k \in 1 .. n,
           NEW a \in [1 .. m -> S], NEW b \in [1 .. n -> S]
    PROVE  DOMAIN (a \o SubSeq(b, 1, k)) = 1 .. m + k
<1>1. SubSeq(b, 1, k) \in Seq(S) /\ Len(SubSeq(b, 1, k)) = k
  <2>1. \A i \in 1 .. k : b[i] \in S
    OBVIOUS
  <2> QED
    BY <2>1, SubSeqProperties
<1>2. PICK t \in Seq(S) : t = SubSeq(b, 1, k) /\ Len(t) = k
  BY <1>1
<1>3. a \in Seq(S) /\ Len(a) = m
  BY SeqDef
<1>4. a \o t \in Seq(S) /\ Len(a \o t) = m + k
  BY <1>2, <1>3, ConcatProperties
<1>5. DOMAIN (a \o t) = 1 .. m + k
  BY <1>4, LenProperties
<1> QED
  BY <1>2, <1>5

(* A hexadecimal digit has a value, too.                                   *)
LEMMA HexFacts == ASSUME NEW c PROVE unhex(c) \in -1 .. 15
<1>1. CASE ~ IS_HEX(c)
  BY <1>1 DEF unhex
<1>2. CASE IS_HEX(c)
  <2> DEFINE S == {"0", "1", "2", "3", "4", "5", "6", "7", "8", "9", "a", "b", "c", "d", "e", "f",
                   "g", "h", "i", "j", "k", "l", "m", "n", "o", "p", "q", "r", "s", "t", "u", "v",
                   "w", "x", "y", "z"}
  <2>1. Digits \in [1 .. 10 -> S]
    BY DEF Digits
  <2>2. LowerCase \in [1 .. 26 -> S]
    BY DEF LowerCase
  <2> HIDE DEF S
  <2>3. DOMAIN (Digits \o SubSeq(LowerCase, 1, 6)) = 1 .. 10 + 6
    <3>1. PICK m \in Nat, n \in Nat, k \in Nat : m = 10 /\ n = 26 /\ k = 6
      OBVIOUS
    <3>2. k \in 1 .. n /\ Digits \in [1 .. m -> S] /\ LowerCase \in [1 .. n -> S]
      BY <2>1, <2>2, <3>1
    <3>3. DOMAIN (Digits \o SubSeq(LowerCase, 1, k)) = 1 .. m + k
      BY <3>2, JoinedLength
    <3> QED
      BY <3>1, <3>3
  <2>4. DOMAIN HexDigits = 1 .. 16
    BY <2>3 DEF HexDigits
  <2>5. \E i \in 1 .. 16 : HexDigits[i] = LOWER(c)
    BY <1>2, <2>4 DEF IS_HEX, Range
  <2>6. PICK i \in 1 .. 16 : i = (CHOOSE j \in 1 .. 16 : HexDigits[j] = LOWER(c))
    BY <2>5
  <2> QED
    BY <1>2, <2>6 DEF unhex
<1> QED
  BY <1>1, <1>2

(* Inside a URL the parser stays inside it, until it is dead.              *)
LEMMA UrlFacts == ASSUME NEW s, NEW c PROVE parse_url_char(s, c) \in UrlStates \union {"s_dead"}
  BY DEF parse_url_char, UrlStates

(* A size that may get a digit more does not overflow.                     *)
LEMMA SizeFacts ==
    ASSUME NEW n \in 0 .. ULLONG_MAX, NEW d \in 0 .. 15, ~ Overflows(n, 16)
    PROVE  (16 * n + d) % (ULLONG_MAX + 1) \in 0 .. ULLONG_MAX - 1
<1>1. PICK m \in Nat : m = ULLONG_MAX /\ m >= 255
  BY ParserAssumption
<1>2. PICK q \in Nat : q = (m - 16) \div 16 /\ 16 * q <= m - 16
  BY <1>1
<1>3. n <= q
  BY <1>1, <1>2 DEF Overflows
<1>4. PICK k \in Nat : k = 16 * n + d /\ k <= m - 1
  BY <1>1, <1>2, <1>3
<1>5. k % (m + 1) = k
  BY <1>4
<1> QED
  BY <1>1, <1>4, <1>5

(* Arithmetic modulo 2^64 stays below it.                                  *)
LEMMA ModFacts ==
    ASSUME NEW n \in Nat PROVE n % (ULLONG_MAX + 1) \in 0 .. ULLONG_MAX
  BY ParserAssumption

-----------------------------------------------------------------------------
(* How a case of the switch may end.                                       *)

(* Only the start of a chunk depends on the count.                         *)
LEMMA SoundFacts ==
    /\ \A ps, n : Whole(ps) /\ ps.state \notin Special => Sound(ps, n)
    /\ \A ps, m, n : Sound(ps, m) /\ ps.state # "s_chunk_size_start" => Sound(ps, n)
    /\ \A ps, n : Sound(ps, n) => Whole(ps)
  BY DEF Sound, Special, ChunkStates, SizeStates

(* Where no string may be marked, none is.                                 *)
LEMMA MarkFacts ==
    /\ \A s, q, ms : Marked(s, ms, q) /\ s \notin MarkStates => ms = NoMarks
    /\ \A s, q : q \in Nat => Marked(s, NoMarks, q)
    /\ \A s, q, r, ms : Marked(s, ms, q) /\ q \in Nat /\ r \in Nat /\ q <= r => Marked(s, ms, r)
<1>1. ASSUME NEW s, NEW q, NEW ms, Marked(s, ms, q), s \notin MarkStates
      PROVE  ms = NoMarks
  <2>1. \A k \in MarkKinds : ms[k] = 0
    BY <1>1 DEF Marked, MayMark, MarkStates
  <2> QED
    BY <1>1, <2>1 DEF Marked, NoMarks
<1>2. ASSUME NEW s, NEW q \in Nat PROVE Marked(s, NoMarks, q)
  BY DEF Marked, NoMarks
<1>3. ASSUME NEW s, NEW q \in Nat, NEW r \in Nat, NEW ms, Marked(s, ms, q), q <= r
      PROVE  Marked(s, ms, r)
  <2>1. 0 .. q \subseteq 0 .. r
    BY <1>3
  <2> QED
    BY <1>3, <2>1 DEF Marked
<1> QED
  BY <1>1, <1>2, <1>3

(* The code is at the switch or in an inner loop.                          *)
Running == ParserInv /\ pc \in {"exec", "loop"} /\ p < end

Counts(next) == IF next = "exec" THEN 1 ELSE 0
Nexts == {"top", "exec", "idle"}

(* goto error, for anything but a pause.                                   *)
LEMMA Failing ==
    ASSUME Running, NEW ps, DOMAIN ps = Fields, NEW errno,
           errno \notin {"OK", "PAUSED"} \/ Sound(ps, 0),
           Fails(ps, errno), UNCHANGED <<asserted, input, end>>
    PROVE  ParserInv'
<1>1. DOMAIN parser' = Fields /\ parser'.http_errno = errno
  BY DEF Fails, Fields
<1>2. Sound(ps, 0) => Sound(parser', 0)
  BY DEF Fails, Sound, Whole, Fields
<1>3. InPlace'
  BY DEF Running, ParserInv, InPlace, Fails
<1> QED
  BY <1>1, <1>2, <1>3 DEF Running, ParserInv, Fails

(* An error.                                                               *)
LEMMA Erring == \A errno : Running /\ errno \notin {"OK", "PAUSED"} /\ Error(errno) => ParserInv'
  BY Failing DEF Error, Keep, Running, ParserInv

(* break, REEXECUTE or RETURN, with too many header bytes or not.          *)
LEMMA Going ==
    ASSUME Running, NEW ps, NEW ms, NEW next \in Nexts, Sound(ps, Counts(next)),
           Marked(ps.state, ms, p), Goes(ps, ms, next), UNCHANGED <<asserted, input, end>>
    PROVE  ParserInv'
<1>1. CASE ps.nread > HTTP_MAX_HEADER_SIZE
  BY <1>1, Failing DEF Goes, Sound, Whole
<1>2. CASE ~ (ps.nread > HTTP_MAX_HEADER_SIZE)
  <2>1. /\ parser' = ps /\ pc' = next /\ p' = (IF next = "exec" THEN p ELSE p + 1)
        /\ marks' = IF next = "idle" THEN NoMarks ELSE ms
    BY <1>2 DEF Goes
  <2>2. p \in Nat /\ p' \in Nat /\ p <= p' /\ p' <= end /\ (next = "exec" => p' < end) /\ end' = end
    BY <2>1 DEF Running, ParserInv, InPlace
  <2>3. InPlace'
    BY <2>2 DEF Running, ParserInv, InPlace
  <2>4. Marked(ps.state, ms, p')
    BY <2>2, MarkFacts
  <2> QED
    BY <2>1, <2>2, <2>3, <2>4 DEF Running, ParserInv, Nexts, Counts, Sound, Whole
<1> QED
  BY <1>1, <1>2

(* The same where no callback is made.                                     *)
LEMMA Ending ==
    \A ps, ms, next :
        /\ Running /\ next \in Nexts /\ Sound(ps, Counts(next)) /\ Marked(ps.state, ms, p)
        /\ Ends(ps, ms, next)
        => ParserInv'
  BY Going DEF Ends, Keep

(* The same between states that promise nothing.                           *)
LEMMA Moving ==
    \A ps, next :
        /\ Running /\ parser.state \notin MarkStates /\ next \in {"top", "exec"}
        /\ Whole(ps) /\ ps.state \notin Special /\ Ends(ps, marks, next)
        => ParserInv'
<1> SUFFICES ASSUME NEW ps, NEW next \in {"top", "exec"}, Running, parser.state \notin MarkStates,
                    Whole(ps), ps.state \notin Special, Ends(ps, marks, next)
             PROVE  ParserInv'
  OBVIOUS
<1>1. Marked(ps.state, marks, p)
  BY MarkFacts DEF Running, ParserInv, InPlace
<1> QED
  BY <1>1, SoundFacts, Ending DEF Nexts

(* A callback that fails or pauses returns at once.                        *)
LEMMA Calling ==
    \A event, ps, after, ms, next :
        /\ Running /\ next \in Nexts /\ Sound(ps, 0) /\ Sound(after, Counts(next))
        /\ Marked(after.state, ms, p) /\ Calls(event, ps, after, ms, next)
        => ParserInv'
<1> SUFFICES ASSUME NEW event, NEW ps, NEW after, NEW ms, NEW next \in Nexts, Running, Sound(ps, 0),
                    Sound(after, Counts(next)), Marked(after.state, ms, p),
                    Calls(event, ps, after, ms, next)
             PROVE  ParserInv'
  OBVIOUS
<1>1. PICK answer \in input.answers :
         IF answer = "OK"
         THEN Goes(after, ms, next)
         ELSE /\ parser' = [ps EXCEPT !.http_errno = answer]
              /\ pc' = "idle" /\ p' = IF next = "exec" THEN p ELSE p + 1
              /\ marks' = NoMarks /\ start' = 0
  BY DEF Calls
<1>2. UNCHANGED <<asserted, input, end>>
  BY DEF Calls, Keep
<1>3. CASE answer = "OK"
  BY <1>1, <1>2, <1>3, Going
<1>4. CASE answer # "OK"
  <2>1. p' \in Nat /\ 1 <= p' /\ p' <= end /\ end' = end
    BY <1>1, <1>2, <1>4 DEF Running, ParserInv, InPlace
  <2>2. InPlace'
    BY <1>2, <2>1 DEF Running, ParserInv, InPlace
  <2>3. Sound(parser', 0)
    BY <1>1, <1>4 DEF Sound, Whole, Fields
  <2> QED
    BY <1>1, <1>2, <1>4, <2>2, <2>3 DEF Running, ParserInv, Sound, Whole
<1> QED
  BY <1>3, <1>4

(* A callback without data, where nothing is marked.                       *)
LEMMA Noting ==
    \A kind, ps, next :
        /\ Running /\ parser.state \notin MarkStates /\ next \in Nexts
        /\ Sound(ps, 0) /\ Sound(ps, Counts(next)) /\ Notify(kind, ps, next)
        => ParserInv'
<1> SUFFICES ASSUME NEW kind, NEW ps, NEW next \in Nexts, Running, parser.state \notin MarkStates,
                    Sound(ps, 0), Sound(ps, Counts(next)), Notify(kind, ps, next)
             PROVE  ParserInv'
  OBVIOUS
<1>1. Marked(ps.state, marks, p)
  BY MarkFacts DEF Running, ParserInv, InPlace
<1> QED
  BY <1>1, Calling DEF Notify

(* A callback with data takes the only mark away.                          *)
LEMMA Telling ==
    \A kind, ms, last, ps, after, next :
        /\ Running /\ next \in Nexts /\ Sound(ps, 0) /\ Sound(after, Counts(next))
        /\ ms \in [MarkKinds -> 0 .. p] /\ kind \in MarkKinds
        /\ \A k \in MarkKinds : k # kind => ms[k] = 0
        /\ CallbackData(kind, ms, last, ps, after, next)
        => ParserInv'
<1> SUFFICES ASSUME NEW kind \in MarkKinds, NEW ms \in [MarkKinds -> 0 .. p], NEW last, NEW ps,
                    NEW after, NEW next \in Nexts, Running, Sound(ps, 0),
                    Sound(after, Counts(next)), \A k \in MarkKinds : k # kind => ms[k] = 0,
                    CallbackData(kind, ms, last, ps, after, next)
             PROVE  ParserInv'
  OBVIOUS
<1>1. CASE ms[kind] = 0
  <2>1. \A k \in MarkKinds : ms[k] = 0
    BY <1>1
  <2>2. Marked(after.state, ms, p)
    BY <2>1 DEF Marked
  <2> QED
    BY <1>1, <2>2, Ending DEF CallbackData
<1>2. CASE ms[kind] # 0
  <2> DEFINE none == [ms EXCEPT ![kind] = 0]
  <2>1. none \in [MarkKinds -> 0 .. p] /\ \A k \in MarkKinds : none[k] = 0
    BY DEF Running, ParserInv, InPlace
  <2>2. Marked(after.state, none, p)
    BY <2>1 DEF Marked
  <2>3. Calls(<<kind, SubSeq(input.text, ms[kind], last)>>, ps, after, none, next)
    BY <1>2 DEF CallbackData
  <2> QED
    BY <2>2, <2>3, Calling
<1> QED
  BY <1>1, <1>2

-----------------------------------------------------------------------------
(* The frame of http_parser_execute().                                     *)

(* The parser as it is set up.                                             *)
LEMMA ParserInit == ASSUME Init PROVE ParserInv
<1> USE DEF Init
<1>1. Len(input.text) \in Nat
  BY ParserAssumption
<1>2. InPlace
  BY <1>1 DEF InPlace
<1>3. parser = http_parser_init(input.type)
  OBVIOUS
<1>4. DOMAIN parser = Fields /\ parser.content_length = 0
      /\ parser.state \in {"s_start_req", "s_start_res", "s_start_req_or_res"}
  BY <1>3 DEF http_parser_init, Fields
<1>5. Sound(parser, 0)
  BY <1>4, SoundFacts, ParserAssumption DEF Whole, Special, ChunkStates, SizeStates
<1> QED
  BY <1>2, <1>4, <1>5 DEF ParserInv

(* A call of execute() marks the string it is in.                          *)
LEMMA ExecuteKeeps == ASSUME ParserInv, Execute PROVE ParserInv'
<1>1. Sound(parser, 0) /\ UNCHANGED <<parser, input, p, asserted>> /\ pc' = "top"
  BY DEF ParserInv, Execute
<1>2. PICK l \in Nat : l = Len(input.text)
  BY ParserAssumption DEF ParserInv, InPlace
<1>3. PICK n \in Nat \ {0} : end' = IF p + n <= l THEN p + n ELSE l + 1
  BY <1>2, ParserAssumption DEF Execute
<1>4. end' \in Nat /\ p <= end' /\ end' <= l + 1
  BY <1>2, <1>3 DEF Execute, ParserInv, InPlace
<1>5. InPlace'
  BY <1>1, <1>2, <1>4 DEF ParserInv, InPlace
<1>6. Marked(parser.state, marks', p)
  <2>1. marks' = [k \in MarkKinds |-> IF Continues(k) THEN p ELSE 0] /\ p \in Nat
    BY DEF Execute, ParserInv, InPlace
  <2>2. \A k : Continues(k) => MayMark(k, parser.state)
    BY DEF Continues, MayMark
  <2> QED
    BY <2>1, <2>2 DEF Marked
<1> QED
  BY <1>1, <1>5, <1>6 DEF ParserInv, Sound, Whole

(* The call at the end of the connection is the last one.                  *)
LEMMA EofKeeps == ASSUME ParserInv, ExecuteEof PROVE ParserInv'
<1>1. UNCHANGED <<input, p, end, marks, asserted>> /\ pc = "idle" /\ pc' = "eof"
  BY DEF ExecuteEof
<1>2. DOMAIN parser' = Fields
  BY DEF ExecuteEof, ParserInv, Fields
<1> QED
  BY <1>1, <1>2 DEF ParserInv, InPlace

(* http_parser_pause().                                                    *)
LEMMA UnpauseKeeps == ASSUME ParserInv, Unpause PROVE ParserInv'
<1>1. Sound(parser, 0) /\ parser' = [parser EXCEPT !.http_errno = "OK"]
  BY DEF ParserInv, Unpause
<1>2. Sound(parser', 0)
  BY <1>1 DEF Sound, Whole, Fields
<1> QED
  BY <1>2 DEF ParserInv, Unpause, InPlace, Sound, Whole

(* The head of the loop counts the first byte of a chunk.                  *)
LEMMA HeadKeeps == ASSUME ParserInv, LoopHead PROVE ParserInv'
<1> DEFINE ps == [parser EXCEPT !.nread = IF PARSING_HEADER(parser.state) THEN @ + 1 ELSE @]
<1>1. Sound(parser, 0) /\ pc = "top" /\ p < end
  BY DEF ParserInv, LoopHead, InPlace
<1>2. Sound(ps, 1) /\ ps.state = parser.state
  BY <1>1 DEF Sound, Whole, Fields, PARSING_HEADER, BodyStates
<1>3. Goes(ps, marks, "exec") /\ UNCHANGED <<asserted, input, end>>
  BY DEF LoopHead, Ends, Keep
<1>4. InPlace' /\ p' = p
  BY <1>3 DEF Goes, Fails, ParserInv, InPlace
<1> HIDE DEF ps
<1>5. CASE ps.nread > HTTP_MAX_HEADER_SIZE
  <2>1. /\ parser' = [ps EXCEPT !.http_errno = "HEADER_OVERFLOW"]
        /\ pc' = "idle" /\ marks' = NoMarks
    BY <1>3, <1>5 DEF Goes, Fails
  <2>2. DOMAIN parser' = Fields /\ parser'.http_errno = "HEADER_OVERFLOW"
    BY <1>2, <2>1 DEF Sound, Whole, Fields
  <2> QED
    BY <1>3, <1>4, <2>1, <2>2 DEF ParserInv
<1>6. CASE ~ (ps.nread > HTTP_MAX_HEADER_SIZE)
  <2>1. parser' = ps /\ pc' = "exec" /\ marks' = marks
    BY <1>3, <1>6 DEF Goes
  <2> QED
    BY <1>1, <1>2, <1>3, <1>4, <2>1 DEF ParserInv, Sound, Whole
<1> QED
  BY <1>5, <1>6

(* At the end of a segment at most one string is marked.                   *)
LEMMA EndKeeps == ASSUME ParserInv, LoopEnd PROVE ParserInv'
<1> DEFINE set == {k \in MarkKinds : marks[k] # 0}
<1>1. Sound(parser, 0) /\ pc = "top" /\ Marked(parser.state, marks, p)
  BY DEF ParserInv, LoopEnd
<1>2. \A k1, k2 \in set : k1 = k2
  BY <1>1 DEF Marked, MayMark, UrlStates
<1>3. /\ IF set = {} THEN UNCHANGED <<parser, trace>>
         ELSE \E k \in set, answer \in input.answers :
                /\ trace' = Told(<<k, SubSeq(input.text, marks[k], p - 1)>>)
                /\ parser' = [parser EXCEPT !.http_errno = answer]
      /\ pc' = "idle" /\ marks' = NoMarks
      /\ UNCHANGED <<input, p, end, start, asserted>>
  BY <1>2 DEF LoopEnd
<1>4. parser' = parser \/ \E answer : parser' = [parser EXCEPT !.http_errno = answer]
  BY <1>3
<1>5. Sound(parser', 0)
  BY <1>1, <1>4 DEF Sound, Whole, Fields
<1> QED
  BY <1>3, <1>5 DEF ParserInv, InPlace, Sound, Whole

-----------------------------------------------------------------------------
(* The first line.                                                         *)

(* At the switch the parser is whole, and promises what its state does.    *)
LEMMA AtSwitch ==
    ASSUME ParserInv, NEW S, At(S)
    PROVE  /\ Running /\ parser.state \in S /\ pc = "exec" /\ p < end
           /\ Sound(parser, 1) /\ DOMAIN parser = Fields /\ Whole(parser)
           /\ Marked(parser.state, marks, p)
  BY DEF At, Running, ParserInv, Sound, Whole

(* Between messages.                                                       *)
LEMMA DeadKeeps == ASSUME ParserInv, Dead PROVE ParserInv'
<1>1. Running /\ parser.state = "s_dead" /\ Whole(parser)
  BY AtSwitch DEF Dead
<1> QED
  BY <1>1, Moving, Erring DEF Dead, Break, MarkStates, UrlStates, Special, ChunkStates, SizeStates

(* A callback on the way between two such states.                          *)
LEMMA Beginning ==
    \A kind, ps, next :
        /\ Running /\ parser.state \notin MarkStates /\ next \in Nexts
        /\ Whole(ps) /\ ps.state \notin Special /\ Notify(kind, ps, next)
        => ParserInv'
  BY SoundFacts, Noting

(* A message begins with no length.                                        *)
LEMMA FreshFacts ==
    ASSUME NEW ps, DOMAIN ps = Fields
    PROVE  Whole(Fresh(ps)) /\ Fresh(ps).state = ps.state
  BY ParserAssumption DEF Fresh, Whole, Fields

(* Before a message of either kind.                                        *)
LEMMA StartKeeps == ASSUME ParserInv, StartReqOrRes \/ StartRes \/ StartReq PROVE ParserInv'
<1> USE DEF MarkStates, UrlStates, Special, ChunkStates, SizeStates, Nexts
<1>1. /\ Running /\ parser.state \in {"s_start_req_or_res", "s_start_res", "s_start_req"}
      /\ Whole(parser) /\ DOMAIN parser = Fields
  BY AtSwitch DEF StartReqOrRes, StartRes, StartReq
<1>2. \A s : DOMAIN To(s) = Fields /\ To(s).state = s
  BY <1>1 DEF To, Fields
<1>3. CASE StartReqOrRes
  <2> DEFINE ps == [Fresh(To("s_start_req")) EXCEPT !.type = "HTTP_REQUEST"]
  <2>1. Whole(Fresh(To("s_start_req"))) /\ Fresh(To("s_start_req")).state = "s_start_req"
    BY <1>2, FreshFacts
  <2>2. Whole(ps) /\ ps.state = "s_start_req"
    BY <2>1 DEF Whole, Fields
  <2>3. \/ Break(parser)
        \/ Notify("message_begin", Fresh(To("s_res_or_resp_H")), "top")
        \/ Reexecute(ps)
    BY <1>3 DEF StartReqOrRes
  <2> HIDE DEF ps
  <2> QED
    BY <1>1, <1>2, <2>2, <2>3, FreshFacts, Moving, Beginning DEF Break, Reexecute
<1>4. CASE StartRes
  <2>1. \/ Notify("message_begin", Fresh(To("s_res_H")), "top")
        \/ Notify("message_begin", Fresh(parser), "top")
        \/ Error("INVALID_CONSTANT")
    BY <1>4 DEF StartRes
  <2> QED
    BY <1>1, <1>2, <2>1, FreshFacts, Beginning, Erring
<1>5. CASE StartReq
  <2> DEFINE ps == [Fresh(To("s_req_method")) EXCEPT !.method = FirstGuess[ch], !.index = 1]
  <2>1. Whole(Fresh(To("s_req_method"))) /\ Fresh(To("s_req_method")).state = "s_req_method"
    BY <1>2, FreshFacts
  <2>2. Whole(ps) /\ ps.state = "s_req_method"
    BY <2>1 DEF Whole, Fields
  <2>3. Break(parser) \/ Notify("message_begin", ps, "top") \/ Error("INVALID_METHOD")
    BY <1>5 DEF StartReq
  <2> HIDE DEF ps
  <2> QED
    BY <1>1, <2>2, <2>3, Moving, Beginning, Erring DEF Break
<1> QED
  BY <1>3, <1>4, <1>5

(* From one state of the first line to the next, or an error.              *)
LineEnds ==
    \/ \E ps : Whole(ps) /\ ps.state \notin Special /\ Break(ps)
    \/ \E errno : errno \notin {"OK", "PAUSED"} /\ Error(errno)

(* Such a step, from any state with no mark of its own, keeps the invariant. *)
LEMMA LineStep ==
    ASSUME ParserInv, NEW S, S \intersect MarkStates = {}, At(S), LineEnds
    PROVE  ParserInv'
<1>1. Running /\ parser.state \notin MarkStates
  BY AtSwitch
<1> QED
  BY <1>1, Moving, Erring DEF Break, LineEnds

(* The ways to get there.                                                  *)
LEMMA LineFacts ==
    ASSUME Whole(parser)
    PROVE  /\ \A s : s \notin Special /\ Break(To(s)) => LineEnds
           /\ parser.state \notin Special /\ Break(parser) => LineEnds
           /\ \A s : \A f \in {"http_major", "http_minor", "status_code"} :
                 s \notin Special /\ Break(FirstDigit(s, f)) => LineEnds
           /\ \A f \in {"http_major", "http_minor", "status_code"} : \A errno :
                 parser.state \notin Special /\ errno \notin {"OK", "PAUSED"}
                   /\ Digit(parser, f, errno) => LineEnds
           /\ \A errno : errno \notin {"OK", "PAUSED"} /\ Error(errno) => LineEnds
<1>1. \A s : Whole(To(s)) /\ To(s).state = s
  BY DEF Whole, Fields, To
<1>2. ASSUME NEW s, NEW f \in {"http_major", "http_minor", "status_code"}
      PROVE  Whole(FirstDigit(s, f)) /\ FirstDigit(s, f).state = s
  BY DEF Whole, Fields, To, FirstDigit
<1>3. ASSUME NEW f \in {"http_major", "http_minor", "status_code"}, NEW errno,
             parser.state \notin Special, errno \notin {"OK", "PAUSED"}, Digit(parser, f, errno)
      PROVE  LineEnds
  <2> DEFINE ps == [parser EXCEPT ![f] = 10 * @ + NumOf(ch)]
  <2>1. Whole(ps) /\ ps.state = parser.state
    BY DEF Whole, Fields
  <2>2. Break(ps) \/ Error(errno)
    BY <1>3 DEF Digit
  <2> HIDE DEF ps
  <2> QED
    BY <1>3, <2>1, <2>2 DEF LineEnds
<1> QED
  BY <1>1, <1>2, <1>3 DEF LineEnds

(* The constant parts.                                                     *)
LEMMA ConstantKeeps == ASSUME ParserInv, ResOrRespH \/ ConstantChar PROVE ParserInv'
<1> USE DEF MarkStates, UrlStates, Special, ChunkStates, SizeStates
<1>1. CASE ResOrRespH
  <2>1. At({"s_res_or_resp_H"}) /\ Whole(parser)
    BY <1>1, AtSwitch DEF ResOrRespH
  <2>2. \/ Break([To("s_res_HT") EXCEPT !.type = "HTTP_RESPONSE"])
        \/ Break([To("s_req_method") EXCEPT !.type = "HTTP_REQUEST", !.method = "HEAD", !.index = 2])
        \/ Error("INVALID_CONSTANT")
    BY <1>1 DEF ResOrRespH
  <2>3. LET ps == [To("s_res_HT") EXCEPT !.type = "HTTP_RESPONSE"] IN
        Whole(ps) /\ ps.state = "s_res_HT"
    BY <2>1 DEF Whole, Fields, To
  <2>4. LET ps == [To("s_req_method") EXCEPT !.type = "HTTP_REQUEST", !.method = "HEAD", !.index = 2] IN
        Whole(ps) /\ ps.state = "s_req_method"
    BY <2>1 DEF Whole, Fields, To
  <2> QED
    BY <2>1, <2>2, <2>3, <2>4, LineStep DEF LineEnds
<1>2. CASE ConstantChar
  <2>1. At(DOMAIN Constant) /\ Whole(parser) /\ parser.state \in DOMAIN Constant
    BY <1>2, AtSwitch DEF ConstantChar
  <2>2. \A s \in DOMAIN Constant : Constant[s][2] \notin Special
    BY DEF Constant
  <2>3. DOMAIN Constant \intersect MarkStates = {}
    BY DEF Constant
  <2>4. Break(To(Constant[parser.state][2])) \/ Error("STRICT")
    BY <1>2 DEF ConstantChar
  <2> HIDE DEF Special, MarkStates
  <2> QED
    BY <2>1, <2>2, <2>3, <2>4, LineFacts, LineStep
<1> QED
  BY <1>1, <1>2

(* Versions and status codes.                                              *)
LEMMA VersionKeeps == ASSUME ParserInv, Version \/ StatusCode \/ ReqLineEnd PROVE ParserInv'
<1> DEFINE S == {"s_res_first_http_major", "s_req_first_http_major", "s_res_http_major",
                 "s_req_http_major", "s_res_first_http_minor", "s_req_first_http_minor",
                 "s_res_http_minor", "s_req_http_minor", "s_res_first_status_code",
                 "s_res_status_code", "s_req_http_start", "s_req_line_almost_done"}
<1>1. At(S) /\ Whole(parser) /\ parser.state \in S
  BY AtSwitch DEF Version, StatusCode, ReqLineEnd, At
<1>2. S \intersect MarkStates = {} /\ S \intersect Special = {}
  BY DEF MarkStates, UrlStates, Special, ChunkStates, SizeStates
<1>3. LineEnds
  <2> USE DEF Special, ChunkStates, SizeStates
  <2>1. CASE Version
    BY <1>1, <1>2, <2>1, LineFacts DEF Version
  <2>2. CASE StatusCode
    BY <1>1, <1>2, <2>2, LineFacts DEF StatusCode
  <2>3. CASE ReqLineEnd
    BY <1>1, <1>2, <2>3, LineFacts DEF ReqLineEnd
  <2> QED
    BY <2>1, <2>2, <2>3
<1> HIDE DEF S
<1> QED
  BY <1>1, <1>2, <1>3, LineStep

(* The method.                                                             *)
LEMMA MethodKeeps == ASSUME ParserInv, ReqMethod PROVE ParserInv'
<1>1. At({"s_req_method"}) /\ Whole(parser) /\ parser.state = "s_req_method"
  BY AtSwitch DEF ReqMethod
<1> DEFINE next == [parser EXCEPT !.index = @ + 1]
<1>2. \/ Break([next EXCEPT !.state = "s_req_spaces_before_url"])
      \/ Break(next)
      \/ \E m : Break([next EXCEPT !.method = m])
      \/ Error("INVALID_METHOD")
  BY DEF ReqMethod
<1>3. Whole(next) /\ next.state = "s_req_method"
  BY <1>1 DEF Whole, Fields
<1> HIDE DEF next
<1>4. /\ Whole([next EXCEPT !.state = "s_req_spaces_before_url"])
      /\ [next EXCEPT !.state = "s_req_spaces_before_url"].state = "s_req_spaces_before_url"
      /\ \A m : Whole([next EXCEPT !.method = m]) /\ [next EXCEPT !.method = m].state = next.state
  BY <1>3 DEF Whole, Fields
<1>5. LineEnds
  BY <1>2, <1>3, <1>4 DEF LineEnds, Special, ChunkStates, SizeStates
<1> QED
  BY <1>1, <1>5, LineStep DEF MarkStates, UrlStates

(* A mark is set where the string starts, and at most one string is.       *)
LEMMA MarkSets ==
    ASSUME Running, NEW kind \in MarkKinds, NEW s, MayMark(kind, s),
           parser.state \notin MarkStates \/ parser.state = s
    PROVE  Marked(s, MARK(kind), p)
<1>1. Marked(parser.state, marks, p) /\ p \in Nat
  BY DEF Running, ParserInv, InPlace
<1>2. \A k \in MarkKinds : marks[k] # 0 => MayMark(k, s)
  BY <1>1 DEF Marked, MayMark, MarkStates
<1> QED
  BY <1>1, <1>2 DEF Marked, MARK

(* The marks where one string may be marked.                               *)
LEMMA OnlyMark ==
    ASSUME Running, NEW kind \in MarkKinds, MayMark(kind, parser.state)
    PROVE  marks \in [MarkKinds -> 0 .. p] /\ \A k \in MarkKinds : k # kind => marks[k] = 0
  BY DEF Running, ParserInv, Marked, MayMark, UrlStates

(* The reason of a response.                                               *)
LEMMA StatusKeeps == ASSUME ParserInv, Status PROVE ParserInv'
<1>1. /\ Running /\ Whole(parser) /\ Marked(parser.state, marks, p)
      /\ parser.state \in {"s_res_status_start", "s_res_status", "s_res_line_almost_done"}
  BY AtSwitch DEF Status
<1>2. \A c : AfterLine(c) \in {"s_res_line_almost_done", "s_header_field_start"}
  BY DEF AfterLine
<1>3. \A s : Whole(To(s)) /\ To(s).state = s
  BY <1>1 DEF Whole, Fields, To
<1>4. CASE parser.state \in {"s_res_status_start", "s_res_line_almost_done"}
  <2> DEFINE ps == [To("s_res_status") EXCEPT !.index = 0]
  <2>1. At({"s_res_status_start", "s_res_line_almost_done"})
    BY <1>4 DEF Status, At
  <2>2. LineEnds \/ Ends(ps, MARK("status"), "top")
    BY <1>1, <1>2, <1>4, LineFacts DEF Status, At, Special, ChunkStates, SizeStates
  <2>3. Whole(ps) /\ ps.state = "s_res_status"
    BY <1>3 DEF Whole, Fields
  <2> HIDE DEF ps
  <2>4. Sound(ps, Counts("top"))
    BY <2>3, SoundFacts DEF Special, ChunkStates, SizeStates
  <2>5. Marked("s_res_status", MARK("status"), p)
    BY <1>1, <1>4, MarkSets DEF MarkKinds, MayMark, MarkStates, UrlStates
  <2> QED
    BY <1>1, <2>1, <2>2, <2>3, <2>4, <2>5, Ending, LineStep DEF MarkStates, UrlStates, Nexts
<1>5. CASE parser.state = "s_res_status"
  <2>1. \/ CallbackData("status", marks, p - 1, To(AfterLine(ch)), To(AfterLine(ch)), "top")
        \/ Break(parser)
    BY <1>5 DEF Status, At
  <2>2. Sound(To(AfterLine(ch)), 0) /\ Counts("top") = 0
    BY <1>2, <1>3, SoundFacts DEF Special, ChunkStates, SizeStates, Counts
  <2>3. marks \in [MarkKinds -> 0 .. p] /\ \A k \in MarkKinds : k # "status" => marks[k] = 0
    BY <1>1, <1>5, OnlyMark DEF MarkKinds, MayMark
  <2>4. Sound(parser, 0)
    BY <1>1, <1>5, SoundFacts DEF Special, ChunkStates, SizeStates
  <2>5. CASE CallbackData("status", marks, p - 1, To(AfterLine(ch)), To(AfterLine(ch)), "top")
    BY <1>1, <2>2, <2>3, <2>5, Telling DEF MarkKinds, Nexts
  <2>6. CASE Break(parser)
    BY <1>1, <2>2, <2>4, <2>6, Ending DEF Break, Nexts
  <2> QED
    BY <2>1, <2>5, <2>6
<1> QED
  BY <1>1, <1>4, <1>5

(* The URL.                                                                *)
LEMMA UrlKeeps == ASSUME ParserInv, ReqUrl PROVE ParserInv'
<1> USE DEF Special, ChunkStates, SizeStates, Nexts
<1>1. /\ Running /\ Whole(parser) /\ Marked(parser.state, marks, p)
      /\ parser.state \in UrlStates \union {"s_req_spaces_before_url"}
  BY AtSwitch DEF ReqUrl
<1>2. \A s : Whole(To(s)) /\ To(s).state = s
  BY <1>1 DEF Whole, Fields, To
<1>3. ASSUME NEW s, NEW ms, \A t \in UrlStates : Marked(t, ms, p), UrlStep(s, ms)
      PROVE  ParserInv'
  <2>1. CASE parse_url_char(s, ch) = "s_dead"
    BY <1>1, <1>3, <2>1, Erring DEF UrlStep
  <2>2. CASE parse_url_char(s, ch) # "s_dead"
    <3>1. PICK t \in UrlStates : t = parse_url_char(s, ch)
      BY <2>2, UrlFacts
    <3>2. Ends(To(t), ms, "top")
      BY <1>3, <2>2, <3>1 DEF UrlStep
    <3>3. Sound(To(t), Counts("top"))
      BY <1>2, SoundFacts DEF UrlStates
    <3> QED
      BY <1>1, <1>2, <1>3, <3>2, <3>3, Ending
  <2> QED
    BY <2>1, <2>2
<1>4. CASE parser.state = "s_req_spaces_before_url"
  <2>1. \/ Break(parser)
        \/ \E s : UrlStep(s, MARK("url"))
    BY <1>4 DEF ReqUrl, At, UrlStates
  <2>2. CASE Break(parser)
    BY <1>1, <1>4, <2>2, Moving DEF Break, MarkStates, UrlStates
  <2>3. ASSUME NEW t \in UrlStates PROVE Marked(t, MARK("url"), p)
    BY <1>1, <1>4, MarkSets DEF MarkKinds, MayMark, MarkStates, UrlStates
  <2> QED
    BY <1>3, <2>1, <2>2, <2>3
<1>5. CASE parser.state \in UrlStates
  <2> DEFINE old == [parser EXCEPT !.http_major = 0, !.http_minor = 9]
  <2>1. Whole(old)
    BY <1>1 DEF Whole, Fields
  <2>2. UrlStep(parser.state, marks) \/
        \E ps \in {To("s_req_http_start"), [old EXCEPT !.state = "s_req_line_almost_done"],
                   [old EXCEPT !.state = "s_header_field_start"]} :
           CallbackData("url", marks, p - 1, ps, ps, "top")
    BY <1>5 DEF ReqUrl, At, UrlStates
  <2> HIDE DEF old
  <2>3. ASSUME NEW s \in {"s_req_line_almost_done", "s_header_field_start"}
        PROVE  Whole([old EXCEPT !.state = s]) /\ [old EXCEPT !.state = s].state = s
    BY <2>1 DEF Whole, Fields
  <2>4. marks \in [MarkKinds -> 0 .. p] /\ \A k \in MarkKinds : k # "url" => marks[k] = 0
    BY <1>1, <1>5, OnlyMark DEF MarkKinds, MayMark
  <2>5. \A t \in UrlStates : Marked(t, marks, p)
    BY <2>4 DEF Marked, MayMark
  <2>6. ASSUME NEW ps, Whole(ps), ps.state \notin Special,
               CallbackData("url", marks, p - 1, ps, ps, "top")
        PROVE  ParserInv'
    <3>1. Sound(ps, 0) /\ Counts("top") = 0
      BY <2>6, SoundFacts DEF Counts
    <3> QED
      BY <1>1, <2>4, <2>6, <3>1, Telling DEF MarkKinds
  <2> QED
    BY <1>2, <1>3, <2>2, <2>3, <2>5, <2>6, ZenonT(60)
<1> QED
  BY <1>1, <1>4, <1>5

-----------------------------------------------------------------------------
(* Headers.                                                                *)

(* A name starts.                                                          *)
LEMMA FieldStartKeeps == ASSUME ParserInv, HeaderFieldStart PROVE ParserInv'
<1>1. /\ Running /\ Whole(parser) /\ Marked(parser.state, marks, p) /\ At({"s_header_field_start"})
      /\ parser.state = "s_header_field_start"
  BY AtSwitch DEF HeaderFieldStart
<1>2. \A s : Whole(To(s)) /\ To(s).state = s
  BY <1>1 DEF Whole, Fields, To
<1>3. \/ Break(To("s_headers_almost_done"))
      \/ Reexecute(To("s_headers_almost_done"))
      \/ Error("INVALID_HEADER_TOKEN")
      \/ \E h \in FieldStates : Ends([To("s_header_field") EXCEPT !.index = 0, !.header_state = h],
                                     MARK("header_field"), "top")
  BY DEF HeaderFieldStart, FieldStates
<1>4. ASSUME NEW h \in FieldStates,
             Ends([To("s_header_field") EXCEPT !.index = 0, !.header_state = h],
                  MARK("header_field"), "top")
      PROVE  ParserInv'
  <2> DEFINE ps == [To("s_header_field") EXCEPT !.index = 0, !.header_state = h]
  <2>1. Whole(ps) /\ ps.state = "s_header_field" /\ ps.header_state = h
    BY <1>2 DEF Whole, Fields
  <2>2. Ends(ps, MARK("header_field"), "top")
    BY <1>4
  <2> HIDE DEF ps
  <2>3. Sound(ps, Counts("top"))
    BY <2>1 DEF Sound, ChunkStates, SizeStates
  <2>4. Marked("s_header_field", MARK("header_field"), p)
    BY <1>1, MarkSets DEF MarkKinds, MayMark, MarkStates, UrlStates
  <2> QED
    BY <1>1, <2>1, <2>2, <2>3, <2>4, Ending DEF Nexts
<1> QED
  BY <1>1, <1>2, <1>3, <1>4, Moving, Erring
  DEF Break, Reexecute, Special, ChunkStates, SizeStates, MarkStates, UrlStates

(* A word that is matched leaves the header states of names and values.    *)
LEMMA MatchedFacts ==
    ASSUME NEW ps, Whole(ps), ps.header_state \in DOMAIN Matchers, NEW c
    PROVE  /\ Whole(Matched(ps, c)) /\ Matched(ps, c).state = ps.state
           /\ Matched(ps, c).flags = ps.flags
           /\ ps.header_state \in FieldStates => Matched(ps, c).header_state \in FieldStates
           /\ ps.header_state \in ValueStates => Matched(ps, c).header_state \in ValueStates
<1>1. ASSUME NEW h \in DOMAIN Matchers
      PROVE  /\ h \in FieldStates => Matchers[h][2] \in FieldStates /\ Matchers[h][3] \in FieldStates
             /\ h \in ValueStates => Matchers[h][2] \in ValueStates /\ Matchers[h][3] \in ValueStates
  BY DEF Matchers, FieldStates, ValueStates
<1>2. PICK i, g : /\ Matched(ps, c) = [ps EXCEPT !.index = i, !.header_state = g]
                  /\ g \in {Matchers[ps.header_state][2], Matchers[ps.header_state][3],
                            ps.header_state}
  BY DEF Matched
<1>3. [ps EXCEPT !.index = i, !.header_state = g].header_state = g
  BY DEF Whole, Fields
<1> QED
  BY <1>1, <1>2, <1>3 DEF Whole, Fields

(* A character of a name.                                                  *)
LEMMA FieldCharFacts ==
    ASSUME NEW ps, Whole(ps), ps.header_state \in FieldStates, NEW c
    PROVE  /\ Whole(FieldChar(ps, c)) /\ FieldChar(ps, c).state = ps.state
           /\ FieldChar(ps, c).header_state \in FieldStates
<1>1. ASSUME NEW g \in FieldStates, NEW q, q = [ps EXCEPT !.header_state = g]
      PROVE  Whole(q) /\ q.state = ps.state /\ q.header_state \in FieldStates
  BY <1>1 DEF Whole, Fields
<1>2. ASSUME NEW word, \A d \in DOMAIN word : word[d] \in FieldStates
      PROVE  /\ Whole(Prefix(ps, c, word)) /\ Prefix(ps, c, word).state = ps.state
             /\ Prefix(ps, c, word).header_state \in FieldStates
  BY <1>2 DEF Prefix, Whole, Fields, FieldStates
<1>4. CASE ps.header_state \in DOMAIN Matchers
  BY <1>4, MatchedFacts DEF FieldChar, Matchers
<1>5. CASE ps.header_state \in {"h_C", "h_CO", "h_CON"}
  <2>1. CASE ps.header_state = "h_C"
    <3>1. FieldChar(ps, c) = Prefix(ps, c, [o |-> "h_CO"])
      BY <2>1 DEF FieldChar, Matchers
    <3> QED
      BY <1>2, <3>1 DEF FieldStates
  <2>2. CASE ps.header_state = "h_CO"
    <3>1. FieldChar(ps, c) = Prefix(ps, c, [n |-> "h_CON"])
      BY <2>2 DEF FieldChar, Matchers
    <3> QED
      BY <1>2, <3>1 DEF FieldStates
  <2>3. CASE ps.header_state = "h_CON"
    <3>1. FieldChar(ps, c)
            = Prefix(ps, c, [n |-> "h_matching_connection", t |-> "h_matching_content_length"])
      BY <2>3 DEF FieldChar, Matchers
    <3> QED
      BY <1>2, <3>1 DEF FieldStates
  <2> QED
    BY <1>5, <2>1, <2>2, <2>3
<1>6. CASE ps.header_state \in {"h_general", "h_connection", "h_content_length",
                                "h_transfer_encoding", "h_upgrade"}
  <2>1. FieldChar(ps, c) = ps \/ FieldChar(ps, c) = [ps EXCEPT !.header_state = "h_general"]
    BY <1>6 DEF FieldChar, Matchers
  <2> QED
    BY <1>1, <2>1 DEF FieldStates
<1> QED
  BY <1>4, <1>5, <1>6 DEF FieldStates, Matchers

(* In an inner loop, or about to enter it, with a byte to look at.         *)
LEMMA AtLoop ==
    ASSUME ParserInv, NEW S, InLoop(S), p # end
    PROVE  /\ Running /\ parser.state \in S /\ Sound(parser, 1) /\ DOMAIN parser = Fields
           /\ Whole(parser) /\ Marked(parser.state, marks, p)
  BY DEF InLoop, Running, ParserInv, InPlace, Sound, Whole

(* The loop goes on with some later byte.                                  *)
LEMMA Looping ==
    ASSUME Running, NEW ps, Sound(ps, 1), ps.state = parser.state,
           parser.state \in {"s_header_field", "s_header_value"},
           parser' = ps, pc' = "loop", p' \in p .. end, UNCHANGED <<marks, asserted, input, end>>
    PROVE  ParserInv'
<1>1. Marked(parser.state, marks, p) /\ p \in Nat /\ p' \in Nat /\ p <= p'
  BY DEF Running, ParserInv, InPlace
<1>2. Marked(parser.state, marks, p')
  BY <1>1, MarkFacts
<1>3. InPlace'
  BY DEF Running, ParserInv, InPlace
<1> QED
  BY <1>2, <1>3 DEF Running, ParserInv, Sound, Whole

(* The same one byte further.                                              *)
LEMMA LoopsOn ==
    \A ps : /\ Running /\ Sound(ps, 1) /\ ps.state = parser.state
            /\ parser.state \in {"s_header_field", "s_header_value"} /\ Loops(ps)
            => ParserInv'
<1> SUFFICES ASSUME NEW ps, Running, Sound(ps, 1), ps.state = parser.state,
                    parser.state \in {"s_header_field", "s_header_value"}, Loops(ps)
             PROVE  ParserInv'
  OBVIOUS
<1>1. p' \in p .. end
  BY DEF Running, ParserInv, InPlace, Loops
<1> QED
  BY <1>1, Looping DEF Loops, Keep

(* Counting changes nothing that a state promises but the start of a chunk.*)
LEMMA CountedFacts ==
    \A ps : Whole(ps) => Whole(Counted(ps)) /\ Counted(ps).state = ps.state
                         /\ Counted(ps).header_state = ps.header_state
  BY DEF Counted, Whole, Fields

(* A name.                                                                 *)
LEMMA FieldKeeps == ASSUME ParserInv, HeaderField PROVE ParserInv'
<1>1. /\ Running /\ Sound(parser, 1) /\ Whole(parser) /\ Marked(parser.state, marks, p)
      /\ parser.state = "s_header_field" /\ parser.header_state \in FieldStates
  BY AtLoop DEF HeaderField, Sound
<1> DEFINE ps == [Counted(parser) EXCEPT !.state = "s_header_value_discard_ws"]
<1>2. \/ Loops(FieldChar(parser, TOKEN(ch)))
      \/ Ends(Counted(parser), marks, "top")
      \/ CallbackData("header_field", marks, p - 1, ps, ps, "top")
      \/ Error("INVALID_HEADER_TOKEN")
  BY DEF HeaderField
<1>3. Whole(ps) /\ ps.state = "s_header_value_discard_ws"
  BY <1>1, CountedFacts DEF Whole, Fields
<1> HIDE DEF ps
<1>4. CASE Loops(FieldChar(parser, TOKEN(ch)))
  <2>1. PICK q : q = FieldChar(parser, TOKEN(ch))
    OBVIOUS
  <2>2. Whole(q) /\ q.state = "s_header_field" /\ q.header_state \in FieldStates
    BY <1>1, <2>1, FieldCharFacts
  <2>3. Sound(q, 1)
    BY <2>2 DEF Sound, ChunkStates, SizeStates
  <2> QED
    BY <1>1, <1>4, <2>1, <2>2, <2>3, LoopsOn
<1>5. CASE Ends(Counted(parser), marks, "top")
  <2>1. Sound(Counted(parser), Counts("top")) /\ Counted(parser).state = parser.state
    BY <1>1, CountedFacts DEF Sound, ChunkStates, SizeStates
  <2> QED
    BY <1>1, <1>5, <2>1, Ending DEF Nexts
<1>6. CASE CallbackData("header_field", marks, p - 1, ps, ps, "top")
  <2>1. Sound(ps, 0) /\ Counts("top") = 0
    BY <1>3, SoundFacts DEF Special, ChunkStates, SizeStates, Counts
  <2>2. marks \in [MarkKinds -> 0 .. p] /\ \A k \in MarkKinds : k # "header_field" => marks[k] = 0
    BY <1>1, OnlyMark DEF MarkKinds, MayMark
  <2> QED
    BY <1>1, <1>6, <2>1, <2>2, Telling DEF MarkKinds, Nexts
<1> QED
  BY <1>1, <1>2, <1>4, <1>5, <1>6, Erring

(* The segment ends in a loop.                                             *)
LEMMA CutKeeps == ASSUME ParserInv, LoopCut PROVE ParserInv'
<1>1. /\ Sound(parser, 1) /\ Whole(parser) /\ Marked(parser.state, marks, p) /\ pc = "loop"
      /\ parser.state \in {"s_header_field", "s_header_value"}
  BY DEF LoopCut, ParserInv, Sound
<1>2. UNCHANGED <<asserted, input, end, p>>
  BY DEF LoopCut, Keep, Fails
<1>3. PICK ps : ps = Counted(parser)
  OBVIOUS
<1>4. Whole(ps) /\ ps.state = parser.state /\ ps.header_state = parser.header_state
  BY <1>1, <1>3, CountedFacts
<1>5. Sound(ps, 0)
  BY <1>1, <1>4 DEF Sound, ChunkStates, SizeStates
<1>6. CASE ps.nread > HTTP_MAX_HEADER_SIZE
  <2>1. /\ parser' = [ps EXCEPT !.http_errno = "HEADER_OVERFLOW"]
        /\ pc' = "idle" /\ marks' = NoMarks
    BY <1>3, <1>6 DEF LoopCut, Fails
  <2>2. DOMAIN parser' = Fields /\ parser'.http_errno = "HEADER_OVERFLOW"
    BY <1>4, <2>1 DEF Whole, Fields
  <2> QED
    BY <1>2, <2>1, <2>2 DEF ParserInv, InPlace
<1>7. CASE ~ (ps.nread > HTTP_MAX_HEADER_SIZE)
  <2>1. parser' = ps /\ pc' = "top" /\ marks' = marks
    BY <1>3, <1>7 DEF LoopCut
  <2> QED
    BY <1>1, <1>2, <1>4, <1>5, <2>1 DEF ParserInv, InPlace, Whole
<1> QED
  BY <1>6, <1>7

(* A value starts with a header state of values.                           *)
LEMMA ValueStarts ==
    ASSUME Running, parser.state \notin MarkStates, Whole(parser), ValueStart
    PROVE  ParserInv'
<1>1. ConnectionToken(LOWER(ch)) \in ValueStates
  BY DEF ConnectionToken, ValueStates
<1> DEFINE ps == [To("s_header_value") EXCEPT !.index = 0]
<1>2. Whole(ps) /\ ps.state = "s_header_value"
  BY DEF Whole, Fields, To
<1>3. ASSUME NEW q, Whole(q), q.state = "s_header_value", q.header_state \in ValueStates,
             Ends(q, MARK("header_value"), "top")
      PROVE  ParserInv'
  <2>1. Sound(q, Counts("top"))
    BY <1>3 DEF Sound, ChunkStates, SizeStates
  <2>2. Marked("s_header_value", MARK("header_value"), p)
    BY MarkSets, SMTT(40) DEF MarkKinds, MayMark
  <2> QED
    BY <1>3, <2>1, <2>2, Ending DEF Nexts
<1>4. \/ \E h \in ValueStates : \E fs :
            Ends([ps EXCEPT !.header_state = h, !.flags = fs], MARK("header_value"), "top")
      \/ \E h \in ValueStates : Ends([ps EXCEPT !.header_state = h], MARK("header_value"), "top")
      \/ /\ parser.header_state = "h_content_length" /\ IS_NUM(ch)
         /\ Ends([ps EXCEPT !.content_length = NumOf(ch)], MARK("header_value"), "top")
      \/ Error("INVALID_CONTENT_LENGTH")
  <2> USE DEF ValueStates
  <2> HIDE DEF ps
  <2>1. CASE parser.header_state = "h_upgrade"
    BY <2>1 DEF ValueStart, ps
  <2>2. CASE parser.header_state # "h_upgrade"
    BY <1>1, <2>2 DEF ValueStart, ps
  <2> QED
    BY <2>1, <2>2
<1>5. ps.header_state = parser.header_state
  BY DEF Whole, Fields, To
<1> HIDE DEF ps
<1>6. ASSUME NEW h \in ValueStates, NEW fs, NEW q,
             \/ q = [ps EXCEPT !.header_state = h, !.flags = fs]
             \/ q = [ps EXCEPT !.header_state = h]
      PROVE  Whole(q) /\ q.state = "s_header_value" /\ q.header_state \in ValueStates
  BY <1>2, <1>6 DEF Whole, Fields
<1>7. ASSUME parser.header_state = "h_content_length", IS_NUM(ch), NEW q,
             q = [ps EXCEPT !.content_length = NumOf(ch)]
      PROVE  Whole(q) /\ q.state = "s_header_value" /\ q.header_state \in ValueStates
  <2>1. NumOf(ch) \in 0 .. ULLONG_MAX
    BY <1>7, NumFacts, ParserAssumption
  <2> QED
    BY <1>2, <1>5, <1>7, <2>1 DEF Whole, Fields, ValueStates
<1> QED
  BY <1>3, <1>4, <1>6, <1>7, Erring

(* The white space before a value.                                         *)
LEMMA ValueStartKeeps == ASSUME ParserInv, HeaderValueStart PROVE ParserInv'
<1>1. /\ Running /\ Whole(parser)
      /\ parser.state \in {"s_header_value_discard_ws", "s_header_value_start"}
  BY AtSwitch DEF HeaderValueStart
<1>2. \A s : Whole(To(s)) /\ To(s).state = s
  BY <1>1 DEF Whole, Fields, To
<1>3. \/ Break(parser) \/ Break(To("s_header_value_discard_ws_almost_done"))
      \/ Break(To("s_header_value_discard_lws")) \/ ValueStart
  BY DEF HeaderValueStart
<1> QED
  BY <1>1, <1>2, <1>3, Moving, ValueStarts
  DEF Break, Special, ChunkStates, SizeStates, MarkStates, UrlStates

(* Raising a flag.                                                         *)
LEMMA FlagFacts ==
    \A ps : Whole(ps) =>
        /\ Whole(TakesFlag(ps)) /\ TakesFlag(ps).state = ps.state
        /\ TakesFlag(ps).header_state = ps.header_state
  BY DEF TakesFlag, Whole, Fields

(* A character of a value.                                                 *)
LEMMA ValueCharFacts ==
    ASSUME NEW ps, Whole(ps), ps.header_state \in ValueStates
    PROVE  /\ Whole(ValueChar(ps)) /\ ValueChar(ps).state = ps.state
           /\ ValueChar(ps).header_state \in ValueStates
<1> DEFINE good(q) == Whole(q) /\ q.state = ps.state /\ q.header_state \in ValueStates
           becomes(h) == [ps EXCEPT !.header_state = h]
           nextToken(q) == [q EXCEPT !.header_state = "h_matching_connection_token_start", !.index = 0]
<1>1. good(ps) /\ \A h \in ValueStates : good(becomes(h))
  BY DEF Whole, Fields
<1>2. good(nextToken(ps)) /\ good(nextToken(TakesFlag(ps)))
  <2>1. \A q : Whole(q) /\ q.state = ps.state => good(nextToken(q))
    BY DEF Whole, Fields, ValueStates
  <2> HIDE DEF good, nextToken
  <2> QED
    BY <2>1, FlagFacts
<1>3. \A c : ConnectionToken(c) \in ValueStates
  BY DEF ConnectionToken, ValueStates
<1>4. {"h_general", "h_matching_connection_token"} \subseteq ValueStates
  BY DEF ValueStates
<1>5. CASE ps.header_state \in DOMAIN Matchers
  <2>1. ValueChar(ps) = Matched(ps, LOWER(ch))
    BY <1>5 DEF ValueChar, Matchers, FlagOf
  <2> QED
    BY <1>5, <2>1, MatchedFacts
<1>6. CASE ps.header_state \notin DOMAIN Matchers
  <2>1. \/ ValueChar(ps) \in {ps, nextToken(ps), nextToken(TakesFlag(ps)), becomes("h_general"),
                              becomes("h_matching_connection_token")}
        \/ \E c : ValueChar(ps) = becomes(ConnectionToken(c))
    <3>1. CASE ps.header_state = "h_matching_connection_token_start"
      BY <1>6, <3>1 DEF ValueChar, FlagOf
    <3>2. CASE ps.header_state = "h_matching_connection_token"
      BY <1>6, <3>2 DEF ValueChar, FlagOf
    <3>3. CASE ps.header_state = "h_transfer_encoding_chunked"
      BY <1>6, <3>3 DEF ValueChar, FlagOf
    <3>4. CASE ps.header_state \in DOMAIN FlagOf \ {"h_transfer_encoding_chunked"}
      BY <1>6, <3>4 DEF ValueChar, FlagOf
    <3>5. CASE ps.header_state \notin DOMAIN FlagOf \union {"h_matching_connection_token",
                                                           "h_matching_connection_token_start"}
      BY <1>6, <3>5 DEF ValueChar, FlagOf
    <3> QED
      BY <3>1, <3>2, <3>3, <3>4, <3>5
  <2> HIDE DEF becomes, nextToken, good
  <2>2. good(ValueChar(ps))
    BY <1>1, <1>2, <1>3, <1>4, <2>1
  <2> QED
    BY <2>2 DEF good
<1> QED
  BY <1>5, <1>6

(* Some natural numbers have a least one among them.                       *)
LEMMA Least == ASSUME NEW T \in SUBSET Nat, T # {} PROVE \E n \in T : \A m \in T : n <= m
<1> DEFINE R == OpToRel(<, Nat)
<1>1. IsWellFoundedOn(R, Nat)
  BY NatLessThanWellFounded
<1>2. PICK n \in T : \A m \in T : ~ (<<m, n>> \in R)
  <2> HIDE DEF R
  <2> QED
    BY <1>1, WFMin
<1>3. \A m \in T : ~ (m < n)
  BY <1>2 DEF OpToRel
<1> QED
  BY <1>3

(* The end of the line, if it is in the segment, or that of the segment.   *)
LEMMA LineEndFacts == ASSUME Running PROVE LineEnd \in p .. end
<1>1. p \in Nat /\ end \in Nat /\ p < end /\ HTTP_MAX_HEADER_SIZE \in Nat
  BY ParserAssumption DEF Running, ParserInv, InPlace
<1>2. PICK limit \in Nat :
         /\ limit = (IF end - p < HTTP_MAX_HEADER_SIZE THEN end - p ELSE HTTP_MAX_HEADER_SIZE)
         /\ limit <= end - p
  BY <1>1
<1> DEFINE ends == {q \in p .. p + limit - 1 : input.text[q] \in {"CR", "LF"}}
<1>3. LineEnd = IF ends = {} THEN end ELSE CHOOSE q \in ends : \A r \in ends : q <= r
  BY <1>2 DEF LineEnd
<1>4. CASE ends = {}
  BY <1>1, <1>3, <1>4
<1>5. CASE ends # {}
  <2>1. ends \subseteq p .. end
    BY <1>1, <1>2
  <2>2. \E q \in ends : \A r \in ends : q <= r
    <3>1. ends \in SUBSET Nat
      BY <1>1, <2>1
    <3> HIDE DEF ends
    <3> QED
      BY <1>5, <3>1, Least
  <2> QED
    BY <1>3, <1>5, <2>1, <2>2
<1> QED
  BY <1>4, <1>5

(* A value.                                                                *)
LEMMA ValueKeeps == ASSUME ParserInv, HeaderValue PROVE ParserInv'
<1>1. /\ Running /\ Sound(parser, 1) /\ Whole(parser) /\ Marked(parser.state, marks, p)
      /\ parser.state = "s_header_value" /\ parser.header_state \in ValueStates
  BY AtLoop DEF HeaderValue, Sound
<1> DEFINE done == To("s_header_almost_done")
           more == [parser EXCEPT !.content_length = (10 * @ + NumOf(ch)) % (ULLONG_MAX + 1)]
<1>2. Whole(done) /\ done.state = "s_header_almost_done"
  BY <1>1 DEF To, Whole, Fields
<1>3. Whole(Counted(done)) /\ Counted(done).state = "s_header_almost_done"
  BY <1>2, CountedFacts
<1>4. marks \in [MarkKinds -> 0 .. p] /\ \A k \in MarkKinds : k # "header_value" => marks[k] = 0
  BY <1>1, OnlyMark DEF MarkKinds, MayMark
<1>5. \A n : Sound(done, n) /\ Sound(Counted(done), n)
  BY <1>2, <1>3, SoundFacts DEF Special, ChunkStates, SizeStates
<1>6. parser.header_state \notin {"h_connection", "h_transfer_encoding"}
  BY <1>1 DEF ValueStates
<1>7. \/ CallbackData("header_value", marks, p - 1, done, Counted(done), "top")
      \/ Counted(done).nread > HTTP_MAX_HEADER_SIZE /\ Ends(Counted(done), marks, "top")
      \/ CallbackData("header_value", marks, p - 1, Counted(done), Counted(done), "exec")
      \/ /\ parser' = parser /\ pc' = "loop" /\ p' = LineEnd
         /\ UNCHANGED <<marks, trace, asserted>> /\ Keep
      \/ Loops(parser)
      \/ IS_NUM(ch) /\ Loops(more)
      \/ Error("INVALID_CONTENT_LENGTH")
      \/ Loops(ValueChar(parser))
  <2> HIDE DEF done, more
  <2> USE <1>6
  <2>1. CASE ch = "CR"
    BY <2>1 DEF HeaderValue, done, more
  <2>2. CASE ch = "LF"
    BY <2>2 DEF HeaderValue, done, more
  <2>3. CASE ch \notin {"CR", "LF"} /\ parser.header_state = "h_general"
    BY <2>3 DEF HeaderValue, done, more
  <2>4. CASE ch \notin {"CR", "LF"} /\ parser.header_state = "h_content_length"
    BY <2>4 DEF HeaderValue, done, more
  <2>5. CASE ch \notin {"CR", "LF"} /\ parser.header_state \notin {"h_general", "h_content_length"}
    BY <2>5 DEF HeaderValue, done, more
  <2> QED
    BY <2>1, <2>2, <2>3, <2>4, <2>5
<1> HIDE DEF done
<1>8. CASE CallbackData("header_value", marks, p - 1, done, Counted(done), "top")
  BY <1>1, <1>4, <1>5, <1>8, Telling DEF MarkKinds, Nexts
<1>9. CASE Counted(done).nread > HTTP_MAX_HEADER_SIZE /\ Ends(Counted(done), marks, "top")
  <2>1. Fails(Counted(done), "HEADER_OVERFLOW") /\ UNCHANGED <<asserted, input, end>>
    BY <1>9 DEF Ends, Goes, Keep
  <2> QED
    BY <1>1, <1>5, <2>1, Failing DEF Sound, Whole
<1>10. CASE CallbackData("header_value", marks, p - 1, Counted(done), Counted(done), "exec")
  BY <1>1, <1>4, <1>5, <1>10, Telling DEF MarkKinds, Nexts
<1>11. CASE /\ parser' = parser /\ pc' = "loop" /\ p' = LineEnd
            /\ UNCHANGED <<marks, trace, asserted>> /\ Keep
  BY <1>1, <1>11, LineEndFacts, Looping DEF Keep
<1>12. CASE Loops(parser)
  BY <1>1, <1>12, LoopsOn
<1>13. CASE IS_NUM(ch) /\ Loops(more)
  <2>1. parser.content_length \in Nat /\ NumOf(ch) \in Nat
    BY <1>1, <1>13, NumFacts, ParserAssumption DEF Whole
  <2>2. 10 * parser.content_length + NumOf(ch) \in Nat
    BY <2>1
  <2>3. Whole(more) /\ more.state = parser.state /\ more.header_state = parser.header_state
    BY <1>1, <2>2, ModFacts DEF Whole, Fields
  <2> HIDE DEF more
  <2>4. Sound(more, 1)
    BY <1>1, <2>3 DEF Sound, ChunkStates, SizeStates
  <2> QED
    BY <1>1, <1>13, <2>3, <2>4, LoopsOn
<1>14. CASE Loops(ValueChar(parser))
  <2>1. PICK q : q = ValueChar(parser)
    OBVIOUS
  <2>2. Whole(q) /\ q.state = parser.state /\ q.header_state \in ValueStates
    BY <1>1, <2>1, ValueCharFacts
  <2>3. Sound(q, 1)
    BY <1>1, <2>2 DEF Sound, ChunkStates, SizeStates
  <2> QED
    BY <1>1, <1>14, <2>1, <2>2, <2>3, LoopsOn
<1> HIDE DEF more
<1> QED
  BY <1>1, <1>7, <1>8, <1>9, <1>10, <1>11, <1>12, <1>13, <1>14, Erring

(* The line ends behind a value.                                           *)
LEMMA HeaderEndKeeps == ASSUME ParserInv, HeaderEnd PROVE ParserInv'
<1> USE DEF Special, ChunkStates, SizeStates
<1>1. /\ Running /\ Whole(parser)
      /\ parser.state \in {"s_header_almost_done", "s_header_value_lws",
                           "s_header_value_discard_ws_almost_done", "s_header_value_discard_lws"}
  BY AtSwitch DEF HeaderEnd
<1>2. \A s : Whole(To(s)) /\ To(s).state = s
  BY <1>1 DEF Whole, Fields, To
<1>3. PICK ps : ps = TakesFlag(To("s_header_field_start"))
  OBVIOUS
<1>4. Whole(ps) /\ ps.state = "s_header_field_start"
  BY <1>2, <1>3, FlagFacts
<1>5. parser.state \notin MarkStates
  BY <1>1 DEF MarkStates, UrlStates
<1>6. \/ \E s \in {"s_header_value_lws", "s_header_value_discard_lws", "s_header_value_discard_ws"} :
            Break(To(s))
      \/ Reexecute(To("s_header_value_start"))
      \/ Reexecute(ps)
      \/ Error("STRICT")
      \/ CallbackData("header_value", MARK("header_value"), p - 1, ps, ps, "exec")
  BY <1>3 DEF HeaderEnd
<1>7. CASE CallbackData("header_value", MARK("header_value"), p - 1, ps, ps, "exec")
  <2>1. Sound(ps, 0) /\ Sound(ps, Counts("exec"))
    BY <1>4, SoundFacts
  <2>2. Marked("s_header_value", MARK("header_value"), p)
    BY <1>1, <1>5, MarkSets DEF MarkKinds, MayMark
  <2>3. /\ MARK("header_value") \in [MarkKinds -> 0 .. p]
        /\ \A k \in MarkKinds : k # "header_value" => MARK("header_value")[k] = 0
    BY <2>2 DEF Marked, MayMark, UrlStates
  <2> QED
    BY <1>1, <1>7, <2>1, <2>3, Telling DEF MarkKinds, Nexts
<1> QED
  BY <1>1, <1>2, <1>4, <1>5, <1>6, <1>7, Moving, Erring DEF Break, Reexecute

(* The last line of the headers, or of a trailer.                          *)
LEMMA AlmostDoneKeeps == ASSUME ParserInv, HeadersAlmostDone PROVE ParserInv'
<1> USE DEF Special, ChunkStates, SizeStates
<1>0. At({"s_headers_almost_done"})
  BY DEF HeadersAlmostDone
<1>1. Running /\ Whole(parser) /\ parser.state = "s_headers_almost_done"
  BY <1>0, AtSwitch
<1>2. parser.state \notin MarkStates
  BY <1>1 DEF MarkStates, UrlStates
<1> DEFINE ps == [To("s_headers_done") EXCEPT !.upgrade = Upgrades(parser)]
           after(answer) == [ps EXCEPT !.flags = IF answer = "SKIP" THEN @ \union {"F_SKIPBODY"}
                                                ELSE @]
<1>3. \/ Error("STRICT")
      \/ Notify("chunk_complete", To("s_message_done"), "exec")
      \/ \E answer :
            /\ \/ Goes(after(answer), marks, "exec")
               \/ Fails(ps, answer)
            /\ UNCHANGED asserted /\ Keep
  BY DEF HeadersAlmostDone
<1>4. Whole(To("s_message_done")) /\ To("s_message_done").state = "s_message_done"
  BY <1>1 DEF To, Whole, Fields
<1>5. Whole(ps) /\ ps.state = "s_headers_done"
  BY <1>1 DEF To, Whole, Fields
<1> HIDE DEF ps
<1>6. \A answer : Whole(after(answer)) /\ after(answer).state = "s_headers_done"
  BY <1>5 DEF Whole, Fields
<1> HIDE DEF after
<1>7. ASSUME NEW answer, UNCHANGED asserted, Keep, Goes(after(answer), marks, "exec")
      PROVE  ParserInv'
  <2>1. PICK q : q = after(answer)
    OBVIOUS
  <2>2. Sound(q, Counts("exec")) /\ q.state = "s_headers_done"
    BY <1>6, <2>1, SoundFacts
  <2>3. Marked(q.state, marks, p)
    BY <1>1, <1>2, MarkFacts DEF Running, ParserInv, InPlace
  <2> QED
    BY <1>1, <1>7, <2>1, <2>2, <2>3, Going DEF Keep, Nexts
<1>8. ASSUME NEW answer, UNCHANGED asserted, Keep, Fails(ps, answer) PROVE ParserInv'
  <2>1. Sound(ps, 0) /\ DOMAIN ps = Fields
    BY <1>5, SoundFacts DEF Whole
  <2> QED
    BY <1>1, <1>8, <2>1, Failing DEF Keep
<1> QED
  BY <1>1, <1>2, <1>3, <1>4, <1>7, <1>8, Beginning, Erring DEF Nexts

(* A message is followed by a new one, or by nothing.                      *)
LEMMA NewMessageFacts == \A ps : NEW_MESSAGE(ps) \in {"s_start_req", "s_start_res", "s_dead"}
  BY DEF NEW_MESSAGE, start_state

(* The body begins where its length or its coding says it does.            *)
LEMMA DoneKeeps == ASSUME ParserInv, HeadersDone PROVE ParserInv'
<1> USE DEF Special, ChunkStates, SizeStates, Nexts
<1>1. Running /\ Whole(parser) /\ parser.state = "s_headers_done"
  BY AtSwitch DEF HeadersDone
<1>2. parser.state \notin MarkStates
  BY <1>1 DEF MarkStates, UrlStates
<1> DEFINE ps == Uncounted(parser)
           body(s) == [ps EXCEPT !.state = s]
           length == ps.content_length
<1>3. Whole(ps) /\ ps.nread = 0
  BY <1>1 DEF Uncounted, Whole, Fields
<1>4. \/ Error("STRICT")
      \/ Notify("message_complete", body(NEW_MESSAGE(ps)), "idle")
      \/ Notify("message_complete", body(NEW_MESSAGE(ps)), "top")
      \/ "F_CHUNKED" \in ps.flags /\ Break(body("s_chunk_size_start"))
      \/ length > 0 /\ length # ULLONG_MAX /\ Break(body("s_body_identity"))
      \/ Break(body("s_body_identity_eof"))
  BY DEF HeadersDone
<1> HIDE DEF ps
<1>5. \A s : /\ Whole(body(s)) /\ body(s).state = s /\ body(s).nread = 0
             /\ body(s).flags = ps.flags /\ body(s).content_length = length
  BY <1>3 DEF Whole, Fields
<1> HIDE DEF body
<1>6. CASE "F_CHUNKED" \in ps.flags /\ Break(body("s_chunk_size_start"))
  <2>1. PICK q : q = body("s_chunk_size_start")
    OBVIOUS
  <2>2. Sound(q, Counts("top"))
    BY <1>5, <1>6, <2>1 DEF Sound, Counts
  <2>3. Marked(q.state, marks, p)
    BY <1>1, <1>2, MarkFacts DEF Running, ParserInv, InPlace
  <2> QED
    BY <1>1, <1>6, <2>1, <2>2, <2>3, Ending DEF Break
<1>7. CASE length > 0 /\ length # ULLONG_MAX /\ Break(body("s_body_identity"))
  <2>1. PICK q : q = body("s_body_identity")
    OBVIOUS
  <2>2. q.content_length \in 1 .. ULLONG_MAX - 1
    BY <1>3, <1>5, <1>7, <2>1, ParserAssumption DEF Whole
  <2>3. Sound(q, Counts("top"))
    BY <1>5, <2>1, <2>2 DEF Sound
  <2>4. Marked(q.state, marks, p)
    BY <1>1, <1>2, MarkFacts DEF Running, ParserInv, InPlace
  <2> QED
    BY <1>1, <1>7, <2>1, <2>3, <2>4, Ending DEF Break
<1> QED
  BY <1>1, <1>2, <1>4, <1>5, <1>6, <1>7, NewMessageFacts, Moving, Beginning, Erring DEF Break

-----------------------------------------------------------------------------
(* Bodies.                                                                 *)

(* A part of a body, not more than is left and at least a byte.            *)
LEMMA ReadFacts ==
    ASSUME Running, parser.content_length \in 1 .. ULLONG_MAX - 1
    PROVE  /\ ToRead \in Nat /\ 1 <= ToRead /\ p + ToRead <= end
           /\ parser.content_length - ToRead \in 0 .. ULLONG_MAX - 1
  BY ParserAssumption DEF Running, ParserInv, InPlace, ToRead

(* What is left of the length, and where the mark is.                      *)
LEMMA BodyKeeps == ASSUME ParserInv, BodyIdentity PROVE ParserInv'
<1>0. At({"s_body_identity"})
  BY DEF BodyIdentity
<1>1. /\ Running /\ Sound(parser, 1) /\ Whole(parser) /\ parser.state = "s_body_identity"
      /\ p \in Nat /\ end \in Nat /\ 1 <= p
  BY <1>0, AtSwitch DEF ParserInv, InPlace
<1>2. parser.content_length \in 1 .. ULLONG_MAX - 1
  BY <1>1 DEF Sound
<1>3. parser.content_length \notin {0, ULLONG_MAX}
  BY <1>2, ParserAssumption
<1>4. PICK r \in Nat : r = ToRead /\ 1 <= r /\ p + r <= end
  BY <1>1, <1>2, ReadFacts
<1>5. PICK left \in 0 .. ULLONG_MAX - 1 : left = parser.content_length - ToRead
  BY <1>1, <1>2, ReadFacts
<1> DEFINE ps == [parser EXCEPT !.content_length = left]
<1>6. left \in 0 .. ULLONG_MAX
  BY ParserAssumption
<1>7. Whole(ps) /\ ps.state = "s_body_identity" /\ ps.content_length = left
  BY <1>1, <1>6 DEF Whole, Fields
<1>8. CASE left = 0
  <2>1. PICK answer :
           /\ parser' = [ps EXCEPT !.state = "s_message_done", !.http_errno = answer]
           /\ pc' = (IF answer = "OK" THEN "exec" ELSE "idle")
           /\ p' = p + ToRead - 1 /\ marks' = NoMarks
           /\ UNCHANGED <<start, asserted>> /\ Keep
    BY <1>3, <1>5, <1>8 DEF BodyIdentity
  <2> HIDE DEF ps
  <2>2. Whole(parser') /\ parser'.state = "s_message_done"
    BY <1>7, <2>1 DEF Whole, Fields
  <2>3. \A n : Sound(parser', n)
    BY <2>2, SoundFacts DEF Special, ChunkStates, SizeStates
  <2>4. p' \in Nat /\ 1 <= p' /\ p' < end
    BY <1>1, <1>4, <2>1
  <2>5. UNCHANGED <<asserted, input, end>>
    BY <2>1 DEF Keep
  <2>6. InPlace'
    BY <1>1, <2>4, <2>5 DEF ParserInv, InPlace
  <2>7. Marked(parser'.state, marks', p')
    BY <2>1, <2>4, MarkFacts
  <2> QED
    BY <2>1, <2>2, <2>3, <2>4, <2>5, <2>6, <2>7 DEF ParserInv, Whole
<1>9. CASE left # 0
  <2>1. /\ parser' = ps /\ p' = p + ToRead /\ pc' = "top" /\ marks' = MARK("body")
        /\ UNCHANGED <<start, trace, asserted>> /\ Keep
    BY <1>3, <1>5, <1>9 DEF BodyIdentity
  <2> HIDE DEF ps
  <2>2. left \in 1 .. ULLONG_MAX - 1
    BY <1>9, ParserAssumption
  <2>3. Sound(ps, 0)
    BY <1>7, <2>2 DEF Sound, ChunkStates, SizeStates
  <2>4. p' \in Nat /\ p <= p' /\ p' <= end /\ 1 <= p'
    BY <1>1, <1>4, <2>1
  <2>5. UNCHANGED <<asserted, input, end>>
    BY <2>1 DEF Keep
  <2>6. InPlace'
    BY <1>1, <2>4, <2>5 DEF ParserInv, InPlace
  <2>7. Marked(ps.state, MARK("body"), p)
    BY <1>1, <1>7, MarkSets DEF MarkKinds, MayMark
  <2>8. Marked(ps.state, MARK("body"), p')
    BY <1>1, <2>4, <2>7, MarkFacts
  <2> QED
    BY <1>7, <2>1, <2>3, <2>5, <2>6, <2>8 DEF ParserInv, Whole
<1> QED
  BY <1>8, <1>9

(* A body without a length takes the rest of every segment.                *)
LEMMA BodyEofKeeps == ASSUME ParserInv, BodyIdentityEof PROVE ParserInv'
<1>1. /\ Running /\ Sound(parser, 1) /\ parser.state = "s_body_identity_eof"
      /\ p \in Nat /\ end \in Nat /\ 1 <= p /\ p <= end
  BY AtSwitch DEF BodyIdentityEof, ParserInv, InPlace
<1>2. /\ p' = end /\ pc' = "top" /\ marks' = MARK("body")
      /\ UNCHANGED <<parser, start, trace, asserted>> /\ Keep
  BY DEF BodyIdentityEof
<1>3. Sound(parser, 0)
  BY <1>1, SoundFacts
<1>4. Marked(parser.state, MARK("body"), p)
  BY <1>1, MarkSets DEF MarkKinds, MayMark
<1>5. Marked(parser.state, MARK("body"), end)
  BY <1>1, <1>4, MarkFacts
<1>6. InPlace'
  BY <1>1, <1>2 DEF ParserInv, InPlace, Keep
<1> QED
  BY <1>2, <1>3, <1>5, <1>6 DEF ParserInv, Keep

(* The end of a message.                                                   *)
LEMMA MessageDoneKeeps == ASSUME ParserInv, MessageDone PROVE ParserInv'
<1>1. Running /\ Whole(parser) /\ parser.state = "s_message_done"
  BY AtSwitch DEF MessageDone
<1>2. PICK s \in {"s_start_req", "s_start_res", "s_dead"}, next \in {"idle", "top"} :
         Notify("message_complete", To(s), next)
  BY NewMessageFacts DEF MessageDone
<1>3. Whole(To(s)) /\ To(s).state = s
  BY <1>1 DEF To, Whole, Fields
<1> QED
  BY <1>1, <1>2, <1>3, Beginning
  DEF Nexts, MarkStates, UrlStates, Special, ChunkStates, SizeStates

(* The size of a chunk: it stays below ULLONG_MAX.                         *)
LEMMA SizeKeeps == ASSUME ParserInv, ChunkSizeStart \/ ChunkSize PROVE ParserInv'
<1>1. /\ Running /\ Sound(parser, 1) /\ Whole(parser)
      /\ parser.state \in {"s_chunk_size_start", "s_chunk_size", "s_chunk_parameters"}
  BY AtSwitch DEF ChunkSizeStart, ChunkSize
<1>2. "F_CHUNKED" \in parser.flags
  BY <1>1 DEF Sound, ChunkStates, SizeStates
<1>3. Marked("s_chunk_size", marks, p) /\ Marked("s_chunk_parameters", marks, p)
      /\ Marked("s_chunk_size_almost_done", marks, p)
  BY <1>1, MarkFacts DEF Running, ParserInv, InPlace, MarkStates, UrlStates
<1>4. ASSUME NEW ps, Whole(ps), ps.state \in SizeStates, ps.flags = parser.flags,
             ps.content_length < ULLONG_MAX, Break(ps)
      PROVE  ParserInv'
  <2>1. Sound(ps, Counts("top"))
    BY <1>2, <1>4 DEF Sound, SizeStates
  <2> QED
    BY <1>1, <1>3, <1>4, <2>1, Ending DEF Break, Nexts, SizeStates
<1>5. unhex(ch) \in -1 .. 15
  BY HexFacts
<1>6. CASE parser.state = "s_chunk_size_start"
  <2> DEFINE ps == [To("s_chunk_size") EXCEPT !.content_length = unhex(ch)]
  <2>1. parser.nread = 1
    BY <1>1, <1>6 DEF Sound
  <2>2. Error("INVALID_CHUNK_SIZE") \/ (unhex(ch) # -1 /\ Break(ps))
    BY <1>2, <1>6, <2>1 DEF ChunkSizeStart, ChunkSize, At
  <2>3. ASSUME unhex(ch) # -1
        PROVE  /\ Whole(ps) /\ ps.state = "s_chunk_size" /\ ps.flags = parser.flags
               /\ ps.content_length < ULLONG_MAX
    <3>1. unhex(ch) \in 0 .. ULLONG_MAX /\ unhex(ch) < ULLONG_MAX
      BY <1>5, <2>3, ParserAssumption
    <3> QED
      BY <1>1, <3>1 DEF To, Whole, Fields
  <2> HIDE DEF ps
  <2> QED
    BY <1>1, <1>4, <2>2, <2>3, Erring DEF SizeStates
<1>7. CASE parser.state \in {"s_chunk_size", "s_chunk_parameters"}
  <2> DEFINE ps == [parser EXCEPT !.content_length = (16 * @ + unhex(ch)) % (ULLONG_MAX + 1)]
  <2>1. parser.content_length < ULLONG_MAX
    BY <1>1, <1>7 DEF Sound, SizeStates
  <2>2. \/ Break(To("s_chunk_size_almost_done")) \/ Break(parser) \/ Break(To("s_chunk_parameters"))
        \/ Error("INVALID_CHUNK_SIZE") \/ Error("INVALID_CONTENT_LENGTH")
        \/ unhex(ch) # -1 /\ ~ Overflows(parser.content_length, 16) /\ Break(ps)
    BY <1>2, <1>7 DEF ChunkSizeStart, ChunkSize, At
  <2>3. \A s : /\ Whole(To(s)) /\ To(s).state = s /\ To(s).flags = parser.flags
               /\ To(s).content_length = parser.content_length
    BY <1>1 DEF To, Whole, Fields
  <2>4. ASSUME unhex(ch) # -1, ~ Overflows(parser.content_length, 16)
        PROVE  /\ Whole(ps) /\ ps.state = parser.state /\ ps.flags = parser.flags
               /\ ps.content_length < ULLONG_MAX
    <3>1. PICK n \in 0 .. ULLONG_MAX, d \in 0 .. 15 : n = parser.content_length /\ d = unhex(ch)
      BY <1>1, <1>5, <2>4 DEF Whole
    <3>2. PICK m : m = (16 * n + d) % (ULLONG_MAX + 1) /\ m \in 0 .. ULLONG_MAX - 1
      BY <2>4, <3>1, SizeFacts
    <3>3. m \in 0 .. ULLONG_MAX /\ m < ULLONG_MAX
      BY <3>2, ParserAssumption
    <3>4. ps = [parser EXCEPT !.content_length = m]
      BY <3>1, <3>2
    <3> HIDE DEF ps
    <3> QED
      BY <1>1, <3>3, <3>4 DEF Whole, Fields
  <2> HIDE DEF ps
  <2> QED
    BY <1>1, <1>4, <1>7, <2>1, <2>2, <2>3, <2>4, Erring DEF SizeStates
<1> QED
  BY <1>1, <1>6, <1>7

(* A chunk of size 0 is the last one.                                      *)
LEMMA SizeDoneKeeps == ASSUME ParserInv, ChunkSizeAlmostDone PROVE ParserInv'
<1>0. At({"s_chunk_size_almost_done"})
  BY DEF ChunkSizeAlmostDone
<1>1. Running /\ Sound(parser, 1) /\ Whole(parser) /\ parser.state = "s_chunk_size_almost_done"
  BY <1>0, AtSwitch
<1>2. "F_CHUNKED" \in parser.flags /\ parser.content_length < ULLONG_MAX
  BY <1>1 DEF Sound, ChunkStates, SizeStates
<1> DEFINE last == parser.content_length = 0
           flags == IF last THEN parser.flags \union {"F_TRAILING"} ELSE parser.flags
           s == IF last THEN "s_header_field_start" ELSE "s_chunk_data"
           ps == [Uncounted(parser) EXCEPT !.flags = flags, !.state = s]
<1>3. DOMAIN Uncounted(parser) = Fields /\ Uncounted(parser).flags = parser.flags
      /\ Uncounted(parser).content_length = parser.content_length
  BY <1>1 DEF Uncounted, Whole, Fields
<1>4. Error("STRICT") \/ Notify("chunk_header", ps, "top")
  BY <1>2, <1>3 DEF ChunkSizeAlmostDone, Fields
<1>5. /\ Whole(ps) /\ ps.state = s /\ "F_CHUNKED" \in ps.flags
      /\ ps.content_length = parser.content_length
  <2> HIDE DEF s
  <2>1. "F_CHUNKED" \in flags
    BY <1>2
  <2> HIDE DEF flags
  <2> QED
    BY <1>1, <1>3, <2>1 DEF Whole, Fields
<1> HIDE DEF ps
<1>6. Sound(ps, 0) /\ Counts("top") = 0
  <2>1. CASE last
    BY <1>5, <2>1, SoundFacts DEF Special, ChunkStates, SizeStates, Counts
  <2>2. CASE ~ last
    <3>1. parser.content_length \in 1 .. ULLONG_MAX - 1
      BY <1>1, <1>2, <2>2, ParserAssumption DEF Whole
    <3> QED
      BY <1>5, <2>2, <3>1 DEF Sound, SizeStates, Counts
  <2> QED
    BY <2>1, <2>2
<1> QED
  BY <1>1, <1>4, <1>6, Noting, Erring DEF Nexts, MarkStates, UrlStates

(* The data of a chunk.                                                    *)
LEMMA ChunkKeeps == ASSUME ParserInv, ChunkData PROVE ParserInv'
<1>0. At({"s_chunk_data"})
  BY DEF ChunkData
<1>1. /\ Running /\ Sound(parser, 1) /\ Whole(parser) /\ parser.state = "s_chunk_data"
      /\ p \in Nat /\ end \in Nat /\ 1 <= p
  BY <1>0, AtSwitch DEF ParserInv, InPlace
<1>2. parser.content_length \in 1 .. ULLONG_MAX - 1 /\ "F_CHUNKED" \in parser.flags
  BY <1>1 DEF Sound, ChunkStates
<1>3. parser.content_length \notin {0, ULLONG_MAX}
  BY <1>2, ParserAssumption
<1>4. PICK r \in Nat : r = ToRead /\ 1 <= r /\ p + r <= end
  BY <1>1, <1>2, ReadFacts
<1>5. PICK left \in 0 .. ULLONG_MAX - 1 : left = parser.content_length - ToRead
  BY <1>1, <1>2, ReadFacts
<1> DEFINE s == IF left = 0 THEN "s_chunk_data_almost_done" ELSE "s_chunk_data"
           ps == [parser EXCEPT !.content_length = left, !.state = s]
<1>6. /\ parser' = ps /\ p' = p + ToRead /\ pc' = "top" /\ marks' = MARK("body")
      /\ UNCHANGED <<start, trace, asserted>> /\ Keep
  BY <1>1, <1>2, <1>3, <1>5 DEF ChunkData, Whole, Fields
<1>7. left \in 0 .. ULLONG_MAX /\ (left # 0 => left \in 1 .. ULLONG_MAX - 1)
  BY ParserAssumption
<1>8. Whole(ps) /\ ps.state = s /\ ps.content_length = left /\ ps.flags = parser.flags
  <2> HIDE DEF s
  <2> QED
    BY <1>1, <1>7 DEF Whole, Fields
<1> HIDE DEF ps
<1>9. Sound(ps, 0)
  BY <1>2, <1>7, <1>8 DEF Sound, ChunkStates, SizeStates
<1>10. p' \in Nat /\ p <= p' /\ p' <= end /\ 1 <= p'
  BY <1>1, <1>4, <1>6
<1>11. UNCHANGED <<asserted, input, end>>
  BY <1>6 DEF Keep
<1>12. InPlace'
  BY <1>1, <1>10, <1>11 DEF ParserInv, InPlace
<1>13. Marked("s_chunk_data", MARK("body"), p)
  BY <1>1, MarkSets DEF MarkKinds, MayMark
<1>14. Marked(ps.state, MARK("body"), p)
  BY <1>8, <1>13 DEF Marked, MayMark, UrlStates
<1>15. Marked(ps.state, MARK("body"), p')
  BY <1>1, <1>10, <1>14, MarkFacts
<1> QED
  BY <1>6, <1>8, <1>9, <1>11, <1>12, <1>15 DEF ParserInv, Whole

(* The line end behind the data of a chunk: the next chunk counts anew.    *)
LEMMA ChunkEndKeeps == ASSUME ParserInv, ChunkDataEnd PROVE ParserInv'
<1>0. At({"s_chunk_data_almost_done", "s_chunk_data_done"})
  BY DEF ChunkDataEnd, At
<1>1. /\ Running /\ Sound(parser, 1) /\ Whole(parser)
      /\ parser.state \in {"s_chunk_data_almost_done", "s_chunk_data_done"}
  BY <1>0, AtSwitch
<1>2. "F_CHUNKED" \in parser.flags
  BY <1>1 DEF Sound, ChunkStates
<1>3. \A t : Whole(To(t)) /\ To(t).state = t /\ To(t).flags = parser.flags
  BY <1>1 DEF To, Whole, Fields
<1>4. CASE parser.state = "s_chunk_data_almost_done"
  <2>1. parser.content_length = 0
    BY <1>1, <1>4 DEF Sound
  <2>2. PICK ps : ps = To("s_chunk_data_done")
    OBVIOUS
  <2>3. Error("STRICT") \/ CallbackData("body", marks, p - 1, ps, ps, "top")
    BY <1>2, <1>4, <2>1, <2>2 DEF ChunkDataEnd, At
  <2>4. Sound(ps, 0) /\ Counts("top") = 0
    BY <1>2, <1>3, <2>2 DEF Sound, SizeStates, Counts
  <2>5. marks \in [MarkKinds -> 0 .. p] /\ \A k \in MarkKinds : k # "body" => marks[k] = 0
    BY <1>1, <1>4, OnlyMark DEF MarkKinds, MayMark
  <2> QED
    BY <1>1, <2>3, <2>4, <2>5, Telling, Erring DEF MarkKinds, Nexts
<1>5. CASE parser.state = "s_chunk_data_done"
  <2>1. PICK ps : ps = Uncounted(To("s_chunk_size_start"))
    OBVIOUS
  <2>2. Error("STRICT") \/ Notify("chunk_complete", ps, "top")
    BY <1>2, <1>5, <2>1 DEF ChunkDataEnd, At
  <2>3. /\ Whole(ps) /\ ps.state = "s_chunk_size_start" /\ ps.flags = parser.flags
        /\ ps.nread = 0
    BY <1>3, <2>1 DEF Uncounted, Whole, Fields
  <2>4. Sound(ps, 0) /\ Counts("top") = 0
    BY <1>2, <2>3 DEF Sound, SizeStates, Counts
  <2> QED
    BY <1>1, <1>5, <2>2, <2>4, Noting, Erring DEF Nexts, MarkStates, UrlStates
<1> QED
  BY <1>1, <1>4, <1>5

-----------------------------------------------------------------------------
(* Every step keeps the invariant.                                         *)
LEMMA ParserStep == ASSUME ParserInv, [Next]_vars PROVE ParserInv'
<1>1. CASE Execute \/ ExecuteEof \/ Unpause \/ LoopHead \/ LoopEnd
  BY <1>1, ExecuteKeeps, EofKeeps, UnpauseKeeps, HeadKeeps, EndKeeps
<1>2. CASE FirstLine
  BY <1>2, DeadKeeps, StartKeeps, ConstantKeeps, VersionKeeps, StatusKeeps, MethodKeeps, UrlKeeps
  DEF FirstLine
<1>3. CASE Headers
  BY <1>3, FieldStartKeeps, FieldKeeps, CutKeeps, ValueStartKeeps, ValueKeeps, HeaderEndKeeps,
     AlmostDoneKeeps, DoneKeeps
  DEF Headers
<1>4. CASE Body
  BY <1>4, BodyKeeps, BodyEofKeeps, MessageDoneKeeps, SizeKeeps, SizeDoneKeeps, ChunkKeeps,
     ChunkEndKeeps
  DEF Body
<1>5. CASE UNCHANGED vars
  BY <1>5 DEF vars, ParserInv, InPlace
<1> QED
  BY <1>1, <1>2, <1>3, <1>4, <1>5 DEF Next

(* What the invariant says of the asserts and of the segment.              *)
LEMMA ParserPromises == ASSUME ParserInv PROVE StaysInBounds
<1>1. ASSUME NEW k \in MarkKinds PROVE marks[k] <= p
  BY DEF ParserInv, InPlace, Marked, NoMarks
<1> QED
  BY <1>1 DEF ParserInv, InPlace, StaysInBounds, AssertsHold, ReadsInSegment

(* Whatever is fed to http_parser_execute(), wherever it is cut and        *)
(* whatever the callbacks answer, none of its asserts fails, it looks at   *)
(* no byte outside the segment it was given, and no string it tells ends   *)
(* before it starts.                                                       *)
THEOREM ParserSafe == Spec => []StaysInBounds
<1>1. Init => ParserInv
  BY ParserInit
<1>2. ParserInv /\ [Next]_vars => ParserInv'
  BY ParserStep
<1>3. ParserInv => StaysInBounds
  BY ParserPromises
<1> QED
  BY <1>1, <1>2, <1>3, PTL DEF Spec
=============================================================================
