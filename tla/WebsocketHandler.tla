------------------------- MODULE WebsocketHandler --------------------------
(***************************************************************************)
(* WebsocketHandler on an upgraded connection: the client's byte stream    *)
(* arrives in segments of any size, and each one makes the loop thread run *)
(* OnData(), whose while loop hands the codec everything the input buffer  *)
(* holds and puts back what was not parsed.                                *)
(*                                                                         *)
(* Environment: the stream is that of one of the frame sequences in        *)
(* Scripts, and a segment ends inside a frame's header only if             *)
(* SplitHeaders; or it is that of one of OddScripts, which hold frames a   *)
(* server must refuse, and is cut anywhere.                                *)
(***************************************************************************)
EXTENDS WebsocketCodec

CONSTANTS
  Scripts,        \* sequences of frames of clients that follow the protocol
  OddScripts,     \* sequences of frames of clients that may not
  InitialKeys,    \* what masking_key_ may hold before a frame sets it
  SplitHeaders    \* whether a segment may end inside a header

ASSUME ScriptsAssumption == Scripts \subseteq Seq(Frame) /\ OddScripts \subseteq Seq(Frame)
ASSUME InitialKeysAssumption == InitialKeys \subseteq Key
ASSUME SplitHeadersAssumption == SplitHeaders \in BOOLEAN

\* Buffer::kCheapPrepend
kCheapPrepend == 8

VARIABLES
  script,     \* the frames of this connection's client
  read,       \* how many bytes of the stream have been read from the socket
  buf,        \* the readable bytes of the connection's input buffer
  parser_,
  codec,      \* the members of ws_codec_ other than parser_
  conn,       \* the TcpConnection: "connected", "closing" (forceCloseInLoop queued), "closed"
  pc,         \* the loop thread: "poll", "ondata" or, after a failed assert, "abort"
  delivered,  \* history: the messages handed to the application
  failed      \* history: OnCodecError() has been called

vars == <<script, read, buf, parser_, codec, conn, pc, delivered, failed>>

-----------------------------------------------------------------------------
(* The stream.                                                               *)

Stream == FlattenSeq([i \in DOMAIN script |-> ConvertFrameToString(script[i])])

\* The number of bytes of the stream before frame i.
Offset(i) == Len(FlattenSeq([j \in 1..(i - 1) |-> ConvertFrameToString(script[j])]))

HeaderOf(frame) == Len(ConvertFrameToString(frame)) - Len(frame.body_)

\* Positions of the stream that are inside the header of a frame.
InHeader == UNION {(Offset(i) + 1)..(Offset(i) + HeaderOf(script[i]) - 1) : i \in DOMAIN script}

\* Positions at which a frame begins or the stream ends.
Boundaries == {Offset(i) : i \in 1..(Len(script) + 1)}

-----------------------------------------------------------------------------
TypeOK ==
  /\ script \in Scripts \cup OddScripts
  /\ read \in 0..Len(Stream)
  /\ buf \in Seq(Byte)
  /\ parser_ \in Parser
  /\ codec \in Codec
  /\ conn \in {"connected", "closing", "closed"}
  /\ pc \in {"poll", "ondata", "abort"}
  /\ delivered \in Seq(Message)
  /\ failed \in BOOLEAN

Init ==
  /\ script \in Scripts \cup OddScripts
  /\ read = 0
  /\ buf = <<>>
  /\ \E key \in InitialKeys : parser_ = NewParser(key)
  /\ codec = NewCodec
  /\ conn = "connected"
  /\ pc = "poll"
  /\ delivered = <<>>
  /\ failed = FALSE

\* The loop is back in poll() only when it has run the functors OnData() and
\* the application queued, so a connection being closed is not read from.
Arrives(n) ==
  /\ pc = "poll" /\ conn = "connected"
  /\ read + n <= Len(Stream)
  /\ read + n \in InHeader => SplitHeaders \/ script \in OddScripts
  /\ read' = read + n
  /\ buf' = buf \o SubSeq(Stream, read + 1, read + n)
  /\ pc' = "ondata"
  /\ UNCHANGED <<script, parser_, codec, conn, delivered, failed>>

(* A round of OnData()'s loop: parse is what Parse() makes of the bytes in   *)
(* the buffer, and handled what the codec makes of the frame it completed.   *)

Handled(parse) ==
  IF parse.frames = <<>> THEN Accepts(codec, <<>>) ELSE OnParsedFrame(codec, Head(parse.frames))

\* Mutant: OnCodecError() only logs.
MutErrorOnlyLogged(parse, handled) ==
  /\ pc = "ondata" /\ buf # <<>>
  /\ parser_' = parse.parser
  /\ codec' = handled.codec
  /\ delivered' = delivered \o handled.messages
  /\ failed' = (failed \/ handled.error \/ ~parse.ok)
  /\ UNCHANGED <<script, read, conn>>

\* The parser's and the codec's part.  OnCodecError() queues forceCloseInLoop,
\* and so may the application's message callback.
CodecOnData(parse, handled) ==
  /\ pc = "ondata" /\ buf # <<>>
  /\ parser_' = parse.parser
  /\ codec' = handled.codec
  /\ delivered' = delivered \o handled.messages
  /\ failed' = (failed \/ handled.error \/ ~parse.ok)
  /\ \/ conn' = IF handled.error \/ ~parse.ok THEN "closing" ELSE conn
     \/ handled.messages # <<>> /\ conn' = "closing"
  /\ UNCHANGED <<script, read>>

\* Mutant: the loop goes on when nothing was parsed.
MutNoBreak(parse, handled) ==
  /\ ~parse.ok \/ parse.parsed = 0
  /\ CodecOnData(parse, handled)
  /\ IF parse.ok THEN UNCHANGED <<buf, pc>> ELSE buf' = <<>> /\ pc' = "poll"

\* The loop breaks; the bytes taken from the buffer are gone.
OnDataBreaks(parse, handled) ==
  /\ ~parse.ok \/ parse.parsed = 0
  /\ CodecOnData(parse, handled)
  /\ buf' = <<>>
  /\ pc' = "poll"

\* The unparsed bytes are put back in front of the buffer ...
OnDataPrepends(parse, handled) ==
  /\ parse.ok /\ parse.parsed > 0
  /\ Len(buf) - parse.parsed <= kCheapPrepend
  /\ CodecOnData(parse, handled)
  /\ buf' = SubSeq(buf, parse.parsed + 1, Len(buf))
  /\ UNCHANGED pc

\* ... unless they are more than retrieveAll() left room for, and
\* Buffer::prepend()'s assert ends the process.
OnDataAborts(parse, handled) ==
  /\ parse.ok /\ parse.parsed > 0
  /\ Len(buf) - parse.parsed > kCheapPrepend
  /\ CodecOnData(parse, handled)
  /\ buf' = <<>>
  /\ pc' = "abort"

OnDataRound ==
  \E parse \in {Parse(parser_, buf)} : \E handled \in {Handled(parse)} :
    \/ OnDataBreaks(parse, handled)
    \/ OnDataPrepends(parse, handled)
    \/ OnDataAborts(parse, handled)

\* The buffer is empty and OnData() returns.
OnDataReturns ==
  /\ pc = "ondata" /\ buf = <<>>
  /\ pc' = "poll"
  /\ UNCHANGED <<script, read, buf, parser_, codec, conn, delivered, failed>>

ForceCloseInLoop ==
  /\ pc = "poll" /\ conn = "closing"
  /\ conn' = "closed"
  /\ UNCHANGED <<script, read, buf, parser_, codec, pc, delivered, failed>>

PeerCloses ==
  /\ pc = "poll" /\ conn = "connected"
  /\ conn' = "closed"
  /\ UNCHANGED <<script, read, buf, parser_, codec, pc, delivered, failed>>

LoopStep == OnDataRound \/ OnDataReturns \/ ForceCloseInLoop

Next ==
  \/ \E n \in 1..Len(Stream) : Arrives(n)
  \/ PeerCloses
  \/ LoopStep

Spec == Init /\ [][Next]_vars

\* The loop thread goes on; the client may stop sending.
FairSpec == Spec /\ WF_vars(LoopStep)

-----------------------------------------------------------------------------
(* Properties.                                                               *)

\* How far into the stream the parser has got.
Position == read - Len(buf)

\* The frames that end at or before the parser's position.
Parsed == Cardinality({i \in DOMAIN script : Offset(i + 1) <= Position})

\* The messages that the first n frames make up: a message ends with a frame
\* that has fin set, and a data message began with the last text or binary frame.
MessageEndingAt(i) ==
  LET f == script[i]
      s == Max({j \in 1..i : script[j].opcode_ \in {OPCODE_TEXT, OPCODE_BINARY}})
      Bodies(fs) == FlattenSeq([k \in DOMAIN fs |-> UnMask(fs[k].body_, fs[k].masking_key_)])
  IN  IF f.opcode_ > 7
        THEN [type |-> CHOOSE t \in {"close", "ping", "pong"} : OpcodeOf(t) = f.opcode_,
              data |-> IF f.opcode_ = OPCODE_CLOSE THEN Bodies(<<f>>) ELSE <<>>]
        ELSE [type |-> CHOOSE t \in DataTypes : OpcodeOf(t) = script[s].opcode_,
              data |-> Bodies(SelectSeq(SubSeq(script, s, i), LAMBDA g : g.opcode_ < 8))]

MessagesOf(n) ==
  LET ends == SelectSeq([i \in 1..n |-> i], LAMBDA i : script[i].fin_ = 1)
  IN  [k \in DOMAIN ends |-> MessageEndingAt(ends[k])]

\* The parser expects a header exactly where a frame begins: OnData() has not
\* thrown a byte away, however the stream was cut into segments.
InSync ==
  script \in Scripts /\ pc # "abort" /\ ~failed /\ parser_.state_ = "HeaderBegin" =>
    Position \in Boundaries

\* What the application has been handed depends on how far the stream has been
\* parsed and on nothing else: not on the segments it came in, nor on how the
\* rounds of OnData() divided them.
DeliversMessages ==
  script \in Scripts /\ pc # "abort" => delivered = MessagesOf(Parsed) /\ ~failed

\* However the stream is cut, OnData() loses no byte of it and the application gets
\* exactly its messages.
StreamUnderstood == InSync /\ DeliversMessages

\* A codec error closes the connection, unless the process has aborted.
ErrorCloses == failed ~> (conn = "closed" \/ pc = "abort")

\* OnData() returns: no round leaves the buffer as it was.
OnDataEnds == (pc = "ondata") ~> (pc # "ondata")

\* Buffer::prepend() asserts that there is room for what is put back.
NeverAborts == pc # "abort"
=============================================================================
