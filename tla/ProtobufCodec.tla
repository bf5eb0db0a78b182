--------------------------- MODULE ProtobufCodec ----------------------------
(***************************************************************************)
(* muduo::net::ProtobufCodecLite: messages framed by a length, a tag and   *)
(* an adler32 checksum, written by fillEmptyBuffer() and read by           *)
(* onMessage(), whose while loop takes the frames that are complete out of *)
(* the connection's input buffer.                                          *)
(*                                                                         *)
(* A protobuf message is its serialization.  Environment: the peer sends   *)
(* a few frames, one of them perhaps damaged, cut into segments anywhere.  *)
(***************************************************************************)
EXTENDS Buffer, FiniteSets, SequencesExt

CONSTANTS
  Tag,              \* tag_, a sequence of bytes
  kMaxMessageLen,   \* 64M in the code
  Messages,         \* the serialized messages tried
  Unparsable,       \* those of them that ParseFromArray() does not take
  Refused,          \* those whose frames rawCb_ returns false for
  MaxFrames         \* bound on the frames of a connection

kHeaderLen == 4
kChecksumLen == 4
kMinMessageLen == Len(Tag) + kChecksumLen

\* adler32 in network byte order, the four bytes of b * 65536 + a.
checksum(bytes) ==
  LET a[n \in 0..Len(bytes)] == IF n = 0 THEN 1 ELSE (a[n - 1] + bytes[n]) % 65521
      b[n \in 0..Len(bytes)] == IF n = 0 THEN 0 ELSE (b[n - 1] + a[n]) % 65521
  IN  HostToNetwork(b[Len(bytes)], 2) \o HostToNetwork(a[Len(bytes)], 2)

serializeToBuffer(message, b) ==
  append(ensureWritableBytes(b, Len(message) + kChecksumLen), message)

\* The bytes send() writes to the connection: the length is prepended to a
\* new buffer, which has kCheapPrepend bytes for it.
fillEmptyBuffer(tag, message) ==
  LET serialized == serializeToBuffer(message, append(NewBuffer(kInitialSize), tag))
      summed == append(serialized, checksum(Content(serialized)))
  IN  Content(prependInt(summed, readableBytes(summed), kHeaderLen))

-----------------------------------------------------------------------------
(* What the peer sends.  A frame is its bytes, the message in it and what    *)
(* parse() should make of it.                                                *)

Frame(error, message, bytes) == [error |-> error, message |-> message, bytes |-> bytes]

Good == {Frame(IF m \in Unparsable THEN "kParseError" ELSE "kNoError", m, fillEmptyBuffer(Tag, m)) :
           m \in Messages}

\* Lengths just out of bounds, or far, or negative.
BadLengths == {-1, 0, kMinMessageLen - 1, kMaxMessageLen + 1, 2147483647}

Damaged ==
  LET m == CHOOSE x \in Messages \ Refused : \A y \in Messages \ Refused : Len(x) <= Len(y)
      frame == fillEmptyBuffer(Tag, m)
  IN  {Frame("kCheckSumError", m, [frame EXCEPT ![i] = (@ + 1) % 256]) : i \in {5, Len(frame)}}
        \cup {Frame("kUnknownMessageType", m, fillEmptyBuffer([Tag EXCEPT ![1] = (@ + 1) % 256], m))}
        \cup {Frame("kInvalidLength", m, HostToNetwork(n, 4) \o SubSeq(frame, 5, Len(frame))) :
                n \in BadLengths}

\* At most one frame is damaged.
Scripts ==
  {s \in UNION {[1..n -> Good \cup Damaged] : n \in 1..MaxFrames} :
     Cardinality({i \in DOMAIN s : s[i] \in Damaged}) <= 1}

-----------------------------------------------------------------------------
VARIABLES
  frames,     \* the frames of this connection's peer
  received,   \* how many bytes of them have been read from the socket
  input,      \* the readable bytes of the input buffer
  state,      \* the connection: "connected" or, after shutdown(), "disconnecting"
  codecPc,    \* the loop thread: "poll" or "onmessage"
  delivered,  \* history: the messages given to messageCallback_
  errorCode   \* history: the last error given to errorCallback_

codecVars == <<frames, received, input, state, codecPc, delivered, errorCode>>

Init ==
  /\ frames \in Scripts
  /\ received = 0
  /\ input = <<>>
  /\ state = "connected"
  /\ codecPc = "poll"
  /\ delivered = <<>>
  /\ errorCode = "kNoError"

Stream == FlattenSeq([i \in DOMAIN frames |-> frames[i].bytes])

\* After shutdown() the connection still reads.
Arrives(n) ==
  /\ codecPc = "poll"
  /\ received + n <= Len(Stream)
  /\ input' = input \o SubSeq(Stream, received + 1, received + n)
  /\ received' = received + n
  /\ codecPc' = "onmessage"
  /\ UNCHANGED <<frames, state, delivered, errorCode>>

-----------------------------------------------------------------------------
(* onMessage(), one action for each way through its loop.                    *)

HasMinimum == Len(input) >= kMinMessageLen + kHeaderLen

Length == NetworkToHost(SubSeq(input, 1, kHeaderLen))

\* Mutant: as if the length were unsigned.
MutBadLength == Length > kMaxMessageLen

BadLength == Length > kMaxMessageLen \/ Length < kMinMessageLen

IsComplete == Len(input) >= kHeaderLen + Length

Body == SubSeq(input, kHeaderLen + 1, kHeaderLen + Length)

\* The payload, between the tag and the checksum.
PayloadOf(body) == SubSeq(body, Len(Tag) + 1, Len(body) - kChecksumLen)

validateChecksum(body) ==
  LET summed == SubSeq(body, 1, Len(body) - kChecksumLen)
  IN  checksum(summed) = SubSeq(body, Len(summed) + 1, Len(body))

parse(body) ==
  CASE ~validateChecksum(body) -> "kCheckSumError"
    [] validateChecksum(body) /\ SubSeq(body, 1, Len(Tag)) # Tag -> "kUnknownMessageType"
    [] validateChecksum(body) /\ SubSeq(body, 1, Len(Tag)) = Tag ->
         IF PayloadOf(body) \in Unparsable THEN "kParseError" ELSE "kNoError"

RawRefuses(body) == PayloadOf(body) \in Refused

\* defaultErrorCallback(), and the break: the bytes stay in the buffer.
Fails(error) ==
  /\ errorCode' = error
  /\ state' = "disconnecting"
  /\ codecPc' = "poll"
  /\ UNCHANGED <<frames, received, input, delivered>>

LengthFails ==
  /\ codecPc = "onmessage"
  /\ HasMinimum /\ BadLength
  /\ Fails("kInvalidLength")

\* There is a whole frame.
AtFrame == codecPc = "onmessage" /\ HasMinimum /\ ~BadLength /\ IsComplete

ParseFails ==
  /\ AtFrame /\ ~RawRefuses(Body) /\ parse(Body) # "kNoError"
  /\ Fails(parse(Body))

\* buf->retrieve(kHeaderLen+len)
RetrieveFrame ==
  /\ input' = SubSeq(input, kHeaderLen + Length + 1, Len(input))
  /\ UNCHANGED <<frames, received, state, codecPc, errorCode>>

RawSkips ==
  /\ AtFrame /\ RawRefuses(Body)
  /\ RetrieveFrame
  /\ UNCHANGED delivered

Delivers ==
  /\ AtFrame /\ ~RawRefuses(Body) /\ parse(Body) = "kNoError"
  /\ delivered' = Append(delivered, PayloadOf(Body))
  /\ RetrieveFrame

\* The rest of a frame is awaited.
Returns ==
  /\ codecPc = "onmessage"
  /\ HasMinimum => ~BadLength /\ ~IsComplete
  /\ codecPc' = "poll"
  /\ UNCHANGED <<frames, received, input, state, delivered, errorCode>>

OnMessage == LengthFails \/ ParseFails \/ RawSkips \/ Delivers \/ Returns

Next == OnMessage \/ \E n \in 1..Len(Stream) : Arrives(n)

-----------------------------------------------------------------------------
(* Properties.                                                               *)

\* The bytes of the first n frames.
Ahead(n) == Len(FlattenSeq([i \in 1..n |-> frames[i].bytes]))

\* Frames that onMessage() should stop at.
Bad == {i \in DOMAIN frames : frames[i].error # "kNoError" /\ frames[i].message \notin Refused}

\* The number of frames before the first such one that are wholly received.
Readable ==
  Cardinality({i \in DOMAIN frames : Ahead(i) <= received /\ \A j \in Bad : i < j})

\* The frames taken out of the buffer.
Taken == CHOOSE n \in 0..Len(frames) : Ahead(n) = received - Len(input)

\* What the application is given for a frame that is taken.
Given(frame) == IF frame.message \in Refused THEN <<>> ELSE <<frame.message>>

\* onMessage() takes whole frames, none from the first one it refuses on, and
\* the application gets their messages once each and in order, however the
\* stream was cut and although the refused frame stays in the buffer and is
\* read again with every segment that follows.
MessagesWhole ==
  /\ \E n \in 0..Readable : Ahead(n) = received - Len(input)
  /\ delivered = FlattenSeq([i \in 1..Taken |-> Given(frames[i])])

\* When onMessage() has returned no complete frame waits in the buffer, and a
\* connection whose next frame is refused has been told so, with the reason.
NothingWaits ==
  codecPc = "poll" =>
    /\ Taken = Readable
    /\ errorCode # "kNoError" <=> state = "disconnecting"
    /\ Taken < Len(frames) /\ Ahead(Taken + 1) <= received => errorCode = frames[Taken + 1].error

\* The codec delivers what can be delivered and refuses the rest.
CodecDelivers == MessagesWhole /\ NothingWaits

\* onMessage() returns: every round of its loop takes a frame or breaks.
OnMessageReturns == []<>(codecPc = "poll")
=============================================================================
