------------------------ MODULE WebsocketRoundTrip -------------------------
(***************************************************************************)
(* The encoder against the parser: a frame is written as bytes, and the    *)
(* bytes are given to a parser in two calls.                               *)
(***************************************************************************)
EXTENDS WebsocketCodec

CONSTANTS
  Lengths,   \* lengths of the bodies tried
  Keys       \* masking keys tried, on either side of the wire

VARIABLES
  data,      \* a message's data
  frame,     \* the frame that carries it
  stale,     \* what masking_key_ held before
  parser_,
  fed,       \* how many bytes of the frame the parser has been given
  out,       \* the frames it has handed over
  refused    \* whether Parse() has returned false

tripVars == <<data, frame, stale, parser_, fed, out, refused>>

\* Data in which neighbouring bytes and the bytes at distance 4 differ.
DataOf(n) == [i \in 1..n |-> (i * 37) % 256]

\* The server's frame, and the same message as a client masks it.
FramesOf(d) ==
  LET server == {ConvertMessageToFrame(t, d) : t \in {"text", "binary", "close", "ping", "pong"}}
  IN  server \cup {[f EXCEPT !.mask_ = 1, !.masking_key_ = key, !.body_ = Mask(@, key)] :
                     f \in server, key \in Keys}

Bytes == ConvertFrameToString(frame)

Init ==
  /\ \E n \in Lengths : data = DataOf(n)
  /\ frame \in FramesOf(data)
  /\ stale \in Keys
  /\ parser_ = NewParser(stale)
  /\ fed = 0
  /\ out = <<>>
  /\ refused = FALSE

\* A call of Parse() on the bytes up to the end-th; the first one has the header.
Feed(end) ==
  LET r == Parse(parser_, SubSeq(Bytes, fed + 1, end))
  IN  /\ fed < end
      /\ refused' = ~r.ok
      /\ fed' = fed + r.parsed
      /\ parser_' = r.parser
      /\ out' = out \o r.frames
      /\ UNCHANGED <<data, frame, stale>>

\* The header alone, half of the body, all of it.
Ends ==
  LET header == Len(Bytes) - Len(frame.body_)
  IN  {header, header + Len(data) \div 2, Len(Bytes)}

Next == \E end \in Ends : Feed(end)

Spec == Init /\ [][Next]_tripVars

-----------------------------------------------------------------------------
\* The parser gives back the frame the encoder wrote, once and when it has all of
\* its bytes: every length form ends where the body begins, for a body that
\* comes with the header, after it, or in parts.
RoundTrip ==
  /\ ~refused
  /\ fed > 0 => out = IF fed < Len(Bytes) THEN <<>>
                      ELSE <<IF frame.mask_ = 1 THEN frame
                             ELSE [frame EXCEPT !.masking_key_ = stale]>>
  /\ out # <<>> => parser_.state_ = "HeaderBegin" /\ parser_.body_ = <<>>

\* A client's data survives masking, transport and unmasking, whatever the key save 0, which
\* HandleFrameBody() takes for no key.
Unmasks ==
  frame.mask_ = 1 /\ frame.masking_key_ # NoKey =>
    LET r == OnParsedFrame(NewCodec, frame)
    IN  ~r.error /\ (frame.opcode_ < 9 => Head(r.messages).data = data)
=============================================================================
