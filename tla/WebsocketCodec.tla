-------------------------- MODULE WebsocketCodec ---------------------------
(***************************************************************************)
(* WebsocketCodec: from the frames the parser completes to the messages    *)
(* the application is handed.  The codec is a record of its members; a     *)
(* handler gives the codec after it, the message it passed to a message    *)
(* callback, if any, and whether it called OnCodecError().                 *)
(*                                                                         *)
(* is_expected_masking_ is TRUE from the constructor on.                   *)
(***************************************************************************)
EXTENDS WebsocketParser

DataTypes == {"text", "binary"}

\* cur_message_type_, and text_message_ and binary_message_ together.
Codec == [cur_message_type_ : DataTypes \cup {"none"},
          message_ : [DataTypes -> Seq(Byte)]]

Message == [type : DataTypes \cup {"close", "ping", "pong"}, data : Seq(Byte)]

NewCodec == [cur_message_type_ |-> "none", message_ |-> [t \in DataTypes |-> <<>>]]

-----------------------------------------------------------------------------
\* HandleFrameBody(): a body needs a masking key, an empty body does not.
BodyFails(frame) == frame.body_ # <<>> /\ frame.masking_key_ = NoKey

HandledBody(frame) == UnMask(frame.body_, frame.masking_key_)

Fails(c) == [codec |-> c, messages |-> <<>>, error |-> TRUE]
Accepts(c, messages) == [codec |-> c, messages |-> messages, error |-> FALSE]

\* The message of type t takes a frame's body in, and is handed over by the
\* last frame.
AppendBody(c, t, frame) ==
  LET data == c.message_[t] \o HandledBody(frame)
  IN  IF frame.fin_ = 1
        THEN Accepts([c EXCEPT !.message_[t] = <<>>], <<[type |-> t, data |-> data]>>)
        ELSE Accepts([c EXCEPT !.message_[t] = data], <<>>)

\* Mutant: the last continuation frame does not close the message.
MutContinuationLeavesOpen(c, frame) ==
  IF BodyFails(frame) \/ c.cur_message_type_ = "none" THEN Fails(c)
  ELSE AppendBody(c, c.cur_message_type_, frame)

\* A continuation frame ends the message as far as cur_message_type_ goes,
\* whether it is the last one or not.
OnContinuationFrame(c, frame) ==
  IF BodyFails(frame) \/ c.cur_message_type_ = "none" THEN Fails(c)
  ELSE LET r == AppendBody(c, c.cur_message_type_, frame)
       IN  [r EXCEPT !.codec.cur_message_type_ = "none"]

\* OnTextFrame() and OnBinaryFrame().
OnDataFrame(c, t, frame) ==
  IF BodyFails(frame) \/ c.cur_message_type_ # "none" THEN Fails(c)
  ELSE LET r == AppendBody(c, t, frame)
       IN  [r EXCEPT !.codec.cur_message_type_ = IF frame.fin_ = 1 THEN "none" ELSE t]

\* OnCloseFrame() hands the body over, OnPingFrame() and OnPongFrame() drop it.
OnControlFrame(c, t, frame) ==
  IF BodyFails(frame) THEN Fails(c)
  ELSE Accepts(c, <<[type |-> t, data |-> IF t = "close" THEN HandledBody(frame) ELSE <<>>]>>)

OnParsedFrame(c, frame) ==
  CASE frame.opcode_ = OPCODE_CONTINUATION -> OnContinuationFrame(c, frame)
    [] frame.opcode_ = OPCODE_TEXT -> OnDataFrame(c, "text", frame)
    [] frame.opcode_ = OPCODE_BINARY -> OnDataFrame(c, "binary", frame)
    [] frame.opcode_ = OPCODE_CLOSE -> OnControlFrame(c, "close", frame)
    [] frame.opcode_ = OPCODE_PING -> OnControlFrame(c, "ping", frame)
    [] frame.opcode_ = OPCODE_PONG -> OnControlFrame(c, "pong", frame)
=============================================================================
