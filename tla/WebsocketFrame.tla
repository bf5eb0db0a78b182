-------------------------- MODULE WebsocketFrame ---------------------------
(***************************************************************************)
(* Websocket frames, how the codec writes one as bytes and how it masks a  *)
(* body.  A byte is a number; a masking key is its four bytes in network   *)
(* order (the host-order uint32_t of the code is converted back whenever   *)
(* its bytes are used, and is otherwise only compared with 0).             *)
(***************************************************************************)
EXTENDS Naturals, Sequences, SequencesExt, FiniteSetsExt

Byte == 0..255
Key == [1..4 -> Byte]
NoKey == <<0, 0, 0, 0>>

OPCODE_CONTINUATION == 0
OPCODE_TEXT == 1
OPCODE_BINARY == 2
OPCODE_CLOSE == 8
OPCODE_PING == 9
OPCODE_PONG == 10

\* WebsocketFrame; rsv stands for rsv1_, rsv2_ and rsv3_.
Frame == [fin_ : {0, 1}, rsv_ : 0..7, opcode_ : 0..15, mask_ : {0, 1},
          payload_length_ : Nat, masking_key_ : Key, body_ : Seq(Byte)]

-----------------------------------------------------------------------------
Bit(n, i) == (n \div 2^i) % 2

Xor(a, b) == MapThenSumSet(LAMBDA i : 2^i * ((Bit(a, i) + Bit(b, i)) % 2), 0..7)

\* Each byte of the data with the byte of the key at its position modulo 4.
Mask(data, masking_key) ==
  [i \in DOMAIN data |-> Xor(data[i], masking_key[((i - 1) % 4) + 1])]

UnMask(data, masking_key) == Mask(data, masking_key)

\* The width bytes of n in network order, and the number that bytes stand for.
HostToNetwork(n, width) ==
  LET shifted[k \in 0..(width - 1)] == IF k = 0 THEN n ELSE shifted[k - 1] \div 256
  IN  [i \in 1..width |-> shifted[width - i] % 256]

NetworkToHost(bytes) == FoldLeft(LAMBDA n, b : 256 * n + b, 0, bytes)

-----------------------------------------------------------------------------
\* Mutant: 126 is written as a length of its own.
MutLengthBytes(payload_length) ==
  IF payload_length <= 126 THEN <<payload_length>>
  ELSE IF payload_length <= 255 THEN <<126>> \o HostToNetwork(payload_length, 2)
  ELSE <<127>> \o HostToNetwork(payload_length, 8)

\* The second byte without the mask bit, and the extended length after it.
\* (The codec's "Frame too large.", for 2^32 bytes and more, is left out.)
LengthBytes(payload_length) ==
  IF payload_length <= 125 THEN <<payload_length>>
  ELSE IF payload_length <= 255 THEN <<126>> \o HostToNetwork(payload_length, 2)
  ELSE <<127>> \o HostToNetwork(payload_length, 8)

ConvertFrameToString(frame) ==
  LET length == LengthBytes(frame.payload_length_)
  IN  <<128 * frame.fin_ + 16 * frame.rsv_ + frame.opcode_,
        128 * frame.mask_ + Head(length)>>
      \o Tail(length)
      \o (IF frame.mask_ = 1 THEN frame.masking_key_ ELSE <<>>)
      \o frame.body_

\* ConvertMessageToFrame(): the one frame in which the server sends a message.
OpcodeOf(type) ==
  CASE type = "text" -> OPCODE_TEXT
    [] type = "binary" -> OPCODE_BINARY
    [] type = "close" -> OPCODE_CLOSE
    [] type = "ping" -> OPCODE_PING
    [] type = "pong" -> OPCODE_PONG

ConvertMessageToFrame(type, data) ==
  [fin_ |-> 1, rsv_ |-> 0, opcode_ |-> OpcodeOf(type), mask_ |-> 0,
   payload_length_ |-> Len(data), masking_key_ |-> NoKey, body_ |-> data]
=============================================================================
