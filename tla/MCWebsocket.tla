---------------------------- MODULE MCWebsocket ----------------------------
(* WebsocketHandler on small instances: clients that send a few short frames. *)
EXTENDS WebsocketHandler

K1 == <<1, 2, 3, 4>>
K2 == <<5, 6, 7, 8>>

Masked(fin, opcode, key, body) ==
  [fin_ |-> fin, rsv_ |-> 0, opcode_ |-> opcode, mask_ |-> 1, payload_length_ |-> Len(body),
   masking_key_ |-> key, body_ |-> Mask(body, key)]

Unmasked(fin, opcode, body) ==
  [Masked(fin, opcode, NoKey, body) EXCEPT !.mask_ = 0]

\* Frames of a client that follows the protocol and sends a message in at most
\* two fragments.
GoodFrames ==
  { Masked(1, OPCODE_TEXT, K1, <<65, 66>>), Masked(0, OPCODE_TEXT, K1, <<67>>),
    Masked(1, OPCODE_BINARY, K2, <<>>), Masked(0, OPCODE_BINARY, K2, <<68>>),
    Masked(1, OPCODE_CONTINUATION, K2, <<69>>), Masked(1, OPCODE_PING, K1, <<70>>),
    Masked(1, OPCODE_CLOSE, K1, <<3, 232>>), Masked(1, OPCODE_PONG, K2, <<>>) }

\* A continuation frame comes exactly after a data frame without fin, control
\* frames aside.
IsOpen(s, i) ==
  LET data == SelectSeq(SubSeq(s, 1, i - 1), LAMBDA f : f.opcode_ < 8)
  IN  data # <<>> /\ Last(data).fin_ = 0

FollowsProtocol(s) ==
  \A i \in DOMAIN s : s[i].opcode_ < 8 => (s[i].opcode_ = OPCODE_CONTINUATION <=> IsOpen(s, i))

GoodScripts == {s \in TupleOf(GoodFrames, 3) : FollowsProtocol(s)}

\* Frames the codec must refuse, or that only some clients send.
OddFrames ==
  { Masked(1, OPCODE_TEXT, K1, <<65>>), Masked(0, OPCODE_TEXT, K1, <<67>>),
    Masked(0, OPCODE_CONTINUATION, K1, <<68>>), Masked(1, OPCODE_CONTINUATION, K1, <<>>),
    Unmasked(1, OPCODE_BINARY, <<66>>), Masked(0, OPCODE_PING, K1, <<>>),
    [Masked(1, OPCODE_TEXT, K1, <<>>) EXCEPT !.rsv_ = 4], Masked(1, 3, K1, <<>>),
    [Masked(1, OPCODE_PING, K1, <<>>) EXCEPT !.payload_length_ = 200] }

StrangeScripts == TupleOf(OddFrames, 2)

Keys == {NoKey, <<9, 9, 9, 9>>}
=============================================================================
