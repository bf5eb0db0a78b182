-------------------------- MODULE WebsocketParser --------------------------
(***************************************************************************)
(* WebsocketParser::Parse(): the parser is a record of its members, a call *)
(* of Parse gives the parser after it, what it returns, parsed_bytes, and  *)
(* the frame it handed to parsing_complete_callback_, if any.              *)
(*                                                                         *)
(* Members other than masking_key_ that a failed or incomplete header      *)
(* overwrites are left alone here: the next header overwrites them again.  *)
(***************************************************************************)
EXTENDS WebsocketFrame

Parser == [state_ : {"HeaderBegin", "BodyBegin"}, fin_ : {0, 1}, rsv_ : {0},
           opcode_ : 0..15, mask_ : {0, 1}, payload_length_ : Nat,
           masking_key_ : Key, body_ : Seq(Byte)]

\* The constructor initialises state_ alone; of the others only masking_key_
\* can be read before it is written.
NewParser(key) ==
  [state_ |-> "HeaderBegin", fin_ |-> 0, rsv_ |-> 0, opcode_ |-> 0, mask_ |-> 0,
   payload_length_ |-> 0, masking_key_ |-> key, body_ |-> <<>>]

-----------------------------------------------------------------------------
Fin(data) == data[1] \div 128
Rsv(data) == (data[1] \div 16) % 8
Opcode(data) == data[1] % 16
MaskBit(data) == data[2] \div 128
Length7(data) == data[2] % 128

\* The header is refused, or there is not even its second byte (Parse then
\* returns parsed_bytes, which is 0, that is, false).
HeaderFails(data) ==
  \/ Len(data) < 2
  \/ Rsv(data) # 0
  \/ Opcode(data) \in 3..7 \/ Opcode(data) > 10
  \/ Opcode(data) > 7 /\ Fin(data) = 0
  \/ Opcode(data) > 127 /\ Length7(data) > 125

ExtendedLength(data) ==
  CASE Length7(data) = 127 -> 8
    [] Length7(data) = 126 -> 2
    [] OTHER -> 0

HeaderBytes(data) == 2 + ExtendedLength(data) + 4 * MaskBit(data)

HeaderIncomplete(data) == Len(data) < HeaderBytes(data)

\* The parser once it has read the header at the front of data.
ReadHeader(p, data) ==
  LET ext == ExtendedLength(data)
  IN  [p EXCEPT !.state_ = "BodyBegin",
                !.fin_ = Fin(data),
                !.opcode_ = Opcode(data),
                !.mask_ = MaskBit(data),
                !.payload_length_ = IF ext = 0 THEN Length7(data)
                                    ELSE NetworkToHost(SubSeq(data, 3, 2 + ext)),
                !.masking_key_ = IF MaskBit(data) = 0 THEN @
                                 ELSE SubSeq(data, 3 + ext, 6 + ext)]

\* CleanUp(); masking_key_ stays.
CleanUp(p) == [p EXCEPT !.body_ = <<>>, !.state_ = "HeaderBegin"]

FrameOf(p) ==
  [fin_ |-> p.fin_, rsv_ |-> p.rsv_, opcode_ |-> p.opcode_, mask_ |-> p.mask_,
   payload_length_ |-> p.payload_length_, masking_key_ |-> p.masking_key_,
   body_ |-> p.body_]

\* The body, or as much of it as there is, from data after the first parsed bytes.
ReadBody(p, data, parsed) ==
  LET body_need_bytes == p.payload_length_ - Len(p.body_)
      taken == Min({body_need_bytes, Len(data) - parsed})
      q == [p EXCEPT !.body_ = @ \o SubSeq(data, parsed + 1, parsed + taken)]
  IN  IF body_need_bytes <= Len(data) - parsed
        THEN [ok |-> TRUE, parsed |-> parsed + taken, parser |-> CleanUp(q), frames |-> <<FrameOf(q)>>]
        ELSE [ok |-> TRUE, parsed |-> parsed + taken, parser |-> q, frames |-> <<>>]

Parse(p, data) ==
  IF p.state_ = "BodyBegin" THEN ReadBody(p, data, 0)
  ELSE IF HeaderFails(data) THEN [ok |-> FALSE, parsed |-> 0, parser |-> p, frames |-> <<>>]
  ELSE IF HeaderIncomplete(data) THEN [ok |-> TRUE, parsed |-> 0, parser |-> p, frames |-> <<>>]
  ELSE ReadBody(ReadHeader(p, data), data, HeaderBytes(data))
=============================================================================
