----------------------------- MODULE ByteQueue ------------------------------
(***************************************************************************)
(* What a muduo::net::Buffer promises: a sequence of bytes that grows at   *)
(* either end and is taken from the front, or shortened at the back by     *)
(* unwrite().  Making room leaves it alone.                                *)
(***************************************************************************)
EXTENDS Naturals, Sequences

VARIABLE content   \* the readable bytes, from the first one

Init == content = <<>>

PutBack(data) == content' = content \o data

PutFront(data) == content' = data \o content

TakeFront(n) == n <= Len(content) /\ content' = SubSeq(content, n + 1, Len(content))

DropBack(n) == n <= Len(content) /\ content' = SubSeq(content, 1, Len(content) - n)

Same == UNCHANGED content
=============================================================================
