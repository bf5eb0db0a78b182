------------------------------- MODULE Buffer -------------------------------
(***************************************************************************)
(* muduo::net::Buffer.  A buffer is a record of its members; an operator   *)
(* gives the buffer after the call.  As in C++, indices count from 0: byte *)
(* i of the vector is buffer_[i + 1].                                      *)
(***************************************************************************)
EXTENDS Integers, Sequences

CONSTANTS
  kCheapPrepend,   \* bytes kept free in front, 8 in the code
  kInitialSize,    \* bytes a new buffer has room for, 1024 in the code
  ExtraBuf         \* sizeof extrabuf in readFd(), 65536 in the code

ASSUME BufferAssumption == kCheapPrepend \in Nat /\ kInitialSize \in Nat /\ ExtraBuf \in Nat

\* resize() fills with zeros.
Zeros(n) == [i \in 1..n |-> 0]

NewBuffer(initialSize) ==
  [buffer_ |-> Zeros(kCheapPrepend + initialSize),
   readerIndex_ |-> kCheapPrepend, writerIndex_ |-> kCheapPrepend]

readableBytes(b) == b.writerIndex_ - b.readerIndex_
writableBytes(b) == Len(b.buffer_) - b.writerIndex_
prependableBytes(b) == b.readerIndex_

\* The bytes from peek() to beginWrite(), as toStringPiece() has them.
Content(b) == SubSeq(b.buffer_, b.readerIndex_ + 1, b.writerIndex_)

\* std::copy(data, data + Len(data), begin() + at).
Overwrite(bytes, at, data) ==
  [i \in DOMAIN bytes |-> IF i - at \in DOMAIN data THEN data[i - at] ELSE bytes[i]]

-----------------------------------------------------------------------------
(* Taking bytes out.                                                         *)

retrieveAll(b) == [b EXCEPT !.readerIndex_ = kCheapPrepend, !.writerIndex_ = kCheapPrepend]

\* retrieve(), and with it retrieveUntil(), retrieveInt*() and retrieveAsString();
\* the caller asks for no more than there is.
retrieve(b, len) ==
  IF len < readableBytes(b) THEN [b EXCEPT !.readerIndex_ = @ + len] ELSE retrieveAll(b)

unwrite(b, len) == [b EXCEPT !.writerIndex_ = @ - len]

-----------------------------------------------------------------------------
(* Putting bytes in.                                                         *)

\* makeSpace() moves the content down only if that leaves kCheapPrepend bytes
\* in front of it; else the vector grows behind it.
Fits(b, len) == writableBytes(b) + prependableBytes(b) >= len + kCheapPrepend

Grown(b, len) == [b EXCEPT !.buffer_ = @ \o Zeros(b.writerIndex_ + len - Len(@))]

Moved(b) ==
  [buffer_ |-> Overwrite(b.buffer_, kCheapPrepend, Content(b)),
   readerIndex_ |-> kCheapPrepend, writerIndex_ |-> kCheapPrepend + readableBytes(b)]

makeSpace(b, len) == IF Fits(b, len) THEN Moved(b) ELSE Grown(b, len)

ensureWritableBytes(b, len) == IF writableBytes(b) < len THEN makeSpace(b, len) ELSE b

hasWritten(b, len) == [b EXCEPT !.writerIndex_ = @ + len]

append(b, data) ==
  LET room == ensureWritableBytes(b, Len(data))
  IN  hasWritten([room EXCEPT !.buffer_ = Overwrite(@, room.writerIndex_, data)], Len(data))

\* The caller prepends no more than prependableBytes().
prepend(b, data) ==
  [b EXCEPT !.readerIndex_ = @ - Len(data),
            !.buffer_ = Overwrite(@, b.readerIndex_ - Len(data), data)]

shrink(b, reserve) ==
  append(ensureWritableBytes(NewBuffer(kInitialSize), readableBytes(b) + reserve), Content(b))

-----------------------------------------------------------------------------
(* readFd(): one readv() into the free bytes of the buffer and, if they are  *)
(* few, into extrabuf.                                                       *)

\* How many bytes a readv() may return.
ReadLimit(b) ==
  writableBytes(b) + IF writableBytes(b) < ExtraBuf THEN ExtraBuf ELSE 0

\* Mutant: writerIndex_ is not moved to the end before the rest is appended.
MutReadFd(b, data) ==
  LET writable == writableBytes(b)
      read == [b EXCEPT !.buffer_ = Overwrite(@, b.writerIndex_, data)]
  IN  IF Len(data) <= writable
        THEN hasWritten(read, Len(data))
        ELSE append(read, SubSeq(data, writable + 1, Len(data)))

\* readv() has returned data, of at most ReadLimit(b) bytes; an error leaves
\* the buffer alone.
readFd(b, data) ==
  LET writable == writableBytes(b)
      read == [b EXCEPT !.buffer_ = Overwrite(@, b.writerIndex_, data)]
  IN  IF Len(data) <= writable
        THEN hasWritten(read, Len(data))
        ELSE append([read EXCEPT !.writerIndex_ = Len(b.buffer_)],
                    SubSeq(data, writable + 1, Len(data)))

-----------------------------------------------------------------------------
(* Integers in network byte order, as appendInt32() and its like, the        *)
(* prependInt*() and peekInt*() have them; width is in bytes.                *)

\* A negative number is written as its two's complement.
HostToNetwork(x, width) == [i \in 1..width |-> (x \div 256^(width - i)) % 256]

\* The sign is the highest bit.
NetworkToHost(bytes) ==
  LET signed == [bytes EXCEPT ![1] = IF @ > 127 THEN @ - 256 ELSE @]
      Value[n \in 0..Len(bytes)] == IF n = 0 THEN 0 ELSE 256 * Value[n - 1] + signed[n]
  IN  Value[Len(bytes)]

appendInt(b, x, width) == append(b, HostToNetwork(x, width))
prependInt(b, x, width) == prepend(b, HostToNetwork(x, width))
peekInt(b, width) == NetworkToHost(SubSeq(Content(b), 1, width))
=============================================================================
