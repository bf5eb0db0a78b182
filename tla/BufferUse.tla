----------------------------- MODULE BufferUse ------------------------------
(***************************************************************************)
(* A Buffer in use: its owner calls the operations in any order, with      *)
(* arguments their comments and asserts allow.  Beside it a ByteQueue      *)
(* makes the same calls.                                                   *)
(***************************************************************************)
EXTENDS Buffer

CONSTANTS
  Bytes,        \* the values of a byte
  MaxReadable   \* bound on the bytes put into the buffer

ASSUME ReadableAssumption == MaxReadable \in Nat

VARIABLES
  buf,
  held,         \* history: the bytes put in and not yet taken, a ByteQueue
  peak,         \* history: the most bytes the buffer has held or made room for
  pushed        \* history: bytes prepended and not retrieved since retrieveAll() or shrink()

vars == <<buf, held, peak, pushed>>

Queue == INSTANCE ByteQueue WITH content <- held

Init == buf = NewBuffer(kInitialSize) /\ Queue!Init /\ peak = kInitialSize /\ pushed = 0

Data == UNION {[1..n -> Bytes] : n \in 1..MaxReadable}

Larger(m, n) == IF m > n THEN m ELSE n

\* The buffer becomes b; room for n bytes in all has been asked for.
Becomes(b, n) == buf' = b /\ peak' = Larger(peak, n)

AppendData(data) ==
  /\ readableBytes(buf) + Len(data) <= MaxReadable
  /\ Becomes(append(buf, data), readableBytes(buf) + Len(data))
  /\ Queue!PutBack(data)
  /\ UNCHANGED pushed

PrependData(data) ==
  /\ readableBytes(buf) + Len(data) <= MaxReadable
  /\ Len(data) <= prependableBytes(buf)
  /\ buf' = prepend(buf, data)
  /\ Queue!PutFront(data)
  /\ pushed' = pushed + Len(data)
  /\ UNCHANGED peak

ReadFd(data) ==
  /\ readableBytes(buf) + Len(data) <= MaxReadable
  /\ Len(data) <= ReadLimit(buf)
  /\ Becomes(readFd(buf, data), readableBytes(buf) + Len(data))
  /\ Queue!PutBack(data)
  /\ UNCHANGED pushed

Retrieve(len) ==
  /\ len <= readableBytes(buf)
  /\ buf' = retrieve(buf, len)
  /\ Queue!TakeFront(len)
  /\ pushed' = IF len = readableBytes(buf) THEN 0 ELSE Larger(pushed - len, 0)
  /\ UNCHANGED peak

RetrieveAll ==
  /\ Becomes(retrieveAll(buf), 0)
  /\ Queue!TakeFront(readableBytes(buf))
  /\ pushed' = 0

Unwrite(len) ==
  /\ len <= readableBytes(buf)
  /\ Becomes(unwrite(buf, len), 0)
  /\ Queue!DropBack(len)
  /\ UNCHANGED pushed

EnsureWritableBytes(len) ==
  /\ readableBytes(buf) + len <= MaxReadable
  /\ Becomes(ensureWritableBytes(buf, len), readableBytes(buf) + len)
  /\ Queue!Same
  /\ UNCHANGED pushed

Shrink(reserve) ==
  /\ readableBytes(buf) + reserve <= MaxReadable
  /\ Becomes(shrink(buf, reserve), readableBytes(buf) + reserve)
  /\ Queue!Same
  /\ pushed' = 0

Next ==
  \/ \E data \in Data : AppendData(data) \/ PrependData(data) \/ ReadFd(data)
  \/ \E len \in 1..MaxReadable : Retrieve(len) \/ Unwrite(len) \/ EnsureWritableBytes(len)
  \/ \E reserve \in 0..MaxReadable : Shrink(reserve)
  \/ RetrieveAll

Spec == Init /\ [][Next]_vars

-----------------------------------------------------------------------------
(* Properties.                                                               *)

\* makeSpace(), shrink() and readFd() with its second buffer move, copy and
\* split bytes, and indices wrap back when the buffer runs empty; what the
\* buffer holds is always the bytes put in and not yet taken, in their order.
ContentKept == Content(buf) = held

\* The room in front that users of prepend() count on: in a buffer nothing has
\* been prepended to there are kCheapPrepend bytes, and what was prepended is
\* all that can be missing.
RoomInFront == prependableBytes(buf) + pushed >= kCheapPrepend

\* The vector grows only as far as the content needs: a buffer through which
\* bytes are passed for ever stays below twice what it held at its fullest.
SizeBounded == Len(buf.buffer_) <= kCheapPrepend + 2 * peak

\* The integers at which the bytes of an intN_t change their number or sign.
Edges(width) ==
  {0, 1, 127, -1, -128}
    \cup (IF width > 1 THEN {128, 255, 256, 32767, -129, -256, -32768} ELSE {})
    \cup (IF width > 2 THEN {32768, 65536, 16777216, 2147483647, -32769, -2147483647} ELSE {})

\* peekInt*() reads what appendInt*() or prependInt*() has written, the sign
\* included, wherever in the vector it is.
IntsReadBack ==
  \A width \in {1, 2, 4} : \A x \in Edges(width) :
    /\ held = <<>> => peekInt(appendInt(buf, x, width), width) = x
    /\ prependableBytes(buf) >= width => peekInt(prependInt(buf, x, width), width) = x

\* The vector with its two indices is a queue of bytes with room in front.
BufferServes == ContentKept /\ RoomInFront /\ SizeBounded /\ IntsReadBack
=============================================================================
