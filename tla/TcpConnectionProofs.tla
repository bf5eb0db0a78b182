------------------------ MODULE TcpConnectionProofs ------------------------
(***************************************************************************)
(* Theorems about TcpConnection, for any set of threads and any number of  *)
(* messages, segments and calls: the stream reaches the peer in order, a   *)
(* shutdown flushes the output buffer, and, when the other threads only    *)
(* send, the variables keep their types and no assert fails.               *)
(***************************************************************************)
EXTENDS TcpConnection, SequenceTheorems, TLAPS

-----------------------------------------------------------------------------
(* Sequences.                                                                *)

\* Kept folded where sequences are joined, so that the provers need not search.
Associate(s, t, u) == (s \o t) \o u = s \o (t \o u)

LEMMA ConcatAssociates ==
  ASSUME NEW S
  PROVE  \A s, t, u \in Seq(S) : Associate(s, t, u)
  BY ConcatAssociative DEF Associate

\* A sequence cut in two is put together again.
LEMMA CutAndJoin ==
  ASSUME NEW S, NEW s \in Seq(S), NEW n \in 0..Len(s)
  PROVE  /\ SubSeq(s, 1, n) \in Seq(S)
         /\ SubSeq(s, n + 1, Len(s)) \in Seq(S)
         /\ SubSeq(s, 1, n) \o SubSeq(s, n + 1, Len(s)) = s
<1>1. /\ Len(s) \in Nat /\ \A i \in 1..Len(s) : s[i] \in S
  BY LenProperties, ElementOfSeq
<1>2. SubSeq(s, 1, n) \in Seq(S)
  BY <1>1, SubSeqProperties
<1>3. SubSeq(s, n + 1, Len(s)) \in Seq(S)
  BY <1>1, SubSeqProperties
<1>4. SubSeq(s, 1, n) \o SubSeq(s, n + 1, Len(s)) = SubSeq(s, 1, Len(s))
  <2>1. /\ 1 \in 1..(Len(s) + 1) /\ n \in (1 - 1)..Len(s) /\ Len(s) \in n..Len(s)
    BY <1>1
  <2> QED
    BY <2>1, ConcatAdjacentSubSeq, Zenon
<1> QED
  BY <1>2, <1>3, <1>4, SubSeqFull

\* Moving the first n elements of s to the end of got leaves the whole as it was.
LEMMA MoveFirst ==
  ASSUME NEW S, NEW got \in Seq(S), NEW s \in Seq(S), NEW n \in 0..Len(s)
  PROVE  /\ got \o SubSeq(s, 1, n) \in Seq(S)
         /\ SubSeq(s, n + 1, Len(s)) \in Seq(S)
         /\ (got \o SubSeq(s, 1, n)) \o SubSeq(s, n + 1, Len(s)) = got \o s
<1> DEFINE first == SubSeq(s, 1, n)
           last == SubSeq(s, n + 1, Len(s))
<1>1. first \in Seq(S) /\ last \in Seq(S)
  BY CutAndJoin
<1>2. first \o last = s
  BY CutAndJoin
<1> HIDE DEF first, last
<1>a. Associate(got, first, last)
  BY <1>1, ConcatAssociates, Zenon
<1>3. (got \o first) \o last = got \o (first \o last)
  BY <1>a, Zenon DEF Associate
<1>4. got \o first \in Seq(S)
  BY <1>1, ConcatProperties
<1> QED
  BY <1>1, <1>2, <1>3, <1>4 DEF first, last

\* IsPrefix() is true of what concatenation extends.
LEMMA ConcatIsPrefix ==
  ASSUME NEW S, NEW s \in Seq(S), NEW t \in Seq(S)
  PROVE  IsPrefix(s, s \o t)
<1>1. /\ Len(s) \in Nat /\ Len(t) \in Nat /\ Len(s \o t) = Len(s) + Len(t)
  BY LenProperties, ConcatProperties
<1>2. CASE s = <<>>
  <2>1. Len(s) = 0
    BY <1>2
  <2>2. SubSeq(s, 1, 0) = <<>> /\ SubSeq(s \o t, 1, 0) = <<>>
    BY SubSeqEmpty
  <2> QED
    BY <1>1, <2>1, <2>2 DEF IsPrefix
<1>3. CASE s # <<>>
  <2>1. Len(s) \in 1..Len(s) /\ 1 \in 1..Len(s)
    BY <1>1, <1>3, EmptySeq
  <2>2. SubSeq(s \o t, 1, Len(s)) = SubSeq(s, 1, Len(s))
    BY <2>1, SubSeqOfConcat1
  <2> QED
    BY <1>1, <2>2 DEF IsPrefix
<1> QED
  BY <1>2, <1>3

LEMMA MovePieces ==
  \A got, s \in Seq(Piece) : \A n \in 0..Len(s) :
    /\ got \o SubSeq(s, 1, n) \in Seq(Piece)
    /\ SubSeq(s, n + 1, Len(s)) \in Seq(Piece)
    /\ (got \o SubSeq(s, 1, n)) \o SubSeq(s, n + 1, Len(s)) = got \o s
  BY MoveFirst

LEMMA PiecesAssociate ==
  \A s, t, u \in Seq(Piece) : Associate(s, t, u)
  BY ConcatAssociates

LEMMA PiecesJoin ==
  \A s, t \in Seq(Piece) : s \o t \in Seq(Piece)
  BY ConcatProperties

LEMMA PiecesType ==
  ASSUME NEW m \in 1..MaxMessages
  PROVE  PiecesOf(m) \in Seq(Piece) /\ Len(PiecesOf(m)) = 2
  BY DEF PiecesOf, Piece

-----------------------------------------------------------------------------
(* The functors and messages there can be.                                   *)

Queues ==
  /\ pendingFunctors_ \in Seq(Functor)
  /\ functors \in Seq(Functor)
  /\ messages \in 0..MaxMessages

\* What a message callback queues.
LEMMA ForceCloses ==
  ASSUME NEW reaction, NEW S, [f |-> "forceCloseInLoop"] \in S
  PROVE  [i \in 1..(IF reaction = "forceClose" THEN 1 ELSE 2) |-> [f |-> "forceCloseInLoop"]]
           \in Seq(S)
<1>1. [i \in 1..1 |-> [f |-> "forceCloseInLoop"]] \in Seq(S)
  BY SeqDef
<1>2. [i \in 1..2 |-> [f |-> "forceCloseInLoop"]] \in Seq(S)
  BY SeqDef
<1> QED
  BY <1>1, <1>2

LEMMA QueuesInit == Init => Queues
  BY MaxMessagesAssumption, EmptySeq DEF Init, Queues

LEMMA QueuesStep == Queues /\ [Next]_vars => Queues'
<1> SUFFICES ASSUME Queues, [Next]_vars
             PROVE  Queues'
  OBVIOUS
<1> USE MaxMessagesAssumption DEF Queues
<1>0. /\ [f |-> "shutdownInLoop"] \in Functor /\ [f |-> "forceCloseInLoop"] \in Functor
      /\ [f |-> "connectDestroyed"] \in Functor
      /\ <<>> \in Seq(Functor)
  BY EmptySeq DEF Functor
<1>1. CASE NewConnection
  BY <1>0, <1>1 DEF NewConnection, counters
<1>2. ASSUME NEW r \in Reactions, HandleRead(r)
      PROVE  Queues'
  <2>1. pendingFunctors_ \o [i \in 1..(IF r = "forceClose" THEN 1 ELSE 2) |-> [f |-> "forceCloseInLoop"]]
          \in Seq(Functor)
    BY <1>0, ForceCloses, ConcatProperties
  <2>2. functors' = functors
    BY <1>2 DEF HandleRead
  <2>3. pendingFunctors_' \in Seq(Functor)
    BY <1>2, <2>1, Zenon DEF HandleRead, React
  <2>4. messages' = messages \/ (messages < MaxMessages /\ messages' = messages + 1)
    BY <1>2, Zenon DEF HandleRead, React
  <2> QED
    BY <2>2, <2>3, <2>4
<1>3. CASE PeerCloses
  BY <1>0, <1>3, AppendProperties DEF PeerCloses, Queue, counters
<1>4. CASE NothingToRead
  BY <1>4 DEF NothingToRead, counters
<1>5. ASSUME NEW n, HandleWrite(n)
      PROVE  Queues'
  BY <1>0, <1>5 DEF HandleWrite, BeginFunctors, counters
<1>6. CASE NothingWritten
  BY <1>0, <1>6 DEF NothingWritten, BeginFunctors, counters
<1>7. CASE RunFunctor
  <2>1. functors' \in Seq(Functor) /\ UNCHANGED messages
    BY <1>7, HeadTailProperties DEF RunFunctor, counters
  <2>2. Append(pendingFunctors_, [f |-> "connectDestroyed"]) \in Seq(Functor)
    BY <1>0, AppendProperties
  <2>3. pendingFunctors_' \in Seq(Functor)
    BY <1>7, <2>2, Zenon DEF RunFunctor, ForceCloseInLoop, Queue
  <2> QED
    BY <2>1, <2>3
<1>8. CASE EndFunctors
  BY <1>8 DEF EndFunctors, counters
<1>9. ASSUME NEW t \in Threads, ThreadStep(t)
      PROVE  Queues'
  <2>1. CASE QueueCall(t)
    <3>1. messages < MaxMessages => [f |-> "sendInLoop", m |-> messages + 1] \in Functor
      BY DEF Functor
    <3>2. /\ messages < MaxMessages =>
               Append(pendingFunctors_, [f |-> "sendInLoop", m |-> messages + 1]) \in Seq(Functor)
          /\ Append(pendingFunctors_, [f |-> "shutdownInLoop"]) \in Seq(Functor)
          /\ Append(pendingFunctors_, [f |-> "forceCloseInLoop"]) \in Seq(Functor)
      BY <1>0, <3>1, AppendProperties
    <3>3. functors' = functors /\ pendingFunctors_' \in Seq(Functor)
      BY <2>1, <3>2, Zenon DEF QueueCall, Queue
    <3>4. messages' = messages \/ (messages < MaxMessages /\ messages' = messages + 1)
      BY <2>1, Zenon DEF QueueCall
    <3> QED
      BY <3>3, <3>4
  <2>2. CASE ~QueueCall(t)
    BY <1>9, <2>2 DEF ThreadStep, TestState, SetDisconnecting, DropHandler, loopVars, counters
  <2> QED
    BY <2>1, <2>2
<1>10. CASE UNCHANGED vars
  BY <1>10 DEF vars, loopVars, counters
<1> QED
  BY <1>1, <1>2, <1>3, <1>4, <1>5, <1>6, <1>7, <1>8, <1>9, <1>10 DEF Next, LoopStep, PeerStep

-----------------------------------------------------------------------------
(* The stream.                                                               *)

\* StreamInOrder in the form the proof goes through: what the kernel has not taken
\* is some rest of what was accepted, and exactly the buffer while the connection
\* is good.
StreamInv ==
  /\ peerGot \in Seq(Piece) /\ outputBuffer_ \in Seq(Piece) /\ accepted \in Seq(Piece)
  /\ \E rest \in Seq(Piece) : peerGot \o rest = accepted
  /\ ~broken /\ ~writeShut => peerGot \o outputBuffer_ = accepted

LEMMA StreamInit == Init => StreamInv
<1> SUFFICES ASSUME Init PROVE StreamInv
  OBVIOUS
<1>1. <<>> \in Seq(Piece) /\ <<>> \o <<>> = <<>>
  BY EmptySeq, ConcatEmptySeq
<1> QED
  BY <1>1 DEF Init, StreamInv

\* The kernel takes the first n pieces of the buffer.
LEMMA StreamWritten ==
  ASSUME StreamInv, NEW n \in 0..Len(outputBuffer_), KernelTakes(outputBuffer_, n),
         outputBuffer_' = SubSeq(outputBuffer_, n + 1, Len(outputBuffer_)), UNCHANGED accepted
  PROVE  StreamInv'
<1>1. peerGot \in Seq(Piece) /\ outputBuffer_ \in Seq(Piece) /\ accepted \in Seq(Piece)
  BY DEF StreamInv
<1>2. peerGot \o outputBuffer_ = accepted
  BY DEF StreamInv, KernelTakes
<1>3. /\ peerGot' \in Seq(Piece) /\ outputBuffer_' \in Seq(Piece)
      /\ peerGot' \o outputBuffer_' = peerGot \o outputBuffer_
  <2>1. /\ peerGot \o SubSeq(outputBuffer_, 1, n) \in Seq(Piece)
        /\ SubSeq(outputBuffer_, n + 1, Len(outputBuffer_)) \in Seq(Piece)
        /\ (peerGot \o SubSeq(outputBuffer_, 1, n))
             \o SubSeq(outputBuffer_, n + 1, Len(outputBuffer_)) = peerGot \o outputBuffer_
    BY <1>1, MovePieces, Zenon
  <2>2. peerGot' = peerGot \o SubSeq(outputBuffer_, 1, n)
    BY DEF KernelTakes
  <2> QED
    BY <2>1, <2>2
<1> QED
  BY <1>1, <1>2, <1>3 DEF StreamInv

\* sendInLoop(), in the loop thread or from the queue.
LEMMA StreamSent ==
  ASSUME StreamInv, NEW m \in 1..MaxMessages, SendInLoop(m), UNCHANGED writeShut
  PROVE  StreamInv'
<1> DEFINE pieces == PiecesOf(m)
<1>1. pieces \in Seq(Piece)
  BY PiecesType
<1>L. Len(pieces) = 2
  BY PiecesType
<1>2. PICK rest \in Seq(Piece) : peerGot \o rest = accepted
  BY DEF StreamInv
<1>3. /\ peerGot \in Seq(Piece) /\ outputBuffer_ \in Seq(Piece) /\ accepted \in Seq(Piece)
  BY DEF StreamInv
<1>0. ~broken /\ ~writeShut => peerGot \o outputBuffer_ = accepted
  BY DEF StreamInv
<1>4. /\ accepted \o pieces \in Seq(Piece) /\ rest \o pieces \in Seq(Piece)
      /\ outputBuffer_ \o pieces \in Seq(Piece)
      /\ peerGot \o (rest \o pieces) = accepted \o pieces
      /\ peerGot \o (outputBuffer_ \o pieces) = (peerGot \o outputBuffer_) \o pieces
  <2> HIDE DEF pieces
  <2>1. Associate(peerGot, rest, pieces) /\ Associate(peerGot, outputBuffer_, pieces)
    BY <1>1, <1>3, PiecesAssociate, Zenon
  <2>2. /\ (peerGot \o rest) \o pieces = peerGot \o (rest \o pieces)
        /\ (peerGot \o outputBuffer_) \o pieces = peerGot \o (outputBuffer_ \o pieces)
    BY <2>1, Zenon DEF Associate
  <2>3. /\ accepted \o pieces \in Seq(Piece) /\ rest \o pieces \in Seq(Piece)
        /\ outputBuffer_ \o pieces \in Seq(Piece)
    BY <1>1, <1>3, PiecesJoin, Zenon
  <2> QED
    BY <1>2, <2>2, <2>3
<1> HIDE DEF pieces
<1>5. CASE UNCHANGED <<outputBuffer_, peerGot, broken, accepted>>
  BY <1>5 DEF StreamInv
<1>6. ASSUME NEW n \in 0..2, KernelTakes(pieces, n), outputBuffer_ = <<>>,
             outputBuffer_' = SubSeq(pieces, n + 1, 2), accepted' = accepted \o pieces
      PROVE  StreamInv'
  <2>1. peerGot = accepted
    BY <1>0, <1>3, <1>6, ConcatEmptySeq DEF KernelTakes
  <2>2. /\ peerGot' \in Seq(Piece) /\ outputBuffer_' \in Seq(Piece)
        /\ peerGot' \o outputBuffer_' = peerGot \o pieces
    <3>1. n \in 0..Len(pieces)
      BY <1>L
    <3>2. /\ peerGot \o SubSeq(pieces, 1, n) \in Seq(Piece)
          /\ SubSeq(pieces, n + 1, Len(pieces)) \in Seq(Piece)
          /\ (peerGot \o SubSeq(pieces, 1, n)) \o SubSeq(pieces, n + 1, Len(pieces))
               = peerGot \o pieces
      BY <1>1, <1>3, <3>1, MovePieces, Zenon
    <3>3. peerGot' = peerGot \o SubSeq(pieces, 1, n)
      BY <1>6 DEF KernelTakes
    <3>4. outputBuffer_' = SubSeq(pieces, n + 1, Len(pieces))
      BY <1>6, <1>L
    <3> QED
      BY <3>2, <3>3, <3>4
  <2> QED
    BY <1>4, <1>6, <2>1, <2>2 DEF StreamInv
<1>7. ASSUME WriteFails, UNCHANGED outputBuffer_, accepted' = accepted \o pieces
      PROVE  StreamInv'
  BY <1>0, <1>3, <1>4, <1>7 DEF StreamInv, WriteFails
<1>8. ASSUME outputBuffer_' = outputBuffer_ \o pieces, accepted' = accepted \o pieces,
             UNCHANGED <<peerGot, broken>>
      PROVE  StreamInv'
  BY <1>0, <1>3, <1>4, <1>8 DEF StreamInv
<1> QED
  BY <1>5, <1>6, <1>7, <1>8 DEF SendInLoop, pieces

LEMMA ShutsOnly == ShutdownInLoop => (writeShut => writeShut')
  BY Zenon DEF ShutdownInLoop

LEMMA StreamStep == Queues /\ StreamInv /\ [Next]_vars => StreamInv'
<1> SUFFICES ASSUME Queues, StreamInv, [Next]_vars
             PROVE  StreamInv'
  OBVIOUS
<1>0. ASSUME UNCHANGED <<outputBuffer_, peerGot, accepted>>,
             broken => broken', writeShut => writeShut'
      PROVE  StreamInv'
  BY <1>0 DEF StreamInv
<1>1. CASE NewConnection
  BY <1>0, <1>1 DEF NewConnection
<1>2. ASSUME NEW r \in Reactions, HandleRead(r)
      PROVE  StreamInv'
  <2>1. CASE r = "send" /\ state_ = "kConnected"
    <3>1. messages + 1 \in 1..MaxMessages
      BY <1>2, <2>1, MaxMessagesAssumption DEF HandleRead, React, Queues
    <3>2. SendInLoop(messages + 1) /\ UNCHANGED writeShut
      BY <1>2, <2>1 DEF HandleRead, React
    <3> QED
      BY <3>1, <3>2, StreamSent, Zenon
  <2>2. CASE ~(r = "send" /\ state_ = "kConnected")
    <3>1. CASE r = "shutdown"
      <4>1. ShutdownInLoop /\ UNCHANGED <<outputBuffer_, peerGot, broken, accepted>>
        BY <1>2, <3>1 DEF HandleRead, React
      <4> QED
        BY <1>0, <4>1, ShutsOnly, Zenon
    <3>2. CASE r # "shutdown"
      <4>1. UNCHANGED <<outputBuffer_, peerGot, writeShut, broken, accepted>>
        BY <1>2, <2>2, <3>2 DEF HandleRead, React, connVars
      <4> QED
        BY <1>0, <4>1
    <3> QED
      BY <3>1, <3>2
  <2> QED
    BY <2>1, <2>2
<1>3. CASE PeerCloses
  BY <1>0, <1>3 DEF PeerCloses
<1>4. CASE NothingToRead
  BY <1>0, <1>4 DEF NothingToRead, connVars
<1>5. ASSUME NEW n \in 1..Len(outputBuffer_), HandleWrite(n)
      PROVE  StreamInv'
  <2>1. n \in 0..Len(outputBuffer_)
    BY LenProperties DEF StreamInv
  <2> QED
    BY <1>5, <2>1, StreamWritten DEF HandleWrite
<1>6. CASE NothingWritten
  BY <1>0, <1>6 DEF NothingWritten
<1>7. CASE RunFunctor
  <2>1. CASE Head(functors).f = "sendInLoop"
    <3>1. Head(functors) \in Functor
      BY <1>7, HeadTailProperties DEF RunFunctor, Queues
    <3>2. Head(functors).m \in 1..MaxMessages
      BY <2>1, <3>1 DEF Functor
    <3>3. SendInLoop(Head(functors).m) /\ UNCHANGED writeShut
      BY <1>7, <2>1 DEF RunFunctor
    <3> QED
      BY <3>2, <3>3, StreamSent, Zenon
  <2>2. CASE Head(functors).f # "sendInLoop"
    <3>1. CASE Head(functors).f = "shutdownInLoop"
      <4>1. ShutdownInLoop /\ UNCHANGED <<outputBuffer_, peerGot, broken, accepted>>
        BY <1>7, <3>1 DEF RunFunctor
      <4> QED
        BY <1>0, <4>1, ShutsOnly, Zenon
    <3>2. CASE Head(functors).f # "shutdownInLoop"
      BY <1>0, <1>7, <2>2, <3>2 DEF RunFunctor
    <3> QED
      BY <3>1, <3>2
  <2> QED
    BY <2>1, <2>2
<1>8. CASE EndFunctors
  BY <1>0, <1>8 DEF EndFunctors, connVars
<1>9. ASSUME NEW t \in Threads, ThreadStep(t)
      PROVE  StreamInv'
  BY <1>0, <1>9 DEF ThreadStep, TestState, SetDisconnecting, QueueCall, DropHandler, connVars
<1>10. CASE UNCHANGED vars
  BY <1>0, <1>10 DEF vars, connVars
<1> QED
  BY <1>1, <1>2, <1>3, <1>4, <1>5, <1>6, <1>7, <1>8, <1>9, <1>10 DEF Next, LoopStep, PeerStep

\* Whatever the threads, the peer and the kernel do, the peer gets a prefix of what
\* sendInLoop() took on, in order, and the output buffer has the rest.
THEOREM StreamStaysInOrder == Spec => []StreamInOrder
<1>1. Init => Queues /\ StreamInv
  BY QueuesInit, StreamInit
<1>2. Queues /\ StreamInv /\ [Next]_vars => (Queues /\ StreamInv)'
  BY QueuesStep, StreamStep
<1>3. StreamInv => StreamInOrder
  BY ConcatIsPrefix DEF StreamInv, StreamInOrder
<1> QED
  BY <1>1, <1>2, <1>3, PTL DEF Spec

-----------------------------------------------------------------------------
(* Shutdown.                                                                 *)

\* A connection that still waits for events writes as long as its buffer holds
\* anything; before it is established there is nothing at all.
FlushInv ==
  /\ writing \in BOOLEAN
  /\ watching /\ ~writing => outputBuffer_ = <<>>
  /\ state_ = "kConnecting" =>
       /\ outputBuffer_ = <<>> /\ functors = <<>> /\ pendingFunctors_ = <<>>
       /\ ~watching
       /\ \A t \in Threads : ~holds[t] /\ call[t].op = "none"

LEMMA FlushInit == Init => FlushInv
<1> SUFFICES ASSUME Init PROVE FlushInv
  OBVIOUS
<1>1. \A t \in Threads : ~holds[t] /\ call[t].op = "none"
  BY DEF Init
<1> QED
  BY <1>1, Zenon DEF Init, FlushInv

LEMMA FlushSent ==
  ASSUME NEW m, FlushInv, SendInLoop(m), UNCHANGED watching
  PROVE  writing' \in BOOLEAN /\ (watching' /\ ~writing' => outputBuffer_' = <<>>)
<1>1. CASE UNCHANGED <<writing, outputBuffer_>>
  BY <1>1 DEF FlushInv
<1>2. ASSUME NEW n \in 0..2, outputBuffer_' = SubSeq(PiecesOf(m), n + 1, 2), writing' = (n < 2)
      PROVE  writing' \in BOOLEAN /\ (watching' /\ ~writing' => outputBuffer_' = <<>>)
  <2>1. CASE n < 2
    BY <1>2, <2>1
  <2>2. CASE n = 2
    BY <1>2, <2>2, SubSeqEmpty
  <2> QED
    BY <2>1, <2>2
<1>3. CASE writing' = TRUE
  BY <1>3
<1> QED
  BY <1>1, <1>2, <1>3 DEF SendInLoop

LEMMA FlushStep == FlushInv /\ [Next]_vars => FlushInv'
<1> SUFFICES ASSUME FlushInv, [Next]_vars
             PROVE  FlushInv'
  OBVIOUS
<1>1. CASE NewConnection
  BY <1>1 DEF NewConnection, FlushInv
<1>2. ASSUME NEW r \in Reactions, HandleRead(r)
      PROVE  FlushInv'
  <2>1. watching /\ state_ # "kConnecting"
    BY <1>2 DEF HandleRead, FlushInv
  <2>2. UNCHANGED watching /\ state_' # "kConnecting"
    BY <1>2, <2>1 DEF HandleRead, React, connVars
  <2>3. CASE UNCHANGED <<writing, outputBuffer_>>
    BY <2>2, <2>3 DEF FlushInv
  <2>4. CASE SendInLoop(messages + 1)
    BY <2>2, <2>4, FlushSent DEF FlushInv
  <2> QED
    BY <1>2, <2>3, <2>4 DEF HandleRead, React, connVars
<1>3. CASE PeerCloses
  BY <1>3 DEF PeerCloses, HandleClose, FlushInv
<1>4. CASE NothingToRead
  BY <1>4 DEF NothingToRead, FlushInv, connVars, threadVars
<1>5. ASSUME NEW n \in 1..Len(outputBuffer_), HandleWrite(n)
      PROVE  FlushInv'
  <2>1. state_' # "kConnecting"
    BY <1>5 DEF HandleWrite, FlushInv
  <2>2. writing' \in BOOLEAN /\ (~writing' => outputBuffer_' = <<>>)
    BY <1>5, Zenon DEF HandleWrite
  <2> QED
    BY <2>1, <2>2, Zenon DEF FlushInv
<1>6. CASE NothingWritten
  BY <1>6 DEF NothingWritten, BeginFunctors, FlushInv, threadVars
<1>7. CASE RunFunctor
  <2>1. state_ # "kConnecting"
    BY <1>7 DEF RunFunctor, FlushInv
  <2>2. CASE Head(functors).f = "sendInLoop"
    <3>1. SendInLoop(Head(functors).m) /\ UNCHANGED <<state_, watching>>
      BY <1>7, <2>2 DEF RunFunctor
    <3> QED
      BY <2>1, <3>1, FlushSent DEF FlushInv
  <2>3. CASE Head(functors).f # "sendInLoop"
    <3>1. state_' # "kConnecting" /\ UNCHANGED outputBuffer_
      BY <1>7, <2>1, <2>3 DEF RunFunctor, ForceCloseInLoop, HandleClose, ConnectDestroyed
    <3>2. UNCHANGED <<watching, writing>> \/ (watching' = FALSE /\ writing' = FALSE)
      BY <1>7, <2>3 DEF RunFunctor, ForceCloseInLoop, HandleClose, ConnectDestroyed
    <3>3. CASE UNCHANGED <<watching, writing>>
      BY <3>1, <3>3 DEF FlushInv
    <3>4. CASE watching' = FALSE /\ writing' = FALSE
      BY <3>1, <3>4 DEF FlushInv
    <3> QED
      BY <3>2, <3>3, <3>4
  <2> QED
    BY <2>2, <2>3
<1>8. CASE EndFunctors
  BY <1>8 DEF EndFunctors, FlushInv, connVars, threadVars
<1>9. ASSUME NEW t \in Threads, ThreadStep(t)
      PROVE  FlushInv'
  <2>1. state_ # "kConnecting"
    BY <1>9 DEF ThreadStep, TestState, SetDisconnecting, QueueCall, DropHandler, FlushInv
  <2>2. state_' # "kConnecting" /\ UNCHANGED <<watching, writing, outputBuffer_>>
    BY <1>9, <2>1 DEF ThreadStep, TestState, SetDisconnecting, QueueCall, DropHandler, connVars
  <2> QED
    BY <2>2 DEF FlushInv
<1>10. CASE UNCHANGED vars
  BY <1>10 DEF vars, FlushInv, connVars, loopVars, threadVars
<1> QED
  BY <1>1, <1>2, <1>3, <1>4, <1>5, <1>6, <1>7, <1>8, <1>9, <1>10 DEF Next, LoopStep, PeerStep

\* A connection that has not been closed shuts its write side down only with an empty
\* output buffer, whether shutdownInLoop() or handleWrite() does it.
THEOREM ShutdownFlushesBuffer == Spec => ShutdownFlushes
<1>1. FlushInv /\ [Next]_vars => [watching /\ ~writeShut /\ writeShut' => outputBuffer_' = <<>>]_vars
  <2> SUFFICES ASSUME FlushInv, Next, watching, ~writeShut, writeShut'
               PROVE  outputBuffer_' = <<>>
    OBVIOUS
  <2>1. ASSUME ShutdownInLoop, UNCHANGED outputBuffer_
        PROVE  outputBuffer_' = <<>>
    <3>1. ~writing
      BY <2>1, Zenon DEF ShutdownInLoop
    <3> QED
      BY <2>1, <3>1 DEF FlushInv
  <2>2. ASSUME NEW r \in Reactions, HandleRead(r)
        PROVE  outputBuffer_' = <<>>
    <3>1. CASE r = "shutdown"
      BY <2>1, <2>2, <3>1 DEF HandleRead, React
    <3>2. CASE r # "shutdown"
      BY <2>2, <3>2 DEF HandleRead, React, connVars
    <3> QED
      BY <3>1, <3>2
  <2>3. ASSUME NEW n \in 1..Len(outputBuffer_), HandleWrite(n)
        PROVE  outputBuffer_' = <<>>
    BY <2>3 DEF HandleWrite
  <2>4. CASE RunFunctor
    <3>1. CASE Head(functors).f = "shutdownInLoop"
      BY <2>1, <2>4, <3>1 DEF RunFunctor
    <3>2. CASE Head(functors).f # "shutdownInLoop"
      BY <2>4, <3>2 DEF RunFunctor
    <3> QED
      BY <3>1, <3>2
  <2>5. ASSUME NEW t \in Threads, ThreadStep(t)
        PROVE  outputBuffer_' = <<>>
    BY <2>5 DEF ThreadStep, TestState, SetDisconnecting, QueueCall, DropHandler, connVars
  <2>6. CASE NewConnection \/ PeerCloses \/ NothingToRead \/ NothingWritten \/ EndFunctors
    BY <2>6 DEF NewConnection, PeerCloses, NothingToRead, NothingWritten, EndFunctors, connVars
  <2> QED
    BY <2>2, <2>3, <2>4, <2>5, <2>6 DEF Next, LoopStep, PeerStep
<1> QED
  BY <1>1, FlushInit, FlushStep, PTL DEF Spec, ShutdownFlushes

-----------------------------------------------------------------------------
(* Closing, when the other threads only send.                                *)

OpenStates == {"kConnected", "kDisconnecting"}

\* The functors there may be before the connection is closed.
OpenFunctor == {functor \in Functor : functor.f # "connectDestroyed"}

\* state_, connections_, the channel and what the application has heard agree, and
\* connectDestroyed is queued only for a connection that is down.
CloseInv ==
  /\ loopPc \in {"poll", "write", "polled", "functors"}
  /\ state_ \in OpenStates \cup {"kConnecting", "kDisconnected"}
  /\ connections_ = (state_ \in OpenStates)
  /\ watching = (state_ \in OpenStates)
  /\ downs = IF state_ = "kDisconnected" THEN 1 ELSE 0
  /\ state_ # "kDisconnected" =>
       functors \in Seq(OpenFunctor) /\ pendingFunctors_ \in Seq(OpenFunctor)
  /\ call \in [Threads -> Calls]
  /\ \A t \in Threads : call[t].op # "none" => call[t].op = "send" /\ call[t].at = "set"

LEMMA CloseInit == Init => CloseInv
<1> SUFFICES ASSUME Init PROVE CloseInv
  OBVIOUS
<1>1. <<>> \in Seq(OpenFunctor)
  BY EmptySeq
<1>2. call \in [Threads -> Calls] /\ \A t \in Threads : call[t].op = "none"
  BY DEF Init, Calls
<1>n. (state_ \in OpenStates) = FALSE
  BY DEF Init, OpenStates
<1>f. connections_ = FALSE /\ watching = FALSE
  BY DEF Init
<1>3. /\ connections_ = (state_ \in OpenStates) /\ watching = (state_ \in OpenStates)
  BY <1>n, <1>f, Zenon
<1> QED
  BY <1>1, <1>2, <1>3 DEF Init, CloseInv

\* handleClose() of an open connection.
LEMMA CloseClosed ==
  ASSUME CloseInv, state_ \in OpenStates, HandleClose, loopPc' # "abort",
         loopPc' \in {"poll", "write", "polled", "functors"}, UNCHANGED call
  PROVE  CloseInv'
<1>n. (state_' \in OpenStates) = FALSE
  BY DEF HandleClose, OpenStates
<1>f. connections_' = FALSE /\ watching' = FALSE
  BY DEF HandleClose
<1>1. /\ connections_' = (state_' \in OpenStates) /\ watching' = (state_' \in OpenStates)
  BY <1>n, <1>f, Zenon
<1> QED
  BY <1>1 DEF HandleClose, CloseInv, OpenStates

LEMMA CloseStep == Queues /\ CloseInv /\ [Next]_vars /\ ThreadCalls \subseteq {"send"} => CloseInv'
<1> SUFFICES ASSUME Queues, CloseInv, [Next]_vars, ThreadCalls \subseteq {"send"}
             PROVE  CloseInv'
  OBVIOUS
<1>e. <<>> \in Seq(OpenFunctor)
  BY EmptySeq
<1>0. ASSUME UNCHANGED <<state_, connections_, watching, downs, call>>,
             loopPc' \in {"poll", "write", "polled", "functors"},
             state_ # "kDisconnected" =>
               functors' \in Seq(OpenFunctor) /\ pendingFunctors_' \in Seq(OpenFunctor)
      PROVE  CloseInv'
  BY <1>0 DEF CloseInv
<1>1. CASE NewConnection
  <2>1. connections_' = (state_' \in OpenStates) /\ watching' = (state_' \in OpenStates)
    BY <1>1 DEF NewConnection, OpenStates
  <2> QED
    BY <1>e, <1>1, <2>1 DEF NewConnection, CloseInv, OpenStates
<1>2. ASSUME NEW r \in Reactions, HandleRead(r)
      PROVE  CloseInv'
  <2>1. state_ \in OpenStates /\ state_' \in OpenStates
    BY <1>2 DEF HandleRead, React, CloseInv, connVars, OpenStates
  <2>2. UNCHANGED <<connections_, watching, downs, call, functors>>
    BY <1>2 DEF HandleRead, React, connVars, serverVars, threadVars
  <2>3. loopPc' \in {"poll", "write", "polled", "functors"}
    BY <1>2 DEF HandleRead, AfterRead
  <2>4. pendingFunctors_' \in Seq(OpenFunctor)
    <3>1. [f |-> "forceCloseInLoop"] \in OpenFunctor
      BY DEF OpenFunctor, Functor
    <3>2. pendingFunctors_ \in Seq(OpenFunctor)
      BY <2>1 DEF CloseInv, OpenStates
    <3>3. pendingFunctors_ \o [i \in 1..(IF r = "forceClose" THEN 1 ELSE 2) |-> [f |-> "forceCloseInLoop"]]
            \in Seq(OpenFunctor)
      BY <3>1, <3>2, ForceCloses, ConcatProperties
    <3> QED
      BY <1>2, <3>2, <3>3, Zenon DEF HandleRead, React
  <2> QED
    BY <2>1, <2>2, <2>3, <2>4 DEF CloseInv, OpenStates
<1>3. CASE PeerCloses
  <2>1. state_ \in OpenStates /\ connections_
    BY <1>3 DEF PeerCloses, CloseInv
  <2>2. loopPc' \in {"poll", "write", "polled", "functors"}
    BY <1>3, <2>1 DEF PeerCloses, AfterClose, AfterRead, OpenStates
  <2> QED
    BY <1>3, <2>1, <2>2, CloseClosed DEF PeerCloses, threadVars
<1>4. CASE NothingToRead
  BY <1>0, <1>4 DEF NothingToRead, AfterRead, CloseInv, connVars, serverVars, threadVars
<1>5. ASSUME NEW n \in 1..Len(outputBuffer_), HandleWrite(n)
      PROVE  CloseInv'
  BY <1>0, <1>e, <1>5 DEF HandleWrite, BeginFunctors, CloseInv, serverVars, threadVars
<1>6. CASE NothingWritten
  BY <1>0, <1>e, <1>6 DEF NothingWritten, BeginFunctors, CloseInv, serverVars, threadVars
<1>7. CASE RunFunctor
  <2>1. UNCHANGED call /\ loopPc = "functors"
    BY <1>7 DEF RunFunctor, threadVars
  <2>2. ASSUME state_ # "kDisconnected"
        PROVE  /\ Head(functors) \in OpenFunctor
               /\ functors' \in Seq(OpenFunctor) /\ pendingFunctors_ \in Seq(OpenFunctor)
    BY <1>7, <2>2, HeadTailProperties DEF RunFunctor, CloseInv
  <2>3. CASE Head(functors).f \in {"sendInLoop", "shutdownInLoop"}
    BY <1>0, <1>7, <2>1, <2>2, <2>3 DEF RunFunctor, serverVars
  <2>4. CASE Head(functors).f = "forceCloseInLoop"
    <3>1. ForceCloseInLoop
      BY <1>7, <2>4 DEF RunFunctor
    <3>2. CASE state_ \in OpenStates
      <4>1. HandleClose /\ AfterClose(loopPc)
        BY <3>1, <3>2 DEF ForceCloseInLoop, OpenStates
      <4>2. loopPc' = "functors"
        BY <2>1, <3>2, <4>1 DEF AfterClose, CloseInv, OpenStates
      <4> QED
        BY <2>1, <3>2, <4>1, <4>2, CloseClosed
    <3>3. CASE state_ \notin OpenStates
      BY <1>0, <2>1, <2>2, <3>1, <3>3 DEF ForceCloseInLoop, OpenStates
    <3> QED
      BY <3>2, <3>3
  <2>5. CASE Head(functors).f = "connectDestroyed"
    <3>1. state_ = "kDisconnected"
      BY <2>2, <2>5 DEF OpenFunctor
    <3>2. ~watching
      BY <3>1 DEF CloseInv, OpenStates
    <3>3. UNCHANGED <<state_, watching, downs, connections_, loopPc>>
      BY <1>7, <2>5, <3>1, <3>2 DEF RunFunctor, ConnectDestroyed
    <3> QED
      BY <1>0, <2>1, <3>1, <3>3
  <2> QED
    BY <1>7, <2>3, <2>4, <2>5 DEF RunFunctor
<1>8. CASE EndFunctors
  BY <1>0, <1>8 DEF EndFunctors, CloseInv, connVars, serverVars, threadVars
<1>9. ASSUME NEW t \in Threads, ThreadStep(t)
      PROVE  CloseInv'
  <2>1. ASSUME NEW op \in ThreadCalls, TestState(t, op)
        PROVE  CloseInv'
    <3>1. op = "send"
      BY <2>1
    <3>2. call' = [call EXCEPT ![t] = [op |-> "send", at |-> "set"]]
      BY <2>1, <3>1 DEF TestState
    <3>3. [op |-> "send", at |-> "set"] \in Calls
      BY <2>1, <3>1 DEF Calls
    <3>4. UNCHANGED <<state_, connections_, watching, downs, loopPc, functors, pendingFunctors_>>
      BY <2>1 DEF TestState, connVars, serverVars, loopVars
    <3>5. call' \in [Threads -> Calls]
      BY <3>2, <3>3 DEF CloseInv
    <3>6. \A u \in Threads : call'[u].op # "none" => call'[u].op = "send" /\ call'[u].at = "set"
      BY <3>2 DEF CloseInv
    <3> QED
      BY <3>4, <3>5, <3>6 DEF CloseInv
  <2>2. ~SetDisconnecting(t)
    BY DEF SetDisconnecting, CloseInv
  <2>3. CASE QueueCall(t)
    <3>1. call[t].op = "send"
      BY <2>3 DEF QueueCall, CloseInv
    <3>2. /\ messages < MaxMessages
          /\ pendingFunctors_' = Append(pendingFunctors_, [f |-> "sendInLoop", m |-> messages + 1])
      BY <2>3, <3>1 DEF QueueCall, Queue
    <3>3. [f |-> "sendInLoop", m |-> messages + 1] \in OpenFunctor
      BY <3>2, MaxMessagesAssumption DEF OpenFunctor, Functor, Queues
    <3>4. state_ # "kDisconnected" => pendingFunctors_' \in Seq(OpenFunctor)
      BY <3>2, <3>3, AppendProperties DEF CloseInv
    <3>5. call' = [call EXCEPT ![t] = [op |-> "none"]] /\ [op |-> "none"] \in Calls
      BY <2>3 DEF QueueCall, Calls
    <3>6. UNCHANGED <<state_, connections_, watching, downs, loopPc, functors>>
      BY <2>3 DEF QueueCall, connVars, serverVars
    <3>7. call' \in [Threads -> Calls]
      BY <3>5 DEF CloseInv
    <3>8. \A u \in Threads : call'[u].op # "none" => call'[u].op = "send" /\ call'[u].at = "set"
      BY <3>5 DEF CloseInv
    <3> QED
      BY <3>4, <3>6, <3>7, <3>8 DEF CloseInv
  <2>4. CASE DropHandler(t)
    BY <1>0, <2>4 DEF DropHandler, CloseInv, connVars, serverVars, loopVars
  <2> QED
    BY <1>9, <2>1, <2>2, <2>3, <2>4 DEF ThreadStep
<1>10. CASE UNCHANGED vars
  BY <1>0, <1>10 DEF vars, CloseInv, connVars, serverVars, loopVars, threadVars
<1> QED
  BY <1>1, <1>2, <1>3, <1>4, <1>5, <1>6, <1>7, <1>8, <1>9, <1>10 DEF Next, LoopStep, PeerStep

\* When the other threads only send, the asserts of handleClose(),
\* removeConnectionInLoop() and Channel::remove() hold, whatever closes the connection
\* and however often.
THEOREM AssertsNeverFail ==
  ASSUME ThreadCalls \subseteq {"send"}
  PROVE  Spec => []AssertsHold
<1>1. Init => Queues /\ CloseInv
  BY QueuesInit, CloseInit
<1>2. Queues /\ CloseInv /\ [Next]_vars => (Queues /\ CloseInv)'
  BY QueuesStep, CloseStep
<1>3. CloseInv => AssertsHold
  BY DEF CloseInv, AssertsHold
<1> QED
  BY <1>1, <1>2, <1>3, PTL DEF Spec

-----------------------------------------------------------------------------
(* The types of the other variables, and the handler that is kept.           *)

RestInv ==
  /\ handler_map_ \in BOOLEAN
  /\ holds \in [Threads -> BOOLEAN]
  /\ writeShut \in BOOLEAN
  /\ broken \in BOOLEAN
  /\ reads \in 0..MaxReads
  /\ closeCalls \in 0..MaxCloseCalls

LEMMA RestInit == Init => RestInv
<1> SUFFICES ASSUME Init PROVE RestInv
  OBVIOUS
<1>1. reads \in 0..MaxReads /\ closeCalls \in 0..MaxCloseCalls
  BY MaxReadsAssumption, MaxCloseCallsAssumption DEF Init
<1>2. holds \in [Threads -> BOOLEAN]
  BY DEF Init
<1>3. handler_map_ \in BOOLEAN /\ writeShut \in BOOLEAN /\ broken \in BOOLEAN
  BY Zenon DEF Init
<1> QED
  BY <1>1, <1>2, <1>3 DEF RestInv

LEMMA RestStep == RestInv /\ [Next]_vars => RestInv'
<1> SUFFICES ASSUME RestInv, [Next]_vars
             PROVE  RestInv'
  OBVIOUS
<1> USE MaxReadsAssumption, MaxCloseCallsAssumption
<1>s. ASSUME NEW m, SendInLoop(m)
      PROVE  broken' \in BOOLEAN
  BY <1>s, Zenon DEF SendInLoop, KernelTakes, WriteFails, RestInv
<1>d. ASSUME ShutdownInLoop
      PROVE  writeShut' \in BOOLEAN
  BY <1>d, Zenon DEF ShutdownInLoop
<1>0. ASSUME UNCHANGED <<handler_map_, holds, reads, closeCalls>>,
             writeShut' \in BOOLEAN, broken' \in BOOLEAN
      PROVE  RestInv'
  BY <1>0 DEF RestInv
<1>1. CASE NewConnection
  <2>1. handler_map_' \in BOOLEAN
    BY <1>1, Zenon DEF NewConnection
  <2>2. holds' \in [Threads -> BOOLEAN]
    BY <1>1 DEF NewConnection
  <2>3. UNCHANGED <<writeShut, broken, reads, closeCalls>>
    BY <1>1 DEF NewConnection, counters
  <2> QED
    BY <2>1, <2>2, <2>3 DEF RestInv
<1>2. ASSUME NEW r \in Reactions, HandleRead(r)
      PROVE  RestInv'
  <2>1. UNCHANGED <<handler_map_, holds, closeCalls>>
    BY <1>2 DEF HandleRead, serverVars, threadVars
  <2>2. reads' \in 0..MaxReads
    BY <1>2 DEF HandleRead, RestInv
  <2>3. broken' \in BOOLEAN
    BY <1>2, <1>s, Zenon DEF HandleRead, React, connVars, RestInv
  <2>4. writeShut' \in BOOLEAN
    BY <1>2, <1>d, Zenon DEF HandleRead, React, connVars, RestInv
  <2> QED
    BY <2>1, <2>2, <2>3, <2>4 DEF RestInv
<1>3. CASE PeerCloses
  BY <1>0, <1>3 DEF PeerCloses, HandleClose, OnClose, RestInv, threadVars, counters
<1>4. CASE NothingToRead
  BY <1>0, <1>4 DEF NothingToRead, RestInv, connVars, serverVars, threadVars, counters
<1>5. ASSUME NEW n \in 1..Len(outputBuffer_), HandleWrite(n)
      PROVE  RestInv'
  <2>1. UNCHANGED <<handler_map_, holds, reads, closeCalls>>
    BY <1>5 DEF HandleWrite, BeginFunctors, serverVars, threadVars, counters
  <2>2. broken' \in BOOLEAN /\ writeShut' \in BOOLEAN
    BY <1>5, Zenon DEF HandleWrite, KernelTakes, RestInv
  <2> QED
    BY <1>0, <2>1, <2>2
<1>6. CASE NothingWritten
  <2>1. UNCHANGED <<handler_map_, holds, reads, closeCalls, writeShut>>
    BY <1>6 DEF NothingWritten, BeginFunctors, serverVars, threadVars, counters
  <2>2. broken' \in BOOLEAN
    BY <1>6, Zenon DEF NothingWritten, RestInv
  <2> QED
    BY <2>1, <2>2 DEF RestInv
<1>7. CASE RunFunctor
  <2>1. UNCHANGED <<handler_map_, holds, reads, closeCalls>>
    BY <1>7 DEF RunFunctor, ForceCloseInLoop, HandleClose, OnClose, ConnectDestroyed,
                serverVars, threadVars, counters
  <2>2. broken' \in BOOLEAN
    BY <1>7, <1>s, Zenon DEF RunFunctor, RestInv
  <2>3. writeShut' \in BOOLEAN
    BY <1>7, <1>d, Zenon DEF RunFunctor, RestInv
  <2> QED
    BY <1>0, <2>1, <2>2, <2>3
<1>8. CASE EndFunctors
  BY <1>0, <1>8 DEF EndFunctors, RestInv, connVars, serverVars, threadVars, counters
<1>9. ASSUME NEW t \in Threads, ThreadStep(t)
      PROVE  RestInv'
  <2>1. UNCHANGED <<handler_map_, reads, writeShut, broken>>
    BY <1>9 DEF ThreadStep, TestState, SetDisconnecting, QueueCall, DropHandler, connVars,
                serverVars, counters
  <2>2. holds' \in [Threads -> BOOLEAN]
    <3>1. CASE DropHandler(t)
      BY <3>1 DEF DropHandler, RestInv
    <3>2. CASE ~DropHandler(t)
      BY <1>9, <3>2 DEF ThreadStep, TestState, SetDisconnecting, QueueCall, RestInv
    <3> QED
      BY <3>1, <3>2
  <2>3. closeCalls' \in 0..MaxCloseCalls
    BY <1>9 DEF ThreadStep, TestState, SetDisconnecting, QueueCall, DropHandler, RestInv, counters
  <2> QED
    BY <2>1, <2>2, <2>3 DEF RestInv
<1>10. CASE UNCHANGED vars
  BY <1>0, <1>10 DEF vars, RestInv, connVars, serverVars, threadVars, counters
<1> QED
  BY <1>1, <1>2, <1>3, <1>4, <1>5, <1>6, <1>7, <1>8, <1>9, <1>10 DEF Next, LoopStep, PeerStep

\* When the other threads only send, every variable keeps its type; in particular the
\* application hears at most once that the connection is down.
THEOREM TypeCorrect ==
  ASSUME ThreadCalls \subseteq {"send"}
  PROVE  Spec => []TypeOK
<1> DEFINE Inv == Queues /\ StreamInv /\ FlushInv /\ CloseInv /\ RestInv
<1>1. Init => Inv
  BY QueuesInit, StreamInit, FlushInit, CloseInit, RestInit
<1>2. Inv /\ [Next]_vars => Inv'
  BY QueuesStep, StreamStep, FlushStep, CloseStep, RestStep
<1>3. Inv => TypeOK
  <2> SUFFICES ASSUME Inv PROVE TypeOK
    OBVIOUS
  <2>0. connections_ = (state_ \in OpenStates) /\ watching = (state_ \in OpenStates)
    BY DEF CloseInv
  <2>1. connections_ \in BOOLEAN /\ watching \in BOOLEAN
    <3>1. (state_ \in OpenStates) \in BOOLEAN
      OBVIOUS
    <3> QED
      BY <2>0, <3>1, Zenon
  <2>2. state_ \in {"kConnecting", "kConnected", "kDisconnecting", "kDisconnected"}
    BY DEF CloseInv, OpenStates
  <2>3. downs \in {0, 1} /\ loopPc \in {"poll", "write", "polled", "functors", "abort"}
    BY DEF CloseInv
  <2> QED
    BY <2>1, <2>2, <2>3 DEF TypeOK, Queues, StreamInv, FlushInv, CloseInv, RestInv
<1> QED
  BY <1>1, <1>2, <1>3, PTL DEF Spec

\* handler_map_ has the handler, and with it the connection, from the moment it is
\* connected: nothing erases it.
KeptInv == state_ # "kConnecting" => handler_map_

LEMMA KeptStep == FlushInv /\ KeptInv /\ [Next]_vars => KeptInv'
<1> SUFFICES ASSUME FlushInv, KeptInv, [Next]_vars
             PROVE  KeptInv'
  OBVIOUS
<1>1. CASE NewConnection
  BY <1>1 DEF NewConnection, KeptInv
<1>2. CASE ~NewConnection
  <2>1. UNCHANGED handler_map_
    BY <1>2 DEF Next, LoopStep, PeerStep, ThreadStep, HandleRead, PeerCloses, NothingToRead,
                HandleWrite, NothingWritten, BeginFunctors, RunFunctor, EndFunctors,
                ForceCloseInLoop, HandleClose, OnClose, TestState, SetDisconnecting, QueueCall,
                DropHandler, serverVars, vars
  <2>2. state_ = "kConnecting" => state_' = "kConnecting"
    BY <1>2 DEF FlushInv, Next, LoopStep, PeerStep, ThreadStep, HandleRead, PeerCloses,
                NothingToRead, HandleWrite, NothingWritten, RunFunctor, EndFunctors,
                TestState, SetDisconnecting, QueueCall, DropHandler, connVars, vars
  <2> QED
    BY <2>1, <2>2 DEF KeptInv
<1> QED
  BY <1>1, <1>2

\* sendInLoop and shutdownInLoop, queued with a raw this by calls of any thread, never
\* run on a connection that is gone: handler_map_ still owns it.
THEOREM FunctorsNeverDangle == Spec => []NoDanglingFunctor
<1>1. Init => KeptInv
  BY DEF Init, KeptInv
<1>2. FlushInv /\ KeptInv => NoDanglingFunctor
  <2> SUFFICES ASSUME FlushInv, KeptInv, ~Alive
               PROVE  \A i \in DOMAIN (functors \o pendingFunctors_) :
                        (functors \o pendingFunctors_)[i].f \notin RawFunctors
    BY DEF NoDanglingFunctor
  <2>1. state_ = "kConnecting"
    BY DEF KeptInv, Alive
  <2>2. functors \o pendingFunctors_ = <<>>
    BY <2>1, EmptySeq, ConcatEmptySeq DEF FlushInv
  <2> QED
    BY <2>2
<1> QED
  BY <1>1, <1>2, FlushInit, FlushStep, KeptStep, PTL DEF Spec
=============================================================================
