--------------------------- MODULE TcpConnection ---------------------------
(***************************************************************************)
(* A connection of woody::HTTPServer from accept to destruction: the       *)
(* TcpConnection, its entry in TcpServer::connections_, and the            *)
(* HTTPHandler in HTTPServer::handler_map_, all run by the one loop thread *)
(* (woody starts no other I/O thread), while other threads call send(),    *)
(* shutdown() and forceClose() on it.                                      *)
(*                                                                         *)
(* The loop is the one of EventLoop, seen from one connection: each round  *)
(* handles at most one event of the connection's channel and then runs the *)
(* functors queued so far.  A message is sent in two pieces, so that a     *)
(* write may be partial.                                                   *)
(***************************************************************************)
EXTENDS Naturals, Sequences, SequencesExt

CONSTANTS
  Threads,       \* threads other than the loop thread
  ThreadCalls,   \* which of "send", "shutdown", "forceClose" those threads call
  MaxMessages,   \* bound on the messages sent on the connection
  MaxReads,      \* bound on the segments the peer sends
  MaxCloseCalls  \* bound on the shutdown() and forceClose() calls of the threads

ASSUME ThreadCallsAssumption == ThreadCalls \subseteq {"send", "shutdown", "forceClose"}
ASSUME MaxMessagesAssumption == MaxMessages \in Nat
ASSUME MaxReadsAssumption == MaxReads \in Nat
ASSUME MaxCloseCallsAssumption == MaxCloseCalls \in Nat

VARIABLES
  state_,
  watching,          \* the channel has an event it waits for: not disableAll()ed
  writing,           \* channel_->isWriting()
  outputBuffer_,
  connections_,      \* whether TcpServer::connections_ holds the connection
  handler_map_,      \* whether HTTPServer::handler_map_ holds its handler
  pendingFunctors_,
  functors,          \* the functors of this round still to run
  loopPc,            \* the loop thread; "abort" after a failed assert
  call,              \* call[t]: the call thread t is in, and how far
  holds,             \* holds[t]: thread t has a pointer to the connection
  peerGot,           \* the pieces the kernel has taken
  writeShut,         \* the socket's write side is shut down
  broken,            \* the peer reset the connection
  accepted,          \* history: pieces of the messages sendInLoop() took on
  messages,          \* history: number of messages sent
  reads,             \* history: number of segments read
  closeCalls,        \* history: shutdown() and forceClose() calls of the threads
  downs              \* history: calls of connectionCallback_ for a connection that is down

connVars == <<state_, watching, writing, outputBuffer_, peerGot, writeShut, broken, accepted>>
serverVars == <<connections_, handler_map_, downs>>
loopVars == <<pendingFunctors_, functors, loopPc>>
threadVars == <<call, holds>>
counters == <<messages, reads, closeCalls>>
vars == <<connVars, serverVars, loopVars, threadVars, counters>>

Piece == (1..MaxMessages) \X {1, 2}
PiecesOf(m) == <<<<m, 1>>, <<m, 2>>>>

Functor == [f : {"sendInLoop"}, m : 1..MaxMessages]
           \cup [f : {"shutdownInLoop", "forceCloseInLoop", "connectDestroyed"}]

\* Functors bound to a raw this; the others hold a shared_ptr.
RawFunctors == {"sendInLoop", "shutdownInLoop"}

Calls == [op : {"none"}] \cup [op : ThreadCalls, at : {"tested", "set"}]

TypeOK ==
  /\ state_ \in {"kConnecting", "kConnected", "kDisconnecting", "kDisconnected"}
  /\ watching \in BOOLEAN /\ writing \in BOOLEAN
  /\ outputBuffer_ \in Seq(Piece)
  /\ connections_ \in BOOLEAN /\ handler_map_ \in BOOLEAN
  /\ pendingFunctors_ \in Seq(Functor) /\ functors \in Seq(Functor)
  /\ loopPc \in {"poll", "write", "polled", "functors", "abort"}
  /\ call \in [Threads -> Calls] /\ holds \in [Threads -> BOOLEAN]
  /\ peerGot \in Seq(Piece) /\ writeShut \in BOOLEAN /\ broken \in BOOLEAN
  /\ accepted \in Seq(Piece)
  /\ messages \in 0..MaxMessages /\ reads \in 0..MaxReads /\ closeCalls \in 0..MaxCloseCalls
  /\ downs \in {0, 1}

Init ==
  /\ state_ = "kConnecting"
  /\ watching = FALSE /\ writing = FALSE
  /\ outputBuffer_ = <<>>
  /\ connections_ = FALSE /\ handler_map_ = FALSE
  /\ pendingFunctors_ = <<>> /\ functors = <<>>
  /\ loopPc = "poll"
  /\ call = [t \in Threads |-> [op |-> "none"]]
  /\ holds = [t \in Threads |-> FALSE]
  /\ peerGot = <<>> /\ writeShut = FALSE /\ broken = FALSE
  /\ accepted = <<>>
  /\ messages = 0 /\ reads = 0 /\ closeCalls = 0
  /\ downs = 0

Queue(functor) == pendingFunctors_' = Append(pendingFunctors_, functor)

-----------------------------------------------------------------------------
(* What the loop thread does to the connection, as parts of its actions.     *)

\* TcpServer::newConnection(), TcpConnection::connectEstablished() and
\* HTTPServer::OnConnection(), whose handler the application may pass on to
\* other threads.
NewConnection ==
  /\ loopPc = "poll" /\ state_ = "kConnecting"
  /\ connections_' = TRUE
  /\ state_' = "kConnected"
  /\ watching' = TRUE
  /\ handler_map_' = TRUE
  /\ holds' = [t \in Threads |-> TRUE]
  /\ loopPc' = "functors"
  /\ functors' = pendingFunctors_ /\ pendingFunctors_' = <<>>
  /\ UNCHANGED <<writing, outputBuffer_, peerGot, writeShut, broken, accepted,
                 downs, call, counters>>

\* The kernel takes some of the pieces, or none, unless the write fails for good.
KernelTakes(pieces, n) ==
  /\ ~broken /\ ~writeShut
  /\ peerGot' = peerGot \o SubSeq(pieces, 1, n)
  /\ UNCHANGED broken

WriteFails ==
  /\ broken' = (broken \/ ~writeShut)
  /\ UNCHANGED peerGot

\* Mutant: sendInLoop() always tries a direct write first.
MutSendAlwaysWrites(m) ==
  LET pieces == PiecesOf(m)
  IN  \/ /\ state_ = "kDisconnected"
         /\ UNCHANGED <<writing, outputBuffer_, peerGot, broken, accepted>>
      \/ /\ state_ # "kDisconnected"
         /\ \E n \in 0..2 : /\ KernelTakes(pieces, n)
                            /\ outputBuffer_' = outputBuffer_ \o SubSeq(pieces, n + 1, 2)
                            /\ writing' = (writing \/ n < 2)
         /\ accepted' = accepted \o pieces

\* sendInLoop(): a direct write if nothing is waiting, the rest to the buffer.
\* With EPIPE or ECONNRESET the message is dropped.
SendInLoop(m) ==
  LET pieces == PiecesOf(m)
  IN  \/ /\ state_ = "kDisconnected"
         /\ UNCHANGED <<writing, outputBuffer_, peerGot, broken, accepted>>
      \/ /\ state_ # "kDisconnected"
         /\ ~writing /\ outputBuffer_ = <<>>
         /\ \/ \E n \in 0..2 : /\ KernelTakes(pieces, n)
                               /\ outputBuffer_' = SubSeq(pieces, n + 1, 2)
                               /\ writing' = (n < 2)
            \/ WriteFails /\ UNCHANGED <<outputBuffer_, writing>>
         /\ accepted' = accepted \o pieces
      \/ /\ state_ # "kDisconnected"
         /\ writing \/ outputBuffer_ # <<>>
         /\ outputBuffer_' = outputBuffer_ \o pieces
         /\ writing' = TRUE
         /\ accepted' = accepted \o pieces
         /\ UNCHANGED <<peerGot, broken>>

\* Mutant: shutdownInLoop() does not wait for the buffer.
MutShutdownInLoop == writeShut' = TRUE

\* shutdownInLoop()
ShutdownInLoop == writeShut' = (writeShut \/ ~writing)

\* Mutant: OnClose() has the server erase the handler.
MutOnCloseErases == handler_map_' = FALSE

\* OnClose(): HTTPServer never calls SetCloseCallbackWithThis(), so nothing is
\* called and handler_map_ keeps the handler.
OnClose == UNCHANGED handler_map_

\* handleClose() with removeConnectionInLoop(), which asserts that it erased one
\* connection and queues connectDestroyed.
HandleClose ==
  /\ state_' = "kDisconnected"
  /\ watching' = FALSE /\ writing' = FALSE
  /\ downs' = downs + 1
  /\ OnClose
  /\ connections_' = FALSE

\* Where the loop thread is after a handleClose(): nowhere, if an assert failed.
AfterClose(pc) ==
  loopPc' = IF state_ \in {"kConnected", "kDisconnecting"} /\ connections_ THEN pc ELSE "abort"

\* Mutant: forceCloseInLoop() does not test state_.
MutForceCloseInLoop ==
  /\ HandleClose
  /\ AfterClose(loopPc)
  /\ Queue([f |-> "connectDestroyed"])

\* forceCloseInLoop()
ForceCloseInLoop ==
  IF state_ \in {"kConnected", "kDisconnecting"}
    THEN /\ HandleClose
         /\ AfterClose(loopPc)
         /\ Queue([f |-> "connectDestroyed"])
    ELSE UNCHANGED <<state_, watching, writing, downs, handler_map_, connections_,
                     loopPc, pendingFunctors_>>

\* connectDestroyed(): Channel::remove() asserts that the channel waits for nothing.
ConnectDestroyed ==
  IF state_ = "kConnected"
    THEN /\ state_' = "kDisconnected" /\ watching' = FALSE /\ writing' = FALSE
         /\ downs' = downs + 1
         /\ UNCHANGED loopPc
    ELSE /\ loopPc' = IF watching THEN "abort" ELSE loopPc
         /\ UNCHANGED <<state_, watching, writing, downs>>

-----------------------------------------------------------------------------
(* The loop thread.                                                          *)

\* What the message callback does: HTTPHandler::OnData() and
\* WebsocketHandler::OnData() send, or close the connection (a parse error makes
\* HTTPHandler call ForceClose() twice); an application may shut it down.
Reactions == {"none", "send", "shutdown", "forceClose", "forceCloseTwice"}

React(reaction) ==
  \/ /\ reaction = "none"
     /\ UNCHANGED <<connVars, pendingFunctors_, messages>>
  \/ /\ reaction = "send"
     /\ messages < MaxMessages
     /\ messages' = messages + 1
     /\ IF state_ = "kConnected" THEN SendInLoop(messages + 1)
        ELSE UNCHANGED <<writing, outputBuffer_, peerGot, broken, accepted>>
     /\ UNCHANGED <<state_, watching, writeShut, pendingFunctors_>>
  \/ /\ reaction = "shutdown"
     /\ state_ = "kConnected"
     /\ state_' = "kDisconnecting"
     /\ ShutdownInLoop
     /\ UNCHANGED <<watching, writing, outputBuffer_, peerGot, broken, accepted,
                    pendingFunctors_, messages>>
  \/ /\ reaction \in {"forceClose", "forceCloseTwice"}
     /\ state_ \in {"kConnected", "kDisconnecting"}
     /\ state_' = "kDisconnecting"
     /\ pendingFunctors_' = pendingFunctors_ \o
          [i \in 1..(IF reaction = "forceClose" THEN 1 ELSE 2) |-> [f |-> "forceCloseInLoop"]]
     /\ UNCHANGED <<watching, writing, outputBuffer_, peerGot, writeShut, broken,
                    accepted, messages>>

\* The event goes on with its POLLOUT part if the channel was writing when
\* poll() returned.
AfterRead == IF writing THEN "write" ELSE "polled"

\* handleRead() with data.
HandleRead(reaction) ==
  /\ loopPc = "poll" /\ watching
  /\ reads < MaxReads
  /\ reads' = reads + 1
  /\ React(reaction)
  /\ loopPc' = AfterRead
  /\ UNCHANGED <<serverVars, functors, threadVars, closeCalls>>

\* handleRead() with 0 bytes, or POLLHUP: handleClose().
PeerCloses ==
  /\ loopPc = "poll" /\ watching
  /\ HandleClose
  /\ AfterClose(AfterRead)
  /\ Queue([f |-> "connectDestroyed"])
  /\ UNCHANGED <<outputBuffer_, peerGot, writeShut, broken, accepted,
                 functors, threadVars, counters>>

\* Nothing to read, or a read error, which is only logged.
NothingToRead ==
  /\ loopPc = "poll"
  /\ loopPc' = AfterRead
  /\ UNCHANGED <<connVars, serverVars, pendingFunctors_, functors, threadVars, counters>>

BeginFunctors ==
  /\ loopPc' = "functors"
  /\ functors' = pendingFunctors_
  /\ pendingFunctors_' = <<>>
  /\ UNCHANGED <<serverVars, threadVars, counters>>

\* Mutant: handleWrite() forgets the shutdown that waits for it.
MutHandleWrite(n) ==
  /\ loopPc = "write" /\ writing
  /\ n \in 1..Len(outputBuffer_)
  /\ KernelTakes(outputBuffer_, n)
  /\ outputBuffer_' = SubSeq(outputBuffer_, n + 1, Len(outputBuffer_))
  /\ writing' = (outputBuffer_' # <<>>)
  /\ UNCHANGED <<state_, watching, writeShut, accepted>>
  /\ BeginFunctors

\* handleWrite(); the last piece of a connection being shut down shuts it down.
HandleWrite(n) ==
  /\ loopPc = "write" /\ writing
  /\ n \in 1..Len(outputBuffer_)
  /\ KernelTakes(outputBuffer_, n)
  /\ outputBuffer_' = SubSeq(outputBuffer_, n + 1, Len(outputBuffer_))
  /\ writing' = (outputBuffer_' # <<>>)
  /\ writeShut' = (writeShut \/ (outputBuffer_' = <<>> /\ state_ = "kDisconnecting"))
  /\ UNCHANGED <<state_, watching, accepted>>
  /\ BeginFunctors

\* The socket takes nothing, or handleWrite() fails, which is only logged.
NothingWritten ==
  /\ loopPc \in {"write", "polled"}
  /\ broken' \in {broken, broken \/ (loopPc = "write" /\ writing)}
  /\ UNCHANGED <<state_, watching, writing, outputBuffer_, peerGot, writeShut, accepted>>
  /\ BeginFunctors

RunFunctor ==
  /\ loopPc = "functors" /\ functors # <<>>
  /\ functors' = Tail(functors)
  /\ UNCHANGED <<threadVars, counters>>
  /\ LET functor == Head(functors)
     IN  \/ /\ functor.f = "sendInLoop"
            /\ SendInLoop(functor.m)
            /\ UNCHANGED <<state_, watching, writeShut, serverVars, pendingFunctors_, loopPc>>
         \/ /\ functor.f = "shutdownInLoop"
            /\ ShutdownInLoop
            /\ UNCHANGED <<state_, watching, writing, outputBuffer_, peerGot, broken, accepted,
                           serverVars, pendingFunctors_, loopPc>>
         \/ /\ functor.f = "forceCloseInLoop"
            /\ ForceCloseInLoop
            /\ UNCHANGED <<outputBuffer_, peerGot, writeShut, broken, accepted>>
         \/ /\ functor.f = "connectDestroyed"
            /\ ConnectDestroyed
            /\ UNCHANGED <<outputBuffer_, peerGot, writeShut, broken, accepted, connections_,
                           handler_map_, pendingFunctors_>>

EndFunctors ==
  /\ loopPc = "functors" /\ functors = <<>>
  /\ loopPc' = "poll"
  /\ UNCHANGED <<connVars, serverVars, pendingFunctors_, functors, threadVars, counters>>

-----------------------------------------------------------------------------
(* The other threads: each call reads state_, may write it, and then queues. *)

Usable(op) ==
  \/ state_ = "kConnected"
  \/ op = "forceClose" /\ state_ = "kDisconnecting"

\* The test of state_; the call is over if it fails.
TestState(t, op) ==
  /\ holds[t] /\ call[t].op = "none" /\ loopPc # "abort"
  /\ IF op = "send" THEN messages < MaxMessages /\ UNCHANGED closeCalls
                    ELSE closeCalls < MaxCloseCalls /\ closeCalls' = closeCalls + 1
  /\ Usable(op)
  /\ call' = [call EXCEPT ![t] = [op |-> op, at |-> IF op = "send" THEN "set" ELSE "tested"]]
  /\ UNCHANGED <<connVars, serverVars, loopVars, holds, messages, reads>>

SetDisconnecting(t) ==
  /\ call[t].op # "none" /\ call[t].at = "tested" /\ loopPc # "abort"
  /\ state_' = "kDisconnecting"
  /\ call' = [call EXCEPT ![t].at = "set"]
  /\ UNCHANGED <<watching, writing, outputBuffer_, peerGot, writeShut, broken, accepted,
                 serverVars, loopVars, holds, counters>>

QueueCall(t) ==
  /\ call[t].op # "none" /\ call[t].at = "set" /\ loopPc # "abort"
  /\ \/ /\ call[t].op = "send"
        /\ messages < MaxMessages
        /\ Queue([f |-> "sendInLoop", m |-> messages + 1])
        /\ messages' = messages + 1
     \/ /\ call[t].op = "shutdown"
        /\ Queue([f |-> "shutdownInLoop"])
        /\ UNCHANGED messages
     \/ /\ call[t].op = "forceClose"
        /\ Queue([f |-> "forceCloseInLoop"])
        /\ UNCHANGED messages
  /\ call' = [call EXCEPT ![t] = [op |-> "none"]]
  /\ UNCHANGED <<connVars, serverVars, functors, loopPc, holds, reads, closeCalls>>

\* The thread lets its handler go.
DropHandler(t) ==
  /\ holds[t] /\ call[t].op = "none" /\ loopPc # "abort"
  /\ holds' = [holds EXCEPT ![t] = FALSE]
  /\ UNCHANGED <<connVars, serverVars, loopVars, call, counters>>

-----------------------------------------------------------------------------
LoopStep ==
  \/ NothingToRead \/ NothingWritten \/ RunFunctor \/ EndFunctors

PeerStep ==
  \/ NewConnection \/ PeerCloses
  \/ \E r \in Reactions : HandleRead(r)
  \/ \E n \in 1..Len(outputBuffer_) : HandleWrite(n)

ThreadStep(t) ==
  \/ \E op \in ThreadCalls : TestState(t, op)
  \/ SetDisconnecting(t) \/ QueueCall(t) \/ DropHandler(t)

Next == LoopStep \/ PeerStep \/ \E t \in Threads : ThreadStep(t)

Spec == Init /\ [][Next]_vars

\* The loop goes round (poll() is woken when a functor is queued), and a peer
\* that has not reset the connection takes what is written to it.
Fairness ==
  /\ WF_vars(LoopStep)
  /\ SF_vars(\E n \in 1..Len(outputBuffer_) : HandleWrite(n))

FairSpec == Spec /\ Fairness

-----------------------------------------------------------------------------
(* Properties.                                                               *)

\* The peer gets a prefix of the messages in the order in which sendInLoop()
\* took them on, each whole and once; while the connection is good, the buffer
\* has the rest.  Direct writes never overtake what is in the buffer.
StreamInOrder ==
  /\ IsPrefix(peerGot, accepted)
  /\ ~broken /\ ~writeShut => peerGot \o outputBuffer_ = accepted

\* The write side of a connection that has not been closed is shut down only once
\* everything sendInLoop() took on is with the kernel, whether shutdownInLoop()
\* ran before or after the last write.
ShutdownFlushes == [][watching /\ ~writeShut /\ writeShut' => outputBuffer_' = <<>>]_vars

\* No assert of handleClose(), removeConnectionInLoop() or Channel::remove() fails.
AssertsHold == loopPc # "abort"

\* Something keeps the TcpConnection alive.
Alive ==
  \/ connections_ \/ handler_map_
  \/ \E t \in Threads : holds[t]
  \/ \E i \in DOMAIN functors : functors[i].f \notin RawFunctors
  \/ \E i \in DOMAIN pendingFunctors_ : pendingFunctors_[i].f \notin RawFunctors

\* A functor bound to a raw this never outlives the connection.
NoDanglingFunctor ==
  ~Alive => \A i \in DOMAIN (functors \o pendingFunctors_) :
              (functors \o pendingFunctors_)[i].f \notin RawFunctors

\* A connection that is being shut down or closed gets there.
DisconnectingEnds ==
  (state_ = "kDisconnecting")
    ~> (state_ = "kDisconnected" \/ writeShut \/ broken)

\* "we don't close fd, leave it to dtor": a connection that is down is destroyed,
\* once no other thread holds on to it.
DownIsDestroyed ==
  (state_ = "kDisconnected" /\ \A t \in Threads : ~holds[t]) ~> ~Alive
=============================================================================
