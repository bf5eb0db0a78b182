------------------------------ MODULE MCTcpAll ------------------------------
(***************************************************************************)
(* Two connections, of which a behaviour moves one: on the first the other *)
(* threads only send, which is what the asserts of TcpConnection and       *)
(* TcpServer count on; on the second they make every call.                 *)
(***************************************************************************)
EXTENDS TcpConnection

CONSTANTS AnyMessages, AnyReads   \* bounds for the second connection

VARIABLES state2, watching2, writing2, output2, conns2, handlers2, pending2, functors2, pc2,
          call2, holds2, got2, shut2, broken2, accepted2, messages2, reads2, closes2, downs2,
          part

Called == INSTANCE TcpConnection WITH
  ThreadCalls <- {"send", "shutdown", "forceClose"},
  MaxMessages <- AnyMessages, MaxReads <- AnyReads,
  state_ <- state2, watching <- watching2, writing <- writing2, outputBuffer_ <- output2,
  connections_ <- conns2, handler_map_ <- handlers2, pendingFunctors_ <- pending2,
  functors <- functors2, loopPc <- pc2, call <- call2, holds <- holds2, peerGot <- got2,
  writeShut <- shut2, broken <- broken2, accepted <- accepted2, messages <- messages2,
  reads <- reads2, closeCalls <- closes2, downs <- downs2

vars2 == <<state2, watching2, writing2, output2, conns2, handlers2, pending2, functors2, pc2,
           call2, holds2, got2, shut2, broken2, accepted2, messages2, reads2, closes2, downs2>>

AllInit == part \in {"sends", "any"} /\ Init /\ Called!Init

AllNext == \/ part = "sends" /\ Next /\ UNCHANGED <<part, vars2>>
           \/ part = "any" /\ Called!Next /\ UNCHANGED <<part, vars>>

\* The fairness of TcpConnection, for the first.
AllSpec ==
  /\ AllInit /\ [][AllNext]_<<vars, vars2, part>>
  /\ WF_vars(part = "sends" /\ LoopStep)
  /\ SF_vars(part = "sends" /\ \E n \in 1..Len(outputBuffer_) : HandleWrite(n))

-----------------------------------------------------------------------------
\* The properties of TcpConnection that hold whatever the threads call: with
\* shutdown() and forceClose() at any time the peer gets the messages in order,
\* no functor outlives the connection, and shutting down waits for the buffer.
AnyCallsSafe ==
  /\ [](Called!StreamInOrder /\ Called!NoDanglingFunctor)
  /\ Called!ShutdownFlushes
=============================================================================
