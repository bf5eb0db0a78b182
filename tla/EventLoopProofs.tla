-------------------------- MODULE EventLoopProofs --------------------------
(***************************************************************************)
(* Theorems about EventLoop, for any set of threads and any number of      *)
(* functors: its type invariant, that no wakeup is lost, and that it       *)
(* implements TaskQueue.                                                   *)
(***************************************************************************)
EXTENDS EventLoop, SequenceTheorems, TLAPS

-----------------------------------------------------------------------------
(* Sequences.                                                                *)

\* Pushing on pendingFunctors_ is pushing on the whole queue.
LEMMA AppendConcat ==
  ASSUME NEW S, NEW q \in Seq(S), NEW p \in Seq(S), NEW x \in S
  PROVE  q \o Append(p, x) = Append(q \o p, x)
<1>1. <<x>> \in Seq(S)
  OBVIOUS
<1>2. q \o p \in Seq(S)
  BY ConcatProperties
<1>3. Append(p, x) = p \o <<x>> /\ Append(q \o p, x) = (q \o p) \o <<x>>
  BY <1>2, AppendIsConcat
<1> QED
  BY <1>1, <1>3, ConcatAssociative

\* Taking the head of the local vector is taking the head of the whole queue.
LEMMA HeadTailConcat ==
  ASSUME NEW S, NEW q \in Seq(S), NEW p \in Seq(S), q # <<>>
  PROVE  /\ q \o p # <<>>
         /\ Head(q \o p) = Head(q)
         /\ Tail(q \o p) = Tail(q) \o p
<1>1. /\ Len(q) \in Nat \ {0} /\ Len(p) \in Nat
  BY EmptySeq, LenProperties
<1>2. /\ q \o p \in Seq(S)
      /\ Len(q \o p) = Len(q) + Len(p)
      /\ \A i \in 1 .. Len(q) + Len(p) :
            (q \o p)[i] = IF i <= Len(q) THEN q[i] ELSE p[i - Len(q)]
  BY ConcatProperties
<1>3. q \o p # <<>>
  BY ConcatEqualIffEmpty
<1>4. Head(q \o p) = Head(q)
  BY <1>1, <1>2, <1>3
<1>5. /\ Tail(q) \in Seq(S) /\ Len(Tail(q)) = Len(q) - 1
      /\ \A i \in 1 .. Len(q) - 1 : Tail(q)[i] = q[i + 1]
  BY HeadTailProperties
<1>6. /\ Tail(q \o p) \in Seq(S)
      /\ Len(Tail(q \o p)) = Len(q) + Len(p) - 1
      /\ \A i \in 1 .. Len(q) + Len(p) - 1 : Tail(q \o p)[i] = (q \o p)[i + 1]
  BY <1>2, <1>3, HeadTailProperties
<1>7. /\ Tail(q) \o p \in Seq(S)
      /\ Len(Tail(q) \o p) = Len(q) - 1 + Len(p)
      /\ \A i \in 1 .. Len(q) - 1 + Len(p) :
            (Tail(q) \o p)[i] = IF i <= Len(q) - 1 THEN Tail(q)[i] ELSE p[i - (Len(q) - 1)]
  BY <1>5, ConcatProperties
<1>8. ASSUME NEW i \in 1 .. Len(q) + Len(p) - 1
      PROVE  Tail(q \o p)[i] = (Tail(q) \o p)[i]
  <2>1. CASE i <= Len(q) - 1
    BY <1>1, <1>2, <1>5, <1>6, <1>7, <2>1
  <2>2. CASE ~(i <= Len(q) - 1)
    BY <1>1, <1>2, <1>6, <1>7, <2>2
  <2> QED
    BY <2>1, <2>2
<1>9. Len(Tail(q \o p)) = Len(Tail(q) \o p)
  BY <1>1, <1>6, <1>7
<1>10. Tail(q \o p) = Tail(q) \o p
  BY <1>6, <1>7, <1>8, <1>9, SeqEqual
<1> QED
  BY <1>3, <1>4, <1>10

-----------------------------------------------------------------------------
(* Types.                                                                    *)

LEMMA TypeInit == Init => TypeOK
<1> SUFFICES ASSUME Init PROVE TypeOK
  OBVIOUS
<1>1. <<>> \in Seq(Functor)
  BY EmptySeq
<1>2. call \in [Callers -> {"none", "pushed", "quitting"}]
  BY DEF Init
<1> QED
  BY <1>1, <1>2, Zenon DEF Init, TypeOK

LEMMA TypeStep == TypeOK /\ [Next]_vars => TypeOK'
<1> SUFFICES ASSUME TypeOK, [Next]_vars
             PROVE  TypeOK'
  OBVIOUS
<1> USE DEF TypeOK
<1>1. ASSUME NEW c \in Callers, Push(c)
      PROVE  TypeOK'
  BY <1>1 DEF Push
<1>2. ASSUME NEW c \in Callers, WakeupAfterPush(c)
      PROVE  TypeOK'
  BY <1>2 DEF WakeupAfterPush
<1>3. ASSUME NEW c \in Callers, SetQuit(c)
      PROVE  TypeOK'
  BY <1>3 DEF SetQuit
<1>4. ASSUME NEW c \in Callers, WakeupAfterQuit(c)
      PROVE  TypeOK'
  BY <1>4 DEF WakeupAfterQuit
<1>5. CASE StartLoop
  BY <1>5 DEF StartLoop, LoopAt
<1>6. CASE TestQuit
  BY <1>6 DEF TestQuit, LoopAt
<1>7. ASSUME NEW ready \in SUBSET Channels, PollReturns(ready)
      PROVE  TypeOK'
  BY <1>7 DEF PollReturns, LoopAt
<1>8. CASE PollReturnsNothing
  BY <1>8 DEF PollReturnsNothing, LoopAt
<1>9. CASE DispatchWakeup
  BY <1>9 DEF DispatchWakeup, LoopAt
<1>10. CASE DispatchIo
  BY <1>10 DEF DispatchIo, LoopAt
<1>11. CASE BeginPendingFunctors
  BY <1>11 DEF BeginPendingFunctors, LoopAt
<1>12. CASE SwapFunctors
  BY <1>12 DEF SwapFunctors, LoopAt
<1>13. CASE RunFunctor
  <2>1. Head(functors) \in Functor /\ Tail(functors) \in Seq(Functor)
    BY <1>13, HeadTailProperties DEF RunFunctor
  <2> QED
    BY <1>13, <2>1 DEF RunFunctor, LoopAt
<1>14. CASE EndPendingFunctors
  BY <1>14 DEF EndPendingFunctors, LoopAt
<1>15. CASE UNCHANGED vars
  BY <1>15 DEF vars
<1> QED
  BY <1>1, <1>2, <1>3, <1>4, <1>5, <1>6, <1>7, <1>8, <1>9, <1>10, <1>11,
     <1>12, <1>13, <1>14, <1>15 DEF Next, LoopStep, CallStep

\* Every variable of the event loop keeps its type; in particular functors are
\* numbered within the bound, whatever the interleaving of pushes and swaps.
THEOREM TypeCorrect == Spec => []TypeOK
  BY TypeInit, TypeStep, PTL DEF Spec

-----------------------------------------------------------------------------
(* No lost wakeup.                                                           *)

LEMMA WakeupInit == Init => WakeupInv
  BY DEF Init, WakeupInv, HasSignalled, AboutToWake, Callers

LEMMA WakeupStep == TypeOK /\ WakeupInv /\ [Next]_vars => WakeupInv'
<1> SUFFICES ASSUME TypeOK, WakeupInv, [Next]_vars
             PROVE  WakeupInv'
  OBVIOUS
<1> USE ThreadsAssumption DEF WakeupInv, AboutToWake, HasSignalled
<1>1. ASSUME NEW c \in Callers, Push(c)
      PROVE  WakeupInv'
  BY <1>1 DEF Push, TypeOK, CanCall, InUserCode, Callers
<1>2. ASSUME NEW c \in Callers, WakeupAfterPush(c)
      PROVE  WakeupInv'
  BY <1>2 DEF WakeupAfterPush, TypeOK, Callers
<1>3. ASSUME NEW c \in Callers, SetQuit(c)
      PROVE  WakeupInv'
  BY <1>3 DEF SetQuit, TypeOK, CanCall, InUserCode, Callers
<1>4. ASSUME NEW c \in Callers, WakeupAfterQuit(c)
      PROVE  WakeupInv'
  BY <1>4 DEF WakeupAfterQuit, TypeOK, Callers
<1>5. CASE StartLoop
  BY <1>5 DEF StartLoop, LoopAt
<1>6. CASE TestQuit
  BY <1>6 DEF TestQuit, LoopAt
<1>7. ASSUME NEW ready \in SUBSET Channels, PollReturns(ready)
      PROVE  WakeupInv'
  BY <1>7 DEF PollReturns, LoopAt
<1>8. CASE PollReturnsNothing
  BY <1>8 DEF PollReturnsNothing, LoopAt
<1>9. CASE DispatchWakeup
  BY <1>9 DEF DispatchWakeup, LoopAt
<1>10. CASE DispatchIo
  BY <1>10 DEF DispatchIo, LoopAt
<1>11. CASE BeginPendingFunctors
  BY <1>11 DEF BeginPendingFunctors, LoopAt
<1>12. CASE SwapFunctors
  BY <1>12 DEF SwapFunctors, LoopAt
<1>13. CASE RunFunctor
  BY <1>13 DEF RunFunctor, LoopAt
<1>14. CASE EndPendingFunctors
  BY <1>14 DEF EndPendingFunctors, LoopAt
<1>15. CASE UNCHANGED vars
  BY <1>15 DEF vars
<1> QED
  BY <1>1, <1>2, <1>3, <1>4, <1>5, <1>6, <1>7, <1>8, <1>9, <1>10, <1>11,
     <1>12, <1>13, <1>14, <1>15 DEF Next, LoopStep, CallStep

\* The flag callingPendingFunctors_ and the eventfd are consistent with the
\* queue at every step of the loop and of every caller of queueInLoop().
THEOREM WakeupInvariant == Spec => []WakeupInv
<1>1. Init => TypeOK /\ WakeupInv
  BY TypeInit, WakeupInit
<1>2. TypeOK /\ WakeupInv /\ [Next]_vars => (TypeOK /\ WakeupInv)'
  BY TypeStep, WakeupStep
<1> QED
  BY <1>1, <1>2, PTL DEF Spec

\* A loop in poll() with a functor to run has a readable eventfd, or a thread
\* on its way to write to it: the test queueInLoop() makes after its critical
\* section never skips a wakeup() that was needed.
THEOREM NoWakeupIsLost == Spec => []NoLostWakeup
<1>1. WakeupInv => NoLostWakeup
  BY DEF WakeupInv, NoLostWakeup, AboutToWake
<1> QED
  BY <1>1, WakeupInvariant, PTL

-----------------------------------------------------------------------------
(* Refinement of TaskQueue.                                                  *)

LEMMA RefinementInit == Init => TQ!Init
<1> SUFFICES ASSUME Init PROVE TQ!Init
  OBVIOUS
<1>1. <<>> \o <<>> = <<>>
  BY EmptySeq, ConcatEmptySeq
<1> QED
  BY <1>1 DEF Init, TQ!Init

LEMMA RefinementStep == TypeOK /\ WakeupInv /\ [Next]_vars => [TQ!Next]_TQ!vars
<1> SUFFICES ASSUME TypeOK, WakeupInv, [Next]_vars
             PROVE  TQ!Next \/ UNCHANGED TQ!vars
  OBVIOUS
<1>1. ASSUME NEW c \in Callers, Push(c)
      PROVE  TQ!Next
  <2>1. Len(functors \o pendingFunctors_) = Len(functors) + Len(pendingFunctors_)
    BY ConcatProperties DEF TypeOK
  <2>2. NextFunctor = Len(functors \o pendingFunctors_) + Len(executed) + 1
    BY <2>1, LenProperties DEF NextFunctor, TypeOK
  <2>3. functors \o Append(pendingFunctors_, NextFunctor)
          = Append(functors \o pendingFunctors_, NextFunctor)
    BY <1>1, AppendConcat DEF Push, TypeOK
  <2> QED
    BY <1>1, <2>2, <2>3 DEF Push, TQ!Next, TQ!Submit
<1>2. CASE RunFunctor
  <2>1. /\ functors \o pendingFunctors_ # <<>>
        /\ Head(functors \o pendingFunctors_) = Head(functors)
        /\ Tail(functors \o pendingFunctors_) = Tail(functors) \o pendingFunctors_
    BY <1>2, HeadTailConcat DEF RunFunctor, TypeOK
  <2> QED
    BY <1>2, <2>1 DEF RunFunctor, TQ!Next, TQ!Execute
<1>3. CASE SwapFunctors
  <2>1. functors = <<>>
    BY <1>3 DEF SwapFunctors, LoopAt, WakeupInv
  <2>2. pendingFunctors_ \o <<>> = <<>> \o pendingFunctors_
    BY ConcatEmptySeq DEF TypeOK
  <2> QED
    BY <1>3, <2>1, <2>2 DEF SwapFunctors, TQ!vars
<1>4. ASSUME NEW c \in Callers, WakeupAfterPush(c) \/ SetQuit(c) \/ WakeupAfterQuit(c)
      PROVE  UNCHANGED TQ!vars
  BY <1>4 DEF WakeupAfterPush, SetQuit, WakeupAfterQuit, TQ!vars
<1>5. CASE StartLoop \/ TestQuit \/ PollReturnsNothing \/ DispatchWakeup \/ DispatchIo
  BY <1>5 DEF StartLoop, TestQuit, PollReturnsNothing, DispatchWakeup, DispatchIo, TQ!vars
<1>6. CASE BeginPendingFunctors \/ EndPendingFunctors
  BY <1>6 DEF BeginPendingFunctors, EndPendingFunctors, TQ!vars
<1>7. ASSUME NEW ready \in SUBSET Channels, PollReturns(ready)
      PROVE  UNCHANGED TQ!vars
  BY <1>7 DEF PollReturns, TQ!vars
<1>8. CASE UNCHANGED vars
  BY <1>8 DEF vars, TQ!vars
<1> QED
  BY <1>1, <1>2, <1>3, <1>4, <1>5, <1>6, <1>7, <1>8 DEF Next, LoopStep, CallStep

\* However pushes, swaps and runs interleave, the loop runs the functors each
\* once and in the order in which queueInLoop() pushed them.
THEOREM ImplementsTaskQueue == Spec => RunsInOrder
<1>1. Spec => []TypeOK /\ []WakeupInv
  BY TypeCorrect, WakeupInvariant
<1>2. TypeOK /\ WakeupInv /\ [Next]_vars => [TQ!Next]_TQ!vars
  BY RefinementStep
<1>3. Init => TQ!Init
  BY RefinementInit
<1> QED
  BY <1>1, <1>2, <1>3, PTL DEF Spec, RunsInOrder, TQ!Spec
=============================================================================
