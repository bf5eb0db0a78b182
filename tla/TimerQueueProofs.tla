-------------------------- MODULE TimerQueueProofs --------------------------
(***************************************************************************)
(* Proofs about the timers: where a Timer is from `new' to `delete', that  *)
(* none is lost or called too often, and that the timerfd is armed.        *)
(***************************************************************************)
EXTENDS TimerQueue, FiniteSetTheorems, SequenceTheorems, TLAPS

Timer == [expiration : Nat, interval : Nat, sequence : Nat]
TimerId == Addresses \X Nat
Functor == [op : {"add", "cancel"}, id : TimerId]

(* The Timers that handleRead() calls, and those whose addTimerInLoop() is *)
(* queued.                                                                 *)
Expiring == {expired[i] : i \in 1 .. Len(expired)}
Adds == {i \in 1 .. Len(functors) : functors[i].op = "add"}
Queued == {functors[i].id[1] : i \in Adds}

TimersType ==
    /\ now \in 1 .. MaxTime /\ start \in 0 .. MaxTime /\ numCreated \in 0 .. MaxCreated
    /\ heap \in [Addresses -> Timer] /\ timers \subseteq Nat \X Addresses
    /\ expired \in Seq(Addresses) /\ calling \in Nat /\ alarm \in Nat /\ failed \in BOOLEAN
    /\ functors \in Seq(Functor) /\ adding \in [Threads -> {<<>>} \union TimerId]
    /\ ids \subseteq TimerId

(* A Timer has a number of its own, and an address that is free has none.  *)
NumbersInv ==
    /\ \A a \in Addresses : heap[a].sequence <= numCreated /\ (heap[a].sequence = 0 => heap[a] = Free)
    /\ \A a, b \in Addresses : heap[a].sequence = heap[b].sequence /\ heap[a].sequence # 0 => a = b

(* A Timer is in the queue, among the expired, or on its way: in one of    *)
(* the three, and there once.                                              *)
ActiveInv ==
    /\ ~ failed
    /\ activeTimers = {<<e[2], heap[e[2]].sequence>> : e \in timers}
    /\ \A e \in timers : /\ heap[e[2]].sequence # 0 /\ heap[e[2]].expiration = e[1]
                         /\ e[2] \notin Expiring /\ e[2] \notin Queued
ExpiredInv ==
    /\ \A i \in 1 .. Len(expired) : /\ heap[expired[i]].sequence # 0 /\ expired[i] \notin Queued
                                    /\ heap[expired[i]].expiration <= now
    /\ \A i, j \in 1 .. Len(expired) : expired[i] = expired[j] => i = j
    /\ calling = 0 => expired = <<>>
AddsInv ==
    /\ \A i \in Adds : functors[i].id[2] # 0 /\ heap[functors[i].id[1]].sequence = functors[i].id[2]
    /\ \A i, j \in Adds : functors[i].id[1] = functors[j].id[1] => i = j
SomewhereInv ==
    \A a \in Addresses : heap[a].sequence # 0 =>
        <<heap[a].expiration, a>> \in timers \/ a \in Expiring \/ a \in Queued

(* A TimerId names its Timer or one that is gone.                          *)
Names(id, h, n) == /\ id[2] <= n
                   /\ \A a \in Addresses : h[a].sequence = id[2] /\ id[2] # 0 => a = id[1]
IdsInv ==
    /\ \A id \in ids : Names(id, heap, numCreated)
    /\ \A i \in 1 .. Len(functors) : Names(functors[i].id, heap, numCreated)

(* What has run or was cancelled, and what has not.                        *)
LostInv ==
    /\ ran \subseteq 0 .. numCreated /\ cancelled \subseteq 0 .. numCreated
    /\ \A s \in 1 .. numCreated : s \in ran \union cancelled \/ \E a \in Addresses : heap[a].sequence = s
RanInv ==
    /\ \A i \in 1 .. Len(expired) : i <= calling => heap[expired[i]].sequence \in ran
    /\ \A a \in Addresses : heap[a].sequence \in ran \ {0} /\ heap[a].interval = 0 =>
          \E i \in 1 .. Len(expired) : i <= calling /\ expired[i] = a
CancelledInv ==
    \A a \in Addresses : heap[a].sequence \in cancelled \ {0} =>
        /\ a \in Expiring /\ heap[a].sequence \in lateCancel
        /\ <<a, heap[a].sequence>> \in cancelingTimers

(* The timerfd is readable by the time of any timer, or with the next tick.*)
ArmedInv == calling = 0 => \A e \in timers : alarm <= e[1] \/ alarm <= now + 1

PlacesInv == ActiveInv /\ ExpiredInv /\ AddsInv /\ SomewhereInv
HistoryInv == IdsInv /\ LostInv /\ RanInv /\ CancelledInv
TimersInv == TimersType /\ NumbersInv /\ PlacesInv /\ HistoryInv /\ ArmedInv
-----------------------------------------------------------------------------
(* A set of naturals has a least element, which Min finds.                 *)
LEMMA MinIsLeast ==
    ASSUME NEW S \in SUBSET Nat, S # {} PROVE Min(S) \in S /\ \A x \in S : Min(S) <= x
<1> DEFINE T == {0 .. n : n \in S}
           R == StrictSubsetOrdering(Nat)
<1>1. T \subseteq FiniteSubsetsOf(Nat) /\ T # {}
  <2>1. ASSUME NEW n \in S PROVE 0 .. n \in FiniteSubsetsOf(Nat)
    BY FS_Interval, 0 .. n \subseteq Nat DEF FiniteSubsetsOf
  <2> QED
    BY <2>1
<1>2. PICK t \in T : \A u \in T : ~ (<<u, t>> \in R)
  BY <1>1, FS_StrictSubsetOrderingWellFounded, WFMin
<1>3. PICK m \in S : t = 0 .. m
  BY <1>2
<1>4. ASSUME NEW x \in S PROVE m <= x
  <2>1. 0 .. x \in T /\ ~ (<<0 .. x, 0 .. m>> \in R)
    BY <1>2, <1>3
  <2>2. ~ (0 .. x \subseteq 0 .. m /\ 0 .. x # 0 .. m)
    BY <2>1 DEF StrictSubsetOrdering
  <2>3. CASE x < m
    <3>1. 0 .. x \subseteq 0 .. m /\ m \in 0 .. m /\ m \notin 0 .. x
      BY <2>3
    <3> QED
      BY <2>2, <3>1
  <2> QED
    BY <2>3
<1> QED
  BY <1>4 DEF Min

LEMMA MaxOfTwo ==
    ASSUME NEW m \in Nat, NEW n \in Nat PROVE Max({m, n}) = IF m > n THEN m ELSE n
<1>1. \E x \in {m, n} : \A y \in {m, n} : x >= y
  BY DEF Max
<1>2. Max({m, n}) \in {m, n} /\ \A y \in {m, n} : Max({m, n}) >= y
  BY <1>1 DEF Max
<1> QED
  BY <1>2

(* When every timer is known by its address, timers_ and activeTimers_     *)
(* have the same size.                                                     *)
LEMMA SameSize ==
    ASSUME NEW h \in [Addresses -> Timer], NEW T \in SUBSET (Nat \X Addresses),
           \A e \in T : h[e[2]].expiration = e[1]
    PROVE  IsFiniteSet(T) /\ Cardinality({<<e[2], h[e[2]].sequence>> : e \in T}) = Cardinality(T)
<1> DEFINE A == {a \in Addresses : \E e \in T : e[2] = a}
           B == {<<e[2], h[e[2]].sequence>> : e \in T}
           f == [a \in A |-> <<h[a].expiration, a>>]
           g == [a \in A |-> <<a, h[a].sequence>>]
<1>1. IsFiniteSet(A)
  BY FS_Subset, TimerBounds
<1>2. f \in Bijection(A, T)
  <2>1. ASSUME NEW a \in A PROVE f[a] \in T
    <3>1. PICK e \in T : e[2] = a
      OBVIOUS
    <3>2. e = <<h[a].expiration, a>>
      BY <3>1
    <3> QED
      BY <3>2
  <2>2. \A x, y \in A : f[x] = f[y] => x = y
    OBVIOUS
  <2>3. ASSUME NEW e \in T PROVE \E a \in A : f[a] = e
    <3>1. e[2] \in A /\ e = <<h[e[2]].expiration, e[2]>>
      OBVIOUS
    <3> QED
      BY <3>1
  <2> QED
    BY <2>1, <2>2, <2>3 DEF Bijection, Injection, Surjection, IsInjective
<1>3. g \in Bijection(A, B)
  <2>1. ASSUME NEW a \in A PROVE g[a] \in B
    OBVIOUS
  <2>2. \A x, y \in A : g[x] = g[y] => x = y
    OBVIOUS
  <2>3. ASSUME NEW b \in B PROVE \E a \in A : g[a] = b
    <3>1. PICK e \in T : b = <<e[2], h[e[2]].sequence>>
      OBVIOUS
    <3>2. e[2] \in A /\ g[e[2]] = b
      BY <3>1
    <3> QED
      BY <3>2
  <2> QED
    BY <2>1, <2>2, <2>3 DEF Bijection, Injection, Surjection, IsInjective
<1>4. IsFiniteSet(T) /\ Cardinality(T) = Cardinality(A) /\ Cardinality(B) = Cardinality(A)
  BY <1>1, <1>2, <1>3, FS_Bijection DEF ExistsBijection
<1> QED
  BY <1>4

(* The timers start with none.                                             *)
LEMMA TimersInit ==
    ASSUME Init PROVE TimersInv
<1> USE TimerBounds DEF Init
<1>1. Len(expired) = 0 /\ Len(functors) = 0 /\ Adds = {} /\ Queued = {} /\ Expiring = {}
  BY EmptySeq DEF Adds, Queued, Expiring
<1>2. TimersType
  <2>1. Free \in Timer /\ Never \in Nat /\ 1 \in 1 .. MaxTime /\ 0 \in 0 .. MaxTime /\ 0 \in 0 .. MaxCreated
    BY DEF Timer, Free, Never
  <2>2. expired \in Seq(Addresses) /\ functors \in Seq(Functor)
    BY EmptySeq
  <2>3. heap \in [Addresses -> Timer] /\ adding \in [Threads -> {<<>>} \union TimerId]
    BY <2>1
  <2> QED
    BY <2>1, <2>2, <2>3 DEF TimersType
<1>3. NumbersInv
  BY DEF NumbersInv, Free
<1>4. PlacesInv
  BY <1>1 DEF PlacesInv, ActiveInv, ExpiredInv, AddsInv, SomewhereInv, Free
<1>5. HistoryInv
  BY <1>1 DEF HistoryInv, IdsInv, LostInv, RanInv, CancelledInv, Free
<1> QED
  BY <1>2, <1>3, <1>4, <1>5 DEF TimersInv, ArmedInv
-----------------------------------------------------------------------------
(* What the private operations do to the members of the queue.             *)
QueueWith(h) == [heap |-> h, timers |-> timers, active |-> activeTimers,
                 canceling |-> cancelingTimers, alarm |-> alarm, failed |-> failed]

LEMMA BecomesBoolean ==
    ASSUME NEW q, Become(q) PROVE failed' \in BOOLEAN
BY DEF Become

LEMMA BecomesAdded ==
    ASSUME NEW h, NEW a, Become(addTimerInLoop(QueueWith(h), a))
    PROVE  LET when == h[a].expiration IN
           /\ heap' = h /\ timers' = timers \union {<<when, a>>}
           /\ activeTimers' = activeTimers \union {<<a, h[a].sequence>>}
           /\ cancelingTimers' = cancelingTimers
           /\ alarm' = IF timers = {} \/ when < Min({e[1] : e \in timers})
                       THEN (IF when > now THEN when ELSE now + 1) ELSE alarm
           /\ failed' => \/ failed \/ <<when, a>> \in timers \/ <<a, h[a].sequence>> \in activeTimers
                         \/ h[a] = Free \/ Cardinality(timers') # Cardinality(activeTimers')
<1> DEFINE q == insert(QueueWith(h), a)
           when == h[a].expiration
           changed == timers = {} \/ when < Min({e[1] : e \in timers})
<1>1. /\ q.heap = h /\ q.timers = timers \union {<<when, a>>} /\ q.alarm = alarm
      /\ q.active = activeTimers \union {<<a, h[a].sequence>>} /\ q.canceling = cancelingTimers
      /\ q.failed => \/ failed \/ <<when, a>> \in timers \/ <<a, h[a].sequence>> \in activeTimers
                     \/ h[a] = Free
      /\ resetTimerfd(q, when).heap = q.heap /\ resetTimerfd(q, when).timers = q.timers
      /\ resetTimerfd(q, when).active = q.active /\ resetTimerfd(q, when).failed = q.failed
      /\ resetTimerfd(q, when).canceling = q.canceling
      /\ resetTimerfd(q, when).alarm = IF when > now THEN when ELSE now + 1
  BY DEF insert, QueueWith, resetTimerfd
<1>2. addTimerInLoop(QueueWith(h), a) = IF changed THEN resetTimerfd(q, when) ELSE q
  BY DEF addTimerInLoop, QueueWith, Earliest
<1> HIDE DEF q
<1>3. CASE changed
  BY <1>1, <1>2, <1>3 DEF Become
<1>4. CASE ~ changed
  BY <1>1, <1>2, <1>4 DEF Become
<1> QED
  BY <1>3, <1>4

LEMMA BecomesCancelled ==
    ASSUME NEW id, Become(cancelInLoop(Queue, id))
    PROVE  LET entry == <<heap[id[1]].expiration, id[1]>> IN
           IF id \in activeTimers
           THEN /\ heap' = [heap EXCEPT ![id[1]] = Free] /\ timers' = timers \ {entry}
                /\ activeTimers' = activeTimers \ {id} /\ cancelingTimers' = cancelingTimers
                /\ alarm' = alarm
                /\ failed' => failed \/ entry \notin timers \/ Cardinality(timers') # Cardinality(activeTimers')
           ELSE /\ heap' = heap /\ timers' = timers /\ activeTimers' = activeTimers
                /\ cancelingTimers' = IF calling > 0 THEN cancelingTimers \union {id} ELSE cancelingTimers
                /\ alarm' = alarm
                /\ failed' => failed \/ Cardinality(timers') # Cardinality(activeTimers')
<1>1. CASE id \in activeTimers
  BY <1>1 DEF Become, cancelInLoop, Queue
<1>2. CASE id \notin activeTimers
  BY <1>2 DEF Become, cancelInLoop, Queue
<1> QED
  BY <1>1, <1>2

(* new Timer takes a free address, and a number that no Timer had.         *)
LEMMA NewTimerFacts ==
    ASSUME TimersInv, NEW a \in Addresses, NEW delay \in Delays, NEW interval \in Intervals,
           MayCreate(a), heap' = NewTimer(a, delay, interval), numCreated' = numCreated + 1
    PROVE  /\ numCreated' \in 0 .. MaxCreated /\ numCreated + 1 # 0 /\ numCreated + 1 \in Nat
           /\ heap' \in [Addresses -> Timer] /\ heap[a].sequence = 0
           /\ heap'[a] = [expiration |-> now + delay, interval |-> interval, sequence |-> numCreated + 1]
           /\ \A b \in Addresses : b # a => heap'[b] = heap[b]
           /\ \A e \in timers : e[2] # a
           /\ a \notin Expiring /\ a \notin Queued
           /\ NumbersInv'
           /\ \A id \in TimerId : Names(id, heap, numCreated) => Names(id, heap', numCreated')
           /\ Names(<<a, numCreated + 1>>, heap', numCreated')
           /\ numCreated + 1 \notin ran /\ numCreated + 1 \notin cancelled
<1> USE TimerBounds
<1>0. TimersType /\ NumbersInv /\ PlacesInv /\ HistoryInv
  BY DEF TimersInv
<1>1. heap[a].sequence = 0 /\ numCreated < MaxCreated
  BY DEF MayCreate, Free
<1>2. numCreated' \in 0 .. MaxCreated /\ numCreated \in Nat /\ now + delay \in Nat /\ interval \in Nat
  BY <1>0, <1>1 DEF TimersType
<1>3. /\ heap'[a] = [expiration |-> now + delay, interval |-> interval, sequence |-> numCreated + 1]
      /\ \A b \in Addresses : b # a => heap'[b] = heap[b]
      /\ heap' \in [Addresses -> Timer]
  BY <1>0, <1>2 DEF NewTimer, TimersType, Timer
<1>4. \A e \in timers : e[2] # a
  BY <1>0, <1>1 DEF PlacesInv, ActiveInv
<1>5. a \notin Expiring
  BY <1>0, <1>1 DEF PlacesInv, ExpiredInv, Expiring
<1>6. a \notin Queued
  <2>1. ASSUME NEW i \in Adds, functors[i].id[1] = a PROVE FALSE
    BY <1>0, <1>1, <2>1 DEF PlacesInv, AddsInv
  <2> QED
    BY <2>1 DEF Queued
<1>7. \A b \in Addresses : heap[b].sequence \in Nat /\ heap[b].sequence <= numCreated
  BY <1>0 DEF TimersType, Timer, NumbersInv
<1>8. NumbersInv'
  <2>1. \A b \in Addresses : heap'[b].sequence <= numCreated' /\ (heap'[b].sequence = 0 => heap'[b] = Free)
    BY <1>0, <1>2, <1>3, <1>7 DEF NumbersInv
  <2>2. ASSUME NEW b \in Addresses, NEW d \in Addresses,
               heap'[b].sequence = heap'[d].sequence /\ heap'[b].sequence # 0
        PROVE  b = d
    BY <1>0, <1>2, <1>3, <1>7, <2>2 DEF NumbersInv
  <2> QED
    BY <2>1, <2>2 DEF NumbersInv
<1>9. ASSUME NEW id \in TimerId, Names(id, heap, numCreated) PROVE Names(id, heap', numCreated')
  <2>1. id[2] \in Nat /\ id[2] <= numCreated
    BY <1>9 DEF TimerId, Names
  <2> QED
    BY <1>2, <1>3, <1>9, <2>1 DEF Names
<1>10. Names(<<a, numCreated + 1>>, heap', numCreated')
  BY <1>2, <1>3, <1>7 DEF Names
<1>11. numCreated + 1 \notin ran /\ numCreated + 1 \notin cancelled
  BY <1>0, <1>2 DEF HistoryInv, LostInv
<1> QED
  BY <1>1, <1>2, <1>3, <1>4, <1>5, <1>6, <1>8, <1>9, <1>10, <1>11

(* The parts of a queued functor.                                          *)
LEMMA FunctorType ==
    ASSUME NEW f \in Functor
    PROVE  f.op \in {"add", "cancel"} /\ f.id \in TimerId /\ f.id[1] \in Addresses /\ f.id[2] \in Nat
BY DEF Functor, TimerId

(* What the queue of functors looks like with one more.                    *)
LEMMA OneMoreFunctor ==
    ASSUME functors \in Seq(Functor), NEW f \in Functor, functors' = Append(functors, f)
    PROVE  /\ functors' \in Seq(Functor) /\ Len(functors') = Len(functors) + 1 /\ Len(functors) \in Nat
           /\ functors'[Len(functors) + 1] = f
           /\ \A i \in 1 .. Len(functors) : functors'[i] = functors[i]
           /\ f.op = "add" => Adds' = Adds \union {Len(functors) + 1} /\ Queued' = Queued \union {f.id[1]}
           /\ f.op # "add" => Adds' = Adds /\ Queued' = Queued
<1> DEFINE n == Len(functors)
<1>1. /\ functors' \in Seq(Functor) /\ Len(functors') = n + 1 /\ n \in Nat /\ functors'[n + 1] = f
      /\ \A i \in 1 .. n : functors'[i] = functors[i]
  BY AppendProperties, LenProperties
<1>2. Adds' = IF f.op = "add" THEN Adds \union {n + 1} ELSE Adds
  BY <1>1 DEF Adds
<1>3. f.op # "add" => Queued' = Queued
  BY <1>1, <1>2 DEF Queued, Adds
<1>4. f.op = "add" => Queued' = Queued \union {f.id[1]}
  BY <1>1, <1>2 DEF Queued, Adds
<1> QED
  BY <1>1, <1>2, <1>3, <1>4

(* What addTimer() and cancel() in other threads, and the functors that    *)
(* are called, leave as it was.                                            *)
LEMMA FunctorFacts ==
    ASSUME TimersType
    PROVE  /\ Len(functors) \in Nat /\ Len(expired) \in Nat
           /\ \A i \in 1 .. Len(functors) : /\ functors[i] \in Functor /\ functors[i].id \in TimerId
                                            /\ functors[i].id[1] \in Addresses /\ functors[i].id[2] \in Nat
           /\ \A i \in Adds : i \in 1 .. Len(functors) /\ functors[i].id[1] \in Queued
           /\ \A i \in 1 .. Len(expired) : expired[i] \in Addresses /\ expired[i] \in Expiring
           /\ Expiring \subseteq Addresses
<1>1. functors \in Seq(Functor) /\ expired \in Seq(Addresses)
  BY DEF TimersType
<1>2. Len(functors) \in Nat /\ Len(expired) \in Nat
  BY <1>1, LenProperties
<1>3. \A i \in 1 .. Len(functors) : functors[i] \in Functor
  BY <1>1, ElementOfSeq
<1>4. \A i \in 1 .. Len(expired) : expired[i] \in Addresses /\ expired[i] \in Expiring
  BY <1>1, ElementOfSeq DEF Expiring
<1>5. \A i \in Adds : i \in 1 .. Len(functors) /\ functors[i].id[1] \in Queued
  BY DEF Adds, Queued
<1>6. Expiring \subseteq Addresses
  BY <1>4 DEF Expiring
<1> QED
  BY <1>2, <1>3, <1>4, <1>5, <1>6, FunctorType

(* addTimer() in another thread.                                           *)
LEMMA AddTimerKeeps ==
    ASSUME TimersInv, NEW t \in Threads, NEW a \in Addresses, NEW delay \in Delays,
           NEW interval \in Intervals, AddTimer(t, a, delay, interval)
    PROVE  TimersInv'
<1> USE TimerBounds
<1> DEFINE s == numCreated + 1
           n == Len(functors)
           f == [op |-> "add", id |-> <<a, s>>]
<1>0. /\ TimersType /\ NumbersInv /\ ArmedInv
      /\ ActiveInv /\ ExpiredInv /\ AddsInv /\ SomewhereInv
      /\ IdsInv /\ LostInv /\ RanInv /\ CancelledInv
  BY DEF TimersInv, PlacesInv, HistoryInv
<1>1. /\ MayCreate(a) /\ heap' = NewTimer(a, delay, interval) /\ numCreated' = s
      /\ functors' = Append(functors, f) /\ adding' = [adding EXCEPT ![t] = <<a, s>>]
      /\ UNCHANGED <<now, timers, activeTimers, cancelingTimers, start, expired, calling, alarm, failed,
                     ids, ran, cancelled, lateCancel>>
  BY DEF AddTimer, history
<1>2. /\ numCreated' \in 0 .. MaxCreated /\ s # 0 /\ s \in Nat
      /\ heap' \in [Addresses -> Timer] /\ heap[a].sequence = 0
      /\ heap'[a] = [expiration |-> now + delay, interval |-> interval, sequence |-> s]
      /\ \A b \in Addresses : b # a => heap'[b] = heap[b]
      /\ \A e \in timers : e[2] # a
      /\ a \notin Expiring /\ a \notin Queued
      /\ NumbersInv'
      /\ \A id \in TimerId : Names(id, heap, numCreated) => Names(id, heap', numCreated')
      /\ Names(<<a, s>>, heap', numCreated') /\ s \notin ran /\ s \notin cancelled
  BY <1>1, NewTimerFacts
<1>3. f \in Functor /\ f.op = "add" /\ f.id = <<a, s>> /\ f.id[1] = a /\ f.id[2] = s
  BY <1>2 DEF Functor, TimerId
<1> HIDE DEF f
<1>4. /\ functors' \in Seq(Functor) /\ Len(functors') = n + 1 /\ n \in Nat /\ functors'[n + 1] = f
      /\ \A i \in 1 .. n : functors'[i] = functors[i]
      /\ Adds' = Adds \union {n + 1} /\ Queued' = Queued \union {a}
  BY <1>0, <1>1, <1>3, OneMoreFunctor DEF TimersType
<1>5. TimersType'
  BY <1>0, <1>1, <1>2, <1>4 DEF TimersType, TimerId
<1>6. /\ Expiring' = Expiring /\ Expiring \subseteq Addresses
      /\ \A i \in 1 .. Len(expired) : expired[i] \in Addresses /\ expired[i] \in Expiring
      /\ \A i \in Adds : i \in 1 .. n /\ functors[i].id[1] \in Queued /\ functors[i].id[1] \in Addresses
      /\ \A i \in 1 .. n : functors[i].id \in TimerId
      /\ \A e \in timers : e[2] \in Addresses /\ heap'[e[2]] = heap[e[2]]
  <2>1. Expiring' = Expiring
    BY <1>1 DEF Expiring
  <2>2. \A e \in timers : e[2] \in Addresses /\ heap'[e[2]] = heap[e[2]]
    BY <1>0, <1>2 DEF TimersType
  <2> QED
    BY <1>0, <2>1, <2>2, FunctorFacts
<1>7. PlacesInv'
  <2>1. ActiveInv'
    BY <1>0, <1>1, <1>2, <1>4, <1>6, SMTT(40) DEF ActiveInv
  <2>2. ExpiredInv'
    BY <1>0, <1>1, <1>2, <1>4, <1>6 DEF ExpiredInv
  <2>3. AddsInv'
    <3>1. ASSUME NEW i \in Adds'
          PROVE  functors'[i].id[2] # 0 /\ heap'[functors'[i].id[1]].sequence = functors'[i].id[2]
      <4>1. CASE i = n + 1
        BY <1>2, <1>3, <1>4, <4>1
      <4>2. CASE i # n + 1
        BY <1>0, <1>2, <1>4, <1>6, <4>2, SMTT(40) DEF AddsInv
      <4> QED
        BY <4>1, <4>2
    <3>2. ASSUME NEW i \in Adds', NEW j \in Adds', functors'[i].id[1] = functors'[j].id[1] PROVE i = j
      <4>1. CASE i \in Adds /\ j \in Adds
        BY <1>0, <1>4, <1>6, <3>2, <4>1 DEF AddsInv
      <4>2. CASE i = n + 1 \/ j = n + 1
        <5>1. \A m \in Adds : functors'[m].id[1] # a
          BY <1>2, <1>4, <1>6
        <5>2. functors'[n + 1].id[1] = a
          BY <1>3, <1>4
        <5> QED
          BY <1>4, <3>2, <4>2, <5>1, <5>2
      <4> QED
        BY <1>4, <4>1, <4>2
    <3> QED
      BY <3>1, <3>2 DEF AddsInv
  <2>4. SomewhereInv'
    BY <1>0, <1>1, <1>2, <1>4, <1>6 DEF SomewhereInv
  <2> QED
    BY <2>1, <2>2, <2>3, <2>4 DEF PlacesInv
<1>8. HistoryInv'
  <2>1. LostInv'
    <3>1. ran' \subseteq 0 .. numCreated' /\ cancelled' \subseteq 0 .. numCreated'
      BY <1>0, <1>1, <1>2 DEF LostInv, TimersType
    <3>2. ASSUME NEW x \in 1 .. numCreated'
          PROVE  x \in ran' \union cancelled' \/ \E b \in Addresses : heap'[b].sequence = x
      <4>1. CASE x = s
        BY <1>2, <4>1
      <4>2. CASE x # s
        <5>1. x \in 1 .. numCreated /\ x # 0
          BY <1>0, <1>1, <4>2 DEF TimersType
        <5>2. x \in ran \union cancelled \/ \E b \in Addresses : b # a /\ heap[b].sequence = x
          BY <1>0, <1>2, <5>1 DEF LostInv
        <5> QED
          BY <1>1, <1>2, <5>2
      <4> QED
        BY <4>1, <4>2
    <3> QED
      BY <3>1, <3>2 DEF LostInv
  <2>2. RanInv'
    <3>1. ASSUME NEW i \in 1 .. Len(expired'), i <= calling'
          PROVE  heap'[expired'[i]].sequence \in ran'
      <4>1. expired[i] \in Addresses /\ expired[i] # a /\ heap[expired[i]].sequence \in ran
        BY <1>0, <1>1, <1>2, <1>6, <3>1 DEF RanInv
      <4> QED
        BY <1>1, <1>2, <4>1
    <3>2. ASSUME NEW b \in Addresses, heap'[b].sequence \in ran' \ {0}, heap'[b].interval = 0
          PROVE  \E i \in 1 .. Len(expired') : i <= calling' /\ expired'[i] = b
      <4>1. b # a /\ heap'[b] = heap[b]
        BY <1>1, <1>2, <3>2
      <4>2. \E i \in 1 .. Len(expired) : i <= calling /\ expired[i] = b
        BY <1>0, <1>1, <3>2, <4>1 DEF RanInv
      <4> QED
        BY <1>1, <4>2
    <3> QED
      BY <3>1, <3>2 DEF RanInv
  <2>3. CancelledInv'
    <3> SUFFICES ASSUME NEW b \in Addresses, heap'[b].sequence \in cancelled' \ {0}
                 PROVE  /\ b \in Expiring' /\ heap'[b].sequence \in lateCancel'
                        /\ <<b, heap'[b].sequence>> \in cancelingTimers'
      BY DEF CancelledInv
    <3>1. b # a /\ heap'[b] = heap[b]
      BY <1>1, <1>2
    <3> QED
      BY <1>0, <1>1, <1>6, <3>1 DEF CancelledInv
  <2>4. IdsInv'
    <3>1. \A id \in ids' : Names(id, heap', numCreated')
      BY <1>0, <1>1, <1>2 DEF IdsInv, TimersType
    <3>2. ASSUME NEW i \in 1 .. Len(functors') PROVE Names(functors'[i].id, heap', numCreated')
      <4>1. CASE i = n + 1
        BY <1>2, <1>3, <1>4, <4>1
      <4>2. CASE i # n + 1
        <5>1. i \in 1 .. n
          BY <1>4, <4>2
        <5> QED
          BY <1>0, <1>2, <1>4, <1>6, <5>1 DEF IdsInv
      <4> QED
        BY <4>1, <4>2
    <3> QED
      BY <3>1, <3>2 DEF IdsInv
  <2> QED
    BY <2>1, <2>2, <2>3, <2>4 DEF HistoryInv
<1>9. ArmedInv'
  BY <1>0, <1>1 DEF ArmedInv
<1> QED
  BY <1>2, <1>5, <1>7, <1>8, <1>9 DEF TimersInv

(* The invariant looks at neither of these.                                *)
LEMMA TickKeeps ==
    ASSUME TimersInv, Tick PROVE TimersInv'
<1> USE TimerBounds
<1>0. /\ TimersType /\ NumbersInv /\ ArmedInv
      /\ ActiveInv /\ ExpiredInv /\ AddsInv /\ SomewhereInv
      /\ IdsInv /\ LostInv /\ RanInv /\ CancelledInv
  BY DEF TimersInv, PlacesInv, HistoryInv
<1>1. /\ now < MaxTime /\ now' = now + 1
      /\ UNCHANGED <<heap, numCreated, timers, activeTimers, cancelingTimers, start, expired, calling,
                     alarm, functors, adding, failed, ids, ran, cancelled, lateCancel>>
  BY DEF Tick, history
<1>2. Expiring' = Expiring /\ Adds' = Adds /\ Queued' = Queued
  BY <1>1 DEF Expiring, Adds, Queued
<1>3. TimersType'
  BY <1>0, <1>1 DEF TimersType
<1>4. ActiveInv' /\ AddsInv' /\ SomewhereInv'
  BY <1>0, <1>1, <1>2 DEF ActiveInv, AddsInv, SomewhereInv
<1>5. ExpiredInv'
  <2>1. \A i \in 1 .. Len(expired) : heap[expired[i]].expiration \in Nat
    BY <1>0, FunctorFacts DEF TimersType, Timer
  <2> QED
    BY <1>0, <1>1, <1>2, <2>1 DEF ExpiredInv, TimersType
<1>6. IdsInv' /\ LostInv' /\ RanInv' /\ CancelledInv' /\ NumbersInv'
  BY <1>0, <1>1, <1>2 DEF IdsInv, LostInv, RanInv, CancelledInv, NumbersInv, Names
<1>7. ArmedInv'
  BY <1>0, <1>1 DEF ArmedInv, TimersType
<1> QED
  BY <1>3, <1>4, <1>5, <1>6, <1>7 DEF TimersInv, PlacesInv, HistoryInv

(* addTimer() returns a TimerId, of whatever Timer is at the address.      *)
LEMMA AddTimerReturnsKeeps ==
    ASSUME TimersInv, NEW t \in Threads, AddTimerReturns(t) PROVE TimersInv'
<1> DEFINE a == adding[t][1]
           id == <<a, heap[a].sequence>>
<1>0. /\ TimersType /\ NumbersInv /\ ArmedInv
      /\ ActiveInv /\ ExpiredInv /\ AddsInv /\ SomewhereInv
      /\ IdsInv /\ LostInv /\ RanInv /\ CancelledInv
  BY DEF TimersInv, PlacesInv, HistoryInv
<1>1. /\ adding[t] # <<>> /\ ids' = ids \union {id} /\ adding' = [adding EXCEPT ![t] = <<>>]
      /\ UNCHANGED <<now, heap, numCreated, timers, activeTimers, cancelingTimers, start, expired, calling,
                     alarm, functors, ran, cancelled, lateCancel, failed>>
  BY DEF AddTimerReturns
<1>2. Expiring' = Expiring /\ Adds' = Adds /\ Queued' = Queued
  BY <1>1 DEF Expiring, Adds, Queued
<1>3. adding[t] \in TimerId /\ a \in Addresses /\ heap[a].sequence \in Nat
  BY <1>0, <1>1 DEF TimersType, TimerId, Timer
<1>4. TimersType'
  BY <1>0, <1>1, <1>3 DEF TimersType, TimerId
<1>5. ActiveInv' /\ AddsInv' /\ SomewhereInv' /\ ExpiredInv'
  BY <1>0, <1>1, <1>2 DEF ActiveInv, AddsInv, SomewhereInv, ExpiredInv
<1>6. Names(id, heap, numCreated)
  BY <1>0, <1>3 DEF Names, NumbersInv
<1>7. IdsInv'
  BY <1>0, <1>1, <1>6 DEF IdsInv
<1>8. LostInv' /\ RanInv' /\ CancelledInv' /\ NumbersInv' /\ ArmedInv'
  BY <1>0, <1>1, <1>2 DEF LostInv, RanInv, CancelledInv, NumbersInv, ArmedInv
<1> QED
  BY <1>4, <1>5, <1>7, <1>8 DEF TimersInv, PlacesInv, HistoryInv

(* cancel() in another thread.                                             *)
LEMMA CancelKeeps ==
    ASSUME TimersInv, NEW id \in ids, Cancel(id) PROVE TimersInv'
<1> DEFINE f == [op |-> "cancel", id |-> id]
           n == Len(functors)
<1>0. /\ TimersType /\ NumbersInv /\ ArmedInv
      /\ ActiveInv /\ ExpiredInv /\ AddsInv /\ SomewhereInv
      /\ IdsInv /\ LostInv /\ RanInv /\ CancelledInv
  BY DEF TimersInv, PlacesInv, HistoryInv
<1>1. /\ functors' = Append(functors, f)
      /\ UNCHANGED <<now, heap, numCreated, timers, activeTimers, cancelingTimers, start, expired, calling,
                     alarm, adding, failed, ids, ran, cancelled, lateCancel>>
  BY DEF Cancel, history
<1>2. id \in TimerId /\ f \in Functor /\ f.op # "add" /\ f.id = id
  BY <1>0 DEF TimersType, Functor
<1> HIDE DEF f
<1>3. /\ functors' \in Seq(Functor) /\ Len(functors') = n + 1 /\ n \in Nat /\ functors'[n + 1] = f
      /\ \A i \in 1 .. n : functors'[i] = functors[i]
      /\ Adds' = Adds /\ Queued' = Queued
  BY <1>0, <1>1, <1>2, OneMoreFunctor DEF TimersType
<1>4. Expiring' = Expiring /\ \A i \in Adds : i \in 1 .. n
  BY <1>1 DEF Expiring, Adds
<1>5. TimersType'
  BY <1>0, <1>1, <1>3 DEF TimersType
<1>6. ActiveInv' /\ AddsInv' /\ SomewhereInv' /\ ExpiredInv'
  BY <1>0, <1>1, <1>3, <1>4 DEF ActiveInv, AddsInv, SomewhereInv, ExpiredInv
<1>7. IdsInv'
  <2>1. ASSUME NEW i \in 1 .. Len(functors') PROVE Names(functors'[i].id, heap, numCreated)
    <3>1. CASE i = n + 1
      BY <1>0, <1>2, <1>3, <3>1 DEF IdsInv
    <3>2. CASE i # n + 1
      BY <1>0, <1>3, <3>2 DEF IdsInv
    <3> QED
      BY <3>1, <3>2
  <2> QED
    BY <1>0, <1>1, <2>1 DEF IdsInv
<1>8. LostInv' /\ RanInv' /\ CancelledInv' /\ NumbersInv' /\ ArmedInv'
  BY <1>0, <1>1, <1>4 DEF LostInv, RanInv, CancelledInv, NumbersInv, ArmedInv
<1> QED
  BY <1>5, <1>6, <1>7, <1>8 DEF TimersInv, PlacesInv, HistoryInv

(* A callback returns, and the next one is called.                         *)
LEMMA NextCallbackKeeps ==
    ASSUME TimersInv, NextCallback PROVE TimersInv'
<1> DEFINE c == calling + 1
<1>0. /\ TimersType /\ NumbersInv /\ ArmedInv
      /\ ActiveInv /\ ExpiredInv /\ AddsInv /\ SomewhereInv
      /\ IdsInv /\ LostInv /\ RanInv /\ CancelledInv
  BY DEF TimersInv, PlacesInv, HistoryInv
<1>1. /\ calling \in 1 .. Len(expired) /\ calling' = c
      /\ calling < Len(expired) => ran' = ran \union {heap[expired[c]].sequence}
      /\ ~ (calling < Len(expired)) => ran' = ran
      /\ failed' => failed \/ (calling < Len(expired) /\ heap[expired[c]] = Free)
      /\ UNCHANGED <<now, heap, numCreated, timers, activeTimers, cancelingTimers, start, expired, alarm,
                     functors, adding, ids, cancelled, lateCancel>>
  BY DEF NextCallback, InCallback, BeginCall
<1>2. Expiring' = Expiring /\ Adds' = Adds /\ Queued' = Queued
  BY <1>1 DEF Expiring, Adds, Queued
<1>3. /\ Len(expired) \in Nat /\ calling \in Nat /\ numCreated \in Nat
      /\ \A i \in 1 .. Len(expired) : /\ expired[i] \in Addresses /\ heap[expired[i]].sequence \in 1 .. numCreated
                                      /\ heap[expired[i]] # Free
  <2>1. \A i \in 1 .. Len(expired) : expired[i] \in Addresses /\ heap[expired[i]].sequence # 0
    BY <1>0, FunctorFacts DEF ExpiredInv
  <2>2. Len(expired) \in Nat /\ calling \in Nat /\ numCreated \in Nat
    BY <1>0, FunctorFacts, TimerBounds DEF TimersType
  <2>3. \A a \in Addresses : heap[a].sequence \in Nat /\ heap[a].sequence <= numCreated
    BY <1>0 DEF TimersType, Timer, NumbersInv
  <2> QED
    BY <2>1, <2>2, <2>3 DEF Free
<1>4. ~ failed'
  <2>1. calling < Len(expired) => c \in 1 .. Len(expired)
    BY <1>3
  <2> QED
    BY <1>0, <1>1, <1>3, <2>1 DEF ActiveInv
<1>5. TimersType'
  <2>1. failed' \in BOOLEAN
    BY <1>0 DEF NextCallback, TimersType
  <2> QED
    BY <1>0, <1>1, <1>3, <2>1 DEF TimersType
<1>6. ActiveInv' /\ AddsInv' /\ SomewhereInv' /\ IdsInv' /\ CancelledInv' /\ NumbersInv'
  BY <1>0, <1>1, <1>2, <1>4 DEF ActiveInv, AddsInv, SomewhereInv, IdsInv, CancelledInv, NumbersInv
<1>7. ExpiredInv' /\ ArmedInv'
  BY <1>0, <1>1, <1>2, <1>3 DEF ExpiredInv, ArmedInv
<1>8. ran \subseteq ran' /\ ran' \subseteq ran \union {heap[expired[i]].sequence : i \in {c} \cap 1 .. Len(expired)}
  BY <1>1, <1>3
<1>9. LostInv'
  BY <1>0, <1>1, <1>3, <1>8 DEF LostInv
<1>10. RanInv'
  <2>1. ASSUME NEW i \in 1 .. Len(expired), i <= c PROVE heap[expired[i]].sequence \in ran'
    <3>1. CASE i = c
      BY <1>1, <1>3, <2>1, <3>1
    <3>2. CASE i # c
      BY <1>0, <1>3, <1>8, <2>1, <3>2 DEF RanInv
    <3> QED
      BY <3>1, <3>2
  <2>2. ASSUME NEW a \in Addresses, heap[a].sequence \in ran' \ {0}, heap[a].interval = 0
        PROVE  \E i \in 1 .. Len(expired) : i <= c /\ expired[i] = a
    <3>1. CASE heap[a].sequence \in ran
      BY <1>0, <1>3, <2>2, <3>1 DEF RanInv
    <3>2. CASE heap[a].sequence \notin ran
      <4>1. c \in 1 .. Len(expired) /\ heap[expired[c]].sequence = heap[a].sequence
        BY <1>8, <2>2, <3>2
      <4>2. expired[c] = a
        BY <1>0, <1>3, <2>2, <4>1 DEF NumbersInv
      <4> QED
        BY <1>3, <4>1, <4>2
    <3> QED
      BY <3>1, <3>2
  <2> QED
    BY <1>1, <2>1, <2>2 DEF RanInv
<1> QED
  BY <1>5, <1>6, <1>7, <1>9, <1>10 DEF TimersInv, PlacesInv, HistoryInv
-----------------------------------------------------------------------------
(* addTimerInLoop() keeps timers_ and activeTimers_ together, and arms the *)
(* timerfd.                                                                *)
LEMMA InsertKeeps ==
    ASSUME TimersType, ActiveInv, ArmedInv, NEW h \in [Addresses -> Timer], NEW a \in Addresses,
           h[a].sequence # 0, \A e \in timers : e[2] # a /\ h[e[2]] = heap[e[2]],
           Become(addTimerInLoop(QueueWith(h), a))
    PROVE  /\ heap' = h /\ timers' = timers \union {<<h[a].expiration, a>>}
           /\ cancelingTimers' = cancelingTimers /\ timers' \subseteq Nat \X Addresses
           /\ ~ failed' /\ failed' \in BOOLEAN /\ alarm' \in Nat
           /\ activeTimers' = {<<e[2], heap'[e[2]].sequence>> : e \in timers'}
           /\ \A e \in timers' : heap'[e[2]].sequence # 0 /\ heap'[e[2]].expiration = e[1]
           /\ calling = 0 => \A e \in timers' : alarm' <= e[1] \/ alarm' <= now + 1
<1> DEFINE when == h[a].expiration
<1>1. /\ heap' = h /\ timers' = timers \union {<<when, a>>}
      /\ activeTimers' = activeTimers \union {<<a, h[a].sequence>>}
      /\ cancelingTimers' = cancelingTimers
      /\ alarm' = IF timers = {} \/ when < Min({e[1] : e \in timers})
                  THEN (IF when > now THEN when ELSE now + 1) ELSE alarm
      /\ failed' => \/ failed \/ <<when, a>> \in timers \/ <<a, h[a].sequence>> \in activeTimers
                    \/ h[a] = Free \/ Cardinality(timers') # Cardinality(activeTimers')
  BY BecomesAdded
<1>2. when \in Nat /\ now \in Nat /\ alarm \in Nat /\ timers \subseteq Nat \X Addresses
  BY TimerBounds DEF TimersType, Timer
<1>3. timers' \subseteq Nat \X Addresses
  BY <1>1, <1>2
<1>4. \A e \in timers' : heap'[e[2]].sequence # 0 /\ heap'[e[2]].expiration = e[1]
  BY <1>1 DEF ActiveInv
<1>5. activeTimers' = {<<e[2], heap'[e[2]].sequence>> : e \in timers'}
  BY <1>1 DEF ActiveInv
<1>6. Cardinality(timers') = Cardinality(activeTimers')
  BY <1>1, <1>3, <1>4, <1>5, SameSize, SMTT(40)
<1>7. ~ failed'
  <2>1. <<when, a>> \notin timers
    OBVIOUS
  <2>2. <<a, h[a].sequence>> \notin activeTimers
    BY DEF ActiveInv
  <2> QED
    BY <1>1, <1>6, <2>1, <2>2 DEF ActiveInv, Free
<1>8. alarm' \in Nat
  BY <1>1, <1>2
<1>9. ASSUME calling = 0, NEW e \in timers' PROVE alarm' <= e[1] \/ alarm' <= now + 1
  <2> DEFINE T == {x[1] : x \in timers}
  <2>1. e[1] \in Nat
    BY <1>3
  <2>2. \A x \in timers : x[1] \in Nat /\ (alarm <= x[1] \/ alarm <= now + 1)
    BY <1>2, <1>9 DEF ArmedInv
  <2>3. timers # {} => Min(T) \in T /\ \A x \in timers : Min(T) <= x[1]
    <3>1. T \in SUBSET Nat /\ (\A x \in timers : x[1] \in T) /\ (timers # {} => T # {})
      BY <1>2
    <3> HIDE DEF T
    <3> QED
      BY <3>1, MinIsLeast
  <2>4. CASE timers = {} \/ when < Min(T)
    <3>1. when <= e[1]
      <4>1. CASE e \in timers
        BY <1>2, <2>1, <2>2, <2>3, <2>4, <4>1
      <4>2. CASE e = <<when, a>>
        BY <1>2, <4>2
      <4> QED
        BY <1>1, <4>1, <4>2
    <3> QED
      BY <1>1, <1>2, <2>1, <2>4, <3>1
  <2>5. CASE timers # {} /\ ~ (when < Min(T))
    <3>1. alarm' = alarm
      BY <1>1, <2>5
    <3>2. CASE e \in timers
      BY <2>2, <3>1, <3>2
    <3>3. CASE e = <<when, a>>
      <4>1. PICK x \in timers : x[1] = Min(T)
        BY <2>3, <2>5
      <4>2. x[1] <= when /\ x[1] \in Nat
        BY <1>2, <2>2, <2>5, <4>1
      <4> QED
        BY <1>2, <2>2, <3>1, <3>3, <4>1, <4>2
    <3> QED
      BY <1>1, <3>2, <3>3
  <2> QED
    BY <2>4, <2>5
<1> QED
  BY <1>1, <1>3, <1>4, <1>5, <1>7, <1>8, <1>9, BecomesBoolean

(* addTimer() in a callback.                                               *)
LEMMA CallbackAddsKeeps ==
    ASSUME TimersInv, NEW a \in Addresses, NEW delay \in Delays, NEW interval \in Intervals,
           CallbackAdds(a, delay, interval)
    PROVE  TimersInv'
<1> USE TimerBounds
<1> DEFINE s == numCreated + 1
           n == Len(functors)
           h == NewTimer(a, delay, interval)
<1>0. /\ TimersType /\ NumbersInv /\ ArmedInv
      /\ ActiveInv /\ ExpiredInv /\ AddsInv /\ SomewhereInv
      /\ IdsInv /\ LostInv /\ RanInv /\ CancelledInv
  BY DEF TimersInv, PlacesInv, HistoryInv
<1>1. /\ MayCreate(a) /\ numCreated' = s /\ calling \in 1 .. Len(expired)
      /\ Become(addTimerInLoop([Queue EXCEPT !.heap = h], a)) /\ ids' = ids \union {<<a, s>>}
      /\ UNCHANGED <<now, start, expired, calling, functors, adding, ran, cancelled, lateCancel>>
  BY DEF CallbackAdds, InCallback
<1>2. [Queue EXCEPT !.heap = h] = QueueWith(h)
  BY DEF Queue, QueueWith
<1>3. heap' = h
  BY <1>1, <1>2, BecomesAdded
<1>4. /\ numCreated' \in 0 .. MaxCreated /\ s # 0 /\ s \in Nat
      /\ heap' \in [Addresses -> Timer] /\ heap[a].sequence = 0
      /\ heap'[a] = [expiration |-> now + delay, interval |-> interval, sequence |-> s]
      /\ \A b \in Addresses : b # a => heap'[b] = heap[b]
      /\ \A e \in timers : e[2] # a
      /\ a \notin Expiring /\ a \notin Queued
      /\ NumbersInv'
      /\ \A id \in TimerId : Names(id, heap, numCreated) => Names(id, heap', numCreated')
      /\ Names(<<a, s>>, heap', numCreated') /\ s \notin ran /\ s \notin cancelled
  BY <1>1, <1>3, NewTimerFacts
<1>5. /\ Expiring' = Expiring /\ Adds' = Adds /\ Queued' = Queued /\ Expiring \subseteq Addresses
      /\ \A i \in 1 .. Len(expired) : expired[i] \in Addresses /\ expired[i] \in Expiring
      /\ \A i \in Adds : i \in 1 .. n /\ functors[i].id[1] \in Queued /\ functors[i].id[1] \in Addresses
      /\ \A i \in 1 .. n : functors[i].id \in TimerId
      /\ \A e \in timers : e[2] \in Addresses /\ heap'[e[2]] = heap[e[2]]
  <2>1. Expiring' = Expiring /\ Adds' = Adds /\ Queued' = Queued
    BY <1>1 DEF Expiring, Adds, Queued
  <2>2. \A e \in timers : e[2] \in Addresses /\ heap'[e[2]] = heap[e[2]]
    BY <1>0, <1>4 DEF TimersType
  <2> QED
    BY <1>0, <2>1, <2>2, FunctorFacts
<1> HIDE DEF h
<1>6. /\ timers' = timers \union {<<heap'[a].expiration, a>>}
      /\ cancelingTimers' = cancelingTimers /\ timers' \subseteq Nat \X Addresses
      /\ ~ failed' /\ failed' \in BOOLEAN /\ alarm' \in Nat
      /\ activeTimers' = {<<e[2], heap'[e[2]].sequence>> : e \in timers'}
      /\ \A e \in timers' : heap'[e[2]].sequence # 0 /\ heap'[e[2]].expiration = e[1]
  <2>1. h \in [Addresses -> Timer] /\ h[a].sequence # 0 /\ \A e \in timers : e[2] # a /\ h[e[2]] = heap[e[2]]
    BY <1>3, <1>4, <1>5
  <2> QED
    BY <1>0, <1>1, <1>2, <1>3, <2>1, InsertKeeps
<1>7. TimersType'
  BY <1>0, <1>1, <1>4, <1>6, SMTT(40) DEF TimersType, TimerId
<1>8. PlacesInv'
  <2>1. ActiveInv'
    BY <1>0, <1>4, <1>5, <1>6 DEF ActiveInv
  <2>2. ExpiredInv'
    BY <1>0, <1>1, <1>4, <1>5 DEF ExpiredInv
  <2>3. AddsInv'
    BY <1>0, <1>1, <1>4, <1>5, SMTT(40) DEF AddsInv
  <2>4. SomewhereInv'
    BY <1>0, <1>4, <1>5, <1>6 DEF SomewhereInv
  <2> QED
    BY <2>1, <2>2, <2>3, <2>4 DEF PlacesInv
<1>9. HistoryInv'
  <2>1. LostInv'
    <3>1. ran' \subseteq 0 .. numCreated' /\ cancelled' \subseteq 0 .. numCreated'
      BY <1>0, <1>1, <1>4, SMTT(40) DEF LostInv, TimersType
    <3>2. ASSUME NEW x \in 1 .. numCreated'
          PROVE  x \in ran' \union cancelled' \/ \E b \in Addresses : heap'[b].sequence = x
      <4>1. CASE x = s
        BY <1>4, <4>1
      <4>2. CASE x # s
        <5>1. x \in 1 .. numCreated /\ x # 0
          BY <1>0, <1>1, <4>2 DEF TimersType
        <5>2. x \in ran \union cancelled \/ \E b \in Addresses : b # a /\ heap[b].sequence = x
          BY <1>0, <1>4, <5>1 DEF LostInv
        <5> QED
          BY <1>1, <1>4, <5>2
      <4> QED
        BY <4>1, <4>2
    <3> QED
      BY <3>1, <3>2 DEF LostInv
  <2>2. RanInv'
    <3>1. \A i \in 1 .. Len(expired') : i <= calling' => heap'[expired'[i]].sequence \in ran'
      BY <1>0, <1>1, <1>4, <1>5 DEF RanInv
    <3>2. ASSUME NEW b \in Addresses, heap'[b].sequence \in ran' \ {0}, heap'[b].interval = 0
          PROVE  \E i \in 1 .. Len(expired') : i <= calling' /\ expired'[i] = b
      <4>1. b # a /\ heap'[b] = heap[b] /\ heap[b].sequence \in ran \ {0} /\ heap[b].interval = 0
        BY <1>1, <1>4, <3>2
      <4> QED
        BY <1>0, <1>1, <4>1 DEF RanInv
    <3> QED
      BY <3>1, <3>2 DEF RanInv
  <2>3. CancelledInv'
    BY <1>0, <1>1, <1>4, <1>5, <1>6 DEF CancelledInv
  <2>4. IdsInv'
    BY <1>0, <1>1, <1>4, <1>5 DEF IdsInv, TimersType
  <2> QED
    BY <2>1, <2>2, <2>3, <2>4 DEF HistoryInv
<1>10. ArmedInv'
  BY <1>1 DEF ArmedInv
<1> QED
  BY <1>4, <1>7, <1>8, <1>9, <1>10 DEF TimersInv

(* doPendingFunctors() takes the first functor.                            *)
LEMMA FirstFunctorGone ==
    ASSUME TimersType, AddsInv, IdsInv, functors # <<>>, functors' = Tail(functors)
    PROVE  /\ functors' \in Seq(Functor) /\ Head(functors) = functors[1] /\ 1 \in 1 .. Len(functors)
           /\ \A i \in Adds' : /\ functors'[i].id[2] # 0 /\ functors'[i].id[1] \in Addresses
                               /\ heap[functors'[i].id[1]].sequence = functors'[i].id[2]
           /\ \A i, j \in Adds' : functors'[i].id[1] = functors'[j].id[1] => i = j
           /\ \A i \in 1 .. Len(functors') : /\ Names(functors'[i].id, heap, numCreated)
                                             /\ functors'[i].id \in TimerId
           /\ functors[1].op # "add" => Queued' = Queued
           /\ functors[1].op = "add" => Queued' = Queued \ {functors[1].id[1]}
<1> DEFINE n == Len(functors)
<1>1. /\ functors' \in Seq(Functor) /\ Head(functors) = functors[1] /\ n \in Nat /\ n > 0
      /\ Len(functors') = n - 1 /\ \A i \in 1 .. n - 1 : functors'[i] = functors[i + 1]
  <2>1. functors \in Seq(Functor)
    BY DEF TimersType
  <2> QED
    BY <2>1, HeadTailProperties, LenProperties, EmptySeq
<1>2. /\ \A i \in 1 .. n : /\ functors[i] \in Functor /\ functors[i].id \in TimerId
                           /\ functors[i].id[1] \in Addresses /\ functors[i].id[2] \in Nat
      /\ \A i \in Adds : i \in 1 .. n
  BY FunctorFacts
<1>3. \A i \in Adds' : i \in 1 .. n - 1 /\ i + 1 \in Adds /\ functors'[i] = functors[i + 1]
  BY <1>1 DEF Adds
<1>4. \A i \in Adds : i # 1 => i - 1 \in Adds' /\ functors'[i - 1] = functors[i]
  <2> SUFFICES ASSUME NEW i \in Adds, i # 1 PROVE i - 1 \in Adds' /\ functors'[i - 1] = functors[i]
    OBVIOUS
  <2>1. i \in 1 .. n /\ functors[i].op = "add"
    BY DEF Adds
  <2>2. i - 1 \in 1 .. n - 1 /\ (i - 1) + 1 = i
    BY <1>1, <2>1
  <2>3. functors'[i - 1] = functors[i]
    BY <1>1, <2>2
  <2> QED
    BY <1>1, <2>1, <2>2, <2>3 DEF Adds
<1>5. \A i \in Adds' : /\ functors'[i].id[2] # 0 /\ functors'[i].id[1] \in Addresses
                       /\ heap[functors'[i].id[1]].sequence = functors'[i].id[2]
  BY <1>2, <1>3 DEF AddsInv
<1>6. ASSUME NEW i \in Adds', NEW j \in Adds', functors'[i].id[1] = functors'[j].id[1] PROVE i = j
  <2>1. i + 1 = j + 1
    BY <1>3, <1>6 DEF AddsInv
  <2> QED
    BY <1>3, <2>1
<1>7. \A i \in 1 .. Len(functors') : /\ Names(functors'[i].id, heap, numCreated)
                                     /\ functors'[i].id \in TimerId
  BY <1>1, <1>2 DEF IdsInv
<1>8. Queued' \subseteq Queued
  BY <1>3 DEF Queued
<1>9. ASSUME NEW a \in Queued \ Queued' PROVE 1 \in Adds /\ a = functors[1].id[1]
  <2>1. PICK i \in Adds : a = functors[i].id[1]
    BY DEF Queued
  <2>2. i = 1
    BY <1>4, <1>9, <2>1 DEF Queued
  <2> QED
    BY <2>1, <2>2
<1>10. 1 \in Adds <=> functors[1].op = "add"
  BY <1>1 DEF Adds
<1>11. ASSUME 1 \in Adds PROVE functors[1].id[1] \notin Queued'
  <2>1. ASSUME NEW i \in Adds', functors'[i].id[1] = functors[1].id[1] PROVE FALSE
    <3>1. i + 1 = 1
      BY <1>3, <1>11, <2>1 DEF AddsInv
    <3> QED
      BY <1>3, <3>1
  <2> QED
    BY <2>1 DEF Queued
<1>12. functors[1].op # "add" => Queued' = Queued
  BY <1>8, <1>9, <1>10
<1>13. functors[1].op = "add" => Queued' = Queued \ {functors[1].id[1]}
  BY <1>8, <1>9, <1>10, <1>11
<1>14. 1 \in 1 .. n
  BY <1>1
<1> QED
  BY <1>1, <1>5, <1>6, <1>7, <1>12, <1>13, <1>14

(* The loop runs addTimerInLoop().                                         *)
LEMMA RunAddKeeps ==
    ASSUME TimersInv, RunFunctor, Head(functors).op = "add" PROVE TimersInv'
<1> DEFINE a == functors[1].id[1]
<1>0. /\ TimersType /\ NumbersInv /\ ArmedInv
      /\ ActiveInv /\ ExpiredInv /\ AddsInv /\ SomewhereInv
      /\ IdsInv /\ LostInv /\ RanInv /\ CancelledInv
  BY DEF TimersInv, PlacesInv, HistoryInv
<1>1. /\ calling = 0 /\ functors # <<>> /\ functors' = Tail(functors)
      /\ Become(addTimerInLoop(Queue, Head(functors).id[1]))
      /\ UNCHANGED <<now, numCreated, start, expired, calling, adding, ids, ran, cancelled, lateCancel>>
  BY DEF RunFunctor
<1>2. /\ functors' \in Seq(Functor) /\ Head(functors) = functors[1] /\ 1 \in 1 .. Len(functors)
      /\ \A i \in Adds' : /\ functors'[i].id[2] # 0 /\ functors'[i].id[1] \in Addresses
                          /\ heap[functors'[i].id[1]].sequence = functors'[i].id[2]
      /\ \A i, j \in Adds' : functors'[i].id[1] = functors'[j].id[1] => i = j
      /\ \A i \in 1 .. Len(functors') : Names(functors'[i].id, heap, numCreated)
      /\ Queued' = Queued \ {a}
  BY <1>0, <1>1, FirstFunctorGone
<1>3. 1 \in Adds /\ a \in Addresses /\ a \in Queued /\ heap[a].sequence # 0
  <2>1. 1 \in Adds
    BY <1>2 DEF Adds
  <2> QED
    BY <1>0, <1>2, <2>1, FunctorFacts DEF AddsInv
<1>4. \A e \in timers : e[2] # a
  BY <1>0, <1>3 DEF ActiveInv
<1>5. QueueWith(heap) = Queue
  BY DEF Queue, QueueWith
<1>6. /\ heap' = heap /\ timers' = timers \union {<<heap[a].expiration, a>>}
      /\ cancelingTimers' = cancelingTimers /\ timers' \subseteq Nat \X Addresses
      /\ ~ failed' /\ failed' \in BOOLEAN /\ alarm' \in Nat
      /\ activeTimers' = {<<e[2], heap'[e[2]].sequence>> : e \in timers'}
      /\ \A e \in timers' : heap'[e[2]].sequence # 0 /\ heap'[e[2]].expiration = e[1]
      /\ \A e \in timers' : alarm' <= e[1] \/ alarm' <= now + 1
  <2>1. heap \in [Addresses -> Timer] /\ Become(addTimerInLoop(QueueWith(heap), a))
    BY <1>0, <1>1, <1>2, <1>5 DEF TimersType
  <2> QED
    BY <1>0, <1>1, <1>3, <1>4, <2>1, InsertKeeps
<1>7. Expiring' = Expiring /\ Expiring = {} /\ Len(expired) = 0
  BY <1>0, <1>1, EmptySeq DEF Expiring, ExpiredInv
<1>8. TimersType'
  BY <1>0, <1>1, <1>2, <1>6 DEF TimersType
<1>9. ActiveInv'
  BY <1>0, <1>2, <1>4, <1>6, <1>7 DEF ActiveInv
<1>10. ExpiredInv' /\ AddsInv' /\ SomewhereInv'
  <2>1. ExpiredInv'
    BY <1>0, <1>1, <1>7 DEF ExpiredInv
  <2>2. AddsInv'
    BY <1>2, <1>6 DEF AddsInv
  <2>3. SomewhereInv'
    BY <1>0, <1>2, <1>6, <1>7 DEF SomewhereInv
  <2> QED
    BY <2>1, <2>2, <2>3
<1>11. IdsInv' /\ LostInv' /\ RanInv' /\ CancelledInv' /\ NumbersInv' /\ ArmedInv'
  BY <1>0, <1>1, <1>2, <1>6, <1>7 DEF IdsInv, LostInv, RanInv, CancelledInv, NumbersInv, ArmedInv
<1> QED
  BY <1>8, <1>9, <1>10, <1>11 DEF TimersInv, PlacesInv, HistoryInv

(* cancelInLoop(), from the queue of functors or in a callback.            *)
LEMMA CancelInLoopKeeps ==
    ASSUME TimersInv, NEW id \in TimerId, Names(id, heap, numCreated),
           Become(cancelInLoop(Queue, id)), Remember(id),
           UNCHANGED <<now, numCreated, start, expired, calling, adding, ids, ran>>,
           \/ functors' = functors
           \/ functors # <<>> /\ Head(functors).op # "add" /\ functors' = Tail(functors)
    PROVE  TimersInv'
<1> DEFINE a == id[1]
           s == id[2]
           entry == <<heap[a].expiration, a>>
           waits == \E i \in 1 .. Len(functors) : functors[i] = [op |-> "add", id |-> id]
<1>0. /\ TimersType /\ NumbersInv /\ ArmedInv
      /\ ActiveInv /\ ExpiredInv /\ AddsInv /\ SomewhereInv
      /\ IdsInv /\ LostInv /\ RanInv /\ CancelledInv
  BY DEF TimersInv, PlacesInv, HistoryInv
<1>1. a \in Addresses /\ s \in Nat /\ id = <<a, s>> /\ s <= numCreated /\ numCreated \in Nat
  BY <1>0, TimerBounds DEF TimerId, Names, TimersType
<1>2. /\ \A i \in 1 .. Len(functors) : /\ functors[i] \in Functor /\ functors[i].id \in TimerId
                                       /\ functors[i].id[1] \in Addresses /\ functors[i].id[2] \in Nat
      /\ \A i \in Adds : i \in 1 .. Len(functors) /\ functors[i].id[1] \in Queued
      /\ \A i \in 1 .. Len(expired) : expired[i] \in Addresses /\ expired[i] \in Expiring
      /\ Expiring \subseteq Addresses /\ Len(expired) \in Nat
  BY <1>0, FunctorFacts
<1>3. /\ functors' \in Seq(Functor) /\ Queued' = Queued /\ Expiring' = Expiring
      /\ \A i \in Adds' : /\ functors'[i].id[2] # 0 /\ functors'[i].id[1] \in Addresses
                          /\ functors'[i].id[1] \in Queued
                          /\ heap[functors'[i].id[1]].sequence = functors'[i].id[2]
      /\ \A i, j \in Adds' : functors'[i].id[1] = functors'[j].id[1] => i = j
      /\ \A i \in 1 .. Len(functors') : Names(functors'[i].id, heap, numCreated)
  <2>1. Expiring' = Expiring
    BY DEF Expiring
  <2>2. \A i \in Adds' : functors'[i].id[1] \in Queued'
    BY DEF Queued
  <2>3. CASE functors' = functors
    <3>1. Adds' = Adds /\ Queued' = Queued
      BY <2>3 DEF Adds, Queued
    <3> QED
      BY <1>0, <1>2, <2>1, <2>3, <3>1 DEF TimersType, AddsInv, IdsInv
  <2>4. CASE functors # <<>> /\ Head(functors).op # "add" /\ functors' = Tail(functors)
    <3>1. /\ functors' \in Seq(Functor) /\ Head(functors) = functors[1]
          /\ \A i \in Adds' : /\ functors'[i].id[2] # 0 /\ functors'[i].id[1] \in Addresses
                              /\ heap[functors'[i].id[1]].sequence = functors'[i].id[2]
          /\ \A i, j \in Adds' : functors'[i].id[1] = functors'[j].id[1] => i = j
          /\ \A i \in 1 .. Len(functors') : Names(functors'[i].id, heap, numCreated)
          /\ functors[1].op # "add" => Queued' = Queued
      BY <1>0, <2>4, FirstFunctorGone
    <3>2. Queued' = Queued
      BY <2>4, <3>1
    <3> QED
      BY <2>1, <2>2, <3>1, <3>2
  <2> QED
    BY <2>3, <2>4
<1>4. /\ cancelled' = IF waits THEN cancelled ELSE cancelled \union {s}
      /\ lateCancel \subseteq lateCancel'
      /\ calling > 0 /\ id \notin activeTimers => s \in lateCancel'
  BY DEF Remember
<1>5. failed' \in BOOLEAN
  BY BecomesBoolean
<1>6. CASE id \in activeTimers
  <2>1. /\ heap' = [heap EXCEPT ![a] = Free] /\ timers' = timers \ {entry}
        /\ activeTimers' = activeTimers \ {id} /\ cancelingTimers' = cancelingTimers
        /\ alarm' = alarm
        /\ failed' => failed \/ entry \notin timers \/ Cardinality(timers') # Cardinality(activeTimers')
    BY <1>6, BecomesCancelled
  <2>2. /\ heap'[a] = Free /\ \A b \in Addresses : b # a => heap'[b] = heap[b]
        /\ heap' \in [Addresses -> Timer] /\ heap'[a].sequence = 0
    BY <1>0, <1>1, <2>1 DEF TimersType, Timer, Free
  <2>3. PICK e \in timers : id = <<e[2], heap[e[2]].sequence>>
    BY <1>0, <1>6 DEF ActiveInv
  <2>4. e = entry /\ e[2] = a /\ heap[a].sequence = s /\ s # 0 /\ a \notin Expiring /\ a \notin Queued
    <3>1. e[2] = a /\ heap[a].sequence = s
      BY <1>1, <2>3
    <3>2. heap[a].sequence # 0 /\ heap[a].expiration = e[1] /\ a \notin Expiring /\ a \notin Queued
      BY <1>0, <3>1 DEF ActiveInv
    <3>3. e = <<e[1], e[2]>>
      BY <1>0 DEF TimersType
    <3> QED
      BY <3>1, <3>2, <3>3
  <2>5. \A x \in timers : x # entry <=> x[2] # a
    <3>1. \A x \in timers : x = <<x[1], x[2]>> /\ x[1] = heap[x[2]].expiration
      BY <1>0 DEF TimersType, ActiveInv
    <3> QED
      BY <3>1
  <2>6. timers' \subseteq Nat \X Addresses /\ \A x \in timers' : x \in timers /\ x[2] \in Addresses /\ x[2] # a
    BY <1>0, <2>1, <2>5 DEF TimersType
  <2>7. \A x \in timers' : heap'[x[2]] = heap[x[2]]
    BY <2>2, <2>6
  <2>8. activeTimers' = {<<x[2], heap'[x[2]].sequence>> : x \in timers'}
    <3>1. ASSUME NEW y \in activeTimers' PROVE y \in {<<x[2], heap'[x[2]].sequence>> : x \in timers'}
      <4>1. PICK x \in timers : y = <<x[2], heap[x[2]].sequence>>
        BY <1>0, <2>1 DEF ActiveInv
      <4>2. x[2] # a
        BY <1>1, <2>1, <2>4, <4>1
      <4>3. x \in timers'
        BY <2>1, <2>5, <4>2
      <4> QED
        BY <2>7, <4>1, <4>3
    <3>2. ASSUME NEW x \in timers' PROVE <<x[2], heap'[x[2]].sequence>> \in activeTimers'
      <4>1. <<x[2], heap[x[2]].sequence>> \in activeTimers
        BY <1>0, <2>6 DEF ActiveInv
      <4> QED
        BY <1>1, <2>1, <2>6, <2>7, <4>1
    <3> QED
      BY <3>1, <3>2
  <2>9. \A x \in timers' : /\ heap'[x[2]].sequence # 0 /\ heap'[x[2]].expiration = x[1]
                           /\ x[2] \notin Expiring' /\ x[2] \notin Queued'
    BY <1>0, <1>3, <2>6, <2>7 DEF ActiveInv
  <2>10. ~ failed'
    <3>1. Cardinality(timers') = Cardinality(activeTimers')
      BY <2>2, <2>6, <2>8, <2>9, SameSize
    <3> QED
      BY <1>0, <2>1, <2>4, <3>1 DEF ActiveInv
  <2>11. ~ waits
    <3>1. ASSUME NEW i \in 1 .. Len(functors), functors[i] = [op |-> "add", id |-> id] PROVE FALSE
      <4>1. i \in Adds /\ functors[i].id = id
        BY <3>1 DEF Adds
      <4> QED
        BY <1>2, <2>4, <4>1
    <3> QED
      BY <3>1
  <2>12. cancelled' = cancelled \union {s}
    BY <1>4, <2>11
  <2>13. TimersType'
    BY <1>0, <1>3, <1>5, <2>1, <2>2, <2>6 DEF TimersType
  <2>14. ActiveInv'
    BY <2>8, <2>9, <2>10 DEF ActiveInv
  <2>15. ExpiredInv'
    BY <1>0, <1>2, <1>3, <2>2, <2>4 DEF ExpiredInv
  <2>16. AddsInv'
    BY <1>3, <2>2, <2>4 DEF AddsInv
  <2>17. SomewhereInv'
    BY <1>0, <1>3, <2>1, <2>2, <2>5 DEF SomewhereInv
  <2>18. NumbersInv'
    BY <1>0, <1>1, <2>2 DEF NumbersInv, Free
  <2>19. IdsInv'
    <3>1. ASSUME NEW x, Names(x, heap, numCreated) PROVE Names(x, heap', numCreated)
      BY <2>2, <3>1 DEF Names
    <3> QED
      BY <1>0, <1>3, <3>1 DEF IdsInv
  <2>20. LostInv'
    <3>1. cancelled' \subseteq 0 .. numCreated /\ ran \subseteq 0 .. numCreated
      BY <1>0, <1>1, <2>12 DEF LostInv
    <3>2. ASSUME NEW x \in 1 .. numCreated
          PROVE  x \in ran \union cancelled' \/ \E b \in Addresses : heap'[b].sequence = x
      BY <1>0, <2>2, <2>4, <2>12 DEF LostInv
    <3> QED
      BY <3>1, <3>2 DEF LostInv
  <2>21. RanInv'
    <3>1. \A i \in 1 .. Len(expired') : i <= calling' => heap'[expired'[i]].sequence \in ran'
      BY <1>0, <1>2, <2>2, <2>4 DEF RanInv
    <3>2. ASSUME NEW b \in Addresses, heap'[b].sequence \in ran \ {0}, heap'[b].interval = 0
          PROVE  \E i \in 1 .. Len(expired) : i <= calling /\ expired[i] = b
      <4>1. heap'[b] = heap[b]
        BY <2>2, <3>2
      <4> QED
        BY <1>0, <3>2, <4>1 DEF RanInv
    <3> QED
      BY <3>1, <3>2 DEF RanInv
  <2>22. CancelledInv'
    <3>1. ASSUME NEW b \in Addresses, heap'[b].sequence \in cancelled' \ {0}
          PROVE  /\ b \in Expiring /\ heap'[b].sequence \in lateCancel
                 /\ <<b, heap'[b].sequence>> \in cancelingTimers
      <4>1. b # a /\ heap'[b] = heap[b]
        BY <2>2, <3>1
      <4>2. heap[b].sequence # s
        BY <1>0, <1>1, <2>4, <4>1 DEF NumbersInv
      <4> QED
        BY <1>0, <2>12, <3>1, <4>1, <4>2 DEF CancelledInv
    <3> QED
      BY <1>3, <1>4, <2>1, <3>1 DEF CancelledInv
  <2>23. ArmedInv'
    BY <1>0, <2>1, <2>6 DEF ArmedInv
  <2> QED
    BY <2>13, <2>14, <2>15, <2>16, <2>17, <2>18, <2>19, <2>20, <2>21, <2>22, <2>23
    DEF TimersInv, PlacesInv, HistoryInv
<1>7. CASE id \notin activeTimers
  <2>1. /\ heap' = heap /\ timers' = timers /\ activeTimers' = activeTimers /\ alarm' = alarm
        /\ cancelingTimers' = IF calling > 0 THEN cancelingTimers \union {id} ELSE cancelingTimers
        /\ failed' => failed \/ Cardinality(timers') # Cardinality(activeTimers')
    BY <1>7, BecomesCancelled
  <2>2. ~ failed'
    <3>1. Cardinality(timers) = Cardinality(activeTimers)
      BY <1>0, SameSize DEF TimersType, ActiveInv
    <3> QED
      BY <1>0, <2>1, <3>1 DEF ActiveInv
  <2>3. TimersType'
    BY <1>0, <1>3, <1>5, <2>1 DEF TimersType
  <2>4. ActiveInv' /\ NumbersInv' /\ ArmedInv'
    BY <1>0, <1>3, <2>1, <2>2 DEF ActiveInv, NumbersInv, ArmedInv
  <2>5. ExpiredInv' /\ AddsInv' /\ SomewhereInv'
    <3>1. ExpiredInv'
      BY <1>0, <1>3, <2>1 DEF ExpiredInv
    <3>2. AddsInv'
      BY <1>3, <2>1 DEF AddsInv
    <3>3. SomewhereInv'
      BY <1>0, <1>3, <2>1 DEF SomewhereInv
    <3> QED
      BY <3>1, <3>2, <3>3
  <2>6. IdsInv' /\ RanInv'
    BY <1>0, <1>3, <2>1 DEF IdsInv, RanInv
  <2>7. cancelled \subseteq cancelled' /\ cancelled' \subseteq cancelled \union {s}
    BY <1>4
  <2>8. LostInv'
    BY <1>0, <1>1, <2>1, <2>7 DEF LostInv
  <2>9. ASSUME NEW b \in Addresses, heap[b].sequence \in cancelled' \ {0}
        PROVE  /\ b \in Expiring /\ heap[b].sequence \in lateCancel'
               /\ <<b, heap[b].sequence>> \in cancelingTimers'
    <3>1. CASE heap[b].sequence \in cancelled
      BY <1>0, <1>4, <2>1, <2>9, <3>1 DEF CancelledInv
    <3>2. CASE heap[b].sequence \notin cancelled
      <4>1. heap[b].sequence = s /\ s # 0 /\ ~ waits
        BY <1>4, <2>9, <3>2
      <4>2. b = a
        BY <4>1 DEF Names
      <4>3. <<heap[b].expiration, b>> \notin timers
        <5>1. ASSUME <<heap[b].expiration, b>> \in timers PROVE FALSE
          <6>1. <<b, heap[b].sequence>> \in activeTimers
            BY <1>0, <5>1 DEF ActiveInv
          <6> QED
            BY <1>1, <1>7, <4>1, <4>2, <6>1
        <5> QED
          BY <5>1
      <4>4. b \notin Queued
        <5>1. ASSUME NEW i \in Adds, functors[i].id[1] = b PROVE FALSE
          <6>1. functors[i].id[2] = s
            BY <1>0, <4>1, <5>1 DEF AddsInv
          <6>2. functors[i].id = id /\ functors[i].op = "add" /\ i \in 1 .. Len(functors)
            BY <1>1, <1>2, <4>2, <5>1, <6>1, SMTT(40) DEF TimerId, Adds
          <6>3. functors[i] = [op |-> "add", id |-> id]
            BY <1>2, <6>2 DEF Functor
          <6> QED
            BY <4>1, <6>2, <6>3
        <5> QED
          BY <5>1 DEF Queued
      <4>5. b \in Expiring
        BY <1>0, <2>9, <4>3, <4>4 DEF SomewhereInv
      <4>6. calling # 0
        BY <1>0, <4>5, EmptySeq DEF ExpiredInv, Expiring
      <4>7. calling > 0
        BY <1>0, <4>6 DEF TimersType
      <4> QED
        BY <1>1, <1>4, <1>7, <2>1, <4>1, <4>2, <4>5, <4>7
    <3> QED
      BY <3>1, <3>2
  <2>10. CancelledInv'
    BY <1>3, <2>1, <2>9 DEF CancelledInv
  <2> QED
    BY <2>3, <2>4, <2>5, <2>6, <2>8, <2>10 DEF TimersInv, PlacesInv, HistoryInv
<1> QED
  BY <1>6, <1>7
-----------------------------------------------------------------------------
(* handleRead() takes what is due out of both sets.                        *)
LEMMA HandleReadKeeps ==
    ASSUME TimersInv, HandleRead PROVE TimersInv'
<1> USE TimerBounds
<1> DEFINE due == {e \in timers : e[1] <= now}
           gone == {<<e[2], heap[e[2]].sequence>> : e \in due}
           n == Cardinality(due)
<1>0. /\ TimersType /\ NumbersInv /\ ArmedInv
      /\ ActiveInv /\ ExpiredInv /\ AddsInv /\ SomewhereInv
      /\ IdsInv /\ LostInv /\ RanInv /\ CancelledInv
  BY DEF TimersInv, PlacesInv, HistoryInv
<1>1. Due(Queue) = due
  BY DEF Due, Queue
<1>2. /\ calling = 0 /\ lateCancel' = {} /\ start' = now /\ expired' \in Orders(due)
      /\ due = {} => calling' = Cardinality(Addresses) + 1 /\ ran' = ran
      /\ due # {} => calling' = 1 /\ ran' = ran \union {heap[expired'[1]].sequence}
      /\ UNCHANGED <<now, numCreated, functors, adding, ids, cancelled>>
  BY <1>1 DEF HandleRead, BeginCall
<1>3. /\ heap' = heap /\ timers' = timers \ due /\ activeTimers' = activeTimers \ gone
      /\ cancelingTimers' = {} /\ alarm' = Never /\ failed' \in BOOLEAN
      /\ failed' => \/ failed \/ ~ gone \subseteq activeTimers
                    \/ Cardinality(timers') # Cardinality(activeTimers')
  <2> DEFINE q == getExpired(Queue)
             r == [q EXCEPT !.alarm = Never, !.canceling = {}]
  <2>1. Become(r)
    BY DEF HandleRead
  <2>2. {<<e[2], Queue.heap[e[2]].sequence>> : e \in Due(Queue)} = gone
    BY <1>1 DEF Queue
  <2>3. q = [Queue EXCEPT !.timers = @ \ due, !.active = @ \ gone,
                          !.failed = @ \/ ~ gone \subseteq activeTimers]
    BY <1>1, <2>2 DEF getExpired, Queue
  <2>4. /\ r.heap = heap /\ r.timers = timers \ due /\ r.active = activeTimers \ gone
        /\ r.canceling = {} /\ r.alarm = Never
        /\ r.failed => failed \/ ~ gone \subseteq activeTimers
    <3> HIDE DEF due, gone
    <3> QED
      BY <2>3 DEF Queue
  <2>5. /\ heap' = r.heap /\ timers' = r.timers /\ activeTimers' = r.active
        /\ cancelingTimers' = r.canceling /\ alarm' = r.alarm /\ failed' \in BOOLEAN
        /\ failed' => r.failed \/ Cardinality(r.timers) # Cardinality(r.active)
    BY <2>1 DEF Become
  <2> HIDE DEF r
  <2> QED
    BY <2>4, <2>5
<1>4. due \subseteq timers /\ timers \subseteq Nat \X Addresses /\ heap \in [Addresses -> Timer]
  BY <1>0 DEF TimersType
<1>5. \A e \in timers : /\ e = <<e[1], e[2]>> /\ e[2] \in Addresses /\ e[1] \in Nat
                        /\ heap[e[2]].expiration = e[1] /\ heap[e[2]].sequence # 0
                        /\ e[2] \notin Expiring /\ e[2] \notin Queued
  BY <1>0, <1>4 DEF ActiveInv
<1>6. \A x, y \in timers : x[2] = y[2] => x = y
  BY <1>5
<1>7. n \in Nat /\ (due # {} => n >= 1) /\ (due = {} => n = 0)
  <2>1. IsFiniteSet(due)
    BY <1>4, <1>5, SameSize
  <2> QED
    BY <2>1, FS_CardinalityType, FS_EmptySet
<1>8. /\ expired' \in [1 .. n -> {e[2] : e \in due}]
      /\ \A e \in due : \E i \in 1 .. n : expired'[i] = e[2]
      /\ \A i, j \in 1 .. n : i < j => expired'[i] # expired'[j]
  <2> HIDE DEF due
  <2> QED
    BY <1>2 DEF Orders
<1>9. expired' \in Seq(Addresses) /\ Len(expired') = n
  <2>1. expired' \in [1 .. n -> Addresses]
    BY <1>5, <1>8
  <2> HIDE DEF n
  <2>2. expired' \in Seq(Addresses)
    BY <1>7, <2>1, SeqDef
  <2>3. DOMAIN expired' = 1 .. n /\ DOMAIN expired' = 1 .. Len(expired') /\ Len(expired') \in Nat
    BY <2>1, <2>2, LenProperties
  <2> QED
    BY <1>7, <2>2, <2>3
<1>10. Expiring' = {e[2] : e \in due}
  BY <1>8, <1>9 DEF Expiring
<1>11. Adds' = Adds /\ Queued' = Queued
  BY <1>2 DEF Adds, Queued
<1>12. Expiring = {} /\ Len(expired) = 0
  BY <1>0, <1>2, EmptySeq DEF Expiring, ExpiredInv
<1>13. \A i \in 1 .. n : \E e \in due : expired'[i] = e[2]
  BY <1>8
<1>14. activeTimers' = {<<e[2], heap'[e[2]].sequence>> : e \in timers'}
  <2>1. ASSUME NEW y \in activeTimers' PROVE y \in {<<e[2], heap'[e[2]].sequence>> : e \in timers'}
    BY <1>0, <1>3 DEF ActiveInv
  <2>2. ASSUME NEW e \in timers' PROVE <<e[2], heap'[e[2]].sequence>> \in activeTimers'
    <3>1. <<e[2], heap[e[2]].sequence>> \in activeTimers /\ e \in timers /\ e \notin due
      BY <1>0, <1>3 DEF ActiveInv
    <3>2. <<e[2], heap[e[2]].sequence>> \notin gone
      BY <1>4, <1>6, <3>1
    <3> QED
      BY <1>3, <3>1, <3>2
  <2> QED
    BY <2>1, <2>2
<1>15. ~ failed'
  <2>1. gone \subseteq activeTimers
    BY <1>0 DEF ActiveInv
  <2>2. Cardinality(timers') = Cardinality(activeTimers')
    <3>1. /\ timers' \in SUBSET (Nat \X Addresses) /\ heap' \in [Addresses -> Timer]
          /\ \A e \in timers' : heap'[e[2]].expiration = e[1]
      BY <1>3, <1>4, <1>5
    <3>2. Cardinality({<<e[2], heap'[e[2]].sequence>> : e \in timers'}) = Cardinality(timers')
      BY <3>1, SameSize
    <3> QED
      BY <1>14, <3>2
  <2> QED
    BY <1>0, <1>3, <2>1, <2>2 DEF ActiveInv
<1>16. TimersType'
  <2>1. calling' \in Nat /\ alarm' \in Nat
    BY <1>2, <1>3, FS_CardinalityType DEF Never
  <2>2. timers' \subseteq Nat \X Addresses
    BY <1>3, <1>4
  <2> QED
    BY <1>0, <1>2, <1>3, <1>9, <2>1, <2>2 DEF TimersType
<1>17. ActiveInv'
  <2>1. ASSUME NEW e \in timers'
        PROVE  /\ heap'[e[2]].sequence # 0 /\ heap'[e[2]].expiration = e[1]
               /\ e[2] \notin Expiring' /\ e[2] \notin Queued'
    <3>1. e \in timers /\ e \notin due
      BY <1>3
    <3> QED
      BY <1>3, <1>4, <1>5, <1>6, <1>10, <1>11, <3>1
  <2> QED
    BY <1>14, <1>15, <2>1 DEF ActiveInv
<1>18. ExpiredInv'
  <2>1. ASSUME NEW i \in 1 .. n
        PROVE  /\ heap'[expired'[i]].sequence # 0 /\ expired'[i] \notin Queued'
               /\ heap'[expired'[i]].expiration <= now'
    <3>1. PICK e \in due : expired'[i] = e[2]
      BY <1>13
    <3> QED
      BY <1>2, <1>3, <1>4, <1>5, <1>11, <3>1
  <2>2. ASSUME NEW i \in 1 .. n, NEW j \in 1 .. n, expired'[i] = expired'[j] PROVE i = j
    BY <1>7, <1>8, <2>2
  <2>3. calling' # 0
    BY <1>2, FS_CardinalityType
  <2> QED
    BY <1>9, <2>1, <2>2, <2>3 DEF ExpiredInv
<1>19. AddsInv' /\ IdsInv' /\ NumbersInv'
  BY <1>0, <1>2, <1>3, <1>11 DEF AddsInv, IdsInv, NumbersInv
<1>20. SomewhereInv'
  <2> SUFFICES ASSUME NEW a \in Addresses, heap[a].sequence # 0
               PROVE  <<heap[a].expiration, a>> \in timers' \/ a \in Expiring' \/ a \in Queued'
    BY <1>3 DEF SomewhereInv
  <2>1. <<heap[a].expiration, a>> \in timers \/ a \in Queued
    BY <1>0, <1>12 DEF SomewhereInv
  <2>2. <<heap[a].expiration, a>> \in due => a \in Expiring'
    BY <1>10
  <2> QED
    BY <1>3, <1>11, <2>1, <2>2
<1>21. due # {} => 1 \in 1 .. n /\ expired'[1] \in Addresses
  BY <1>5, <1>7, <1>13
<1>22. ran \subseteq ran' /\ (due = {} => ran' = ran)
  BY <1>2
<1>23. LostInv'
  <2>1. numCreated \in Nat /\ \A a \in Addresses : heap[a].sequence \in 0 .. numCreated
    BY <1>0 DEF TimersType, Timer, NumbersInv
  <2>2. ran' \subseteq 0 .. numCreated
    <3>1. CASE due = {}
      BY <1>0, <1>2, <3>1 DEF LostInv
    <3>2. CASE due # {}
      BY <1>0, <1>2, <1>21, <2>1, <3>2 DEF LostInv
    <3> QED
      BY <3>1, <3>2
  <2> QED
    BY <1>0, <1>2, <1>3, <1>22, <2>2 DEF LostInv
<1>24. RanInv'
  <2>1. ASSUME NEW i \in 1 .. Len(expired'), i <= calling' PROVE heap'[expired'[i]].sequence \in ran'
    <3>1. n >= 1 /\ due # {}
      BY <1>7, <1>9
    <3>2. i = 1
      BY <1>2, <1>7, <1>9, <2>1, <3>1
    <3> QED
      BY <1>2, <1>3, <3>1, <3>2
  <2>2. ASSUME NEW a \in Addresses, heap'[a].sequence \in ran' \ {0}, heap'[a].interval = 0
        PROVE  \E i \in 1 .. Len(expired') : i <= calling' /\ expired'[i] = a
    <3>1. heap[a].sequence \notin ran
      BY <1>0, <1>3, <1>12, <2>2 DEF RanInv
    <3>2. due # {} /\ heap[a].sequence = heap[expired'[1]].sequence
      BY <1>2, <1>3, <2>2, <3>1
    <3>3. a = expired'[1]
      BY <1>0, <1>3, <1>21, <2>2, <3>2 DEF NumbersInv
    <3>4. 1 \in 1 .. Len(expired') /\ 1 <= calling'
      BY <1>2, <1>9, <1>21, <3>2
    <3> QED
      BY <3>3, <3>4
  <2> QED
    BY <2>1, <2>2 DEF RanInv
<1>25. CancelledInv'
  BY <1>0, <1>2, <1>3, <1>12 DEF CancelledInv
<1>26. ArmedInv'
  BY <1>2, FS_CardinalityType DEF ArmedInv
<1> QED
  BY <1>16, <1>17, <1>18, <1>19, <1>20, <1>23, <1>24, <1>25, <1>26
  DEF TimersInv, PlacesInv, HistoryInv

(* reset() puts back what repeats, deletes the rest and arms the timerfd.  *)
LEMMA EndRoundKeeps ==
    ASSUME TimersInv, EndRound PROVE TimersInv'
<1> USE TimerBounds
<1> DEFINE again == {a \in Expiring : Repeats(Queue, a)}
           back == {<<start + heap[a].interval, a>> : a \in again}
           rearmed == {<<a, heap[a].sequence>> : a \in again}
           h == [a \in Addresses |-> IF a \in again
                                     THEN [heap[a] EXCEPT !.expiration = start + heap[a].interval]
                                     ELSE IF a \in Expiring THEN Free ELSE heap[a]]
           first == Min({e[1] : e \in timers \union back})
<1>0. /\ TimersType /\ NumbersInv /\ ArmedInv
      /\ ActiveInv /\ ExpiredInv /\ AddsInv /\ SomewhereInv
      /\ IdsInv /\ LostInv /\ RanInv /\ CancelledInv
  BY DEF TimersInv, PlacesInv, HistoryInv
<1>1. /\ calling > Len(expired) /\ Become(reset(Queue)) /\ calling' = 0 /\ expired' = <<>> /\ start' = 0
      /\ UNCHANGED <<now, numCreated, functors, adding, ids, ran, cancelled, lateCancel>>
  BY DEF EndRound
<1>2. /\ heap' = h /\ timers' = timers \union back /\ activeTimers' = activeTimers \union rearmed
      /\ cancelingTimers' = cancelingTimers /\ failed' \in BOOLEAN
      /\ alarm' = IF timers' = {} THEN alarm ELSE IF first > now THEN first ELSE now + 1
      /\ failed' => \/ failed \/ \E a \in Expiring : heap[a] = Free
                    \/ Cardinality(timers') # Cardinality(activeTimers')
  <2> DEFINE r == [Queue EXCEPT !.heap = h, !.timers = @ \union back, !.active = @ \union rearmed,
                                !.failed = @ \/ \E a \in Expiring : heap[a] = Free]
             q == IF r.timers = {} THEN r ELSE resetTimerfd(r, Earliest(r))
  <2>1. reset(Queue) = q
    BY DEF reset, restart, Queue, Expiring
  <2>2. /\ r.heap = h /\ r.timers = timers \union back /\ r.active = activeTimers \union rearmed
        /\ r.canceling = cancelingTimers /\ r.alarm = alarm
        /\ r.failed => failed \/ \E a \in Expiring : heap[a] = Free
    <3> HIDE DEF h, back, rearmed
    <3> QED
      BY DEF Queue
  <2>3. /\ q.heap = r.heap /\ q.timers = r.timers /\ q.active = r.active
        /\ q.canceling = r.canceling /\ q.failed = r.failed
        /\ q.alarm = IF r.timers = {} THEN r.alarm ELSE IF Earliest(r) > now THEN Earliest(r) ELSE now + 1
    <3> HIDE DEF h, back, rearmed
    <3> QED
      BY DEF resetTimerfd, Queue
  <2>4. Earliest(r) = first
    BY <2>2 DEF Earliest
  <2>5. /\ heap' = q.heap /\ timers' = q.timers /\ activeTimers' = q.active
        /\ cancelingTimers' = q.canceling /\ alarm' = q.alarm /\ failed' \in BOOLEAN
        /\ failed' => q.failed \/ Cardinality(q.timers) # Cardinality(q.active)
    <3> HIDE DEF q
    <3> QED
      BY <1>1, <2>1 DEF Become
  <2> HIDE DEF q, r, h, back, rearmed, first
  <2> QED
    BY <2>2, <2>3, <2>4, <2>5
<1>3. /\ Expiring \subseteq Addresses /\ now \in Nat /\ start \in Nat /\ numCreated \in Nat /\ alarm \in Nat
      /\ timers \subseteq Nat \X Addresses
      /\ \A i \in 1 .. Len(expired) : expired[i] \in Addresses /\ expired[i] \in Expiring
  BY <1>0, FunctorFacts DEF TimersType
<1>4. \A a \in again : /\ a \in Addresses /\ a \in Expiring /\ heap[a].interval > 0
                       /\ <<a, heap[a].sequence>> \notin cancelingTimers
  BY <1>3 DEF Repeats, Queue
<1>5. \A a \in Addresses : heap[a] \in Timer /\ heap[a].sequence \in 0 .. numCreated /\ heap[a].interval \in Nat
  BY <1>0, <1>3 DEF TimersType, Timer, NumbersInv
<1>6. /\ \A a \in again : /\ heap'[a].expiration = start + heap[a].interval
                          /\ heap'[a].sequence = heap[a].sequence /\ heap'[a].interval = heap[a].interval
      /\ \A a \in Addresses : a \in Expiring /\ a \notin again => heap'[a] = Free
      /\ \A a \in Addresses : a \notin Expiring => heap'[a] = heap[a]
      /\ heap' \in [Addresses -> Timer]
  <2>1. ASSUME NEW a \in again
        PROVE  /\ h[a].expiration = start + heap[a].interval /\ h[a].sequence = heap[a].sequence
               /\ h[a].interval = heap[a].interval /\ h[a] \in Timer
    <3>1. h[a] = [heap[a] EXCEPT !.expiration = start + heap[a].interval]
      BY <1>4
    <3>2. heap[a] \in Timer /\ start + heap[a].interval \in Nat
      BY <1>3, <1>4, <1>5
    <3> HIDE DEF h
    <3> QED
      BY <3>1, <3>2 DEF Timer
  <2>2. \A a \in Addresses : /\ a \in Expiring /\ a \notin again => h[a] = Free
                             /\ a \notin Expiring => h[a] = heap[a]
    OBVIOUS
  <2>3. h \in [Addresses -> Timer]
    BY <1>5, <2>1, <2>2 DEF Timer, Free
  <2> QED
    BY <1>2, <2>1, <2>2, <2>3
<1> HIDE DEF h, again
<1>7. /\ \A a \in Addresses : heap'[a].sequence \in {0, heap[a].sequence}
      /\ \A a \in Expiring : heap[a].sequence # 0 /\ a \notin Queued
      /\ \A e \in timers : e[2] \in Addresses /\ e[2] \notin Expiring /\ heap'[e[2]] = heap[e[2]]
  <2>1. \A a \in Addresses : heap'[a].sequence \in {0, heap[a].sequence}
    BY <1>4, <1>6 DEF Free
  <2>2. \A a \in Expiring : heap[a].sequence # 0 /\ a \notin Queued
    BY <1>0 DEF ExpiredInv, Expiring
  <2>3. \A e \in timers : e[2] \in Addresses /\ e[2] \notin Expiring /\ heap'[e[2]] = heap[e[2]]
    BY <1>0, <1>3, <1>6 DEF ActiveInv
  <2> QED
    BY <2>1, <2>2, <2>3
<1>8. Expiring' = {} /\ Len(expired') = 0 /\ Adds' = Adds /\ Queued' = Queued
  BY <1>1, EmptySeq DEF Expiring, Adds, Queued
<1>9. timers' \subseteq Nat \X Addresses
  <2>1. ASSUME NEW a \in again PROVE start + heap[a].interval \in Nat /\ a \in Addresses
    <3>1. a \in Addresses
      BY <1>4
    <3>2. start \in Nat /\ heap[a].interval \in Nat
      BY <1>3, <1>5, <3>1
    <3> QED
      BY <3>1, <3>2
  <2>2. back \subseteq Nat \X Addresses
    BY <2>1
  <2> QED
    BY <1>2, <1>3, <2>2
<1>10. \A e \in timers' : /\ heap'[e[2]].sequence # 0 /\ heap'[e[2]].expiration = e[1] /\ e[2] \notin Queued
  <2> SUFFICES ASSUME NEW e \in timers'
               PROVE  /\ heap'[e[2]].sequence # 0 /\ heap'[e[2]].expiration = e[1] /\ e[2] \notin Queued
    OBVIOUS
  <2>1. CASE e \in timers
    BY <1>0, <1>7, <2>1 DEF ActiveInv
  <2>2. CASE e \in back
    <3>1. PICK a \in again : e = <<start + heap[a].interval, a>>
      BY <2>2
    <3> QED
      BY <1>4, <1>6, <1>7, <3>1
  <2> QED
    BY <1>2, <2>1, <2>2
<1>11. activeTimers' = {<<e[2], heap'[e[2]].sequence>> : e \in timers'}
  <2>1. activeTimers = {<<e[2], heap'[e[2]].sequence>> : e \in timers}
    BY <1>0, <1>7 DEF ActiveInv
  <2>2. rearmed = {<<e[2], heap'[e[2]].sequence>> : e \in back}
    <3>1. ASSUME NEW x \in rearmed PROVE x \in {<<e[2], heap'[e[2]].sequence>> : e \in back}
      <4>1. PICK a \in again : x = <<a, heap[a].sequence>>
        OBVIOUS
      <4>2. <<start + heap[a].interval, a>> \in back /\ heap'[a].sequence = heap[a].sequence
        BY <1>6
      <4>3. x = << <<start + heap[a].interval, a>>[2], heap'[<<start + heap[a].interval, a>>[2]].sequence>>
        BY <4>1, <4>2
      <4> HIDE DEF back
      <4> QED
        BY <4>2, <4>3
    <3>2. ASSUME NEW e \in back PROVE <<e[2], heap'[e[2]].sequence>> \in rearmed
      <4>1. PICK a \in again : e = <<start + heap[a].interval, a>>
        OBVIOUS
      <4> QED
        BY <1>6, <4>1
    <3> QED
      BY <3>1, <3>2
  <2> QED
    BY <1>2, <2>1, <2>2
<1>12. ~ failed'
  <2>1. \A a \in Expiring : heap[a] # Free
    BY <1>7 DEF Free
  <2>2. Cardinality(timers') = Cardinality(activeTimers')
    <3>1. /\ timers' \in SUBSET (Nat \X Addresses) /\ heap' \in [Addresses -> Timer]
          /\ \A e \in timers' : heap'[e[2]].expiration = e[1]
      BY <1>6, <1>9, <1>10
    <3>2. Cardinality({<<e[2], heap'[e[2]].sequence>> : e \in timers'}) = Cardinality(timers')
      BY <3>1, SameSize
    <3> QED
      BY <1>11, <3>2
  <2> QED
    BY <1>0, <1>2, <2>1, <2>2 DEF ActiveInv
<1>13. timers' # {} => first \in Nat /\ \A e \in timers' : e[1] \in Nat /\ first <= e[1]
  <2> DEFINE T == {e[1] : e \in timers'}
  <2>1. T \in SUBSET Nat /\ (timers' # {} => T # {}) /\ (\A e \in timers' : e[1] \in T) /\ first = Min(T)
    BY <1>2, <1>9
  <2> HIDE DEF T, first
  <2> QED
    BY <2>1, MinIsLeast
<1> HIDE DEF first, back, rearmed
<1>14. TimersType'
  <2>1. alarm' \in Nat
    BY <1>2, <1>3, <1>13
  <2> QED
    BY <1>0, <1>1, <1>2, <1>6, <1>9, <2>1, EmptySeq DEF TimersType
<1>15. ActiveInv'
  BY <1>8, <1>10, <1>11, <1>12 DEF ActiveInv
<1>16. ExpiredInv'
  BY <1>1, <1>8 DEF ExpiredInv
<1>17. AddsInv'
  <2>1. \A i \in Adds : functors[i].id[1] \in Addresses /\ functors[i].id[1] \in Queued
    BY <1>0, FunctorFacts
  <2>2. \A a \in Queued : a \notin Expiring
    BY <1>7
  <2> QED
    BY <1>0, <1>1, <1>6, <1>8, <2>1, <2>2 DEF AddsInv
<1>18. SomewhereInv'
  <2> SUFFICES ASSUME NEW a \in Addresses, heap'[a].sequence # 0
               PROVE  <<heap'[a].expiration, a>> \in timers' \/ a \in Queued'
    BY DEF SomewhereInv
  <2>1. CASE a \in again
    BY <1>2, <1>6, <2>1 DEF back
  <2>2. CASE a \notin Expiring
    BY <1>0, <1>2, <1>6, <1>8, <2>2 DEF SomewhereInv
  <2> QED
    BY <1>6, <2>1, <2>2 DEF Free
<1>19. NumbersInv'
  <2>1. ASSUME NEW a \in Addresses
        PROVE  heap'[a].sequence <= numCreated' /\ (heap'[a].sequence = 0 => heap'[a] = Free)
    <3>1. CASE a \in again
      <4>1. heap'[a].sequence = heap[a].sequence /\ heap[a].sequence # 0 /\ heap[a].sequence <= numCreated
        <5>1. a \in Expiring
          BY <1>4, <3>1
        <5>2. heap[a].sequence # 0 /\ heap[a].sequence \in 0 .. numCreated
          BY <1>5, <1>7, <5>1
        <5> QED
          BY <1>3, <1>6, <3>1, <5>2
      <4> QED
        BY <1>1, <4>1
    <3>2. CASE a \notin again /\ a \in Expiring
      BY <1>1, <1>3, <1>6, <3>2 DEF Free
    <3>3. CASE a \notin Expiring
      BY <1>0, <1>1, <1>6, <3>3 DEF NumbersInv
    <3> QED
      BY <3>1, <3>2, <3>3
  <2>2. ASSUME NEW a \in Addresses, NEW b \in Addresses,
               heap'[a].sequence = heap'[b].sequence /\ heap'[a].sequence # 0
        PROVE  a = b
    BY <1>0, <1>7, <2>2 DEF NumbersInv
  <2> QED
    BY <2>1, <2>2 DEF NumbersInv
<1>20. IdsInv'
  <2>1. ASSUME NEW x, Names(x, heap, numCreated) PROVE Names(x, heap', numCreated)
    BY <1>7, <2>1 DEF Names
  <2> QED
    BY <1>0, <1>1, <2>1 DEF IdsInv
<1>21. LostInv'
  <2>1. ASSUME NEW x \in 1 .. numCreated
        PROVE  x \in ran \union cancelled \/ \E b \in Addresses : heap'[b].sequence = x
    <3>1. CASE x \in ran \union cancelled
      BY <3>1
    <3>2. CASE x \notin ran \union cancelled
      <4>1. PICK b \in Addresses : heap[b].sequence = x
        BY <1>0, <3>2 DEF LostInv
      <4>2. b \notin Expiring
        <5>1. ASSUME NEW i \in 1 .. Len(expired), expired[i] = b PROVE FALSE
          <6>1. Len(expired) \in Nat /\ calling \in Nat
            BY <1>0, FunctorFacts DEF TimersType
          <6>2. i <= calling
            BY <1>1, <6>1
          <6> QED
            BY <1>0, <3>2, <4>1, <5>1, <6>2 DEF RanInv
        <5> QED
          BY <5>1 DEF Expiring
      <4> QED
        BY <1>6, <4>1, <4>2
    <3> QED
      BY <3>1, <3>2
  <2> QED
    BY <1>0, <1>1, <2>1 DEF LostInv
<1>22. RanInv'
  <2>1. ASSUME NEW a \in Addresses, heap'[a].sequence \in ran \ {0}, heap'[a].interval = 0 PROVE FALSE
    <3>1. CASE a \in again
      <4>1. heap[a].interval > 0 /\ heap[a].interval \in Nat
        BY <1>4, <1>5, <3>1
      <4>2. heap'[a].interval = heap[a].interval
        BY <1>6, <3>1
      <4> QED
        BY <2>1, <4>1, <4>2
    <3>2. CASE a \notin Expiring
      <4>1. heap'[a] = heap[a]
        BY <1>6, <3>2
      <4>2. PICK i \in 1 .. Len(expired) : expired[i] = a
        BY <1>0, <2>1, <4>1 DEF RanInv
      <4> QED
        BY <1>3, <3>2, <4>2
    <3> QED
      BY <1>6, <2>1, <3>1, <3>2 DEF Free
  <2> QED
    BY <1>1, <1>8, <2>1 DEF RanInv
<1>23. CancelledInv'
  <2>1. ASSUME NEW a \in Addresses, heap'[a].sequence \in cancelled \ {0} PROVE FALSE
    <3>1. CASE a \in again
      BY <1>0, <1>4, <1>6, <2>1, <3>1 DEF CancelledInv
    <3>2. CASE a \notin Expiring
      BY <1>0, <1>6, <2>1, <3>2 DEF CancelledInv
    <3> QED
      BY <1>6, <2>1, <3>1, <3>2 DEF Free
  <2> QED
    BY <1>1, <2>1 DEF CancelledInv
<1>24. ArmedInv'
  <2> SUFFICES ASSUME NEW e \in timers' PROVE alarm' <= e[1] \/ alarm' <= now + 1
    BY <1>1 DEF ArmedInv
  <2>1. first \in Nat /\ e[1] \in Nat /\ first <= e[1] /\ timers' # {}
    BY <1>13
  <2> QED
    BY <1>2, <1>3, <2>1
<1> QED
  BY <1>14, <1>15, <1>16, <1>17, <1>18, <1>19, <1>20, <1>21, <1>22, <1>23, <1>24
  DEF TimersInv, PlacesInv, HistoryInv
-----------------------------------------------------------------------------
(* Every step of the loop and of its users keeps the invariant.            *)
LEMMA TimersStep ==
    ASSUME TimersInv, [Next]_timerVars PROVE TimersInv'
<1>0. TimersType /\ IdsInv
  BY DEF TimersInv, HistoryInv
<1>1. CASE UNCHANGED timerVars
  BY <1>1 DEF timerVars, TimersInv, TimersType, NumbersInv, PlacesInv, ActiveInv, ExpiredInv, AddsInv,
              SomewhereInv, HistoryInv, IdsInv, LostInv, RanInv, CancelledInv, ArmedInv, Names,
              Expiring, Adds, Queued
<1>2. CASE RunFunctor
  <2>1. CASE Head(functors).op = "add"
    BY <1>2, <2>1, RunAddKeeps
  <2>2. CASE Head(functors).op # "add"
    <3> DEFINE id == Head(functors).id
    <3>1. /\ functors # <<>> /\ functors' = Tail(functors)
          /\ Become(cancelInLoop(Queue, id)) /\ Remember(id)
          /\ UNCHANGED <<now, numCreated, start, expired, calling, adding, ids, ran>>
      BY <1>2, <2>2 DEF RunFunctor
    <3>2. id \in TimerId /\ Names(id, heap, numCreated)
      <4>1. functors \in Seq(Functor)
        BY <1>0 DEF TimersType
      <4>2. Head(functors) = functors[1] /\ 1 \in 1 .. Len(functors)
        BY <3>1, <4>1, HeadTailProperties, EmptySeq
      <4> QED
        BY <1>0, <4>2, FunctorFacts DEF IdsInv
    <3> QED
      BY <2>2, <3>1, <3>2, CancelInLoopKeeps
  <2> QED
    BY <2>1, <2>2
<1>3. ASSUME NEW id \in ids, CallbackCancels(id) PROVE TimersInv'
  <2>1. id \in TimerId /\ Names(id, heap, numCreated)
    BY <1>0 DEF TimersType, IdsInv
  <2>2. /\ Become(cancelInLoop(Queue, id)) /\ Remember(id)
        /\ UNCHANGED <<now, numCreated, start, expired, calling, functors, adding, ids, ran>>
    BY <1>3 DEF CallbackCancels
  <2> QED
    BY <2>1, <2>2, CancelInLoopKeeps
<1>4. CASE HandleRead \/ NextCallback \/ EndRound \/ Tick
  BY <1>4, HandleReadKeeps, NextCallbackKeeps, EndRoundKeeps, TickKeeps
<1>5. ASSUME NEW t \in Threads, AddTimerReturns(t) PROVE TimersInv'
  BY <1>5, AddTimerReturnsKeeps
<1>6. ASSUME NEW id \in ids, Cancel(id) PROVE TimersInv'
  BY <1>6, CancelKeeps
<1>7. ASSUME NEW a \in Addresses, NEW d \in Delays, NEW i \in Intervals,
             CallbackAdds(a, d, i) \/ \E t \in Threads : AddTimer(t, a, d, i)
      PROVE  TimersInv'
  BY <1>7, CallbackAddsKeeps, AddTimerKeeps
<1> QED
  BY <1>1, <1>2, <1>3, <1>4, <1>5, <1>6, <1>7 DEF Next, Loop, User

(* The invariant gives the types, the consistency of the two sets and the  *)
(* alarm.                                                                  *)
LEMMA TimersServe ==
    ASSUME TimersInv PROVE TimersKept
<1> USE TimerBounds
<1>0. /\ TimersType /\ NumbersInv /\ ArmedInv /\ ActiveInv /\ ExpiredInv /\ LostInv
  BY DEF TimersInv, PlacesInv, HistoryInv
<1>1. \A a \in Addresses : heap[a].sequence \in Nat /\ heap[a].sequence <= numCreated
  BY <1>0 DEF TimersType, Timer, NumbersInv
<1>2. /\ \A e \in timers : e[2] \in Addresses /\ e[1] \in Nat /\ heap[e[2]].sequence # 0
      /\ \A i \in 1 .. Len(expired) : expired[i] \in Addresses
  BY <1>0, FunctorFacts DEF TimersType, ActiveInv
<1>3. TypeOK
  <2>1. activeTimers \subseteq Addresses \X (1 .. MaxCreated)
    <3>1. ASSUME NEW e \in timers PROVE <<e[2], heap[e[2]].sequence>> \in Addresses \X (1 .. MaxCreated)
      <4>1. e[2] \in Addresses /\ heap[e[2]].sequence # 0 /\ numCreated \in 0 .. MaxCreated
        BY <1>0, <1>2 DEF TimersType
      <4> QED
        BY <1>1, <4>1
    <3> QED
      BY <1>0, <3>1 DEF ActiveInv
  <2> QED
    BY <1>0, <1>2, <2>1 DEF TypeOK, TimersType
<1>4. QueueIntact
  <2>1. \A e \in timers : heap[e[2]] # Free /\ heap[e[2]].expiration = e[1]
    BY <1>0 DEF ActiveInv, Free
  <2>2. \A i \in 1 .. Len(expired) : heap[expired[i]] # Free
    BY <1>0 DEF ExpiredInv, Free
  <2> QED
    BY <1>0, <2>1, <2>2 DEF QueueIntact, ActiveInv, LostInv
<1>5. Armed
  <2> SUFFICES ASSUME calling = 0, timers # {}
               PROVE  alarm <= Max({Min({e[1] : e \in timers}), now + 1})
    BY DEF Armed, Earliest, Queue
  <2> DEFINE T == {e[1] : e \in timers}
  <2>1. T \in SUBSET Nat /\ T # {} /\ (\A e \in timers : e[1] \in T) /\ \A x \in T : \E e \in timers : e[1] = x
    BY <1>2
  <2> HIDE DEF T
  <2>2. Min(T) \in T /\ Min(T) \in Nat
    BY <2>1, MinIsLeast
  <2>3. PICK e \in timers : e[1] = Min(T)
    BY <2>1, <2>2
  <2>4. alarm <= Min(T) \/ alarm <= now + 1
    BY <1>0, <2>3 DEF ArmedInv
  <2>5. now + 1 \in Nat /\ alarm \in Nat
    BY <1>0 DEF TimersType
  <2>6. alarm <= Max({Min(T), now + 1})
    BY <2>2, <2>4, <2>5, MaxOfTwo
  <2> QED
    BY <2>6 DEF T
<1> QED
  BY <1>3, <1>4, <1>5 DEF TimersKept

(* For any addresses, threads, delays and intervals: timers_ and           *)
(* activeTimers_ hold the same living Timers whatever callbacks and other  *)
(* threads add and cancel, no assert of TimerQueue fails, no Timer is lost *)
(* before it ran or was cancelled, and the timerfd is armed for the        *)
(* earliest whenever the loop may sleep.                                   *)
THEOREM TimersSafe == Spec => []TimersKept
<1>1. Init => TimersInv
  BY TimersInit
<1>2. TimersInv /\ [Next]_timerVars => TimersInv'
  BY TimersStep
<1>3. TimersInv => TimersKept
  BY TimersServe
<1> QED
  BY <1>1, <1>2, <1>3, PTL DEF Spec
-----------------------------------------------------------------------------
(* What begins to be called, and by which step.                            *)
LEMMA BeginsBy ==
    ASSUME TimersInv, [Next]_timerVars, Begins
    PROVE  \/ HandleRead /\ calling' = 1
           \/ NextCallback /\ calling' = calling + 1 /\ calling < Len(expired)
<1>0. TimersType /\ ExpiredInv
  BY DEF TimersInv, PlacesInv
<1>1. calling' # calling
  BY DEF Begins
<1>2. CASE HandleRead
  <2>1. CASE Due(Queue) # {}
    BY <1>2, <2>1 DEF HandleRead
  <2>2. CASE Due(Queue) = {}
    <3>1. expired' \in [1 .. Cardinality({}) -> {e[2] : e \in {}}] /\ Cardinality({}) = 0
      BY <1>2, <2>2, FS_EmptySet DEF HandleRead, Orders
    <3>2. expired' \in [1 .. 0 -> Addresses]
      BY <3>1
    <3>3. expired' \in Seq(Addresses) /\ DOMAIN expired' = 1 .. 0
      BY <3>2, SeqDef
    <3>4. Len(expired') = 0
      BY <3>3, LenProperties
    <3> QED
      BY <3>4 DEF Begins
  <2> QED
    BY <2>1, <2>2
<1>3. CASE NextCallback
  <2>1. calling' = calling + 1 /\ expired' = expired /\ calling \in Nat /\ Len(expired) \in Nat
    BY <1>0, <1>3, FunctorFacts DEF NextCallback, TimersType
  <2> QED
    BY <1>3, <2>1 DEF Begins
<1>4. ~ EndRound
  BY DEF EndRound, Begins
<1>5. ~ UNCHANGED timerVars /\ ~ Tick /\ ~ RunFunctor /\ ~ \E t \in Threads : AddTimerReturns(t)
  BY <1>1 DEF timerVars, Tick, RunFunctor, AddTimerReturns
<1>6. ~ User
  BY <1>1 DEF User, CallbackAdds, AddTimer, Cancel, CallbackCancels
<1> QED
  BY <1>2, <1>3, <1>4, <1>5, <1>6 DEF Next, Loop

(* A Timer that has been called in this round, or before.                  *)
InRound(a) == \E i \in 1 .. Len(expired) : i <= calling /\ expired[i] = a
Again(a) == heap[a].sequence # 0 /\ heap[a].sequence \in ran

(* What was due when the round began is called in it, and a Timer that     *)
(* repeats is due again only when its interval has passed since then.      *)
RoundsInv ==
    /\ rounds \in [1 .. MaxCreated -> Nat]
    /\ start <= now
    /\ \A i \in 1 .. Len(expired) : /\ heap[expired[i]].expiration <= start
                                    /\ i <= calling => rounds[heap[expired[i]].sequence] = start
    /\ \A a \in Addresses :
          Again(a) => InRound(a) \/ rounds[heap[a].sequence] + heap[a].interval <= heap[a].expiration

(* The numbers of Timers, and the types of their times.                    *)
LEMMA RoundTypes ==
    ASSUME TimersInv
    PROVE  /\ Len(expired) \in Nat /\ calling \in Nat /\ start \in Nat /\ now \in Nat
           /\ \A a \in Addresses : /\ heap[a].expiration \in Nat /\ heap[a].interval \in Nat
                                   /\ heap[a].sequence # 0 => heap[a].sequence \in 1 .. MaxCreated
           /\ \A i \in 1 .. Len(expired) : /\ expired[i] \in Addresses
                                           /\ heap[expired[i]].sequence \in 1 .. MaxCreated
<1>0. TimersType /\ NumbersInv /\ ExpiredInv
  BY DEF TimersInv, PlacesInv
<1>1. Len(expired) \in Nat /\ \A i \in 1 .. Len(expired) : expired[i] \in Addresses
  BY <1>0, FunctorFacts
<1>2. calling \in Nat /\ start \in Nat /\ now \in Nat /\ numCreated \in 0 .. MaxCreated
  BY <1>0, TimerBounds DEF TimersType
<1>3. \A a \in Addresses : /\ heap[a].expiration \in Nat /\ heap[a].interval \in Nat
                           /\ heap[a].sequence # 0 => heap[a].sequence \in 1 .. MaxCreated
  BY <1>0, <1>2, TimerBounds DEF TimersType, Timer, NumbersInv
<1>4. \A i \in 1 .. Len(expired) : heap[expired[i]].sequence # 0
  BY <1>0 DEF ExpiredInv
<1> QED
  BY <1>1, <1>2, <1>3, <1>4

(* Whatever is outside the rounds: Timers that were free are new ones, and *)
(* others stay or are deleted.                                             *)
Quiet ==
    /\ UNCHANGED <<start, expired, calling, ran, rounds>> /\ now' \in {now, now + 1}
    /\ \A a \in Addresses : \/ heap'[a] = heap[a]
                            \/ heap'[a].sequence = 0
                            \/ heap[a].sequence = 0 /\ heap'[a].sequence \notin ran

LEMMA QuietRounds ==
    ASSUME TimersInv, TimersInv', RoundsInv, Quiet PROVE RoundsInv'
<1> USE DEF Quiet
<1>1. /\ start \in Nat /\ now \in Nat
      /\ \A i \in 1 .. Len(expired) : expired[i] \in Addresses /\ heap[expired[i]].sequence # 0
  BY RoundTypes
<1>2. \A i \in 1 .. Len(expired) : heap'[expired[i]].sequence # 0
  <2>1. \A i \in 1 .. Len(expired') : heap'[expired'[i]].sequence # 0
    BY DEF TimersInv, PlacesInv, ExpiredInv
  <2> QED
    BY <2>1
<1>3. \A i \in 1 .. Len(expired) : heap'[expired[i]] = heap[expired[i]]
  BY <1>1, <1>2
<1>4. ASSUME NEW a \in Addresses, Again(a)'
      PROVE  InRound(a)' \/ rounds'[heap'[a].sequence] + heap'[a].interval <= heap'[a].expiration
  <2>1. heap'[a] = heap[a] /\ Again(a)
    BY <1>4 DEF Again
  <2> QED
    BY <2>1 DEF RoundsInv, InRound
<1> QED
  BY <1>1, <1>3, <1>4 DEF RoundsInv

LEMMA HandleReadRounds ==
    ASSUME TimersInv, TimersInv', RoundsInv, HandleRead PROVE RoundsInv'
<1> DEFINE due == {e \in timers : e[1] <= now}
           s == heap[expired'[1]].sequence
<1>0. TimersType /\ ExpiredInv
  BY DEF TimersInv, PlacesInv
<1>1. Due(Queue) = due
  BY DEF Due, Queue
<1>2. /\ calling = 0 /\ start' = now /\ now' = now /\ expired' \in Orders(due)
      /\ due = {} => calling' = Cardinality(Addresses) + 1 /\ ran' = ran /\ rounds' = rounds
      /\ due # {} => /\ calling' = 1 /\ ran' = ran \union {s}
                     /\ rounds' = [rounds EXCEPT ![s] = now]
  BY <1>1 DEF HandleRead, BeginCall
<1>3. heap' = heap
  <2>1. Become([getExpired(Queue) EXCEPT !.alarm = Never, !.canceling = {}])
    BY DEF HandleRead
  <2>2. [getExpired(Queue) EXCEPT !.alarm = Never, !.canceling = {}].heap = heap
    BY DEF getExpired, Queue
  <2> QED
    BY <2>1, <2>2 DEF Become
<1>4. /\ Len(expired') \in Nat /\ calling' \in Nat /\ now \in Nat
      /\ \A a \in Addresses : /\ heap[a].expiration \in Nat /\ heap[a].interval \in Nat
                              /\ heap[a].sequence # 0 => heap[a].sequence \in 1 .. MaxCreated
      /\ \A i \in 1 .. Len(expired') : /\ expired'[i] \in Addresses
                                       /\ heap[expired'[i]].sequence \in 1 .. MaxCreated
  <2>1. /\ Len(expired') \in Nat /\ calling' \in Nat
        /\ \A i \in 1 .. Len(expired') : /\ expired'[i] \in Addresses
                                         /\ heap'[expired'[i]].sequence \in 1 .. MaxCreated
    <3>0. TimersType' /\ NumbersInv' /\ ExpiredInv'
      BY DEF TimersInv, PlacesInv
    <3>1. expired' \in Seq(Addresses) /\ calling' \in Nat /\ numCreated' \in 0 .. MaxCreated
      BY <3>0 DEF TimersType
    <3>2. Len(expired') \in Nat /\ \A i \in 1 .. Len(expired') : expired'[i] \in Addresses
      BY <3>1, LenProperties
    <3>3. \A a \in Addresses : heap'[a].sequence \in Nat /\ heap'[a].sequence <= numCreated'
      BY <3>0 DEF TimersType, Timer, NumbersInv
    <3>4. \A i \in 1 .. Len(expired') : heap'[expired'[i]].sequence # 0
      BY <3>0 DEF ExpiredInv
    <3> QED
      BY <3>1, <3>2, <3>3, <3>4, TimerBounds
  <2> QED
    BY <1>3, <2>1, RoundTypes
<1>5. \A i \in 1 .. Len(expired') : \E e \in due : expired'[i] = e[2]
  <2>1. expired' \in [1 .. Cardinality(due) -> {e[2] : e \in due}]
    <3> HIDE DEF due
    <3> QED
      BY <1>2 DEF Orders
  <2>2. DOMAIN expired' = 1 .. Len(expired')
    <3>1. TimersType'
      BY DEF TimersInv
    <3> QED
      BY <3>1, LenProperties DEF TimersType
  <2> QED
    BY <2>1, <2>2
<1>6. \A i \in 1 .. Len(expired') : heap[expired'[i]].expiration <= now
  <2>1. \A e \in timers : heap[e[2]].expiration = e[1]
    BY DEF TimersInv, PlacesInv, ActiveInv
  <2> QED
    BY <1>5, <2>1
<1>7. \A a \in Addresses : ~ InRound(a)
  <2>1. Len(expired) = 0
    BY <1>0, <1>2, EmptySeq DEF ExpiredInv
  <2> QED
    BY <2>1 DEF InRound
<1>8. due # {} => 1 \in 1 .. Len(expired')
  <2>1. CASE due # {}
    <3>1. PICK e \in due : TRUE
      BY <2>1
    <3>2. \E i \in DOMAIN expired' : expired'[i] = e[2]
      <4> HIDE DEF due
      <4> QED
        BY <1>2 DEF Orders
    <3>3. DOMAIN expired' = 1 .. Len(expired')
      <4>1. TimersType'
        BY DEF TimersInv
      <4> QED
        BY <4>1, LenProperties DEF TimersType
    <3> QED
      BY <1>4, <3>2, <3>3
  <2> QED
    BY <2>1
<1>9. rounds' \in [1 .. MaxCreated -> Nat]
  BY <1>2, <1>4, <1>8 DEF RoundsInv
<1>10. ASSUME NEW i \in 1 .. Len(expired'), i <= calling'
       PROVE  rounds'[heap'[expired'[i]].sequence] = start'
  <2>1. due # {} /\ i = 1
    BY <1>2, <1>4, <1>5, <1>10
  <2> QED
    BY <1>2, <1>3, <1>4, <1>8, <2>1 DEF RoundsInv
<1>11. ASSUME NEW a \in Addresses, Again(a)'
       PROVE  InRound(a)' \/ rounds'[heap'[a].sequence] + heap'[a].interval <= heap'[a].expiration
  <2>1. CASE due # {} /\ heap[a].sequence = s
    <3>1. a = expired'[1]
      BY <1>3, <1>4, <1>8, <1>11, <2>1 DEF Again, TimersInv, NumbersInv
    <3> QED
      BY <1>2, <1>8, <2>1, <3>1 DEF InRound
  <2>2. CASE ~ (due # {} /\ heap[a].sequence = s)
    <3>1. Again(a)
      BY <1>2, <1>3, <1>11, <2>2 DEF Again
    <3>2. rounds'[heap[a].sequence] = rounds[heap[a].sequence]
      BY <1>2, <1>4, <2>2, <3>1 DEF RoundsInv, Again
    <3>3. rounds[heap[a].sequence] + heap[a].interval <= heap[a].expiration
      BY <1>7, <3>1 DEF RoundsInv
    <3> QED
      BY <1>3, <3>2, <3>3
  <2> QED
    BY <2>1, <2>2
<1>12. start' <= now'
  BY <1>2, <1>4
<1> QED
  BY <1>2, <1>3, <1>6, <1>9, <1>10, <1>11, <1>12 DEF RoundsInv

LEMMA NextCallbackRounds ==
    ASSUME TimersInv, TimersInv', RoundsInv, NextCallback PROVE RoundsInv'
<1> DEFINE c == calling + 1
           s == heap[expired[c]].sequence
<1>1. /\ calling \in 1 .. Len(expired) /\ calling' = c
      /\ calling < Len(expired) => ran' = ran \union {s} /\ rounds' = [rounds EXCEPT ![s] = start]
      /\ ~ (calling < Len(expired)) => ran' = ran /\ rounds' = rounds
      /\ UNCHANGED <<now, start, heap, expired>>
  BY DEF NextCallback, InCallback, BeginCall
<1>2. /\ Len(expired) \in Nat /\ calling \in Nat /\ start \in Nat
      /\ \A a \in Addresses : heap[a].sequence # 0 => heap[a].sequence \in 1 .. MaxCreated
      /\ \A i \in 1 .. Len(expired) : /\ expired[i] \in Addresses
                                      /\ heap[expired[i]].sequence \in 1 .. MaxCreated
  BY RoundTypes
<1>3. calling < Len(expired) => c \in 1 .. Len(expired)
  BY <1>2
<1>4. rounds' \in [1 .. MaxCreated -> Nat]
  BY <1>1, <1>2, <1>3 DEF RoundsInv
<1>5. ASSUME NEW i \in 1 .. Len(expired), i <= c PROVE rounds'[heap[expired[i]].sequence] = start
  <2>1. CASE i = c
    <3>1. calling < Len(expired)
      BY <1>2, <2>1
    <3> QED
      BY <1>1, <1>2, <2>1, <3>1 DEF RoundsInv
  <2>2. CASE i # c
    <3>1. rounds[heap[expired[i]].sequence] = start
      BY <1>2, <1>5, <2>2 DEF RoundsInv
    <3> QED
      BY <1>1, <1>2, <3>1 DEF RoundsInv
  <2> QED
    BY <2>1, <2>2
<1>6. ASSUME NEW a \in Addresses, Again(a)'
      PROVE  InRound(a)' \/ rounds'[heap'[a].sequence] + heap'[a].interval <= heap'[a].expiration
  <2>1. CASE calling < Len(expired) /\ heap[a].sequence = s
    <3>1. a = expired[c]
      BY <1>1, <1>2, <1>3, <1>6, <2>1 DEF Again, TimersInv, NumbersInv
    <3>2. c \in 1 .. Len(expired') /\ c <= calling' /\ expired'[c] = a
      BY <1>1, <1>2, <1>3, <2>1, <3>1
    <3> QED
      BY <3>2 DEF InRound
  <2>2. CASE ~ (calling < Len(expired) /\ heap[a].sequence = s)
    <3>1. Again(a)
      BY <1>1, <1>6, <2>2 DEF Again
    <3>2. rounds'[heap[a].sequence] = rounds[heap[a].sequence]
      BY <1>1, <1>2, <2>2, <3>1 DEF RoundsInv, Again
    <3>3. InRound(a) => InRound(a)'
      BY <1>1, <1>2 DEF InRound
    <3>4. InRound(a) \/ rounds[heap[a].sequence] + heap[a].interval <= heap[a].expiration
      BY <3>1 DEF RoundsInv
    <3> QED
      BY <1>1, <3>2, <3>3, <3>4
  <2> QED
    BY <2>1, <2>2
<1>7. \A i \in 1 .. Len(expired) : heap[expired[i]].expiration <= start
  BY DEF RoundsInv
<1>8. start' <= now'
  BY <1>1 DEF RoundsInv
<1> QED
  BY <1>1, <1>4, <1>5, <1>6, <1>7, <1>8 DEF RoundsInv

LEMMA EndRoundRounds ==
    ASSUME TimersInv, TimersInv', RoundsInv, EndRound PROVE RoundsInv'
<1>1. /\ calling > Len(expired) /\ expired' = <<>> /\ start' = 0 /\ UNCHANGED <<now, ran, rounds>>
  BY DEF EndRound
<1>2. /\ Len(expired) \in Nat /\ calling \in Nat /\ start \in Nat /\ now \in Nat
      /\ \A a \in Addresses : heap[a].expiration \in Nat /\ heap[a].interval \in Nat
  BY RoundTypes
<1>3. \A i \in 1 .. Len(expired) : i <= calling
  BY <1>1, <1>2
<1>4. \A a \in Addresses : a \in Expiring <=> InRound(a)
  BY <1>3 DEF Expiring, InRound
<1>5. ASSUME NEW a \in Addresses
      PROVE  \/ a \notin Expiring /\ heap'[a] = heap[a]
             \/ a \in Expiring /\ heap'[a] = Free
             \/ a \in Expiring /\ heap'[a] = [heap[a] EXCEPT !.expiration = start + heap[a].interval]
  <2> DEFINE again == {b \in Expiring : Repeats(Queue, b)}
             h == [b \in Addresses |-> IF b \in again
                                       THEN [heap[b] EXCEPT !.expiration = start + heap[b].interval]
                                       ELSE IF b \in Expiring THEN Free ELSE heap[b]]
             back == {<<start + heap[b].interval, b>> : b \in again}
             rearmed == {<<b, heap[b].sequence>> : b \in again}
             r == [Queue EXCEPT !.heap = h, !.timers = @ \union back, !.active = @ \union rearmed,
                                !.failed = @ \/ \E b \in Expiring : heap[b] = Free]
             q == IF r.timers = {} THEN r ELSE resetTimerfd(r, Earliest(r))
  <2>1. reset(Queue) = q
    BY DEF reset, restart, Queue, Expiring
  <2>2. r.heap = h
    <3> HIDE DEF h, back, rearmed
    <3> QED
      BY DEF Queue
  <2>3. q.heap = r.heap
    <3> HIDE DEF h, back, rearmed
    <3> QED
      BY DEF resetTimerfd, Queue
  <2>4. heap' = h
    <3> HIDE DEF q, r, h
    <3> QED
      BY <2>1, <2>2, <2>3 DEF EndRound, Become
  <2>5. heap'[a] = IF a \in again THEN [heap[a] EXCEPT !.expiration = start + heap[a].interval]
                   ELSE IF a \in Expiring THEN Free ELSE heap[a]
    <3> HIDE DEF again
    <3> QED
      BY <2>4
  <2>6. a \in again => a \in Expiring
    OBVIOUS
  <2> HIDE DEF again
  <2> QED
    BY <2>5, <2>6
<1>6. ASSUME NEW a \in Addresses, Again(a)'
      PROVE  rounds'[heap'[a].sequence] + heap'[a].interval <= heap'[a].expiration
  <2>1. CASE a \notin Expiring /\ heap'[a] = heap[a]
    <3>1. Again(a)
      BY <1>1, <1>6, <2>1 DEF Again
    <3> QED
      BY <1>1, <1>4, <2>1, <3>1 DEF RoundsInv
  <2>2. CASE a \in Expiring /\ heap'[a] = [heap[a] EXCEPT !.expiration = start + heap[a].interval]
    <3>1. PICK i \in 1 .. Len(expired) : expired[i] = a
      BY <2>2 DEF Expiring
    <3>2. rounds[heap[a].sequence] = start
      BY <1>3, <3>1 DEF RoundsInv
    <3>3. heap[a] \in Timer
      BY DEF TimersInv, TimersType
    <3>4. /\ heap'[a].sequence = heap[a].sequence /\ heap'[a].interval = heap[a].interval
          /\ heap'[a].expiration = start + heap[a].interval
      BY <2>2, <3>3 DEF Timer
    <3> QED
      BY <1>1, <1>2, <3>2, <3>4
  <2> QED
    BY <1>5, <1>6, <2>1, <2>2 DEF Again, Free
<1>7. Len(expired') = 0 /\ start' <= now'
  BY <1>1, <1>2, EmptySeq
<1> QED
  BY <1>1, <1>6, <1>7 DEF RoundsInv

(* Every step keeps the rounds.                                            *)
LEMMA RoundsStep ==
    ASSUME TimersInv, RoundsInv, [Next]_timerVars PROVE RoundsInv'
<1>0. TimersInv'
  BY TimersStep
<1>1. CASE HandleRead \/ NextCallback \/ EndRound
  BY <1>0, <1>1, HandleReadRounds, NextCallbackRounds, EndRoundRounds
<1>2. CASE UNCHANGED timerVars
  <2>1. Quiet
    BY <1>2 DEF timerVars, Quiet
  <2> QED
    BY <1>0, <2>1, QuietRounds
<1>3. CASE Tick \/ (\E t \in Threads : AddTimerReturns(t)) \/ (\E id \in ids : Cancel(id))
  <2>1. Quiet
    BY <1>3 DEF Tick, AddTimerReturns, Cancel, history, Quiet
  <2> QED
    BY <1>0, <2>1, QuietRounds
<1>4. ASSUME NEW id, Become(cancelInLoop(Queue, id)),
             UNCHANGED <<now, start, expired, calling, ran, rounds>>
      PROVE  RoundsInv'
  <2>1. heap' = [heap EXCEPT ![id[1]] = Free] \/ heap' = heap
    BY <1>4, BecomesCancelled
  <2>2. heap \in [Addresses -> Timer]
    BY DEF TimersInv, TimersType
  <2>3. \A a \in Addresses : heap'[a] = heap[a] \/ heap'[a].sequence = 0
    BY <2>1, <2>2 DEF Free
  <2>4. Quiet
    BY <1>4, <2>3 DEF Quiet
  <2> QED
    BY <1>0, <2>4, QuietRounds
<1>5. CASE RunFunctor
  <2>1. CASE Head(functors).op = "add"
    <3>1. Become(addTimerInLoop(Queue, Head(functors).id[1]))
      BY <1>5, <2>1 DEF RunFunctor
    <3>2. QueueWith(heap) = Queue
      BY DEF Queue, QueueWith
    <3>3. heap' = heap
      BY <3>1, <3>2, BecomesAdded
    <3>4. Quiet
      BY <1>5, <3>3 DEF RunFunctor, Quiet
    <3> QED
      BY <1>0, <3>4, QuietRounds
  <2>2. CASE Head(functors).op # "add"
    <3>1. /\ Become(cancelInLoop(Queue, Head(functors).id))
          /\ UNCHANGED <<now, start, expired, calling, ran, rounds>>
      BY <1>5, <2>2 DEF RunFunctor
    <3> QED
      BY <1>4, <3>1
  <2> QED
    BY <2>1, <2>2
<1>6. ASSUME NEW id \in ids, CallbackCancels(id) PROVE RoundsInv'
  <2>1. /\ Become(cancelInLoop(Queue, id))
        /\ UNCHANGED <<now, start, expired, calling, ran, rounds>>
    BY <1>6 DEF CallbackCancels
  <2> QED
    BY <1>4, <2>1
<1>7. ASSUME NEW a \in Addresses, NEW d \in Delays, NEW i \in Intervals,
             CallbackAdds(a, d, i) \/ \E t \in Threads : AddTimer(t, a, d, i)
      PROVE  RoundsInv'
  <2>1. /\ MayCreate(a) /\ heap' = NewTimer(a, d, i) /\ numCreated' = numCreated + 1
        /\ UNCHANGED <<now, start, expired, calling, ran, rounds>>
    <3>1. CASE CallbackAdds(a, d, i)
      <4>1. [Queue EXCEPT !.heap = NewTimer(a, d, i)] = QueueWith(NewTimer(a, d, i))
        BY DEF Queue, QueueWith
      <4>2. heap' = NewTimer(a, d, i)
        BY <3>1, <4>1, BecomesAdded DEF CallbackAdds
      <4> QED
        BY <3>1, <4>2 DEF CallbackAdds
    <3>2. CASE \E t \in Threads : AddTimer(t, a, d, i)
      BY <3>2 DEF AddTimer, history
    <3> QED
      BY <1>7, <3>1, <3>2
  <2>2. /\ heap[a].sequence = 0 /\ heap'[a].sequence = numCreated + 1
        /\ \A b \in Addresses : b # a => heap'[b] = heap[b]
        /\ numCreated + 1 \notin ran
    <3>1. /\ heap[a].sequence = 0 /\ numCreated + 1 \notin ran
          /\ heap'[a] = [expiration |-> now + d, interval |-> i, sequence |-> numCreated + 1]
          /\ \A b \in Addresses : b # a => heap'[b] = heap[b]
      BY <2>1, NewTimerFacts
    <3> QED
      BY <3>1
  <2>3. Quiet
    BY <2>1, <2>2 DEF Quiet
  <2> QED
    BY <1>0, <2>3, QuietRounds
<1> QED
  BY <1>1, <1>2, <1>3, <1>5, <1>6, <1>7 DEF Next, Loop, User

LEMMA RoundsInit ==
    ASSUME Init PROVE RoundsInv
<1>1. Len(expired) = 0
  BY EmptySeq DEF Init
<1>2. rounds \in [1 .. MaxCreated -> Nat] /\ start <= now /\ ran = {}
  BY DEF Init
<1> QED
  BY <1>1, <1>2 DEF RoundsInv, Again

(* The Timer that begins to be called was among the due or the expired     *)
(* ones, and had not been called in this round; its last round was at      *)
(* least its interval ago.                                                 *)
LEMMA BeginsCalled ==
    ASSUME TimersInv, [Next]_timerVars, Begins
    PROVE  \E a \in Addresses :
              /\ Called = heap[a] /\ heap[a].sequence # 0
              /\ RoundsInv =>
                    /\ start' <= now /\ heap[a].expiration <= start'
                    /\ heap[a].sequence \in ran =>
                          rounds[heap[a].sequence] + heap[a].interval <= start'
              /\ heap[a].interval = 0 => heap[a].sequence \notin ran
              /\ heap[a].sequence \in cancelled => heap[a].sequence \in lateCancel'
<1>0. TimersType /\ NumbersInv /\ ActiveInv /\ ExpiredInv /\ RanInv /\ CancelledInv
  BY DEF TimersInv, PlacesInv, HistoryInv
<1>1. CASE HandleRead /\ calling' = 1
  <2> DEFINE due == {e \in timers : e[1] <= now}
  <2>1. Due(Queue) = due
    BY DEF Due, Queue
  <2>2. expired' \in Orders(due) /\ calling = 0 /\ 1 \in 1 .. Len(expired') /\ heap' = heap
    <3>1. expired' \in Orders(due) /\ calling = 0 /\ 1 \in 1 .. Len(expired')
      BY <1>1, <2>1 DEF HandleRead, Begins
    <3>2. Become([getExpired(Queue) EXCEPT !.alarm = Never, !.canceling = {}])
      BY <1>1 DEF HandleRead
    <3>3. [getExpired(Queue) EXCEPT !.alarm = Never, !.canceling = {}].heap = heap
      BY DEF getExpired, Queue
    <3> QED
      BY <3>1, <3>2, <3>3 DEF Become
  <2>3. Len(expired') \in Nat /\ expired'[1] \in {e[2] : e \in due}
    <3>1. TimersType'
      BY <1>1, HandleReadKeeps DEF TimersInv
    <3>2. DOMAIN expired' = 1 .. Len(expired') /\ Len(expired') \in Nat
      BY <3>1, LenProperties DEF TimersType
    <3>3. expired' \in [1 .. Cardinality(due) -> {e[2] : e \in due}]
      <4> HIDE DEF due
      <4> QED
        BY <2>2 DEF Orders
    <3> QED
      BY <2>2, <3>2, <3>3
  <2>4. PICK e \in due : expired'[1] = e[2]
    BY <2>3
  <2>5. /\ e[2] \in Addresses /\ heap[e[2]].sequence # 0 /\ heap[e[2]].expiration <= now
    BY <1>0 DEF TimersType, ActiveInv
  <2>6. expired = <<>> /\ Len(expired) = 0 /\ Expiring = {}
    BY <1>0, <2>2, EmptySeq DEF ExpiredInv, Expiring
  <2>7. heap[e[2]].interval = 0 => heap[e[2]].sequence \notin ran
    BY <1>0, <2>5, <2>6 DEF RanInv
  <2>8. heap[e[2]].sequence \notin cancelled
    BY <1>0, <2>5, <2>6 DEF CancelledInv
  <2>9. Called = heap[e[2]]
    BY <1>1, <2>2, <2>4 DEF Called
  <2>10. start' = now /\ now \in Nat
    BY <1>0, <1>1 DEF HandleRead, TimersType
  <2>11. ASSUME RoundsInv, heap[e[2]].sequence \in ran
         PROVE  rounds[heap[e[2]].sequence] + heap[e[2]].interval <= start'
    <3>1. /\ heap[e[2]].expiration \in Nat /\ heap[e[2]].interval \in Nat
          /\ heap[e[2]].sequence \in 1 .. MaxCreated
      BY <2>5, RoundTypes
    <3>2. rounds[heap[e[2]].sequence] \in Nat
      BY <2>11, <3>1 DEF RoundsInv
    <3>3. ~ InRound(e[2]) /\ Again(e[2])
      BY <2>5, <2>6, <2>11 DEF InRound, Again
    <3>4. rounds[heap[e[2]].sequence] + heap[e[2]].interval <= heap[e[2]].expiration
      BY <2>5, <2>11, <3>3 DEF RoundsInv
    <3> QED
      BY <2>5, <2>10, <3>1, <3>2, <3>4
  <2> QED
    BY <2>5, <2>7, <2>8, <2>9, <2>10, <2>11
<1>2. CASE NextCallback /\ calling' = calling + 1 /\ calling < Len(expired)
  <2> DEFINE c == calling + 1
             a == expired[c]
  <2>1. /\ UNCHANGED <<heap, start, expired, cancelled, lateCancel>>
    BY <1>2 DEF NextCallback
  <2>2. c \in 1 .. Len(expired) /\ calling \in Nat /\ a \in Addresses
    BY <1>0, <1>2, FunctorFacts DEF TimersType
  <2>3. Called = heap[a]
    BY <1>2, <2>1 DEF Called
  <2>4. heap[a].sequence # 0 /\ heap[a].expiration <= now
    BY <1>0, <2>2 DEF ExpiredInv
  <2>5. ASSUME heap[a].interval = 0, heap[a].sequence \in ran PROVE FALSE
    <3>1. PICK i \in 1 .. Len(expired) : i <= calling /\ expired[i] = a
      BY <1>0, <2>2, <2>4, <2>5 DEF RanInv
    <3>2. i = c
      BY <1>0, <2>2, <3>1 DEF ExpiredInv
    <3> QED
      BY <2>2, <3>1, <3>2
  <2>6. heap[a].sequence \in cancelled => heap[a].sequence \in lateCancel'
    BY <1>0, <2>1, <2>2, <2>4 DEF CancelledInv
  <2>7. RoundsInv => start' <= now /\ heap[a].expiration <= start'
    BY <2>1, <2>2 DEF RoundsInv
  <2>8. ASSUME RoundsInv, heap[a].sequence \in ran
        PROVE  rounds[heap[a].sequence] + heap[a].interval <= start'
    <3>1. /\ heap[a].expiration \in Nat /\ heap[a].interval \in Nat /\ start \in Nat
          /\ heap[a].sequence \in 1 .. MaxCreated
      BY <2>2, <2>4, RoundTypes
    <3>2. rounds[heap[a].sequence] \in Nat
      BY <2>8, <3>1 DEF RoundsInv
    <3>3. ~ InRound(a)
      <4>1. ASSUME NEW i \in 1 .. Len(expired), i <= calling, expired[i] = a PROVE FALSE
        <5>1. i = c
          BY <1>0, <2>2, <4>1 DEF ExpiredInv
        <5> QED
          BY <2>2, <4>1, <5>1
      <4> QED
        BY <4>1 DEF InRound
    <3>4. rounds[heap[a].sequence] + heap[a].interval <= heap[a].expiration
      BY <2>2, <2>4, <2>8, <3>3 DEF RoundsInv, Again
    <3> QED
      BY <2>1, <2>7, <2>8, <3>1, <3>2, <3>4
  <2> HIDE DEF a, c
  <2> QED
    BY <2>2, <2>3, <2>4, <2>5, <2>6, <2>7, <2>8
<1> QED
  BY <1>1, <1>2, BeginsBy

(* No Timer is called in a round that began before it was due; one that    *)
(* does not repeat is called once, although `new' hands its address out    *)
(* again; and the rounds that call one that does begin at least its        *)
(* interval apart, counted from before the callbacks, as handleRead()      *)
(* hands its `now' to reset(): after slow callbacks a Timer may be due     *)
(* again at once.                                                          *)
THEOREM TimersRunWhenDue == Spec => RunsWhenDue
<1> DEFINE I == TimersInv /\ RoundsInv
<1>1. Init => I
  BY TimersInit, RoundsInit
<1>2. I /\ [Next]_timerVars => I'
  BY TimersStep, RoundsStep
<1>3. I /\ [Next]_timerVars =>
         [Begins => /\ start' <= now /\ Called.expiration <= start'
                    /\ Called.interval = 0 => Called.sequence \notin ran
                    /\ Called.sequence \in ran =>
                          rounds[Called.sequence] + Called.interval <= start']_timerVars
  BY BeginsCalled
<1> QED
  BY <1>1, <1>2, <1>3, PTL DEF Spec, RunsWhenDue

(* A Timer that was cancelled is not called again; only one that was due   *)
(* in the round that cancels it may still be called, in that round.        *)
THEOREM CancelledTimersQuiet == Spec => CancelledStaysQuiet
<1>1. Init => TimersInv
  BY TimersInit
<1>2. TimersInv /\ [Next]_timerVars => TimersInv'
  BY TimersStep
<1>3. TimersInv /\ [Next]_timerVars =>
         [Begins => Called.sequence \notin cancelled \ lateCancel']_timerVars
  BY BeginsCalled
<1> QED
  BY <1>1, <1>2, <1>3, PTL DEF Spec, CancelledStaysQuiet
=============================================================================
