----------------------------- MODULE TimerQueue -----------------------------
(***************************************************************************)
(* The timers of an EventLoop: a set ordered by expiration, one timerfd    *)
(* armed for the earliest, and the rules for cancelling a timer while the  *)
(* expired ones are being called.                                          *)
(*                                                                         *)
(* Time is counted in ticks of 100 microseconds, the shortest delay        *)
(* howMuchTimeFromNow() asks for.  A Timer* is an address that `new' may   *)
(* hand out again once the timer is deleted.  Other threads add and cancel *)
(* timers through runInLoop(): `functors' is the queue of module EventLoop.*)
(* What a callback does is up to the application: it may add and cancel    *)
(* timers, its own too.                                                    *)
(***************************************************************************)
EXTENDS Integers, Sequences, FiniteSets, FiniteSetsExt

CONSTANTS
    Addresses,      \* what `new Timer' may return
    Threads,        \* the threads other than the loop's
    Intervals,      \* of timers; 0 for one that runs once
    Delays,         \* when they are to run first, from now
    MaxCreated,     \* bound: timers created
    MaxTime         \* bound: the clock

ASSUME TimerBounds == /\ IsFiniteSet(Addresses) /\ MaxCreated \in Nat /\ MaxTime \in Nat \ {0}
                      /\ Intervals \subseteq Nat /\ Delays \subseteq Nat

VARIABLES
    now,            \* the clock
    heap,           \* the Timer at an address
    numCreated,     \* Timer::s_numCreated_
    timers,         \* timers_, pairs <<expiration, address>>
    activeTimers,   \* activeTimers_, pairs <<address, sequence>>
    cancelingTimers,
    start,          \* handleRead()'s `now', from before the callbacks; 0: none
    expired,        \* the addresses handleRead() is calling, in order
    calling,        \* which of them is being called; 0: none
    alarm,          \* when timerfd_ becomes readable
    functors,       \* queued in the loop
    adding,         \* per thread: the address addTimer() is to return
    ids,            \* TimerIds the application has: <<address, sequence>>
    ran,            \* history: sequences of the timers called so far
    rounds,         \* history: per sequence, when the last round that called it began
    cancelled,      \* history: sequences cancelled by cancelInLoop()
    lateCancel,     \* history: those cancelled in the round that calls them
    failed          \* an assert failed or freed memory was used, in the loop

timerVars == <<now, heap, numCreated, timers, activeTimers, cancelingTimers, start, expired, calling,
               alarm, functors, adding, ids, ran, rounds, cancelled, lateCancel, failed>>
history == <<ids, ran, rounds, cancelled, lateCancel>>

Never == MaxTime + 100
Free == [expiration |-> 0, interval |-> 0, sequence |-> 0]

Init ==
    /\ now = 1 /\ heap = [a \in Addresses |-> Free] /\ numCreated = 0
    /\ timers = {} /\ activeTimers = {} /\ cancelingTimers = {}
    /\ start = 0 /\ expired = <<>> /\ calling = 0 /\ alarm = Never /\ functors = <<>>
    /\ adding = [t \in Threads |-> <<>>]
    /\ ids = {} /\ ran = {} /\ rounds = [s \in 1 .. MaxCreated |-> 0]
    /\ cancelled = {} /\ lateCancel = {} /\ failed = FALSE

-----------------------------------------------------------------------------
(* The private operations, as functions of a state q of the queue.         *)
Queue == [heap |-> heap, timers |-> timers, active |-> activeTimers,
          canceling |-> cancelingTimers, alarm |-> alarm, failed |-> failed]

Become(q) ==
    /\ heap' = q.heap /\ timers' = q.timers /\ activeTimers' = q.active
    /\ cancelingTimers' = q.canceling /\ alarm' = q.alarm
    /\ failed' = (q.failed \/ Cardinality(q.timers) # Cardinality(q.active))

Earliest(q) == Min({e[1] : e \in q.timers})

(* resetTimerfd(): at least one tick from now.                             *)
resetTimerfd(q, when) == [q EXCEPT !.alarm = IF when > now THEN when ELSE now + 1]

insert(q, a) ==
    LET timer == q.heap[a]
        entry == <<timer.expiration, a>>
        active == <<a, timer.sequence>>
    IN [q EXCEPT !.timers = @ \union {entry}, !.active = @ \union {active},
                 !.failed = @ \/ entry \in q.timers \/ active \in q.active \/ timer = Free]

addTimerInLoop(q, a) ==
    LET when == q.heap[a].expiration
        earliestChanged == q.timers = {} \/ when < Earliest(q)
    IN IF earliestChanged THEN resetTimerfd(insert(q, a), when) ELSE insert(q, a)

(* Mutant: looks a timer up by its address alone.                          *)
MutCancelByAddress(q, id) ==
    IF \E e \in q.active : e[1] = id[1]
    THEN [q EXCEPT !.timers = {e \in @ : e[2] # id[1]}, !.heap[id[1]] = Free,
                   !.active = {e \in @ : e[1] # id[1]}]
    ELSE [q EXCEPT !.canceling = IF calling > 0 THEN @ \union {id} ELSE @]

cancelInLoop(q, id) ==
    LET entry == <<q.heap[id[1]].expiration, id[1]>> IN
    IF id \in q.active
    THEN [q EXCEPT !.timers = @ \ {entry}, !.active = @ \ {id}, !.heap[id[1]] = Free,
                   !.failed = @ \/ entry \notin q.timers]
    ELSE [q EXCEPT !.canceling = IF calling > 0 THEN @ \union {id} ELSE @]

(* getExpired(): what is due leaves both sets; called in order of expiry,  *)
(* those of one moment in the order of their addresses, which may be any.  *)
Due(q) == {e \in q.timers : e[1] <= now}
Orders(S) ==
    {s \in [1 .. Cardinality(S) -> {e[2] : e \in S}] :
        /\ \A e \in S : \E i \in DOMAIN s : s[i] = e[2]
        /\ \A i, j \in DOMAIN s :
               i < j => s[i] # s[j] /\ heap[s[i]].expiration <= heap[s[j]].expiration}
getExpired(q) ==
    LET gone == {<<e[2], q.heap[e[2]].sequence>> : e \in Due(q)} IN
    [q EXCEPT !.timers = @ \ Due(q), !.active = @ \ gone,
              !.failed = @ \/ ~ gone \subseteq q.active]

(* Mutant: a repeating timer is armed again even if it was cancelled.      *)
MutRepeatsAlways(q, a) == q.heap[a].interval > 0

(* Timer::restart(), with the time the round began: after slow callbacks   *)
(* the timer may be due again already.                                     *)
(* Mutant: it goes on from the time it was due.                            *)
MutRestart(timer) == [timer EXCEPT !.expiration = @ + timer.interval]
restart(timer) == [timer EXCEPT !.expiration = start + timer.interval]

(* reset(): repeating timers go back, the others are deleted.              *)
Repeats(q, a) == q.heap[a].interval > 0 /\ <<a, q.heap[a].sequence>> \notin q.canceling

reset(q) ==
    LET called == {expired[i] : i \in 1 .. Len(expired)}
        again == {a \in called : Repeats(q, a)}
        r == [q EXCEPT !.heap = [a \in Addresses |->
                                    IF a \in again
                                    THEN restart(q.heap[a])
                                    ELSE IF a \in called THEN Free ELSE q.heap[a]],
                       !.timers = @ \union {<<restart(q.heap[a]).expiration, a>> : a \in again},
                       !.active = @ \union {<<a, q.heap[a].sequence>> : a \in again},
                       !.failed = @ \/ \E a \in called : q.heap[a] = Free]
    IN IF r.timers = {} THEN r ELSE resetTimerfd(r, Earliest(r))

-----------------------------------------------------------------------------
(* new Timer(cb, when, interval).                                          *)
NewTimer(a, delay, interval) ==
    [heap EXCEPT ![a] = [expiration |-> now + delay, interval |-> interval,
                         sequence |-> numCreated + 1]]

MayCreate(a) == heap[a] = Free /\ numCreated < MaxCreated /\ now < MaxTime

(* addTimer() in another thread: the timer is queued, and only then, from  *)
(* a Timer that the loop may have deleted by now, its sequence is read.    *)
AddTimer(t, a, delay, interval) ==
    /\ adding[t] = <<>> /\ MayCreate(a)
    /\ heap' = NewTimer(a, delay, interval) /\ numCreated' = numCreated + 1
    /\ functors' = Append(functors, [op |-> "add", id |-> <<a, numCreated + 1>>])
    /\ adding' = [adding EXCEPT ![t] = <<a, numCreated + 1>>]
    /\ UNCHANGED <<now, timers, activeTimers, cancelingTimers, start, expired, calling, alarm,
                   failed>>
    /\ UNCHANGED history

AddTimerReturns(t) ==
    /\ adding[t] # <<>>
    /\ ids' = ids \union {<<adding[t][1], heap[adding[t][1]].sequence>>}
    /\ adding' = [adding EXCEPT ![t] = <<>>]
    /\ UNCHANGED <<now, heap, numCreated, timers, activeTimers, cancelingTimers, start, expired,
                   calling, alarm, functors, ran, rounds, cancelled, lateCancel, failed>>

(* cancel() in another thread, once per TimerId.                           *)
Cancel(id) ==
    /\ id \in ids /\ now < MaxTime
    /\ id[2] \notin cancelled /\ \A i \in 1 .. Len(functors) : functors[i].id # id
    /\ functors' = Append(functors, [op |-> "cancel", id |-> id])
    /\ UNCHANGED <<now, heap, numCreated, timers, activeTimers, cancelingTimers, start, expired,
                   calling, alarm, adding, failed>>
    /\ UNCHANGED history

(* Of a cancellation, history keeps the timer, and whether the round that  *)
(* is under way has already taken it out of the queue.  A cancellation in  *)
(* the loop thread that overtakes the queued addTimerInLoop() of another   *)
(* thread has no effect.                                                   *)
Remember(id) ==
    /\ cancelled' = IF \E i \in 1 .. Len(functors) : functors[i] = [op |-> "add", id |-> id]
                    THEN cancelled ELSE cancelled \union {id[2]}
    /\ lateCancel' = IF calling > 0 /\ id \notin activeTimers THEN lateCancel \union {id[2]}
                     ELSE lateCancel

(* doPendingFunctors() calls the next functor.                             *)
RunFunctor ==
    /\ calling = 0 /\ functors # <<>>
    /\ LET f == Head(functors) IN
       IF f.op = "add"
       THEN Become(addTimerInLoop(Queue, f.id[1])) /\ UNCHANGED <<cancelled, lateCancel>>
       ELSE Become(cancelInLoop(Queue, f.id)) /\ Remember(f.id)
    /\ functors' = Tail(functors)
    /\ UNCHANGED <<now, numCreated, start, expired, calling, adding, ids, ran, rounds>>

(* handleRead() up to the first callback.                                  *)
BeginCall(list, i, began) ==
    LET s == heap[list[i]].sequence IN
    ran' = ran \union {s} /\ rounds' = [rounds EXCEPT ![s] = began]

HandleRead ==
    /\ calling = 0 /\ alarm <= now
    /\ Become([getExpired(Queue) EXCEPT !.alarm = Never, !.canceling = {}])
    /\ expired' \in Orders(Due(Queue))
    /\ start' = now
    /\ lateCancel' = {}
    /\ IF Due(Queue) = {} THEN calling' = Cardinality(Addresses) + 1 /\ UNCHANGED <<ran, rounds>>
       ELSE calling' = 1 /\ BeginCall(expired', 1, now)
    /\ UNCHANGED <<now, numCreated, functors, adding, ids, cancelled>>

(* What a callback may do: addTimer() and cancel() in the loop thread.     *)
InCallback == calling \in 1 .. Len(expired)

CallbackAdds(a, delay, interval) ==
    /\ InCallback /\ MayCreate(a)
    /\ Become(addTimerInLoop([Queue EXCEPT !.heap = NewTimer(a, delay, interval)], a))
    /\ numCreated' = numCreated + 1 /\ ids' = ids \union {<<a, numCreated + 1>>}
    /\ UNCHANGED <<now, start, expired, calling, functors, adding, ran, rounds, cancelled, lateCancel>>

CallbackCancels(id) ==
    /\ InCallback /\ id \in ids /\ id[2] \notin cancelled
    /\ Become(cancelInLoop(Queue, id)) /\ Remember(id)
    /\ UNCHANGED <<now, numCreated, start, expired, calling, functors, adding, ids, ran, rounds>>

(* The callback returns; the next one is called.                           *)
NextCallback ==
    /\ InCallback
    /\ calling' = calling + 1
    /\ IF calling < Len(expired)
       THEN /\ BeginCall(expired, calling + 1, start)
            /\ failed' = (failed \/ heap[expired[calling + 1]] = Free)
       ELSE UNCHANGED <<ran, rounds, failed>>
    /\ UNCHANGED <<now, heap, numCreated, timers, activeTimers, cancelingTimers, start, expired,
                   alarm, functors, adding, ids, cancelled, lateCancel>>

(* All have been called: reset().                                          *)
EndRound ==
    /\ calling > Len(expired)
    /\ Become(reset(Queue))
    /\ calling' = 0 /\ expired' = <<>> /\ start' = 0
    /\ UNCHANGED <<now, numCreated, functors, adding, ids, ran, rounds, cancelled, lateCancel>>

(* The clock; it reaches its bound only once the loop has nothing to do.   *)
Tick ==
    /\ now < MaxTime
    /\ now = MaxTime - 1 => /\ functors = <<>> /\ calling = 0
                            /\ \A t \in Threads : adding[t] = <<>>
    /\ now' = now + 1
    /\ UNCHANGED <<heap, numCreated, timers, activeTimers, cancelingTimers, start, expired,
                   calling, alarm, functors, adding, failed>>
    /\ UNCHANGED history

Loop == RunFunctor \/ HandleRead \/ NextCallback \/ EndRound
User == \/ \E a \in Addresses, d \in Delays, i \in Intervals :
             CallbackAdds(a, d, i) \/ \E t \in Threads : AddTimer(t, a, d, i)
        \/ \E id \in ids : Cancel(id) \/ CallbackCancels(id)

Next == Loop \/ User \/ Tick \/ \E t \in Threads : AddTimerReturns(t)

Fairness == WF_timerVars(Loop) /\ WF_timerVars(Tick)
            /\ \A t \in Threads : WF_timerVars(AddTimerReturns(t))
Spec == Init /\ [][Next]_timerVars /\ Fairness

-----------------------------------------------------------------------------
TypeOK ==
    /\ now \in 1 .. MaxTime /\ numCreated \in 0 .. MaxCreated
    /\ timers \subseteq Nat \X Addresses /\ activeTimers \subseteq Addresses \X (1 .. MaxCreated)
    /\ \A i \in 1 .. Len(expired) : expired[i] \in Addresses
    /\ start \in 0 .. MaxTime /\ calling \in Nat /\ failed \in BOOLEAN

(* timers_ and activeTimers_ hold the same timers, none of them deleted,   *)
(* and no assert of the queue fails, whatever callbacks add and cancel     *)
(* while expired timers are being called; no timer is lost: it exists      *)
(* until it has run or its own TimerId was cancelled.                      *)
QueueIntact ==
    /\ ~ failed
    /\ activeTimers = {<<e[2], heap[e[2]].sequence>> : e \in timers}
    /\ \A e \in timers : heap[e[2]] # Free /\ heap[e[2]].expiration = e[1]
    /\ \A i \in 1 .. Len(expired) : heap[expired[i]] # Free
    /\ \A s \in 1 .. numCreated : s \in ran \union cancelled \/ \E a \in Addresses : heap[a].sequence = s

(* The timerfd is armed, and not for later than the earliest timer,        *)
(* whenever the loop may go to sleep.                                      *)
Armed == calling = 0 /\ timers # {} => alarm <= Max({Earliest(Queue), now + 1})

(* A timer that was cancelled is not called any more.  Only one that was   *)
(* due in the very round that cancels it may still be called, in that      *)
(* round.                                                                  *)
Begins == calling' # calling /\ calling' \in 1 .. Len(expired')
Called == heap'[expired'[calling']]
CancelledStaysQuiet ==
    [][Begins => Called.sequence \notin cancelled \ lateCancel']_timerVars

(* No timer is called in a round that began before it was due; one that    *)
(* does not repeat is called once; and the rounds that call one that does  *)
(* began at least its interval apart.  The calls in them may be closer, if *)
(* the callbacks before the earlier of them took long.                     *)
RunsWhenDue ==
    [][Begins => /\ start' <= now /\ Called.expiration <= start'
                 /\ Called.interval = 0 => Called.sequence \notin ran
                 /\ Called.sequence \in ran =>
                       rounds[Called.sequence] + Called.interval <= start']_timerVars

(* Every timer that is due within the bound is called or cancelled.        *)
Waiting(s) == \E a \in Addresses : heap[a].sequence = s /\ heap[a].expiration <= MaxTime
TimersRun == []<>(\A s \in 1 .. MaxCreated : Waiting(s) => s \in ran \union cancelled)

(* The queue is in order whatever callbacks and other threads add and      *)
(* cancel, while expired timers are being called too.                      *)
TimersKept == TypeOK /\ QueueIntact /\ Armed

(* A timer is called when it is due, and only then, and not once it has    *)
(* been cancelled.                                                         *)
CalledAsDue == CancelledStaysQuiet /\ RunsWhenDue /\ TimersRun
=============================================================================
