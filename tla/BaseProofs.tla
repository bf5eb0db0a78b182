----------------------------- MODULE BaseProofs -----------------------------
(***************************************************************************)
(* Proofs about muduo/base: the wakeups of its monitors, the queues and    *)
(* the thread pool, suffice; and the lines logged are kept, in the files   *)
(* they belong to, on their way through AsyncLogging and LogFile.          *)
(***************************************************************************)
EXTENDS MCBase, Condition, FiniteSetTheorems, SequenceTheorems,
        WellFoundedInduction, TLAPS

(* Both queues: the capacity 0 is the one that never fills.                *)
Q(cap) == INSTANCE BlockingQueue WITH Capacity <- cap

Places == {"out", "awake", "notEmpty", "notFull"}
-----------------------------------------------------------------------------
(* How many threads of S are awake when one thread moves: what lies        *)
(* between two states of a monitor is a few such moves.                    *)

(* Only t moves, to v.                                                     *)
Moves(w, u, t, v) == u = [w EXCEPT ![t] = v]

(* The awake threads of a finite set can be counted.                       *)
LEMMA AwakeCount ==
    ASSUME NEW w, NEW S, IsFiniteSet(S)
    PROVE  IsFiniteSet(Awake(w, S)) /\ Cardinality(Awake(w, S)) \in Nat
<1>1. Awake(w, S) \subseteq S
  BY DEF Awake
<1> QED
  BY <1>1, FS_Subset, FS_CardinalityType

(* A thread that does not wake leaves at most one awake thread less.       *)
LEMMA MoveCount ==
    ASSUME NEW T, NEW w \in [T -> Places], NEW t \in T, NEW v \in Places \ {"awake"},
           NEW S \in SUBSET T, IsFiniteSet(S), NEW u, Moves(w, u, t, v)
    PROVE  /\ u \in [T -> Places]
           /\ Cardinality(Awake(u, S)) >= Cardinality(Awake(w, S)) - 1
           /\ t \notin S \/ w[t] # "awake" => Awake(u, S) = Awake(w, S)
<1>1. u \in [T -> Places]
  BY DEF Moves, Places
<1>2. Awake(u, S) = Awake(w, S) \ {t}
  BY DEF Awake, Moves, Places
<1>3. IsFiniteSet(Awake(w, S)) /\ Cardinality(Awake(w, S)) \in Nat
  BY AwakeCount
<1>4. Cardinality(Awake(w, S) \ {t}) >= Cardinality(Awake(w, S)) - 1
  <2>1. Cardinality(Awake(w, S) \ {t})
           = IF t \in Awake(w, S) THEN Cardinality(Awake(w, S)) - 1 ELSE Cardinality(Awake(w, S))
    BY <1>3, FS_RemoveElement
  <2> QED
    BY <1>3, <2>1
<1>5. t \notin S \/ w[t] # "awake" => Awake(w, S) \ {t} = Awake(w, S)
  BY DEF Awake
<1> QED
  BY <1>1, <1>2, <1>4, <1>5

(* A thread that wakes is one awake thread more in its set, and the same   *)
(* in others.                                                              *)
LEMMA WakeCount ==
    ASSUME NEW T, NEW w \in [T -> Places], NEW t \in T, w[t] # "awake",
           NEW S \in SUBSET T, IsFiniteSet(S), NEW u, Moves(w, u, t, "awake")
    PROVE  /\ u \in [T -> Places]
           /\ t \in S => Cardinality(Awake(u, S)) = Cardinality(Awake(w, S)) + 1
           /\ t \notin S => Awake(u, S) = Awake(w, S)
<1>1. u \in [T -> Places]
  BY DEF Moves, Places
<1>2. t \in S => Awake(u, S) = Awake(w, S) \union {t}
  BY DEF Awake, Moves
<1>3. t \notin S => Awake(u, S) = Awake(w, S)
  BY DEF Awake, Moves
<1>4. IsFiniteSet(Awake(w, S)) /\ t \notin Awake(w, S)
  BY AwakeCount DEF Awake
<1>5. Cardinality(Awake(w, S) \union {t}) = Cardinality(Awake(w, S)) + 1
  BY <1>4, FS_AddElement
<1> QED
  BY <1>1, <1>2, <1>3, <1>5

(* notify() wakes one of the sleepers on the condition, if there is one:   *)
(* there is one awake more in the set S of those that wait for it, and     *)
(* nothing changes in the set R of those that do not.                      *)
LEMMA NotifyCount ==
    ASSUME NEW T, NEW w \in [T -> Places], NEW cond \in {"notEmpty", "notFull"},
           NEW S \in SUBSET T, IsFiniteSet(S), Asleep(w, cond) \subseteq S,
           NEW R \in SUBSET T, R \intersect S = {},
           NEW u \in notify(w, cond)
    PROVE  /\ u \in [T -> Places]
           /\ \A t \in T : u[t] \in {w[t], "awake"}
           /\ Awake(u, R) = Awake(w, R)
           /\ \/ Asleep(w, cond) = {} /\ u = w
              \/ Cardinality(Awake(u, S)) = Cardinality(Awake(w, S)) + 1
<1>1. CASE Asleep(w, cond) = {}
  BY <1>1 DEF notify
<1>2. CASE Asleep(w, cond) # {}
  <2>1. PICK t \in Asleep(w, cond) : Moves(w, u, t, "awake")
    BY <1>2 DEF notify, Moves
  <2>2. t \in T /\ t \in S /\ t \notin R /\ w[t] # "awake"
    BY DEF Asleep
  <2>3. /\ u \in [T -> Places]
        /\ Cardinality(Awake(u, S)) = Cardinality(Awake(w, S)) + 1
    BY <2>1, <2>2, WakeCount
  <2>4. \A s \in T : u[s] \in {w[s], "awake"}
    BY <2>1 DEF Moves
  <2>5. Awake(u, R) = Awake(w, R)
    BY <2>1, <2>2 DEF Awake, Moves
  <2> QED
    BY <2>3, <2>4, <2>5
<1> QED
  BY <1>1, <1>2
(* A thread t of R, outside or awake, goes outside and tells the condition *)
(* that the threads of S wait for: R has at most one awake less, and if    *)
(* somebody still sleeps on the condition, S has one awake more.           *)
LEMMA LeaveAndNotify ==
    ASSUME NEW T, NEW w \in [T -> Places], NEW t \in T, w[t] \in {"out", "awake"},
           NEW cond \in {"notEmpty", "notFull"},
           NEW S \in SUBSET T, IsFiniteSet(S), Asleep(w, cond) \subseteq S,
           NEW R \in SUBSET T, IsFiniteSet(R), R \intersect S = {}, t \in R,
           NEW u \in notify(leave(w, t), cond)
    PROVE  /\ u \in [T -> Places]
           /\ \A s \in T : u[s] \in {w[s], "out", "awake"}
           /\ \A c \in {"notEmpty", "notFull"} : Asleep(u, c) \subseteq Asleep(w, c)
           /\ Cardinality(Awake(u, R)) >= Cardinality(Awake(w, R)) - 1
           /\ Asleep(u, cond) # {} => Cardinality(Awake(u, S)) = Cardinality(Awake(w, S)) + 1
<1> DEFINE v == leave(w, t)
<1>1. Moves(w, v, t, "out")
  BY DEF Moves, leave
<1>2. \A s \in T : v[s] \in {w[s], "out"}
  BY DEF leave
<1>3. Asleep(v, cond) = Asleep(w, cond)
  BY DEF leave, Asleep
<1>4. u \in notify(v, cond)
  OBVIOUS
<1> HIDE DEF v
<1>5. /\ v \in [T -> Places] /\ Awake(v, S) = Awake(w, S)
      /\ Cardinality(Awake(v, R)) >= Cardinality(Awake(w, R)) - 1
  <2>1. t \notin S
    OBVIOUS
  <2> QED
    BY <1>1, <2>1, MoveCount DEF Places
<1>6. /\ u \in [T -> Places]
      /\ \A s \in T : u[s] \in {v[s], "awake"}
      /\ Awake(u, R) = Awake(v, R)
      /\ \/ Asleep(v, cond) = {} /\ u = v
         \/ Cardinality(Awake(u, S)) = Cardinality(Awake(v, S)) + 1
  BY <1>3, <1>4, <1>5, NotifyCount
<1>7. \A s \in T : u[s] \in {w[s], "out", "awake"}
  BY <1>2, <1>6
<1>8. \A c \in {"notEmpty", "notFull"} : Asleep(u, c) \subseteq Asleep(w, c)
  BY <1>6, <1>7 DEF Asleep
<1> QED
  BY <1>3, <1>5, <1>6, <1>7, <1>8

-----------------------------------------------------------------------------
(* The queues.  Producers wait for room only and consumers for items only; *)
(* the items in the queue are numbers that nobody has taken yet, each once.*)
QueueType ==
    /\ items \in Seq(Nat) /\ puts \in Nat
    /\ at \in [Producers \union Consumers -> Places]
    /\ \A p \in Producers : at[p] # "notEmpty"
    /\ \A c \in Consumers : at[c] # "notFull"

QueueAwake(cap) ==
    /\ Asleep(at, "notEmpty") # {} => Cardinality(Awake(at, Consumers)) >= Len(items)
    /\ Asleep(at, "notFull") # {} => Cardinality(Awake(at, Producers)) >= cap - Len(items)

ItemsOnce ==
    /\ taken \subseteq 1 .. puts
    /\ \A j \in 1 .. Len(items) :
          /\ items[j] \in 1 .. puts /\ items[j] \notin taken
          /\ \A k \in 1 .. Len(items) : items[k] = items[j] => k = j

QueueInv(cap) == QueueType /\ QueueAwake(cap) /\ ItemsOnce

(* The new queue is empty and everybody is outside.                        *)
LEMMA QueueInit ==
    ASSUME NEW cap \in Nat, Queue!Init PROVE QueueInv(cap)
<1> USE DEF Queue!Init
<1>1. QueueType
  BY EmptySeq DEF QueueType, Places
<1>2. QueueAwake(cap)
  BY DEF QueueAwake, Asleep
<1>3. ItemsOnce
  BY DEF ItemsOnce
<1> QED
  BY <1>1, <1>2, <1>3 DEF QueueInv

(* A producer that sleeps waits for room, a consumer that does for items.  *)
LEMMA QueueSleepers ==
    ASSUME QueueType
    PROVE  Asleep(at, "notEmpty") \subseteq Consumers /\ Asleep(at, "notFull") \subseteq Producers
BY DEF QueueType, Asleep

(* put(): if it waits, the queue is full and so no producer is needed; if  *)
(* it adds an item it wakes a consumer for it.                             *)
LEMMA PutKeeps ==
    ASSUME NEW cap \in Nat, QueueInv(cap), NEW p \in Producers, Q(cap)!Put(p)
    PROVE  QueueInv(cap)'
<1> USE ThreadsAssumption
<1> DEFINE T == Producers \union Consumers
           Full == cap > 0 /\ Len(items) >= cap
<1>0. QueueType /\ QueueAwake(cap) /\ ItemsOnce
  BY DEF QueueInv
<1>1. Producers \in SUBSET T /\ Consumers \in SUBSET T /\ p \in T /\ p \notin Consumers /\ at \in [T -> Places]
  BY <1>0 DEF QueueType
<1>2. at[p] \in {"out", "awake"}
  BY DEF Q!Put
<1>3. CASE Full
  <2>1. at' = [at EXCEPT ![p] = "notFull"] /\ UNCHANGED <<items, puts, taken>>
    BY <1>3 DEF Q!Put, Q!full, Q!wait
  <2>2. Moves(at, at', p, "notFull")
    BY <2>1 DEF Moves
  <2>3. Awake(at', Consumers) = Awake(at, Consumers) /\ at' \in [T -> Places]
    BY <1>1, <2>2, MoveCount DEF Places
  <2>4. Asleep(at', "notEmpty") = Asleep(at, "notEmpty")
    BY <1>1, <1>2, <2>1 DEF Asleep
  <2>5. QueueType'
    BY <1>0, <1>1, <2>1, <2>3 DEF QueueType
  <2>6. Cardinality(Awake(at', Producers)) \in Nat
    BY AwakeCount
  <2>7. QueueAwake(cap)'
    BY <1>0, <1>3, <2>1, <2>3, <2>4, <2>6 DEF QueueAwake, QueueType
  <2>8. ItemsOnce'
    BY <1>0, <2>1 DEF ItemsOnce
  <2> QED
    BY <2>5, <2>7, <2>8 DEF QueueInv
<1>4. CASE ~ Full
  <2>1. /\ puts' = puts + 1 /\ items' = Append(items, puts + 1) /\ taken' = taken
        /\ at' \in notify(leave(at, p), "notEmpty")
    <3>1. /\ puts' = puts + 1 /\ items' = Append(items, puts + 1) /\ taken' = taken
          /\ at' \in Q(cap)!notify(Q(cap)!leave(at, p), "notEmpty")
      BY <1>4 DEF Q!Put, Q!full, Q!push_back
    <3>2. Q(cap)!notify(Q(cap)!leave(at, p), "notEmpty") = notify(leave(at, p), "notEmpty")
      BY DEF Q!leave, leave, Q!notify, notify, Q!Asleep, Asleep
    <3> QED
      BY <3>1, <3>2
  <2>2. /\ at' \in [T -> Places]
        /\ \A t \in T : at'[t] \in {at[t], "out", "awake"}
        /\ \A c \in {"notEmpty", "notFull"} : Asleep(at', c) \subseteq Asleep(at, c)
        /\ Cardinality(Awake(at', Producers)) >= Cardinality(Awake(at, Producers)) - 1
        /\ Asleep(at', "notEmpty") # {}
              => Cardinality(Awake(at', Consumers)) = Cardinality(Awake(at, Consumers)) + 1
    BY <1>0, <1>1, <1>2, <2>1, QueueSleepers, LeaveAndNotify
  <2>3. /\ items' \in Seq(Nat) /\ puts' \in Nat /\ Len(items') = Len(items) + 1
        /\ items'[Len(items) + 1] = puts + 1
        /\ \A j \in 1 .. Len(items) : items'[j] = items[j]
    BY <1>0, <2>1, AppendProperties DEF QueueType
  <2>4. QueueType'
    BY <1>0, <1>1, <2>2, <2>3 DEF QueueType
  <2>5. /\ Cardinality(Awake(at, Producers)) \in Nat /\ Cardinality(Awake(at, Consumers)) \in Nat
        /\ Cardinality(Awake(at', Producers)) \in Nat
    BY AwakeCount
  <2>6. QueueAwake(cap)'
    <3>1. Asleep(at', "notEmpty") # {} => Cardinality(Awake(at', Consumers)) >= Len(items')
      <4>1. Asleep(at', "notEmpty") # {} => Cardinality(Awake(at, Consumers)) >= Len(items)
        BY <1>0, <2>2 DEF QueueAwake
      <4>2. Len(items) \in Nat /\ Len(items') = Len(items) + 1
        BY <1>0, <2>3 DEF QueueType
      <4>3. Cardinality(Awake(at, Consumers)) \in Nat
        BY <2>5
      <4>4. Asleep(at', "notEmpty") # {}
              => Cardinality(Awake(at', Consumers)) = Cardinality(Awake(at, Consumers)) + 1
        BY <2>2
      <4> QED
        BY <4>1, <4>2, <4>3, <4>4
    <3>2. Asleep(at', "notFull") # {} => Cardinality(Awake(at', Producers)) >= cap - Len(items')
      <4>1. Asleep(at', "notFull") # {} => Cardinality(Awake(at, Producers)) >= cap - Len(items)
        BY <1>0, <2>2 DEF QueueAwake
      <4>2. Len(items) \in Nat /\ Len(items') = Len(items) + 1
        BY <1>0, <2>3 DEF QueueType
      <4>3. /\ Cardinality(Awake(at, Producers)) \in Nat /\ Cardinality(Awake(at', Producers)) \in Nat
            /\ Cardinality(Awake(at', Producers)) >= Cardinality(Awake(at, Producers)) - 1
        BY <2>2, <2>5
      <4> QED
        BY <4>1, <4>2, <4>3
    <3> QED
      BY <3>1, <3>2 DEF QueueAwake
  <2>7. ItemsOnce'
    <3>1. taken' \subseteq 1 .. puts'
      BY <1>0, <2>1 DEF ItemsOnce, QueueType
    <3>2. ASSUME NEW j \in 1 .. Len(items')
          PROVE  items'[j] \in 1 .. puts' /\ items'[j] \notin taken'
      BY <1>0, <2>1, <2>3 DEF ItemsOnce, QueueType
    <3>3. ASSUME NEW j \in 1 .. Len(items'), NEW k \in 1 .. Len(items'), items'[k] = items'[j]
          PROVE  k = j
      <4>1. puts + 1 \notin 1 .. puts /\ \A i \in 1 .. Len(items) : items[i] \in 1 .. puts
        BY <1>0 DEF ItemsOnce, QueueType
      <4>2. /\ k \in 1 .. Len(items) \/ k = Len(items) + 1
            /\ j \in 1 .. Len(items) \/ j = Len(items) + 1
        BY <1>0, <2>3 DEF QueueType
      <4>3. CASE k \in 1 .. Len(items) /\ j \in 1 .. Len(items)
        BY <1>0, <2>3, <3>3, <4>3 DEF ItemsOnce
      <4>4. CASE k = Len(items) + 1 \/ j = Len(items) + 1
        BY <2>3, <3>3, <4>1, <4>2, <4>4
      <4> QED
        BY <4>2, <4>3, <4>4
    <3> QED
      BY <3>1, <3>2, <3>3 DEF ItemsOnce
  <2> QED
    BY <2>4, <2>6, <2>7 DEF QueueInv
<1> QED
  BY <1>3, <1>4

(* take(): if it waits, the queue is empty and so no consumer is needed;   *)
(* if it takes an item it wakes a producer for the room (a queue that      *)
(* never fills has no producer asleep that would need one).                *)
LEMMA TakeKeeps ==
    ASSUME NEW cap \in Nat, QueueInv(cap), NEW c \in Consumers, Q(cap)!Take(c)
    PROVE  QueueInv(cap)'
<1> USE ThreadsAssumption
<1> DEFINE T == Producers \union Consumers
<1>0. QueueType /\ QueueAwake(cap) /\ ItemsOnce
  BY DEF QueueInv
<1>1. Producers \in SUBSET T /\ Consumers \in SUBSET T /\ c \in T /\ c \notin Producers /\ at \in [T -> Places]
  BY <1>0 DEF QueueType
<1>2. at[c] \in {"out", "awake"}
  BY DEF Q!Take
<1>3. /\ Cardinality(Awake(at, Producers)) \in Nat /\ Cardinality(Awake(at, Consumers)) \in Nat
      /\ Cardinality(Awake(at', Producers)) \in Nat /\ Cardinality(Awake(at', Consumers)) \in Nat
  BY AwakeCount
<1>4. Len(items) \in Nat
  BY <1>0, LenProperties DEF QueueType
<1>5. CASE items = <<>>
  <2>1. at' = [at EXCEPT ![c] = "notEmpty"] /\ UNCHANGED <<items, puts, taken>>
    BY <1>5 DEF Q!Take, Q!Takes, Q!wait
  <2>2. Moves(at, at', c, "notEmpty")
    BY <2>1 DEF Moves
  <2>3. Awake(at', Producers) = Awake(at, Producers) /\ at' \in [T -> Places]
    BY <1>1, <2>2, MoveCount DEF Places
  <2>4. Asleep(at', "notFull") = Asleep(at, "notFull")
    BY <1>1, <1>2, <2>1 DEF Asleep
  <2>5. QueueType'
    BY <1>0, <1>1, <2>1, <2>3 DEF QueueType
  <2>6. QueueAwake(cap)'
    <3>1. Cardinality(Awake(at', Consumers)) >= Len(items')
      BY <1>3, <1>5, <2>1, EmptySeq
    <3>2. Asleep(at', "notFull") # {} => Cardinality(Awake(at', Producers)) >= cap - Len(items')
      BY <1>0, <2>1, <2>3, <2>4 DEF QueueAwake
    <3> QED
      BY <3>1, <3>2 DEF QueueAwake
  <2>7. ItemsOnce'
    BY <1>0, <2>1 DEF ItemsOnce
  <2> QED
    BY <2>5, <2>6, <2>7 DEF QueueInv
<1>6. CASE items # <<>>
  <2>1. /\ taken' = taken \union {Head(items)} /\ items' = Tail(items) /\ puts' = puts
        /\ at' \in IF cap > 0 THEN notify(leave(at, c), "notFull") ELSE {leave(at, c)}
    BY <1>6 DEF Q!Take, Q!Takes, Q!AfterTake, Q!leave, leave, Q!notify, notify, Q!Asleep, Asleep
  <2>2. /\ items' \in Seq(Nat) /\ Len(items') = Len(items) - 1
        /\ Head(items) = items[1] /\ 1 \in 1 .. Len(items)
        /\ \A j \in 1 .. Len(items') : items'[j] = items[j + 1] /\ j + 1 \in 1 .. Len(items)
    BY <1>0, <1>6, <2>1, HeadTailProperties, EmptySeq DEF QueueType
  <2>3. /\ at' \in [T -> Places]
        /\ \A t \in T : at'[t] \in {at[t], "out", "awake"}
        /\ \A d \in {"notEmpty", "notFull"} : Asleep(at', d) \subseteq Asleep(at, d)
        /\ Cardinality(Awake(at', Consumers)) >= Cardinality(Awake(at, Consumers)) - 1
        /\ cap > 0 /\ Asleep(at', "notFull") # {}
              => Cardinality(Awake(at', Producers)) = Cardinality(Awake(at, Producers)) + 1
    <3>1. CASE cap > 0
      BY <1>0, <1>1, <1>2, <2>1, <3>1, QueueSleepers, LeaveAndNotify
    <3>2. CASE ~ (cap > 0)
      <4>1. Moves(at, at', c, "out")
        BY <2>1, <3>2 DEF Moves, leave
      <4>2. /\ at' \in [T -> Places]
            /\ Cardinality(Awake(at', Consumers)) >= Cardinality(Awake(at, Consumers)) - 1
        BY <1>1, <4>1, MoveCount DEF Places
      <4>3. \A t \in T : at'[t] \in {at[t], "out", "awake"}
        BY <1>1, <4>1 DEF Moves
      <4>4. \A d \in {"notEmpty", "notFull"} : Asleep(at', d) \subseteq Asleep(at, d)
        BY <1>1, <4>2, <4>3 DEF Asleep
      <4> QED
        BY <3>2, <4>2, <4>3, <4>4
    <3> QED
      BY <3>1, <3>2
  <2>4. QueueType'
    BY <1>0, <1>1, <2>1, <2>2, <2>3 DEF QueueType
  <2>5. QueueAwake(cap)'
    <3>1. Asleep(at', "notEmpty") # {} => Cardinality(Awake(at', Consumers)) >= Len(items')
      <4>1. Asleep(at', "notEmpty") # {} => Cardinality(Awake(at, Consumers)) >= Len(items)
        BY <1>0, <2>3 DEF QueueAwake
      <4> QED
        BY <1>3, <1>4, <2>2, <2>3, <4>1
    <3>2. Asleep(at', "notFull") # {} => Cardinality(Awake(at', Producers)) >= cap - Len(items')
      <4>1. Asleep(at', "notFull") # {} => Cardinality(Awake(at, Producers)) >= cap - Len(items)
        BY <1>0, <2>3 DEF QueueAwake
      <4>2. Len(items') \in Nat
        BY <2>2, LenProperties
      <4> QED
        BY <1>3, <1>4, <2>2, <2>3, <4>1, <4>2
    <3> QED
      BY <3>1, <3>2 DEF QueueAwake
  <2>6. ItemsOnce'
    <3>1. taken' \subseteq 1 .. puts'
      <4>1. items[1] \in 1 .. puts /\ taken \subseteq 1 .. puts
        BY <1>0, <2>2 DEF ItemsOnce
      <4> QED
        BY <2>1, <2>2, <4>1
    <3>2. ASSUME NEW j \in 1 .. Len(items')
          PROVE  items'[j] \in 1 .. puts' /\ items'[j] \notin taken'
      <4>1. items'[j] = items[j + 1] /\ j + 1 \in 1 .. Len(items) /\ j + 1 # 1
        <5>1. items'[j] = items[j + 1] /\ j + 1 \in 1 .. Len(items)
          BY <2>2
        <5>2. j \in Nat \ {0}
          BY <2>2, LenProperties
        <5> QED
          BY <5>1, <5>2
      <4> QED
        BY <1>0, <2>1, <2>2, <4>1 DEF ItemsOnce
    <3>3. ASSUME NEW j \in 1 .. Len(items'), NEW k \in 1 .. Len(items'), items'[k] = items'[j]
          PROVE  k = j
      <4>1. items[k + 1] = items[j + 1] /\ k + 1 \in 1 .. Len(items) /\ j + 1 \in 1 .. Len(items)
        BY <2>2, <3>3
      <4>2. k + 1 = j + 1
        BY <1>0, <4>1 DEF ItemsOnce
      <4> QED
        BY <4>2
    <3> QED
      BY <3>1, <3>2, <3>3 DEF ItemsOnce
  <2> QED
    BY <2>4, <2>5, <2>6 DEF QueueInv
<1> QED
  BY <1>5, <1>6

(* A thread that wakes for no reason harms nobody.                         *)
LEMMA SpuriousKeeps ==
    ASSUME NEW cap \in Nat, QueueInv(cap), NEW t \in DOMAIN at, Q(cap)!Wakes(t)
    PROVE  QueueInv(cap)'
<1> USE ThreadsAssumption
<1> DEFINE T == Producers \union Consumers
<1>0. QueueType /\ QueueAwake(cap) /\ ItemsOnce
  BY DEF QueueInv
<1>1. Producers \in SUBSET T /\ Consumers \in SUBSET T /\ t \in T /\ at \in [T -> Places]
  BY <1>0 DEF QueueType
<1>2. at[t] # "awake" /\ Moves(at, at', t, "awake") /\ UNCHANGED <<items, puts, taken>>
  BY DEF Q!Wakes, Q!Spurious, Moves
<1>3. /\ at' \in [T -> Places]
      /\ t \in Producers => Cardinality(Awake(at', Producers)) = Cardinality(Awake(at, Producers)) + 1
      /\ t \notin Producers => Awake(at', Producers) = Awake(at, Producers)
      /\ t \in Consumers => Cardinality(Awake(at', Consumers)) = Cardinality(Awake(at, Consumers)) + 1
      /\ t \notin Consumers => Awake(at', Consumers) = Awake(at, Consumers)
  BY <1>1, <1>2, WakeCount
<1>4. \A s \in T : at'[s] \in {at[s], "awake"}
  BY <1>1, <1>2 DEF Moves
<1>5. \A d \in {"notEmpty", "notFull"} : Asleep(at', d) \subseteq Asleep(at, d)
  BY <1>1, <1>3, <1>4 DEF Asleep
<1>6. Cardinality(Awake(at, Producers)) \in Nat /\ Cardinality(Awake(at, Consumers)) \in Nat
  BY AwakeCount
<1>7. QueueType'
  BY <1>0, <1>1, <1>2, <1>3, <1>4 DEF QueueType
<1>8. QueueAwake(cap)'
  BY <1>0, <1>2, <1>3, <1>5, <1>6 DEF QueueAwake, QueueType
<1>9. ItemsOnce'
  BY <1>0, <1>2 DEF ItemsOnce
<1> QED
  BY <1>7, <1>8, <1>9 DEF QueueInv

(* Every step of a queue keeps the invariant.                              *)
LEMMA QueueStep ==
    ASSUME NEW cap \in Nat, QueueInv(cap), Q(cap)!Next PROVE QueueInv(cap)'
BY PutKeeps, TakeKeeps, SpuriousKeeps DEF Q!Next

(* The invariant says that the queue serves its threads.                   *)
LEMMA QueueServes ==
    ASSUME NEW cap \in Nat, QueueInv(cap) PROVE Q(cap)!QueueServes
<1>1. Q(cap)!EnoughAwake
  BY DEF QueueInv, QueueAwake, Q!EnoughAwake, Q!Asleep, Asleep, Q!Awake, Awake, Q!Cardinality, Cardinality
<1>2. Q(cap)!TakenOnce
  BY DEF QueueInv, ItemsOnce, Q!TakenOnce
<1> QED
  BY <1>1, <1>2 DEF Q!QueueServes
-----------------------------------------------------------------------------
(* The pool.  Workers wait for tasks only and clients for room only.       *)
PoolType ==
    /\ tasks \in Seq(Nat) /\ asked \in Nat
    /\ in \in [Workers \union Clients -> Places]
    /\ \A w \in Workers : in[w] # "notFull"
    /\ \A c \in Clients : in[c] # "notEmpty"

PoolAwake ==
    /\ Asleep(in, "notEmpty") # {} => running /\ Cardinality(Awake(in, Workers)) >= Len(tasks)
    /\ Asleep(in, "notFull") # {} => Cardinality(Awake(in, Clients)) >= maxQueueSize - Len(tasks)

PoolInv == PoolType /\ PoolAwake

(* The new pool is empty and everybody is outside.                         *)
LEMMA PoolInit ==
    ASSUME Pool!Init PROVE PoolInv
<1> USE DEF Pool!Init
<1>1. PoolType
  BY EmptySeq DEF PoolType, Places
<1>2. PoolAwake
  BY DEF PoolAwake, Asleep
<1> QED
  BY <1>1, <1>2 DEF PoolInv

(* A worker that sleeps waits for tasks, a client that does for room.      *)
LEMMA PoolSleepers ==
    ASSUME PoolType
    PROVE  Asleep(in, "notEmpty") \subseteq Workers /\ Asleep(in, "notFull") \subseteq Clients
BY DEF PoolType, Asleep

(* What leaves the monitor alone, and does not stop the pool, keeps the    *)
(* invariant.                                                              *)
LEMMA PoolIdle ==
    ASSUME PoolInv, UNCHANGED <<in, tasks>>, asked' \in Nat, running => running'
    PROVE  PoolInv'
BY DEF PoolInv, PoolType, PoolAwake

(* run(): as put().                                                        *)
LEMMA RunKeeps ==
    ASSUME PoolInv, NEW c \in Clients, Pool!Run(c) PROVE PoolInv'
<1> USE ThreadsAssumption, SizesAssumption
<1> DEFINE T == Workers \union Clients
           Full == maxQueueSize > 0 /\ Len(tasks) >= maxQueueSize
<1>0. PoolType /\ PoolAwake /\ running' = running
  BY DEF PoolInv, Pool!Run
<1>1. Workers \in SUBSET T /\ Clients \in SUBSET T /\ c \in T /\ c \notin Workers /\ in \in [T -> Places]
  BY <1>0 DEF PoolType
<1>2. in[c] \in {"out", "awake"}
  BY DEF Pool!Run
<1>3. /\ Cardinality(Awake(in, Workers)) \in Nat /\ Cardinality(Awake(in, Clients)) \in Nat
      /\ Cardinality(Awake(in', Workers)) \in Nat /\ Cardinality(Awake(in', Clients)) \in Nat
  BY AwakeCount
<1>4. Len(tasks) \in Nat
  BY <1>0, LenProperties DEF PoolType
<1>5. CASE Full
  <2>1. in' = [in EXCEPT ![c] = "notFull"] /\ UNCHANGED <<tasks, asked>>
    BY <1>5 DEF Pool!Run, Pool!isFull, Pool!wait
  <2>2. Moves(in, in', c, "notFull")
    BY <2>1 DEF Moves
  <2>3. Awake(in', Workers) = Awake(in, Workers) /\ in' \in [T -> Places]
    BY <1>1, <2>2, MoveCount DEF Places
  <2>4. Asleep(in', "notEmpty") = Asleep(in, "notEmpty")
    BY <1>1, <1>2, <2>1 DEF Asleep
  <2>5. PoolType'
    BY <1>0, <1>1, <2>1, <2>3 DEF PoolType
  <2>6. PoolAwake'
    <3>1. Asleep(in', "notEmpty") # {} => running' /\ Cardinality(Awake(in', Workers)) >= Len(tasks')
      BY <1>0, <2>1, <2>3, <2>4 DEF PoolAwake
    <3>2. Cardinality(Awake(in', Clients)) >= maxQueueSize - Len(tasks')
      BY <1>3, <1>4, <1>5, <2>1
    <3> QED
      BY <3>1, <3>2 DEF PoolAwake
  <2> QED
    BY <2>5, <2>6 DEF PoolInv
<1>6. CASE ~ Full
  <2>1. /\ asked' = asked + 1 /\ tasks' = Append(tasks, asked + 1)
        /\ in' \in notify(leave(in, c), "notEmpty")
    BY <1>6 DEF Pool!Run, Pool!isFull, Pool!leave, leave, Pool!notify, notify, Pool!Asleep, Asleep
  <2>2. /\ in' \in [T -> Places]
        /\ \A t \in T : in'[t] \in {in[t], "out", "awake"}
        /\ \A d \in {"notEmpty", "notFull"} : Asleep(in', d) \subseteq Asleep(in, d)
        /\ Cardinality(Awake(in', Clients)) >= Cardinality(Awake(in, Clients)) - 1
        /\ Asleep(in', "notEmpty") # {}
              => Cardinality(Awake(in', Workers)) = Cardinality(Awake(in, Workers)) + 1
    BY <1>0, <1>1, <1>2, <2>1, PoolSleepers, LeaveAndNotify
  <2>3. tasks' \in Seq(Nat) /\ asked' \in Nat /\ Len(tasks') = Len(tasks) + 1
    BY <1>0, <2>1, AppendProperties DEF PoolType
  <2>4. PoolType'
    BY <1>0, <1>1, <2>2, <2>3 DEF PoolType
  <2>5. PoolAwake'
    <3>1. Asleep(in', "notEmpty") # {} => running' /\ Cardinality(Awake(in', Workers)) >= Len(tasks')
      <4>1. Asleep(in', "notEmpty") # {} => running' /\ Cardinality(Awake(in, Workers)) >= Len(tasks)
        BY <1>0, <2>2 DEF PoolAwake
      <4> QED
        BY <1>3, <1>4, <2>2, <2>3, <4>1
    <3>2. Asleep(in', "notFull") # {} => Cardinality(Awake(in', Clients)) >= maxQueueSize - Len(tasks')
      <4>1. Asleep(in', "notFull") # {} => Cardinality(Awake(in, Clients)) >= maxQueueSize - Len(tasks)
        BY <1>0, <2>2 DEF PoolAwake
      <4> QED
        BY <1>3, <1>4, <2>2, <2>3, <4>1
    <3> QED
      BY <3>1, <3>2 DEF PoolAwake
  <2> QED
    BY <2>4, <2>5 DEF PoolInv
<1> QED
  BY <1>5, <1>6

(* take(): a worker waits only in a running pool without tasks, and a      *)
(* worker that takes a task wakes a client for the room.  In a stopped     *)
(* pool it goes away with nothing, and no worker sleeps.                   *)
LEMMA PoolTakeKeeps ==
    ASSUME PoolInv, NEW w \in Workers, Pool!Take(w) PROVE PoolInv'
<1> USE ThreadsAssumption, SizesAssumption
<1> DEFINE T == Workers \union Clients
<1>0. PoolType /\ PoolAwake /\ running' = running /\ asked' = asked
  BY DEF PoolInv, Pool!Take
<1>1. Workers \in SUBSET T /\ Clients \in SUBSET T /\ w \in T /\ w \notin Clients /\ in \in [T -> Places]
  BY <1>0 DEF PoolType
<1>2. in[w] \in {"out", "awake"}
  BY DEF Pool!Take
<1>3. /\ Cardinality(Awake(in, Workers)) \in Nat /\ Cardinality(Awake(in, Clients)) \in Nat
      /\ Cardinality(Awake(in', Workers)) \in Nat /\ Cardinality(Awake(in', Clients)) \in Nat
  BY AwakeCount
<1>4. Len(tasks) \in Nat
  BY <1>0, LenProperties DEF PoolType
<1>5. CASE tasks = <<>> /\ running
  <2>1. in' = [in EXCEPT ![w] = "notEmpty"] /\ UNCHANGED tasks
    BY <1>5 DEF Pool!Take, Pool!TakeWaits, Pool!wait
  <2>2. Moves(in, in', w, "notEmpty")
    BY <2>1 DEF Moves
  <2>3. Awake(in', Clients) = Awake(in, Clients) /\ in' \in [T -> Places]
    BY <1>1, <2>2, MoveCount DEF Places
  <2>4. Asleep(in', "notFull") = Asleep(in, "notFull")
    BY <1>1, <1>2, <2>1 DEF Asleep
  <2>5. PoolType'
    BY <1>0, <1>1, <2>1, <2>3 DEF PoolType
  <2>6. PoolAwake'
    <3>1. running' /\ Cardinality(Awake(in', Workers)) >= Len(tasks')
      BY <1>0, <1>3, <1>5, <2>1, EmptySeq
    <3>2. Asleep(in', "notFull") # {} => Cardinality(Awake(in', Clients)) >= maxQueueSize - Len(tasks')
      BY <1>0, <2>1, <2>3, <2>4 DEF PoolAwake
    <3> QED
      BY <3>1, <3>2 DEF PoolAwake
  <2> QED
    BY <2>5, <2>6 DEF PoolInv
<1>6. CASE tasks = <<>> /\ ~ running
  <2>1. Moves(in, in', w, "out") /\ UNCHANGED tasks
    BY <1>6 DEF Pool!Take, Pool!TakeWaits, Pool!leave, Moves
  <2>2. Awake(in', Clients) = Awake(in, Clients) /\ in' \in [T -> Places]
    BY <1>1, <2>1, MoveCount DEF Places
  <2>3. \A t \in T : in'[t] \in {in[t], "out"}
    BY <1>1, <2>1 DEF Moves
  <2>4. Asleep(in', "notFull") \subseteq Asleep(in, "notFull") /\ Asleep(in', "notEmpty") \subseteq Asleep(in, "notEmpty")
    BY <1>1, <2>2, <2>3 DEF Asleep
  <2>5. PoolType'
    BY <1>0, <1>1, <2>1, <2>2, <2>3 DEF PoolType
  <2>6. PoolAwake'
    BY <1>0, <1>6, <2>1, <2>2, <2>4 DEF PoolAwake
  <2> QED
    BY <2>5, <2>6 DEF PoolInv
<1>7. CASE tasks # <<>>
  <2>1. /\ tasks' = Tail(tasks)
        /\ in' \in IF maxQueueSize > 0 THEN notify(leave(in, w), "notFull") ELSE {leave(in, w)}
    BY <1>7 DEF Pool!Take, Pool!TakeWaits, Pool!leave, leave, Pool!notify, notify, Pool!Asleep, Asleep
  <2>2. tasks' \in Seq(Nat) /\ Len(tasks') = Len(tasks) - 1
    BY <1>0, <1>7, <2>1, HeadTailProperties DEF PoolType
  <2>3. /\ in' \in [T -> Places]
        /\ \A t \in T : in'[t] \in {in[t], "out", "awake"}
        /\ \A d \in {"notEmpty", "notFull"} : Asleep(in', d) \subseteq Asleep(in, d)
        /\ Cardinality(Awake(in', Workers)) >= Cardinality(Awake(in, Workers)) - 1
        /\ maxQueueSize > 0 /\ Asleep(in', "notFull") # {}
              => Cardinality(Awake(in', Clients)) = Cardinality(Awake(in, Clients)) + 1
    <3>1. CASE maxQueueSize > 0
      BY <1>0, <1>1, <1>2, <2>1, <3>1, PoolSleepers, LeaveAndNotify
    <3>2. CASE ~ (maxQueueSize > 0)
      <4>1. Moves(in, in', w, "out")
        BY <2>1, <3>2 DEF Moves, leave
      <4>2. /\ in' \in [T -> Places]
            /\ Cardinality(Awake(in', Workers)) >= Cardinality(Awake(in, Workers)) - 1
        BY <1>1, <4>1, MoveCount DEF Places
      <4>3. \A t \in T : in'[t] \in {in[t], "out", "awake"}
        BY <1>1, <4>1 DEF Moves
      <4>4. \A d \in {"notEmpty", "notFull"} : Asleep(in', d) \subseteq Asleep(in, d)
        BY <1>1, <4>2, <4>3 DEF Asleep
      <4> QED
        BY <3>2, <4>2, <4>3, <4>4
    <3> QED
      BY <3>1, <3>2
  <2>4. PoolType'
    BY <1>0, <1>1, <2>2, <2>3 DEF PoolType
  <2>5. PoolAwake'
    <3>1. Asleep(in', "notEmpty") # {} => running' /\ Cardinality(Awake(in', Workers)) >= Len(tasks')
      <4>1. Asleep(in', "notEmpty") # {} => running' /\ Cardinality(Awake(in, Workers)) >= Len(tasks)
        BY <1>0, <2>3 DEF PoolAwake
      <4> QED
        BY <1>3, <1>4, <2>2, <2>3, <4>1
    <3>2. Asleep(in', "notFull") # {} => Cardinality(Awake(in', Clients)) >= maxQueueSize - Len(tasks')
      <4>1. Asleep(in', "notFull") # {} => Cardinality(Awake(in, Clients)) >= maxQueueSize - Len(tasks)
        BY <1>0, <2>3 DEF PoolAwake
      <4>2. Len(tasks') \in Nat
        BY <2>2, LenProperties
      <4> QED
        BY <1>3, <1>4, <2>2, <2>3, <4>1, <4>2
    <3> QED
      BY <3>1, <3>2 DEF PoolAwake
  <2> QED
    BY <2>4, <2>5 DEF PoolInv
<1> QED
  BY <1>5, <1>6, <1>7

(* stop() wakes every worker.                                              *)
LEMMA StopKeeps ==
    ASSUME PoolInv, Pool!Stop PROVE PoolInv'
<1> USE ThreadsAssumption
<1> DEFINE T == Workers \union Clients
<1>0. PoolType /\ PoolAwake /\ UNCHANGED <<tasks, asked>>
  BY DEF PoolInv, Pool!Stop
<1>1. in \in [T -> Places]
  BY <1>0 DEF PoolType
<1>2. in' = [t \in T |-> IF in[t] = "notEmpty" THEN "awake" ELSE in[t]]
  BY <1>1 DEF Pool!Stop, Pool!StopWakes, Pool!notifyAll
<1>3. in' \in [T -> Places]
  BY <1>1, <1>2 DEF Places
<1>4. Asleep(in', "notEmpty") = {} /\ Asleep(in', "notFull") = Asleep(in, "notFull")
  BY <1>1, <1>2 DEF Asleep
<1>5. Awake(in', Clients) = Awake(in, Clients)
  BY <1>0, <1>1, <1>2 DEF Awake, PoolType
<1>6. PoolType'
  BY <1>0, <1>1, <1>2, <1>3 DEF PoolType
<1>7. PoolAwake'
  BY <1>0, <1>4, <1>5 DEF PoolAwake
<1> QED
  BY <1>6, <1>7 DEF PoolInv

(* A thread that wakes for no reason harms nobody.                         *)
LEMMA PoolSpuriousKeeps ==
    ASSUME PoolInv, NEW t \in DOMAIN in, Pool!Wakes(t) PROVE PoolInv'
<1> USE ThreadsAssumption, SizesAssumption
<1> DEFINE T == Workers \union Clients
<1>0. PoolType /\ PoolAwake
  BY DEF PoolInv
<1>1. Workers \in SUBSET T /\ Clients \in SUBSET T /\ t \in T /\ in \in [T -> Places]
  BY <1>0 DEF PoolType
<1>2. in[t] # "awake" /\ Moves(in, in', t, "awake") /\ UNCHANGED <<tasks, asked, running>>
  BY DEF Pool!Wakes, Pool!Spurious, Moves
<1>3. /\ in' \in [T -> Places]
      /\ t \in Workers => Cardinality(Awake(in', Workers)) = Cardinality(Awake(in, Workers)) + 1
      /\ t \notin Workers => Awake(in', Workers) = Awake(in, Workers)
      /\ t \in Clients => Cardinality(Awake(in', Clients)) = Cardinality(Awake(in, Clients)) + 1
      /\ t \notin Clients => Awake(in', Clients) = Awake(in, Clients)
  BY <1>1, <1>2, WakeCount
<1>4. \A s \in T : in'[s] \in {in[s], "awake"}
  BY <1>1, <1>2 DEF Moves
<1>5. \A d \in {"notEmpty", "notFull"} : Asleep(in', d) \subseteq Asleep(in, d)
  BY <1>1, <1>3, <1>4 DEF Asleep
<1>6. /\ Cardinality(Awake(in, Workers)) \in Nat /\ Cardinality(Awake(in, Clients)) \in Nat
      /\ Len(tasks) \in Nat
  BY <1>0, AwakeCount, LenProperties DEF PoolType
<1>7. PoolType'
  BY <1>0, <1>1, <1>2, <1>3, <1>4 DEF PoolType
<1>8. PoolAwake'
  BY <1>0, <1>2, <1>3, <1>5, <1>6 DEF PoolAwake
<1> QED
  BY <1>7, <1>8 DEF PoolInv

(* Every step of the pool keeps the invariant.                             *)
LEMMA PoolStep ==
    ASSUME PoolInv, Pool!Next PROVE PoolInv'
<1>0. asked \in Nat
  BY DEF PoolInv, PoolType
<1>1. CASE Pool!OwnerStep \/ Pool!RunInline
  BY <1>0, <1>1, PoolIdle DEF Pool!OwnerStep, Pool!Start, Pool!Join, Pool!StartThread, Pool!RunInline
<1>2. CASE Pool!Stop
  BY <1>2, StopKeeps
<1>3. ASSUME NEW w \in Workers, Pool!WorkerStep(w) PROVE PoolInv'
  <2>1. CASE Pool!TestRunning(w) \/ Pool!EndTask(w)
    BY <1>0, <2>1, PoolIdle DEF Pool!TestRunning, Pool!EndTask
  <2>2. CASE Pool!Take(w)
    BY <2>2, PoolTakeKeeps
  <2> QED
    BY <1>3, <2>1, <2>2 DEF Pool!WorkerStep
<1>4. ASSUME NEW c \in Clients, Pool!Run(c) PROVE PoolInv'
  BY <1>4, RunKeeps
<1>5. ASSUME NEW t \in DOMAIN in, Pool!Wakes(t) PROVE PoolInv'
  BY <1>5, PoolSpuriousKeeps
<1> QED
  BY <1>1, <1>2, <1>3, <1>4, <1>5 DEF Pool!Next

(* The invariant says that the pool wakes enough threads.                  *)
LEMMA PoolServes ==
    ASSUME PoolInv PROVE Pool!PoolWakesEnough
BY DEF PoolInv, PoolAwake, Pool!PoolWakesEnough, Pool!Asleep, Asleep, Pool!Awake, Awake,
       Pool!Cardinality, Cardinality
-----------------------------------------------------------------------------
(* The capacity of the queue that moves.                                   *)
CapacityNow == IF part = "unbounded" THEN 0 ELSE Capacity

WakeupsInv == QueueInv(CapacityNow) /\ PoolInv

(* Queue and Unbounded are Q at their capacities.                          *)
LEMMA QueueIsQ ==
    /\ Queue!Next <=> Q(Capacity)!Next
    /\ Queue!QueueServes <=> Q(Capacity)!QueueServes
    /\ Unbounded!Next <=> Q(0)!Next
    /\ Unbounded!QueueServes <=> Q(0)!QueueServes
<1>1. Queue!Next <=> Q(Capacity)!Next
  BY DEF Q!Next, Q!Put, Q!Take, Q!Wakes, Q!full, Q!push_back, Q!Takes,
         Q!AfterTake, Q!wait, Q!leave, Q!notify, Q!Spurious, Q!Asleep,
         Queue!Next, Queue!Put, Queue!Take, Queue!Wakes, Queue!full,
         Queue!push_back, Queue!Takes, Queue!AfterTake, Queue!wait,
         Queue!leave, Queue!notify, Queue!Spurious, Queue!Asleep
<1>2. Queue!QueueServes <=> Q(Capacity)!QueueServes
  BY DEF Q!QueueServes, Q!EnoughAwake, Q!TakenOnce, Q!Asleep, Q!Awake,
         Q!Cardinality, Queue!QueueServes, Queue!EnoughAwake,
         Queue!TakenOnce, Queue!Asleep, Queue!Awake, Queue!Cardinality
<1>3. Unbounded!Next <=> Q(0)!Next
  BY DEF Q!Next, Q!Put, Q!Take, Q!Wakes, Q!full, Q!push_back, Q!Takes,
         Q!AfterTake, Q!wait, Q!leave, Q!notify, Q!Spurious, Q!Asleep,
         Unbounded!Next, Unbounded!Put, Unbounded!Take, Unbounded!Wakes,
         Unbounded!full, Unbounded!push_back, Unbounded!Takes,
         Unbounded!AfterTake, Unbounded!wait, Unbounded!leave,
         Unbounded!notify, Unbounded!Spurious, Unbounded!Asleep
<1>4. Unbounded!QueueServes <=> Q(0)!QueueServes
  BY DEF Q!QueueServes, Q!EnoughAwake, Q!TakenOnce, Q!Asleep, Q!Awake,
         Q!Cardinality, Unbounded!QueueServes, Unbounded!EnoughAwake,
         Unbounded!TakenOnce, Unbounded!Asleep, Unbounded!Awake,
         Unbounded!Cardinality
<1> QED
  BY <1>1, <1>2, <1>3, <1>4

(* Whatever the numbers of threads and the capacities: no thread of the    *)
(* queues and of the pool sleeps for what is there while nobody awake will *)
(* take it, although notify() wakes one thread at a time and others may be *)
(* faster, and every item of a queue is handed out once.                   *)
THEOREM WakeupsSafe == Spec => []WakeupsSuffice
<1>1. CapacityNow \in Nat
  BY SizesAssumption DEF CapacityNow
<1>2. Init => WakeupsInv
  BY <1>1, QueueInit, PoolInit DEF Init, WakeupsInv
<1>3. WakeupsInv /\ [Next]_vars => WakeupsInv'
  <2> SUFFICES ASSUME WakeupsInv, [Next]_vars PROVE WakeupsInv'
    OBVIOUS
  <2>1. QueueInv(CapacityNow) /\ PoolInv
    BY DEF WakeupsInv
  <2>2. UNCHANGED queueVars /\ UNCHANGED part => QueueInv(CapacityNow)'
    BY <2>1 DEF queueVars, QueueInv, QueueType, QueueAwake, ItemsOnce, CapacityNow
  <2>3. UNCHANGED poolVars => PoolInv'
    BY <2>1 DEF poolVars, PoolInv, PoolType, PoolAwake
  <2>4. CASE part = "queue" /\ Queue!Next /\ UNCHANGED <<part, month, poolVars, logVars>>
    <3>1. QueueInv(Capacity) /\ CapacityNow = Capacity /\ CapacityNow' = Capacity
      BY <2>1, <2>4 DEF CapacityNow
    <3>2. QueueInv(Capacity)'
      BY <2>4, <3>1, QueueIsQ, QueueStep, SizesAssumption
    <3>3. QueueInv(CapacityNow)'
      BY <3>1, <3>2 DEF QueueInv, QueueAwake
    <3> QED
      BY <2>3, <2>4, <3>3 DEF WakeupsInv
  <2>5. CASE part = "unbounded" /\ Unbounded!Next /\ UNCHANGED <<part, month, poolVars, logVars>>
    <3>1. QueueInv(0) /\ CapacityNow = 0 /\ CapacityNow' = 0
      BY <2>1, <2>5 DEF CapacityNow
    <3>2. QueueInv(0)'
      BY <2>5, <3>1, QueueIsQ, QueueStep
    <3>3. QueueInv(CapacityNow)'
      BY <3>1, <3>2 DEF QueueInv, QueueAwake
    <3> QED
      BY <2>3, <2>5, <3>3 DEF WakeupsInv
  <2>6. CASE part = "pool" /\ Pool!Next /\ UNCHANGED <<part, month, queueVars, logVars>>
    BY <2>1, <2>2, <2>6, PoolStep DEF WakeupsInv
  <2>7. CASE UNCHANGED <<part, queueVars, poolVars>>
    BY <2>2, <2>3, <2>7 DEF WakeupsInv
  <2> QED
    BY <2>4, <2>5, <2>6, <2>7 DEF Next, vars
<1>4. WakeupsInv => WakeupsSuffice
  BY <1>1, QueueIsQ, QueueServes, PoolServes DEF WakeupsInv, WakeupsSuffice, CapacityNow
<1> QED
  BY <1>2, <1>3, <1>4, PTL DEF Spec

-----------------------------------------------------------------------------
(* Arithmetic.                                                             *)

(* What holds at 0 and from each number to the next holds everywhere.      *)
LEMMA Induction ==
    ASSUME NEW T, 0 \in T, \A n \in Nat : n \in T => n + 1 \in T PROVE Nat \subseteq T
<1> SUFFICES ASSUME Nat \ T # {} PROVE FALSE
  OBVIOUS
<1> DEFINE R == OpToRel(<, Nat)
           U == Nat \ T
<1>1. IsWellFoundedOn(R, Nat)
  BY NatLessThanWellFounded
<1>2. PICK x \in U : \A y \in U : ~ (<<y, x>> \in R)
  <2>1. U \subseteq Nat /\ U # {}
    OBVIOUS
  <2> HIDE DEF R, U
  <2> QED
    BY <1>1, <2>1, WFMin
<1>3. x \in Nat /\ x \notin T /\ \A y \in Nat : y < x => y \in T
  BY <1>2 DEF OpToRel
<1>4. x # 0 /\ x - 1 \in Nat /\ x - 1 \in T /\ (x - 1) + 1 = x
  BY <1>3
<1> QED
  BY <1>3, <1>4

(* The quotient is what its name says.                                     *)
LEMMA DivFacts ==
    ASSUME NEW k \in Nat \ {0}, NEW t \in Nat
    PROVE  t \div k \in Nat /\ (t \div k) * k <= t /\ t < (t \div k) * k + k
  OBVIOUS

(* Later moments are in no earlier period.                                 *)
LEMMA DivMonotone ==
    ASSUME NEW k \in Nat \ {0}, NEW t \in Nat, NEW u \in Nat, t <= u
    PROVE  t \div k <= u \div k
  BY DivFacts

(* A moment between two of one period is in it too.                        *)
LEMMA PeriodBetween ==
    ASSUME NEW t \in Nat, NEW u \in Nat, NEW v \in Nat, t <= u, u <= v,
           Log!Period(t) = Log!Period(v)
    PROVE  Log!Period(u) = Log!Period(t)
<1>1. PICK k \in Nat \ {0} : k = kRollPerSeconds
  BY LogAssumption
<1>2. PICK a \in Nat, b \in Nat, c \in Nat : a = t \div k /\ b = u \div k /\ c = v \div k /\ a <= b /\ b <= c
  BY DivFacts, DivMonotone
<1>3. a * k = c * k
  BY <1>1, <1>2 DEF Log!Period
<1>4. a = c
  BY <1>2, <1>3
<1> QED
  BY <1>1, <1>2, <1>4 DEF Log!Period
-----------------------------------------------------------------------------
(* Sequences of lines and of buffers.                                      *)

(* The elements of b come behind those of a.                               *)
LEMMA ConcatFacts ==
    ASSUME NEW S, NEW a \in Seq(S), NEW b \in Seq(S)
    PROVE  /\ a \o b \in Seq(S) /\ Len(a \o b) = Len(a) + Len(b)
           /\ Len(a) \in Nat /\ Len(b) \in Nat
           /\ \A p \in 1 .. Len(a) : (a \o b)[p] = a[p]
           /\ \A p \in 1 .. Len(b) : (a \o b)[Len(a) + p] = b[p]
  OBVIOUS

(* Sums of the first parts of s.                                           *)
IsSum(f, s, n, S) ==
    /\ f \in [0 .. n -> Seq(S)]
    /\ f[0] = <<>>
    /\ \A i \in 1 .. n : f[i] = f[i - 1] \o s[i]

(* What is joined so far can be told part by part.                         *)
LEMMA SumExists ==
    ASSUME NEW S, NEW n \in Nat, NEW s \in [1 .. n -> Seq(S)] PROVE \E f : IsSum(f, s, n, S)
<1> DEFINE T == {m \in Nat : m <= n => \E f : IsSum(f, s, m, S)}
<1>1. 0 \in T
  <2>1. IsSum([i \in 0 .. 0 |-> <<>>], s, 0, S)
    BY DEF IsSum
  <2> QED
    BY <2>1
<1>2. ASSUME NEW m \in Nat, m \in T PROVE m + 1 \in T
  <2> SUFFICES ASSUME m + 1 <= n PROVE \E f : IsSum(f, s, m + 1, S)
    OBVIOUS
  <2>1. PICK f : IsSum(f, s, m, S)
    BY <1>2
  <2> DEFINE g == [i \in 0 .. m + 1 |-> IF i = m + 1 THEN f[m] \o s[m + 1] ELSE f[i]]
  <2>2. f[m] \in Seq(S) /\ s[m + 1] \in Seq(S)
    BY <2>1 DEF IsSum
  <2>3. f[m] \o s[m + 1] \in Seq(S)
    BY <2>2
  <2>4. g \in [0 .. m + 1 -> Seq(S)]
    BY <2>1, <2>3 DEF IsSum
  <2>5. g[0] = <<>>
    BY <2>1, SMTT(40) DEF IsSum
  <2>6. ASSUME NEW i \in 1 .. m + 1 PROVE g[i] = g[i - 1] \o s[i]
    <3>1. CASE i = m + 1
      <4>1. i - 1 = m /\ i - 1 # m + 1 /\ i - 1 \in 0 .. m + 1
        BY <3>1
      <4>2. g[i - 1] = f[m]
        BY <4>1
      <4>3. m + 1 \in 0 .. m + 1
        OBVIOUS
      <4>4. g[m + 1] = f[m] \o s[m + 1]
        BY <4>3
      <4> QED
        BY <3>1, <4>2, <4>4
    <3>2. CASE i # m + 1
      <4>1. i \in 1 .. m /\ i - 1 \in 0 .. m + 1 /\ i - 1 # m + 1 /\ i \in 0 .. m + 1
        BY <3>2
      <4>2. f[i] = f[i - 1] \o s[i]
        BY <2>1, <4>1 DEF IsSum
      <4>3. g[i] = f[i] /\ g[i - 1] = f[i - 1]
        BY <3>2, <4>1
      <4> QED
        BY <4>2, <4>3
    <3> QED
      BY <3>1, <3>2
  <2> QED
    BY <2>4, <2>5, <2>6 DEF IsSum
<1> HIDE DEF T
<1>3. Nat \subseteq T
  BY <1>1, <1>2, Induction
<1> QED
  BY <1>3 DEF T

(* FlattenSeq() puts the parts of s one behind the other.                  *)
LEMMA Flattened ==
    ASSUME NEW S, NEW n \in Nat, NEW s \in [1 .. n -> Seq(S)], NEW f, IsSum(f, s, n, S)
    PROVE  Log!FlattenSeq(s) = f[n]
<1>1. Len(s) = n /\ s \in Seq(Seq(S))
  OBVIOUS
<1>2. CASE n = 0
  BY <1>1, <1>2 DEF Log!FlattenSeq, IsSum
<1>3. CASE n # 0
  <2> DEFINE G == CHOOSE g : g = [i \in 1 .. Len(s) |-> IF i = 1 THEN s[i] ELSE g[i - 1] \o s[i]]
             g0 == [i \in 1 .. n |-> f[i]]
  <2>1. Log!FlattenSeq(s) = G[n]
    BY <1>1, <1>3 DEF Log!FlattenSeq
  <2>2. g0 = [i \in 1 .. Len(s) |-> IF i = 1 THEN s[i] ELSE g0[i - 1] \o s[i]]
    <3>1. ASSUME NEW i \in 1 .. n PROVE f[i] = IF i = 1 THEN s[i] ELSE g0[i - 1] \o s[i]
      <4>1. f[i] = f[i - 1] \o s[i] /\ s[i] \in Seq(S) /\ f[0] = <<>>
        BY DEF IsSum
      <4>2. CASE i = 1
        BY <4>1, <4>2
      <4>3. CASE i # 1
        <5>1. i - 1 \in 1 .. n
          BY <4>3
        <5> QED
          BY <4>1, <4>3, <5>1, SMTT(40)
      <4> QED
        BY <4>2, <4>3
    <3> QED
      BY <1>1, <3>1
  <2>3. G = [i \in 1 .. Len(s) |-> IF i = 1 THEN s[i] ELSE G[i - 1] \o s[i]]
    <3> HIDE DEF g0
    <3> QED
      BY <2>2
  <2> HIDE DEF G
  <2> DEFINE T == {m \in Nat : m \in 1 .. n => G[m] = f[m]}
  <2>4. 0 \in T
    OBVIOUS
  <2>5. ASSUME NEW m \in Nat, m \in T PROVE m + 1 \in T
    <3> SUFFICES ASSUME m + 1 \in 1 .. n PROVE G[m + 1] = f[m + 1]
      OBVIOUS
    <3>0. (m + 1) - 1 = m
      OBVIOUS
    <3>1. f[m + 1] = f[m] \o s[m + 1] /\ s[m + 1] \in Seq(S) /\ f[0] = <<>>
      <4>1. f[m + 1] = f[(m + 1) - 1] \o s[m + 1]
        BY DEF IsSum
      <4> QED
        BY <3>0, <4>1 DEF IsSum
    <3>2. G[m + 1] = IF m + 1 = 1 THEN s[m + 1] ELSE G[m] \o s[m + 1]
      <4>1. G[m + 1] = IF m + 1 = 1 THEN s[m + 1] ELSE G[(m + 1) - 1] \o s[m + 1]
        BY <1>1, <2>3
      <4> QED
        BY <3>0, <4>1
    <3>3. CASE m = 0
      BY <3>1, <3>2, <3>3
    <3>4. CASE m # 0
      <4>1. m \in 1 .. n /\ m + 1 # 1
        BY <3>4
      <4>2. G[m] = f[m]
        BY <2>5, <4>1
      <4> QED
        BY <3>1, <3>2, <4>1, <4>2
    <3> QED
      BY <3>3, <3>4
  <2> HIDE DEF T
  <2>6. Nat \subseteq T
    BY <2>4, <2>5, Induction
  <2>7. G[n] = f[n]
    BY <1>3, <2>6 DEF T
  <2> QED
    BY <2>1, <2>7
<1> QED
  BY <1>2, <1>3

(* Nothing joined is nothing.                                              *)
LEMMA FlatEmpty == Log!FlattenSeq(<<>>) = <<>>
  BY DEF Log!FlattenSeq

(* One more part comes behind the others.                                  *)
LEMMA FlatAppend ==
    ASSUME NEW S, NEW s \in Seq(Seq(S)), NEW x \in Seq(S)
    PROVE  /\ Log!FlattenSeq(s) \in Seq(S)
           /\ Log!FlattenSeq(Append(s, x)) = Log!FlattenSeq(s) \o x
<1>1. PICK n \in Nat : n = Len(s)
  OBVIOUS
<1> DEFINE u == Append(s, x)
<1>0. n + 1 \in Nat
  OBVIOUS
<1>2. s \in [1 .. n -> Seq(S)] /\ u \in [1 .. n + 1 -> Seq(S)] /\ u[n + 1] = x
  <2>1. u \in Seq(Seq(S)) /\ Len(u) = n + 1 /\ u[n + 1] = x
    BY <1>1
  <2> HIDE DEF u
  <2> QED
    BY <1>1, <2>1, LenProperties
<1>3. \A i \in 1 .. n : u[i] = s[i]
  BY <1>1
<1> HIDE DEF u
<1>4. PICK f : IsSum(f, u, n + 1, S)
  BY <1>0, <1>2, SumExists
<1> DEFINE g == [i \in 0 .. n |-> f[i]]
<1>5. IsSum(g, s, n, S)
  <2>1. g \in [0 .. n -> Seq(S)] /\ g[0] = <<>>
    BY <1>4 DEF IsSum
  <2>2. ASSUME NEW i \in 1 .. n PROVE g[i] = g[i - 1] \o s[i]
    <3>1. i \in 1 .. n + 1 /\ i \in 0 .. n /\ i - 1 \in 0 .. n
      OBVIOUS
    <3>2. f[i] = f[i - 1] \o u[i]
      BY <1>4, <3>1 DEF IsSum
    <3> QED
      BY <1>3, <3>1, <3>2
  <2> HIDE DEF g
  <2> QED
    BY <2>1, <2>2 DEF IsSum
<1>6. Log!FlattenSeq(s) = g[n] /\ g[n] \in Seq(S) /\ g[n] = f[n]
  <2>1. g[n] = f[n]
    OBVIOUS
  <2> HIDE DEF g
  <2>2. Log!FlattenSeq(s) = g[n]
    BY <1>2, <1>5, Flattened
  <2>3. g[n] \in Seq(S)
    BY <1>5 DEF IsSum
  <2> QED
    BY <2>1, <2>2, <2>3
<1>7. Log!FlattenSeq(u) = f[n + 1]
  BY <1>0, <1>2, <1>4, Flattened
<1>8. f[n + 1] = f[n] \o x
  <2>1. n + 1 \in 1 .. n + 1 /\ (n + 1) - 1 = n
    OBVIOUS
  <2>2. f[n + 1] = f[(n + 1) - 1] \o u[n + 1]
    BY <1>4, <2>1 DEF IsSum
  <2> QED
    BY <1>2, <2>1, <2>2
<1> QED
  BY <1>6, <1>7, <1>8 DEF u

(* One part joined is the part.                                            *)
LEMMA FlatOne ==
    ASSUME NEW S, NEW x \in Seq(S) PROVE Log!FlattenSeq(<<x>>) = x
<1>1. <<>> \in Seq(Seq(S)) /\ Append(<<>>, x) = <<x>>
  OBVIOUS
<1>2. Log!FlattenSeq(Append(<<>>, x)) = Log!FlattenSeq(<<>>) \o x
  BY <1>1, FlatAppend
<1> QED
  BY <1>1, <1>2, FlatEmpty

(* It does not matter which of three sequences are joined first.           *)
LEMMA Associative ==
    ASSUME NEW S, NEW a \in Seq(S), NEW b \in Seq(S), NEW c \in Seq(S)
    PROVE  (a \o b) \o c = a \o (b \o c)
  BY ConcatAssociative

(* A function that goes on like p and ends in z is p with z behind it.     *)
LEMMA AppendIs ==
    ASSUME NEW X, NEW m \in Nat, NEW p \in Seq(X), Len(p) = m, NEW z \in X,
           NEW u \in [1 .. m + 1 -> X], u[m + 1] = z, \A i \in 1 .. m : u[i] = p[i]
    PROVE  u = Append(p, z)
<1>1. PICK v \in Seq(X) : v = Append(p, z)
  BY AppendProperties
<1>2. Len(v) = m + 1 /\ v[m + 1] = z /\ \A i \in 1 .. m : v[i] = p[i]
  BY <1>1, AppendProperties
<1>3. u \in Seq(X) /\ Len(u) = m + 1
  OBVIOUS
<1>4. ASSUME NEW i \in 1 .. m + 1 PROVE u[i] = v[i]
  <2>1. i = m + 1 \/ i \in 1 .. m
    OBVIOUS
  <2> QED
    BY <1>2, <2>1
<1>5. u = v
  BY <1>2, <1>3, <1>4, SeqEqual
<1> QED
  BY <1>1, <1>5

(* The parts of two sequences come one behind the other.                   *)
LEMMA FlatConcat ==
    ASSUME NEW S, NEW s \in Seq(Seq(S)), NEW t \in Seq(Seq(S))
    PROVE  Log!FlattenSeq(s \o t) = Log!FlattenSeq(s) \o Log!FlattenSeq(t)
<1> DEFINE P(k) == Log!FlattenSeq(s \o SubSeq(t, 1, k))
                     = Log!FlattenSeq(s) \o Log!FlattenSeq(SubSeq(t, 1, k))
           T == {k \in Nat : k <= Len(t) => P(k)}
<1>0. PICK n \in Nat : n = Len(t)
  OBVIOUS
<1>1. 0 \in T
  <2>1. SubSeq(t, 1, 0) = <<>> /\ s \o <<>> = s
    OBVIOUS
  <2>2. Log!FlattenSeq(s) \in Seq(S)
    <3>1. <<>> \in Seq(S)
      OBVIOUS
    <3> QED
      BY <3>1, FlatAppend
  <2>3. Log!FlattenSeq(s) \o <<>> = Log!FlattenSeq(s)
    BY <2>2
  <2> QED
    BY <2>1, <2>3, FlatEmpty
<1>2. ASSUME NEW k \in Nat, k \in T PROVE k + 1 \in T
  <2> SUFFICES ASSUME k + 1 <= n PROVE P(k + 1)
    BY <1>0
  <2>1. PICK v \in Seq(Seq(S)) : v = SubSeq(t, 1, k)
    <3>1. SubSeq(t, 1, k) \in Seq(Seq(S))
      BY <1>0, SubSeqProperties
    <3> QED
      BY <3>1
  <2>2. PICK x \in Seq(S) : x = t[k + 1]
    BY <1>0
  <2>3. SubSeq(t, 1, k + 1) = Append(v, x)
    BY <1>0, <2>1, <2>2
  <2>4. s \o Append(v, x) = Append(s \o v, x) /\ s \o v \in Seq(Seq(S))
    BY <2>1, <2>2, SMTT(40)
  <2>5. Log!FlattenSeq(s \o v) = Log!FlattenSeq(s) \o Log!FlattenSeq(v)
    BY <1>0, <1>2, <2>1
  <2>6. Log!FlattenSeq(s) \in Seq(S) /\ Log!FlattenSeq(v) \in Seq(S)
    BY <2>2, FlatAppend
  <2>7. Log!FlattenSeq(Append(s \o v, x)) = Log!FlattenSeq(s \o v) \o x
    BY <2>4, FlatAppend
  <2>8. Log!FlattenSeq(Append(v, x)) = Log!FlattenSeq(v) \o x
    BY FlatAppend
  <2>9. (Log!FlattenSeq(s) \o Log!FlattenSeq(v)) \o x = Log!FlattenSeq(s) \o (Log!FlattenSeq(v) \o x)
    BY <2>6, Associative, SMTT(40)
  <2> QED
    BY <2>3, <2>4, <2>5, <2>7, <2>8, <2>9
<1> HIDE DEF T
<1>3. Nat \subseteq T
  BY <1>1, <1>2, Induction
<1>4. P(n)
  BY <1>0, <1>3 DEF T
<1>5. SubSeq(t, 1, n) = t
  BY <1>0
<1> QED
  BY <1>4, <1>5

-----------------------------------------------------------------------------
(* Lines on their way.                                                     *)

Line == [id : Nat, len : LineLengths]

(* The same for lines.                                                     *)
LEMMA LinesAssociative ==
    \A x1, x2, x3 \in Seq(Line) : (x1 \o x2) \o x3 = x1 \o (x2 \o x3)
  BY Associative, SMTT(40)

(* The lines of w are those of ls, each once and in order, but g.          *)
Kept(w, ls, g) ==
    /\ \A i, j \in 1 .. Len(w) : i < j => w[i].id < w[j].id
    /\ \A i \in 1 .. Len(w) : w[i] = ls[w[i].id]
    /\ Log!Ids(w) = 1 .. Len(ls) \ g

(* A part of the way may be given up.                                      *)
LEMMA CutOut ==
    ASSUME NEW x \in Seq(Line), NEW r \in Seq(Line), NEW y \in Seq(Line), NEW ls, NEW g,
           Kept(x \o (r \o y), ls, g)
    PROVE  Kept(x \o y, ls, g \union Log!Ids(r)) /\ Log!Ids(r) \subseteq 1 .. Len(ls)
<1>1. PICK w \in Seq(Line), v \in Seq(Line) : w = x \o (r \o y) /\ v = x \o y
  <2>1. r \o y \in Seq(Line) /\ x \o y \in Seq(Line)
    OBVIOUS
  <2>2. x \o (r \o y) \in Seq(Line)
    BY <2>1
  <2> QED
    BY <2>1, <2>2
<1>2. PICK l \in Nat, m \in Nat, n \in Nat : l = Len(x) /\ m = Len(r) /\ n = Len(y)
  OBVIOUS
<1>3. Len(w) = l + (m + n) /\ Len(v) = l + n
  BY <1>1, <1>2
<1>4. ASSUME NEW i \in 1 .. l PROVE w[i] = x[i] /\ v[i] = x[i]
  BY <1>1, <1>2
<1>5. ASSUME NEW i \in 1 .. m PROVE w[l + i] = r[i]
  <2>1. (r \o y)[i] = r[i] /\ r \o y \in Seq(Line) /\ i \in 1 .. Len(r \o y)
    BY <1>2
  <2> QED
    BY <1>1, <1>2, <2>1, ConcatFacts
<1>6. ASSUME NEW i \in 1 .. n PROVE w[l + (m + i)] = y[i] /\ v[l + i] = y[i]
  <2>1. (r \o y)[m + i] = y[i] /\ r \o y \in Seq(Line) /\ m + i \in 1 .. Len(r \o y)
    BY <1>2
  <2>2. (x \o (r \o y))[l + (m + i)] = (r \o y)[m + i]
    BY <1>2, <2>1, ConcatFacts
  <2>3. (x \o y)[l + i] = y[i]
    BY <1>2, ConcatFacts
  <2> QED
    BY <1>1, <2>1, <2>2, <2>3
<1> DEFINE spot(i) == IF i <= l THEN i ELSE i + m
<1>7. ASSUME NEW i \in 1 .. l + n
      PROVE  spot(i) \in 1 .. l + (m + n) /\ v[i] = w[spot(i)] /\ spot(i) \notin l + 1 .. l + m
  <2>1. CASE i <= l
    BY <1>4, <2>1
  <2>2. CASE ~ i <= l
    <3>1. PICK k \in 1 .. n : i = l + k
      <4>1. i - l \in 1 .. n /\ i = l + (i - l)
        BY <2>2
      <4> QED
        BY <4>1
    <3>2. spot(i) = l + (m + k)
      BY <2>2, <3>1
    <3>3. v[l + k] = w[l + (m + k)]
      BY <1>6
    <3>4. l + (m + k) \in 1 .. l + (m + n) /\ l + (m + k) \notin l + 1 .. l + m
      OBVIOUS
    <3> QED
      BY <3>1, <3>2, <3>3, <3>4
  <2> QED
    BY <2>1, <2>2
<1>8. /\ \A i, j \in 1 .. l + (m + n) : i < j => w[i].id < w[j].id
      /\ \A i \in 1 .. l + (m + n) : w[i] = ls[w[i].id]
      /\ Log!Ids(w) = 1 .. Len(ls) \ g
  BY <1>1, <1>3 DEF Kept
<1>9. ASSUME NEW i \in 1 .. l + n, NEW j \in 1 .. l + n, i < j PROVE v[i].id < v[j].id
  <2>1. spot(i) < spot(j)
    BY <1>9
  <2> HIDE DEF spot
  <2> QED
    BY <1>7, <1>8, <2>1
<1>10. ASSUME NEW i \in 1 .. l + n PROVE v[i] = ls[v[i].id]
  <2> HIDE DEF spot
  <2> QED
    BY <1>7, <1>8
<1>11. ASSUME NEW i \in 1 .. l + (m + n), NEW j \in 1 .. l + (m + n), w[i].id = w[j].id PROVE i = j
  <2>0. w[i] \in Line /\ w[j] \in Line
    BY <1>3, ElementOfSeq
  <2>1. w[i].id \in Nat /\ w[j].id \in Nat
    BY <2>0 DEF Line
  <2> QED
    BY <1>8, <1>11, <2>1
<1>12. Log!Ids(v) = Log!Ids(w) \ Log!Ids(r)
  <2>0. /\ Log!Ids(v) = {v[i].id : i \in 1 .. l + n}
        /\ Log!Ids(w) = {w[i].id : i \in 1 .. l + (m + n)}
        /\ Log!Ids(r) = {r[i].id : i \in 1 .. m}
    BY <1>2, <1>3 DEF Log!Ids
  <2>1. ASSUME NEW i \in 1 .. l + n PROVE v[i].id \in Log!Ids(w) /\ v[i].id \notin Log!Ids(r)
    <3>1. PICK p \in 1 .. l + (m + n) : v[i] = w[p] /\ p \notin l + 1 .. l + m
      BY <1>7
    <3>2. ASSUME NEW k \in 1 .. m, v[i].id = r[k].id PROVE FALSE
      <4>1. l + k \in 1 .. l + (m + n) /\ l + k \in l + 1 .. l + m
        OBVIOUS
      <4> QED
        BY <1>5, <1>11, <3>1, <3>2, <4>1
    <3> QED
      BY <2>0, <3>1, <3>2
  <2>2. ASSUME NEW p \in 1 .. l + (m + n), w[p].id \notin Log!Ids(r) PROVE w[p].id \in Log!Ids(v)
    <3>1. CASE p \in 1 .. l
      BY <1>4, <2>0, <3>1
    <3>2. CASE p \in l + 1 .. l + m
      <4>1. p - l \in 1 .. m /\ l + (p - l) = p
        BY <3>2
      <4>2. w[p] = r[p - l]
        BY <1>5, <4>1
      <4> QED
        BY <2>0, <2>2, <4>1, <4>2
    <3>3. CASE p \notin 1 .. l /\ p \notin l + 1 .. l + m
      <4>1. PICK k \in 1 .. n : p = l + (m + k)
        <5>1. p - (l + m) \in 1 .. n /\ l + (m + (p - (l + m))) = p
          BY <3>3
        <5> QED
          BY <5>1
      <4>2. w[p] = v[l + k] /\ l + k \in 1 .. l + n
        <5>1. w[l + (m + k)] = v[l + k]
          BY <1>6
        <5>2. l + k \in 1 .. l + n
          OBVIOUS
        <5> QED
          BY <4>1, <5>1, <5>2
      <4> QED
        BY <2>0, <4>2
    <3> QED
      BY <3>1, <3>2, <3>3
  <2> QED
    BY <2>0, <2>1, <2>2
<1>13. Log!Ids(r) \subseteq Log!Ids(w)
  <2>1. ASSUME NEW i \in 1 .. m PROVE r[i].id \in Log!Ids(w)
    <3>1. l + i \in 1 .. Len(w) /\ w[l + i] = r[i]
      BY <1>3, <1>5
    <3> QED
      BY <3>1 DEF Log!Ids
  <2> QED
    BY <1>2, <2>1 DEF Log!Ids
<1>14. Kept(v, ls, g \union Log!Ids(r))
  BY <1>3, <1>8, <1>9, <1>10, <1>12 DEF Kept
<1> QED
  BY <1>1, <1>8, <1>13, <1>14

(* A new line is added behind the others, or given up at once.             *)
LEMMA AddOn ==
    ASSUME NEW w \in Seq(Line), NEW ls \in Seq(Line), NEW g \in SUBSET (1 .. Len(ls)),
           NEW e \in Line, e.id = Len(ls) + 1, Kept(w, ls, g)
    PROVE  /\ Kept(Append(w, e), Append(ls, e), g)
           /\ Kept(w, Append(ls, e), g \union {e.id})
<1>1. PICK n \in Nat, k \in Nat : n = Len(w) /\ k = Len(ls)
  OBVIOUS
<1>2. PICK v \in Seq(Line), ms \in Seq(Line) : v = Append(w, e) /\ ms = Append(ls, e)
  <2>1. Append(w, e) \in Seq(Line) /\ Append(ls, e) \in Seq(Line)
    BY AppendProperties
  <2> QED
    BY <2>1
<1>3. Len(v) = n + 1 /\ Len(ms) = k + 1 /\ v[n + 1] = e /\ ms[k + 1] = e
  BY <1>1, <1>2
<1>4. (\A i \in 1 .. n : v[i] = w[i]) /\ (\A i \in 1 .. k : ms[i] = ls[i])
  BY <1>1, <1>2
<1>5. /\ \A i, j \in 1 .. n : i < j => w[i].id < w[j].id
      /\ \A i \in 1 .. n : w[i] = ls[w[i].id]
      /\ Log!Ids(w) = 1 .. k \ g
  BY <1>1 DEF Kept
<1>6. ASSUME NEW i \in 1 .. n PROVE w[i].id \in 1 .. k
  BY <1>1, <1>5 DEF Log!Ids
<1>7. \A i \in 1 .. n : w[i] = ms[w[i].id]
  BY <1>4, <1>5, <1>6
<1>8. ASSUME NEW i \in 1 .. n + 1, NEW j \in 1 .. n + 1, i < j PROVE v[i].id < v[j].id
  <2>1. i \in 1 .. n /\ v[i] = w[i]
    BY <1>4, <1>8
  <2>2. CASE j = n + 1
    BY <1>1, <1>3, <1>6, <2>1, <2>2
  <2>3. CASE j # n + 1
    <3>1. j \in 1 .. n /\ v[j] = w[j]
      BY <1>4, <2>3
    <3> QED
      BY <1>5, <1>8, <2>1, <3>1
  <2> QED
    BY <2>2, <2>3
<1>9. ASSUME NEW i \in 1 .. n + 1 PROVE v[i] = ms[v[i].id]
  <2>1. CASE i = n + 1
    BY <1>1, <1>3, <2>1
  <2>2. CASE i # n + 1
    <3>1. i \in 1 .. n
      BY <2>2
    <3> QED
      BY <1>4, <1>7, <3>1
  <2> QED
    BY <2>1, <2>2
<1>10. Log!Ids(v) = Log!Ids(w) \union {e.id}
  <2>1. ASSUME NEW i \in 1 .. n + 1 PROVE v[i].id \in Log!Ids(w) \union {e.id}
    <3>1. CASE i = n + 1
      BY <1>3, <3>1
    <3>2. CASE i # n + 1
      <4>1. i \in 1 .. n
        BY <3>2
      <4> QED
        BY <1>1, <1>4, <4>1 DEF Log!Ids
    <3> QED
      BY <3>1, <3>2
  <2>2. ASSUME NEW i \in 1 .. n PROVE w[i].id \in Log!Ids(v)
    <3>1. i \in 1 .. n + 1
      OBVIOUS
    <3> QED
      BY <1>3, <1>4, <3>1 DEF Log!Ids
  <2>3. e.id \in Log!Ids(v)
    <3>1. n + 1 \in 1 .. n + 1
      OBVIOUS
    <3> QED
      BY <1>3, <3>1 DEF Log!Ids
  <2>4. \A z \in Log!Ids(v) : z \in Log!Ids(w) \union {e.id}
    BY <1>3, <2>1 DEF Log!Ids
  <2>5. \A z \in Log!Ids(w) : z \in Log!Ids(v)
    BY <1>1, <2>2 DEF Log!Ids
  <2> QED
    BY <2>3, <2>4, <2>5
<1>11. 1 .. k + 1 \ g = (1 .. k \ g) \union {k + 1} /\ 1 .. k + 1 \ (g \union {k + 1}) = 1 .. k \ g
  BY <1>1
<1> QED
  BY <1>1, <1>2, <1>3, <1>5, <1>7, <1>8, <1>9, <1>10, <1>11 DEF Kept

-----------------------------------------------------------------------------
(* The LogFile.                                                            *)

IsFile(x) ==
    /\ x = [name |-> x.name, lines |-> x.lines, flushed |-> x.flushed, written |-> x.written,
            late |-> x.late]
    /\ x.name \in Nat /\ x.lines \in Seq(Line) /\ x.late \in 0 .. checkEveryN

Files(f) ==
    /\ f = [files |-> f.files, count |-> f.count, startOfPeriod |-> f.startOfPeriod,
            lastRoll |-> f.lastRoll, lastFlush |-> f.lastFlush]
    /\ \E S : f.files \in Seq(S)
    /\ Len(f.files) \in Nat \ {0}
    /\ \A i \in 1 .. Len(f.files) : IsFile(f.files[i])

(* Every file but the last is complete.                                    *)
Complete(f) ==
    \A i \in 1 .. Len(f.files) : i < Len(f.files) => f.files[i].flushed = Len(f.files[i].lines)

(* The last file is that of the last roll, and has not been called in a    *)
(* later period unless that has come.                                      *)
OfPeriod(f, now) ==
    /\ f.files[Len(f.files)].name = f.lastRoll
    /\ f.lastRoll \in Nat /\ f.lastRoll <= now /\ f.startOfPeriod = Log!Period(f.lastRoll)
    /\ Log!Period(now) = f.startOfPeriod => f.files[Len(f.files)].late = 0

Opened(f, now) == Files(f) /\ Log!DistinctFiles(f) /\ Complete(f) /\ OfPeriod(f, now)

(* The period will be looked at before the file is late too often.         *)
Watched(f) == f.count \in 0 .. checkEveryN - 1 /\ f.files[Len(f.files)].late <= f.count

(* The lines of all files are a sequence of lines.                         *)
LEMMA LinesOfType ==
    ASSUME NEW f, Files(f)
    PROVE  /\ [i \in 1 .. Len(f.files) |-> f.files[i].lines] \in Seq(Seq(Line))
           /\ Log!LinesOf(f) \in Seq(Line)
<1>1. PICK n \in Nat : n = Len(f.files)
  BY DEF Files
<1>2. \A i \in 1 .. n : f.files[i].lines \in Seq(Line)
  BY <1>1 DEF Files, IsFile
<1>3. [i \in 1 .. n |-> f.files[i].lines] \in Seq(Seq(Line))
  BY <1>2
<1>4. <<>> \in Seq(Line)
  OBVIOUS
<1> QED
  BY <1>1, <1>3, <1>4, FlatAppend DEF Log!LinesOf

(* The last file is replaced by y.                                         *)
Renewed(f, y, c, d) ==
    [files |-> [f.files EXCEPT ![Len(f.files)] = y], count |-> c,
     startOfPeriod |-> f.startOfPeriod, lastRoll |-> f.lastRoll, lastFlush |-> d]

(* It may be when y is the same file with lines added.                     *)
LEMMA LastReplaced ==
    ASSUME NEW f, NEW now, Opened(f, now), NEW y, IsFile(y), NEW b \in Seq(Line),
           y.name = f.files[Len(f.files)].name, y.lines = f.files[Len(f.files)].lines \o b,
           Log!Period(now) = f.startOfPeriod => y.late = 0, NEW c, NEW d
    PROVE  LET h == Renewed(f, y, c, d)
           IN  /\ Opened(h, now) /\ Len(h.files) = Len(f.files) /\ h.files[Len(f.files)] = y
               /\ Log!LinesOf(h) = Log!LinesOf(f) \o b
<1> DEFINE h == Renewed(f, y, c, d)
<1>1. PICK n \in Nat \ {0} : n = Len(f.files)
  BY DEF Opened, Files
<1>2. PICK S : f.files \in Seq(S)
  BY DEF Opened, Files
<1>3. f.files \in Seq(S \union {y}) /\ y \in S \union {y} /\ n \in 1 .. Len(f.files)
  <2>1. S \subseteq S \union {y}
    OBVIOUS
  <2> QED
    BY <1>1, <1>2, <2>1, SeqMonotonic
<1>4. PICK F : F = [f.files EXCEPT ![n] = y]
  OBVIOUS
<1>5. /\ F \in Seq(S \union {y}) /\ Len(F) = n /\ F[n] = y
      /\ \A i \in 1 .. n : F[i] = IF i = n THEN y ELSE f.files[i]
  BY <1>1, <1>3, <1>4, ExceptSeq
<1>6. /\ h.files = F /\ h.count = c /\ h.startOfPeriod = f.startOfPeriod
      /\ h.lastRoll = f.lastRoll /\ h.lastFlush = d
      /\ h = [files |-> h.files, count |-> h.count, startOfPeriod |-> h.startOfPeriod,
              lastRoll |-> h.lastRoll, lastFlush |-> h.lastFlush]
  BY <1>1, <1>4 DEF Renewed
<1> HIDE DEF h
<1>7. Files(h)
  BY <1>1, <1>5, <1>6 DEF Opened, Files
<1>8. Log!DistinctFiles(h)
  <2>1. \A i, j \in 1 .. n : i < j => f.files[i].name < f.files[j].name
    BY <1>1 DEF Opened, Log!DistinctFiles
  <2>2. \A i \in 1 .. n : F[i].name = f.files[i].name
    BY <1>1, <1>5
  <2> QED
    BY <1>5, <1>6, <2>1, <2>2, SMTT(40) DEF Log!DistinctFiles
<1>9. Complete(h)
  BY <1>1, <1>5, <1>6 DEF Opened, Complete
<1>10. OfPeriod(h, now)
  BY <1>1, <1>5, <1>6 DEF Opened, OfPeriod
<1>11. Log!LinesOf(h) = Log!LinesOf(f) \o b
  <2>1. PICK m \in Nat : m = n - 1 /\ n = m + 1
    <3>1. n - 1 \in Nat /\ n = (n - 1) + 1
      OBVIOUS
    <3> QED
      BY <3>1
  <2>2. PICK u, v, p : /\ u = [i \in 1 .. n |-> f.files[i].lines]
                       /\ v = [i \in 1 .. n |-> F[i].lines]
                       /\ p = [i \in 1 .. m |-> f.files[i].lines]
    OBVIOUS
  <2>0. \A i \in 1 .. n : f.files[i].lines \in Seq(Line)
    <3>1. \A i \in 1 .. n : IsFile(f.files[i])
      BY <1>1 DEF Opened, Files
    <3> QED
      BY <3>1 DEF IsFile
  <2>3. PICK z \in Seq(Line), x \in Seq(Line) : z = f.files[n].lines /\ y.lines = x /\ x = z \o b
    <3>1. f.files[n].lines \in Seq(Line) /\ y.lines = f.files[n].lines \o b
      BY <1>1, <2>0
    <3>2. f.files[n].lines \o b \in Seq(Line)
      BY <3>1, SMTT(40)
    <3> QED
      BY <3>1, <3>2
  <2>4. u \in [1 .. m + 1 -> Seq(Line)] /\ u[m + 1] = z
    BY <2>0, <2>1, <2>2, <2>3, SMTT(40)
  <2>5. p \in Seq(Seq(Line)) /\ Len(p) = m
    <3>1. \A i \in 1 .. m : f.files[i].lines \in Seq(Line)
      BY <2>0, <2>1
    <3>2. p \in [1 .. m -> Seq(Line)]
      BY <2>2, <3>1
    <3> QED
      BY <3>2
  <2>6. u = Append(p, z)
    <3>1. \A i \in 1 .. m : u[i] = p[i]
      BY <2>1, <2>2
    <3> QED
      BY <2>4, <2>5, <3>1, AppendIs
  <2>7. v = Append(p, x)
    <3>0. \A i \in 1 .. n : F[i].lines = IF i = n THEN x ELSE f.files[i].lines
      BY <1>5, <2>3
    <3>3. \A i \in 1 .. n : v[i] = IF i = n THEN x ELSE f.files[i].lines
      BY <2>2, <3>0
    <3>1. v \in [1 .. m + 1 -> Seq(Line)] /\ v[m + 1] = x
      <4>1. \A i \in 1 .. n : v[i] \in Seq(Line)
        BY <2>0, <3>3
      <4>2. v \in [1 .. n -> Seq(Line)]
        BY <2>2, <4>1
      <4> QED
        BY <2>1, <3>3, <4>2
    <3>2. \A i \in 1 .. m : v[i] = p[i]
      BY <2>1, <2>2, <3>3
    <3> QED
      BY <2>5, <3>1, <3>2, AppendIs
  <2>8. PICK q \in Seq(Line) : q = Log!FlattenSeq(p)
    BY <2>3, <2>5, FlatAppend, SMTT(40)
  <2>9. Log!FlattenSeq(u) = q \o z /\ Log!FlattenSeq(v) = q \o x
    BY <2>3, <2>5, <2>6, <2>7, <2>8, FlatAppend
  <2>10. q \o x = (q \o z) \o b
    <3>0. q \in Seq(Line) /\ z \in Seq(Line) /\ b \in Seq(Line)
      OBVIOUS
    <3>1. (q \o z) \o b = q \o (z \o b)
      BY <3>0, LinesAssociative
    <3> QED
      BY <2>3, <3>1
  <2> QED
    BY <1>1, <1>5, <1>6, <2>2, <2>9, <2>10 DEF Log!LinesOf
<1>12. Opened(h, now) /\ Len(h.files) = Len(f.files) /\ h.files[Len(f.files)] = y
  BY <1>1, <1>5, <1>6, <1>7, <1>8, <1>9, <1>10 DEF Opened
<1> QED
  BY <1>11, <1>12 DEF h

RenewedWell(h, f, now, y, b) ==
    /\ Opened(h, now) /\ Len(h.files) = Len(f.files) /\ h.files[Len(f.files)] = y
    /\ Log!LinesOf(h) = Log!LinesOf(f) \o b

(* The last file may get lines as long as they stay in its period.         *)
LEMMA Renews ==
    \A f, now, y : \A b \in Seq(Line) : \A c, d :
        /\ Opened(f, now) /\ IsFile(y)
        /\ y.name = f.files[Len(f.files)].name /\ y.lines = f.files[Len(f.files)].lines \o b
        /\ Log!Period(now) = f.startOfPeriod => y.late = 0
        => RenewedWell(Renewed(f, y, c, d), f, now, y, b)
  BY LastReplaced, SMTT(40) DEF RenewedWell

(* Flush() completes the last file too, and changes nothing else.          *)
LEMMA FlushKeeps ==
    ASSUME NEW f, NEW now, Opened(f, now)
    PROVE  LET h == Log!Flush(f) IN
           /\ Opened(h, now) /\ Len(h.files) = Len(f.files) /\ Log!LinesOf(h) = Log!LinesOf(f)
           /\ \A i \in 1 .. Len(h.files) : h.files[i].flushed = Len(h.files[i].lines)
           /\ h.count = f.count /\ h.startOfPeriod = f.startOfPeriod /\ h.lastRoll = f.lastRoll
           /\ h.files[Len(f.files)].late = f.files[Len(f.files)].late
<1>1. PICK n \in Nat \ {0} : n = Len(f.files)
  BY DEF Opened, Files
<1>2. PICK x : x = f.files[n] /\ IsFile(x)
  BY <1>1 DEF Opened, Files
<1> DEFINE y == [name |-> x.name, lines |-> x.lines, flushed |-> Len(x.lines),
                 written |-> x.written, late |-> x.late]
           h == Renewed(f, y, f.count, f.lastFlush)
<1>3. IsFile(y) /\ y.flushed = Len(y.lines) /\ y.lines = x.lines /\ y.name = x.name /\ y.late = x.late
  BY <1>2 DEF IsFile
<1>4. [x EXCEPT !.flushed = Len(x.lines)] = y
  BY <1>2 DEF IsFile
<1>5. Log!Flush(f) = h
  <2>1. f = [files |-> f.files, count |-> f.count, startOfPeriod |-> f.startOfPeriod,
             lastRoll |-> f.lastRoll, lastFlush |-> f.lastFlush]
    BY DEF Opened, Files
  <2>2. Log!Flush(f) = [f EXCEPT !.files = [f.files EXCEPT ![n] = y]]
    BY <1>1, <1>2, <1>4 DEF Log!Flush
  <2> HIDE DEF y
  <2>3. [f EXCEPT !.files = [f.files EXCEPT ![n] = y]] = h
    BY <1>1, <2>1, SMTT(40) DEF Renewed
  <2> QED
    BY <2>2, <2>3
<1> HIDE DEF y
<1>6. <<>> \in Seq(Line) /\ y.lines = f.files[n].lines \o <<>>
  BY <1>2, <1>3 DEF IsFile
<1>7. y.name = f.files[n].name /\ (Log!Period(now) = f.startOfPeriod => y.late = 0)
  BY <1>1, <1>2, <1>3 DEF Opened, OfPeriod
<1>8. /\ Opened(h, now) /\ Len(h.files) = n /\ h.files[n] = y
      /\ Log!LinesOf(h) = Log!LinesOf(f) \o <<>>
  <2>1. PICK b \in Seq(Line) : b = <<>> /\ y.lines = f.files[Len(f.files)].lines \o b
    BY <1>1, <1>6
  <2>2. y.name = f.files[Len(f.files)].name
    BY <1>1, <1>7
  <2> HIDE DEF h
  <2>3. RenewedWell(h, f, now, y, b)
    BY <1>3, <1>7, <2>1, <2>2, Renews DEF h
  <2> QED
    BY <1>1, <2>1, <2>3 DEF RenewedWell
<1>9. h.count = f.count /\ h.startOfPeriod = f.startOfPeriod /\ h.lastRoll = f.lastRoll
  BY DEF Renewed
<1> HIDE DEF h
<1>10. Log!LinesOf(f) \o <<>> = Log!LinesOf(f)
  <2>1. Log!LinesOf(f) \in Seq(Line)
    BY LinesOfType DEF Opened
  <2> QED
    BY <2>1
<1>11. ASSUME NEW i \in 1 .. n PROVE h.files[i].flushed = Len(h.files[i].lines)
  <2>1. CASE i = n
    BY <1>3, <1>8, <2>1
  <2>2. CASE i # n
    BY <1>8, <2>2 DEF Opened, Complete
  <2> QED
    BY <2>1, <2>2
<1> QED
  BY <1>1, <1>2, <1>3, <1>5, <1>8, <1>9, <1>10, <1>11

(* A file is opened behind others.                                         *)
Reopened(files, now, c) ==
    [files |-> Append(files, Log!NewAppendFile(now)), count |-> c,
     startOfPeriod |-> Log!Period(now), lastRoll |-> now, lastFlush |-> now]

(* It may be when they are complete.                                       *)
LEMMA OpenKeeps ==
    ASSUME NEW files, \E S : files \in Seq(S), Len(files) \in Nat, NEW now \in Nat,
           \A i \in 1 .. Len(files) :
               IsFile(files[i]) /\ files[i].name < now /\ files[i].flushed = Len(files[i].lines),
           \A i, j \in 1 .. Len(files) : i < j => files[i].name < files[j].name, NEW c
    PROVE  LET h == Reopened(files, now, c)
           IN  /\ Opened(h, now) /\ Len(h.files) = Len(files) + 1
               /\ h.files[Len(files) + 1].late = 0
               /\ Log!LinesOf(h) = Log!FlattenSeq([i \in 1 .. Len(files) |-> files[i].lines])
<1> DEFINE y == Log!NewAppendFile(now)
           h == Reopened(files, now, c)
<1>1. PICK n \in Nat : n = Len(files)
  OBVIOUS
<1>2. PICK S : files \in Seq(S)
  OBVIOUS
<1>3. IsFile(y) /\ y.name = now /\ y.lines = <<>> /\ y.late = 0
  BY LogAssumption DEF Log!NewAppendFile, IsFile
<1>4. PICK F : F = Append(files, y)
  OBVIOUS
<1>5. /\ h.files = F /\ h.lastRoll = now /\ h.startOfPeriod = Log!Period(now)
      /\ h = [files |-> h.files, count |-> h.count, startOfPeriod |-> h.startOfPeriod,
              lastRoll |-> h.lastRoll, lastFlush |-> h.lastFlush]
  BY <1>4 DEF Reopened
<1> HIDE DEF y, h
<1>6. F \in Seq(S \union {y}) /\ Len(F) = n + 1 /\ F[n + 1] = y /\ \A i \in 1 .. n : F[i] = files[i]
  <2>1. files \in Seq(S \union {y}) /\ y \in S \union {y}
    <3>1. S \subseteq S \union {y}
      OBVIOUS
    <3> QED
      BY <1>2, <3>1, SeqMonotonic
  <2> QED
    BY <1>1, <1>4, <2>1, AppendProperties
<1>7. ASSUME NEW i \in 1 .. n + 1 PROVE i = n + 1 \/ i \in 1 .. n
  OBVIOUS
<1>8. Files(h)
  <2>1. \A i \in 1 .. n + 1 : IsFile(F[i])
    BY <1>1, <1>3, <1>6, <1>7
  <2>2. \E V : F \in Seq(V)
    BY <1>6
  <2> QED
    BY <1>5, <1>6, <2>1, <2>2 DEF Files
<1>9. Log!DistinctFiles(h)
  <2>1. ASSUME NEW i \in 1 .. n + 1, NEW j \in 1 .. n + 1, i < j PROVE F[i].name < F[j].name
    <3>1. i \in 1 .. n
      BY <2>1
    <3>2. CASE j = n + 1
      BY <1>1, <1>3, <1>6, <3>1, <3>2
    <3>3. CASE j \in 1 .. n
      BY <1>1, <1>6, <2>1, <3>1, <3>3
    <3> QED
      BY <1>7, <3>2, <3>3
  <2> QED
    BY <1>5, <1>6, <2>1 DEF Log!DistinctFiles
<1>10. Complete(h)
  <2>1. ASSUME NEW i \in 1 .. n + 1, i < n + 1 PROVE F[i].flushed = Len(F[i].lines)
    <3>1. i \in 1 .. n
      BY <2>1
    <3> QED
      BY <1>1, <1>6, <3>1
  <2> QED
    BY <1>5, <1>6, <2>1 DEF Complete
<1>11. OfPeriod(h, now)
  BY <1>3, <1>5, <1>6 DEF OfPeriod
<1>12. Log!LinesOf(h) = Log!FlattenSeq([i \in 1 .. n |-> files[i].lines])
  <2>1. PICK u, p : u = [i \in 1 .. n + 1 |-> F[i].lines] /\ p = [i \in 1 .. n |-> files[i].lines]
    OBVIOUS
  <2>2. \A i \in 1 .. n : files[i].lines \in Seq(Line)
    BY <1>1 DEF IsFile
  <2>3. p \in [1 .. n -> Seq(Line)]
    BY <2>1, <2>2
  <2>4. p \in Seq(Seq(Line)) /\ Len(p) = n /\ <<>> \in Seq(Line)
    BY <2>3
  <2>5. \A i \in 1 .. n + 1 : F[i].lines \in Seq(Line)
    <3>1. ASSUME NEW i \in 1 .. n + 1 PROVE F[i].lines \in Seq(Line)
      <4>1. CASE i = n + 1
        BY <1>3, <1>6, <2>4, <4>1
      <4>2. CASE i \in 1 .. n
        BY <1>6, <2>2, <4>2
      <4> QED
        BY <1>7, <4>1, <4>2
    <3> QED
      BY <3>1
  <2>6. u \in [1 .. n + 1 -> Seq(Line)] /\ u[n + 1] = <<>> /\ \A i \in 1 .. n : u[i] = p[i]
    BY <1>3, <1>6, <2>1, <2>5
  <2>7. u = Append(p, <<>>)
    BY <2>4, <2>6, AppendIs
  <2>8. PICK q \in Seq(Line) : q = Log!FlattenSeq(p) /\ Log!FlattenSeq(u) = q \o <<>>
    BY <2>4, <2>7, FlatAppend
  <2>9. q \o <<>> = q
    OBVIOUS
  <2> QED
    BY <1>5, <1>6, <2>1, <2>8, <2>9 DEF Log!LinesOf
<1>13. Opened(h, now) /\ Len(h.files) = Len(files) + 1 /\ h.files[Len(files) + 1].late = 0
  BY <1>1, <1>3, <1>5, <1>6, <1>8, <1>9, <1>10, <1>11 DEF Opened
<1> QED
  BY <1>1, <1>12, <1>13 DEF h

(* rollFile() opens a file or, in the second of the last one, does nothing.*)
LEMMA RollKeeps ==
    ASSUME NEW f, NEW now \in Nat, Opened(f, now)
    PROVE  LET h == Log!rollFile(f, now) IN
           /\ Opened(h, now) /\ Log!LinesOf(h) = Log!LinesOf(f) /\ h.count = f.count
           /\ IF now > f.lastRoll THEN h.files[Len(h.files)].late = 0 ELSE h = f
<1>1. CASE ~ now > f.lastRoll
  BY <1>1 DEF Log!rollFile
<1>2. CASE now > f.lastRoll
  <2> DEFINE g == Log!Flush(f)
             h == Reopened(g.files, now, g.count)
  <2>1. /\ Opened(g, now) /\ Log!LinesOf(g) = Log!LinesOf(f)
        /\ \A i \in 1 .. Len(g.files) : g.files[i].flushed = Len(g.files[i].lines)
        /\ g.count = f.count /\ g.lastRoll = f.lastRoll
    BY FlushKeeps
  <2> HIDE DEF g
  <2>2. g = [files |-> g.files, count |-> g.count, startOfPeriod |-> g.startOfPeriod,
             lastRoll |-> g.lastRoll, lastFlush |-> g.lastFlush]
    BY <2>1 DEF Opened, Files
  <2>3. Log!rollFile(f, now) = h
    <3>1. Log!rollFile(f, now)
            = [g EXCEPT !.lastRoll = now, !.lastFlush = now, !.startOfPeriod = Log!Period(now),
                        !.files = Append(@, Log!NewAppendFile(now))]
      BY <1>2 DEF Log!rollFile, g
    <3> QED
      BY <2>2, <3>1 DEF Reopened
  <2>4. PICK n \in Nat \ {0} : n = Len(g.files)
    BY <2>1 DEF Opened, Files
  <2>5. ASSUME NEW i \in 1 .. n PROVE g.files[i].name < now /\ IsFile(g.files[i])
    <3>1. IsFile(g.files[i]) /\ IsFile(g.files[n])
      BY <2>1, <2>4 DEF Opened, Files
    <3>2. i < n => g.files[i].name < g.files[n].name
      BY <2>1, <2>4 DEF Opened, Log!DistinctFiles
    <3>3. g.files[n].name = f.lastRoll /\ f.lastRoll < now
      BY <1>2, <2>1, <2>4 DEF Opened, OfPeriod
    <3>4. g.files[i].name \in Nat /\ g.files[n].name \in Nat
      BY <3>1 DEF IsFile
    <3> QED
      BY <3>1, <3>2, <3>3, <3>4
  <2>6. \A i, j \in 1 .. n : i < j => g.files[i].name < g.files[j].name
    BY <2>1, <2>4 DEF Opened, Log!DistinctFiles
  <2>7. \E S : g.files \in Seq(S)
    BY <2>1 DEF Opened, Files
  <2>8. /\ Opened(h, now) /\ Len(h.files) = n + 1 /\ h.files[n + 1].late = 0
        /\ Log!LinesOf(h) = Log!FlattenSeq([i \in 1 .. n |-> g.files[i].lines])
    BY <2>1, <2>4, <2>5, <2>6, <2>7, OpenKeeps, ZenonT(60)
  <2>9. Log!LinesOf(g) = Log!FlattenSeq([i \in 1 .. n |-> g.files[i].lines])
    BY <2>4 DEF Log!LinesOf
  <2>10. h.count = f.count
    BY <2>1 DEF Reopened
  <2> QED
    BY <1>2, <2>1, <2>3, <2>8, <2>9, <2>10
<1> QED
  BY <1>1, <1>2

(* The clock may go on.                                                    *)
LEMMA TimePasses ==
    ASSUME NEW f, NEW now \in Nat, Opened(f, now) PROVE Opened(f, now + 1)
<1>1. f.lastRoll \in Nat /\ f.lastRoll <= now /\ f.startOfPeriod = Log!Period(f.lastRoll)
  BY DEF Opened, OfPeriod
<1>2. Log!Period(now + 1) = f.startOfPeriod => Log!Period(now) = f.startOfPeriod
  <2>1. now + 1 \in Nat /\ now <= now + 1
    OBVIOUS
  <2> QED
    BY <1>1, <2>1, PeriodBetween
<1>3. f.lastRoll <= now + 1
  BY <1>1
<1>4. OfPeriod(f, now + 1)
  BY <1>1, <1>2, <1>3 DEF Opened, OfPeriod
<1> QED
  BY <1>4 DEF Opened

(* The first file.                                                         *)
LEMMA NewWell ==
    ASSUME NEW now \in Nat \ {0}
    PROVE  LET h == Log!NewLogFile(now) IN
           /\ Opened(h, now) /\ Watched(h) /\ Log!LinesOf(h) = <<>>
           /\ \A i \in 1 .. Len(h.files) : h.files[i].flushed = Len(h.files[i].lines)
<1>2. PICK e : e = <<>> /\ e \in Seq({}) /\ Len(e) = 0
  <2>1. <<>> \in Seq({}) /\ Len(<<>>) = 0
    BY EmptySeq
  <2> QED
    BY <2>1
<1> DEFINE h == Reopened(e, now, 0)
<1>1. Log!NewLogFile(now) = h
  <2>1. PICK r : r = [files |-> e, count |-> 0, startOfPeriod |-> 0, lastRoll |-> 0, lastFlush |-> 0]
    OBVIOUS
  <2>2. Log!Flush(r) = r /\ now > r.lastRoll
    BY <1>2, <2>1 DEF Log!Flush
  <2>3. Log!rollFile(r, now)
          = [r EXCEPT !.lastRoll = now, !.lastFlush = now, !.startOfPeriod = Log!Period(now),
                      !.files = Append(@, Log!NewAppendFile(now))]
    BY <2>2 DEF Log!rollFile
  <2>4. Log!rollFile(r, now) = h
    BY <2>1, <2>3 DEF Reopened
  <2> QED
    BY <1>2, <2>1, <2>4 DEF Log!NewLogFile
<1>3. /\ Opened(h, now) /\ Len(h.files) = 1 /\ h.files[1].late = 0
      /\ Log!LinesOf(h) = Log!FlattenSeq(<<>>)
  <2>1. \E S : e \in Seq(S)
    BY <1>2
  <2>2. PICK k \in Nat : k = Len(e) /\ k = 0 /\ k + 1 = 1
    BY <1>2
  <2>3. /\ Opened(h, now) /\ Len(h.files) = k + 1 /\ h.files[k + 1].late = 0
        /\ Log!LinesOf(h) = Log!FlattenSeq([i \in 1 .. k |-> e[i].lines])
    <3>1. \A i \in 1 .. Len(e) :
            IsFile(e[i]) /\ e[i].name < now /\ e[i].flushed = Len(e[i].lines)
      BY <2>2
    <3>2. \A i, j \in 1 .. Len(e) : i < j => e[i].name < e[j].name
      BY <2>2
    <3>3. now \in Nat /\ Len(e) \in Nat
      BY <2>2
    <3> HIDE DEF h
    <3>4. \A c : LET g == Reopened(e, now, c) IN
             /\ Opened(g, now) /\ Len(g.files) = Len(e) + 1 /\ g.files[Len(e) + 1].late = 0
             /\ Log!LinesOf(g) = Log!FlattenSeq([i \in 1 .. Len(e) |-> e[i].lines])
      BY <2>1, <3>1, <3>2, <3>3, OpenKeeps
    <3> QED
      BY <2>2, <3>4 DEF h
  <2>4. [i \in 1 .. k |-> e[i].lines] = <<>>
    BY <2>2
  <2> QED
    BY <2>2, <2>3, <2>4
<1>4. h.count = 0 /\ h.files[1].flushed = 0 /\ h.files[1].lines = <<>>
  BY <1>2 DEF Log!NewAppendFile, Reopened
<1> HIDE DEF h
<1>5. Watched(h)
  BY <1>3, <1>4, LogAssumption DEF Watched
<1> QED
  BY <1>1, <1>3, <1>4, <1>5, FlatEmpty

(* The counter and the time of the last flush may be set.                  *)
Recounted(h, f, c, now) ==
    /\ Opened(h, now) /\ h.files = f.files /\ h.count = c /\ h.startOfPeriod = f.startOfPeriod
    /\ h.lastRoll = f.lastRoll /\ Log!LinesOf(h) = Log!LinesOf(f)

(* count_ is not part of what the files hold.                              *)
LEMMA Recount ==
    ASSUME NEW f, NEW now, Opened(f, now)
    PROVE  \A c : Recounted([f EXCEPT !.count = c], f, c, now)
<1> SUFFICES ASSUME NEW c PROVE Recounted([f EXCEPT !.count = c], f, c, now)
  OBVIOUS
<1>1. PICK h : h = [f EXCEPT !.count = c]
  OBVIOUS
<1>2. f = [files |-> f.files, count |-> f.count, startOfPeriod |-> f.startOfPeriod,
           lastRoll |-> f.lastRoll, lastFlush |-> f.lastFlush]
  BY DEF Opened, Files
<1>3. /\ h.files = f.files /\ h.count = c /\ h.startOfPeriod = f.startOfPeriod
      /\ h.lastRoll = f.lastRoll /\ h.lastFlush = f.lastFlush
      /\ h = [files |-> h.files, count |-> h.count, startOfPeriod |-> h.startOfPeriod,
              lastRoll |-> h.lastRoll, lastFlush |-> h.lastFlush]
  BY <1>1, <1>2
<1>4. Opened(h, now)
  BY <1>3 DEF Opened, Files, Log!DistinctFiles, Complete, OfPeriod
<1>5. Log!LinesOf(h) = Log!LinesOf(f)
  BY <1>3 DEF Log!LinesOf
<1> QED
  BY <1>1, <1>3, <1>4, <1>5 DEF Recounted

(* Nor is lastFlush_.                                                      *)
LEMMA Reflush ==
    ASSUME NEW f, NEW now, Opened(f, now)
    PROVE  LET h == [f EXCEPT !.lastFlush = now] IN
           /\ Opened(h, now) /\ h.files = f.files /\ h.count = f.count
           /\ Log!LinesOf(h) = Log!LinesOf(f)
<1>1. PICK h : h = [f EXCEPT !.lastFlush = now]
  OBVIOUS
<1>2. f = [files |-> f.files, count |-> f.count, startOfPeriod |-> f.startOfPeriod,
           lastRoll |-> f.lastRoll, lastFlush |-> f.lastFlush]
  BY DEF Opened, Files
<1>3. /\ h.files = f.files /\ h.count = f.count /\ h.startOfPeriod = f.startOfPeriod
      /\ h.lastRoll = f.lastRoll /\ h.lastFlush = now
      /\ h = [files |-> h.files, count |-> h.count, startOfPeriod |-> h.startOfPeriod,
              lastRoll |-> h.lastRoll, lastFlush |-> h.lastFlush]
  BY <1>1, <1>2
<1>4. Opened(h, now)
  BY <1>3 DEF Opened, Files, Log!DistinctFiles, Complete, OfPeriod
<1>5. Log!LinesOf(h) = Log!LinesOf(f)
  BY <1>3 DEF Log!LinesOf
<1> QED
  BY <1>1, <1>3, <1>4, <1>5

(* append_unlocked() adds the lines that fwrite() takes, once and behind   *)
(* the others, wherever they go.                                           *)
AppendedWell(h, f, b, ok, now) ==
    /\ Opened(h, now) /\ Watched(h)
    /\ Log!LinesOf(h) = IF ok THEN Log!LinesOf(f) \o b ELSE Log!LinesOf(f)

(* append_unlocked() puts what it writes behind all other lines.           *)
LEMMA AppendWell ==
    ASSUME NEW f, NEW now \in Nat, Opened(f, now), Watched(f),
           NEW b \in Seq(Line), NEW bytes, NEW ok \in BOOLEAN
    PROVE  AppendedWell(Log!append_unlocked(f, b, bytes, ok, now), f, b, ok, now)
<1>1. PICK n \in Nat \ {0} : n = Len(f.files)
  BY DEF Opened, Files
<1>2. PICK x : x = f.files[n] /\ IsFile(x)
  BY <1>1 DEF Opened, Files
<1>3. PICK e \in Seq(Line) : e = IF ok THEN b ELSE <<>>
  <2>1. <<>> \in Seq(Line)
    BY EmptySeq
  <2> QED
    BY <2>1
<1>4. PICK k \in 0 .. 1 : k = IF Log!Period(now) = Log!Period(x.name) THEN 0 ELSE 1
  OBVIOUS
<1>5. PICK late \in Nat, count \in Nat :
         late = x.late /\ count = f.count /\ late <= count /\ count + 1 <= checkEveryN
  BY <1>1, <1>2, LogAssumption DEF Watched, IsFile
<1>6. PICK y : y = [name |-> x.name, lines |-> x.lines \o e, flushed |-> x.flushed,
                    written |-> x.written + bytes, late |-> late + k]
  OBVIOUS
<1>7. IsFile(y) /\ y.name = x.name /\ y.lines = x.lines \o e /\ y.late = late + k
  <2>1. x.lines \in Seq(Line) /\ x.name \in Nat
    BY <1>2 DEF IsFile
  <2>2. x.lines \o e \in Seq(Line)
    BY <2>1
  <2>3. late + k \in 0 .. checkEveryN
    BY <1>5, LogAssumption
  <2> QED
    BY <1>6, <2>1, <2>2, <2>3 DEF IsFile
<1>8. PICK g : g = Renewed(f, y, f.count, f.lastFlush)
  OBVIOUS
<1>9. Log!AppendFile(f, b, bytes, ok, now) = g
  <2>1. f = [files |-> f.files, count |-> f.count, startOfPeriod |-> f.startOfPeriod,
             lastRoll |-> f.lastRoll, lastFlush |-> f.lastFlush]
    BY DEF Opened, Files
  <2>3. x.lines \o e = IF ok THEN x.lines \o b ELSE x.lines
    <3>1. x.lines \in Seq(Line)
      BY <1>2 DEF IsFile
    <3>2. x.lines \o <<>> = x.lines
      BY <3>1
    <3> QED
      BY <1>3, <3>2
  <2>4. [name |-> x.name, lines |-> IF ok THEN x.lines \o b ELSE x.lines,
         flushed |-> x.flushed, written |-> x.written + bytes, late |-> x.late + k] = y
    BY <1>5, <1>6, <2>3, SMTT(40)
  <2>7. Log!AppendFile(f, b, bytes, ok, now) = [f EXCEPT !.files = [f.files EXCEPT ![n] = y]]
    BY <1>1, <1>2, <1>4, <2>3, <2>4 DEF Log!AppendFile
  <2> QED
    BY <1>1, <1>8, <2>1, <2>7 DEF Renewed
<1>10. /\ Opened(g, now) /\ Len(g.files) = n /\ g.files[n] = y
       /\ Log!LinesOf(g) = Log!LinesOf(f) \o e
  <2>1. Log!Period(now) = f.startOfPeriod => y.late = 0
    <3>1. x.name = f.lastRoll /\ f.startOfPeriod = Log!Period(f.lastRoll)
      BY <1>1, <1>2 DEF Opened, OfPeriod
    <3>2. Log!Period(now) = f.startOfPeriod => k = 0
      BY <1>4, <3>1
    <3>3. Log!Period(now) = f.startOfPeriod => late = 0
      BY <1>1, <1>2, <1>5 DEF Opened, OfPeriod
    <3> QED
      BY <1>7, <3>2, <3>3
  <2>2. RenewedWell(g, f, now, y, e)
    BY <1>1, <1>2, <1>7, <1>8, <2>1, Renews
  <2> QED
    BY <1>1, <2>2 DEF RenewedWell
<1>11. Log!LinesOf(g) = IF ok THEN Log!LinesOf(f) \o b ELSE Log!LinesOf(f)
  <2>1. Log!LinesOf(f) \in Seq(Line)
    BY LinesOfType DEF Opened
  <2> QED
    BY <1>3, <1>10, <2>1
<1>12. g.count = count /\ g.startOfPeriod = f.startOfPeriod /\ g.lastRoll = f.lastRoll
  BY <1>5, <1>8 DEF Renewed
<1>13. Log!Period(now) = g.startOfPeriod => y.late = 0
  BY <1>10 DEF Opened, OfPeriod
<1>14. ~ now > g.lastRoll => Log!Period(now) = g.startOfPeriod
  <2>1. g.lastRoll \in Nat /\ g.lastRoll <= now /\ g.startOfPeriod = Log!Period(g.lastRoll)
    BY <1>10 DEF Opened, OfPeriod
  <2>2. ~ now > g.lastRoll => now = g.lastRoll
    BY <2>1
  <2> QED
    BY <2>1, <2>2
<1>15. PICK c, z : c = [g EXCEPT !.count = count + 1] /\ z = [g EXCEPT !.count = 0]
  OBVIOUS
<1>16. \A m : Recounted([g EXCEPT !.count = m], g, m, now)
  BY <1>10, Recount
<1>17. Recounted(c, g, count + 1, now) /\ Recounted(z, g, 0, now)
  BY <1>15, <1>16
<1> DEFINE h == Log!append_unlocked(f, b, bytes, ok, now)
<1>18. h = IF Log!CurrentFile(g).written > rollSize THEN Log!rollFile(g, now)
           ELSE IF ~ Log!Checks(c) THEN c
           ELSE IF Log!Period(now) # g.startOfPeriod THEN Log!rollFile(z, now)
           ELSE IF now - g.lastFlush > flushEvery THEN [Log!Flush(z) EXCEPT !.lastFlush = now]
           ELSE z
  BY <1>9, <1>12, <1>15 DEF Log!append_unlocked
<1> HIDE DEF h
<1>19. CASE h = Log!rollFile(g, now)
  <2>1. /\ Opened(h, now) /\ Log!LinesOf(h) = Log!LinesOf(g) /\ h.count = g.count
        /\ IF now > g.lastRoll THEN h.files[Len(h.files)].late = 0 ELSE h = g
    BY <1>10, <1>19, RollKeeps
  <2>2. h.files[Len(h.files)].late = 0
    BY <1>10, <1>13, <1>14, <2>1
  <2>3. Watched(h)
    BY <1>5, <1>12, <2>1, <2>2, LogAssumption DEF Watched
  <2> QED
    BY <1>11, <2>1, <2>3 DEF AppendedWell, h
<1>20. CASE h = c /\ ~ Log!Checks(c)
  <2>1. count + 1 < checkEveryN
    BY <1>17, <1>20, LogAssumption DEF Log!Checks, Recounted
  <2>2. c.files = g.files /\ c.count = count + 1
    BY <1>17 DEF Recounted
  <2>3. c.files[Len(c.files)].late = late + k /\ late + k <= count + 1
    <3>1. c.files[Len(c.files)] = y
      BY <1>10, <2>2
    <3>2. late + k <= count + 1
      BY <1>5
    <3> QED
      BY <1>7, <3>1, <3>2
  <2>4. count + 1 \in 0 .. checkEveryN - 1
    BY <2>1, LogAssumption
  <2>5. Watched(c)
    BY <2>2, <2>3, <2>4 DEF Watched
  <2> QED
    BY <1>11, <1>17, <1>20, <2>5 DEF AppendedWell, Recounted, h
<1>21. CASE h = Log!rollFile(z, now) /\ Log!Period(now) # g.startOfPeriod
  <2>0. now > z.lastRoll
    BY <1>14, <1>17, <1>21 DEF Recounted
  <2>1. /\ Opened(h, now) /\ Log!LinesOf(h) = Log!LinesOf(z) /\ h.count = z.count
        /\ h.files[Len(h.files)].late = 0
    BY <1>17, <1>21, <2>0, RollKeeps DEF Recounted
  <2>3. Watched(h)
    BY <1>17, <2>1, LogAssumption DEF Watched, Recounted
  <2> QED
    BY <1>11, <1>17, <2>1, <2>3 DEF AppendedWell, Recounted, h
<1>22. Watched(z) \/ Log!Period(now) # g.startOfPeriod
  BY <1>10, <1>13, <1>17, LogAssumption DEF Watched, Recounted
<1>23. CASE h = [Log!Flush(z) EXCEPT !.lastFlush = now] /\ Log!Period(now) = g.startOfPeriod
  <2>1. PICK q : q = Log!Flush(z)
    OBVIOUS
  <2>2. /\ Opened(q, now) /\ Log!LinesOf(q) = Log!LinesOf(z) /\ q.count = z.count
        /\ q.files[Len(z.files)].late = z.files[Len(z.files)].late /\ Len(q.files) = Len(z.files)
    BY <1>17, <2>1, FlushKeeps DEF Recounted
  <2>3. Opened(h, now) /\ h.files = q.files /\ h.count = q.count /\ Log!LinesOf(h) = Log!LinesOf(q)
    BY <1>23, <2>1, <2>2, Reflush
  <2>4. Watched(h)
    BY <1>22, <1>23, <2>2, <2>3 DEF Watched
  <2> QED
    BY <1>11, <1>17, <2>2, <2>3, <2>4 DEF AppendedWell, Recounted, h
<1>24. CASE h = z /\ Log!Period(now) = g.startOfPeriod
  BY <1>11, <1>17, <1>22, <1>24 DEF AppendedWell, Recounted, h
<1>25. \/ h = Log!rollFile(g, now)
       \/ h = c /\ ~ Log!Checks(c)
       \/ h = Log!rollFile(z, now) /\ Log!Period(now) # g.startOfPeriod
       \/ h = [Log!Flush(z) EXCEPT !.lastFlush = now] /\ Log!Period(now) = g.startOfPeriod
       \/ h = z /\ Log!Period(now) = g.startOfPeriod
  BY <1>18
<1> QED
  BY <1>19, <1>20, <1>21, <1>23, <1>24, <1>25

-----------------------------------------------------------------------------
(* The logging.                                                            *)

NoFile == [files |-> <<>>, count |-> 0]
AllFlushed(f) == \A i \in 1 .. Len(f.files) : f.files[i].flushed = Len(f.files[i].lines)

LogType ==
    /\ lines \in Seq(Line) /\ gone \in SUBSET (1 .. Len(lines)) /\ clock \in Nat \ {0}
    /\ current \in Seq(Line) /\ buffers \in Seq(Seq(Line)) /\ toWrite \in Seq(Seq(Line))
    /\ writing \in 0 .. Len(toWrite)
    /\ back \in {"none", "start", "test", "swap", "write", "exit"}
    /\ user = "new" => back = "none"

(* A buffer that is not there has been filled or is about to be written,   *)
(* so that it comes back in time.                                          *)
BuffersCome ==
    /\ next \in {Log!NULL, Log!Empty} /\ (next = Log!NULL => buffers # <<>>)
    /\ back # "write" => toWrite = <<>> /\ writing = 0
    /\ back \in {"test", "swap"} => new1 = Log!Empty /\ new2 = Log!Empty
    /\ back = "write" =>
          /\ new1 = Log!NULL /\ new2 \in {Log!NULL, Log!Empty} /\ Len(toWrite) >= 1
          /\ new2 = Log!NULL => Len(toWrite) >= 2

FilesKept ==
    /\ back \in {"none", "start"} => output = NoFile
    /\ back \in {"test", "swap", "write", "exit"} => Opened(output, clock) /\ Watched(output)
    /\ back \in {"test", "swap", "exit"} => AllFlushed(output)

LogInv == LogType /\ BuffersCome /\ FilesKept /\ Kept(Log!OnTheWay, lines, gone)

(* There are no lines before the first file.                               *)
LEMMA NoLines == Log!LinesOf(NoFile) = <<>>
<1>1. PICK e : e = NoFile.files /\ e = <<>> /\ Len(e) = 0
  BY DEF NoFile
<1>2. [i \in 1 .. Len(e) |-> e[i].lines] = <<>>
  BY <1>1
<1> QED
  BY <1>1, <1>2, FlatEmpty DEF Log!LinesOf

(* The parts of the way.                                                   *)
LEMMA WayParts ==
    ASSUME LogInv
    PROVE  /\ Log!LinesOf(output) \in Seq(Line)
           /\ SubSeq(toWrite, writing + 1, Len(toWrite)) \in Seq(Seq(Line))
           /\ Log!FlattenSeq(SubSeq(toWrite, writing + 1, Len(toWrite))) \in Seq(Line)
           /\ Log!FlattenSeq(buffers) \in Seq(Line) /\ current \in Seq(Line)
           /\ Log!OnTheWay \in Seq(Line)
<1>1. Log!LinesOf(output) \in Seq(Line)
  <2>1. CASE back \in {"none", "start"}
    BY <2>1, NoLines, EmptySeq DEF LogInv, FilesKept
  <2>2. CASE back \in {"test", "swap", "write", "exit"}
    BY <2>2, LinesOfType DEF LogInv, FilesKept, Opened
  <2> QED
    BY <2>1, <2>2 DEF LogInv, LogType
<1>2. toWrite \in Seq(Seq(Line)) /\ writing \in 0 .. Len(toWrite) /\ buffers \in Seq(Seq(Line))
      /\ current \in Seq(Line)
  BY DEF LogInv, LogType
<1>3. SubSeq(toWrite, writing + 1, Len(toWrite)) \in Seq(Seq(Line))
  BY <1>2
<1>4. /\ Log!FlattenSeq(SubSeq(toWrite, writing + 1, Len(toWrite))) \in Seq(Line)
      /\ Log!FlattenSeq(buffers) \in Seq(Line)
  BY <1>2, <1>3, FlatAppend
<1>5. Log!OnTheWay \in Seq(Line)
  <2>1. PICK a \in Seq(Line), b \in Seq(Line), c \in Seq(Line), d \in Seq(Line) :
           /\ a = Log!LinesOf(output) /\ c = Log!FlattenSeq(buffers) /\ d = current
           /\ b = Log!FlattenSeq(SubSeq(toWrite, writing + 1, Len(toWrite)))
    BY <1>1, <1>2, <1>4
  <2>2. a \o b \in Seq(Line)
    OBVIOUS
  <2>3. (a \o b) \o c \in Seq(Line)
    BY <2>2
  <2>4. ((a \o b) \o c) \o d \in Seq(Line)
    BY <2>3
  <2> QED
    BY <2>1, <2>4 DEF Log!OnTheWay
<1> QED
  BY <1>1, <1>2, <1>3, <1>4, <1>5

(* The logger starts with nothing logged.                                  *)
LEMMA LogInit == ASSUME Log!Init PROVE LogInv
<1>1. LogType
  <2>1. <<>> \in Seq(Line) /\ <<>> \in Seq(Seq(Line)) /\ Len(<<>>) = 0 /\ {} \in SUBSET (1 .. 0)
    BY EmptySeq
  <2> QED
    BY <2>1 DEF Log!Init, LogType
<1>2. BuffersCome /\ FilesKept
  BY DEF Log!Init, BuffersCome, FilesKept, NoFile, Log!NULL, Log!Empty
<1>3. Kept(Log!OnTheWay, lines, gone)
  <2>1. SubSeq(toWrite, writing + 1, Len(toWrite)) = <<>> /\ output = NoFile
    BY DEF Log!Init, NoFile
  <2>2. Log!OnTheWay = ((<<>> \o <<>>) \o <<>>) \o <<>>
    BY <2>1, NoLines, FlatEmpty DEF Log!Init, Log!OnTheWay
  <2>3. ((<<>> \o <<>>) \o <<>>) \o <<>> = <<>>
    OBVIOUS
  <2>4. Kept(<<>>, <<>>, {})
    BY DEF Kept, Log!Ids
  <2> QED
    BY <2>2, <2>3, <2>4 DEF Log!Init
<1> QED
  BY <1>1, <1>2, <1>3 DEF LogInv

(* A step that leaves buffers, file and clock alone.                       *)
LEMMA LogQuiet ==
    ASSUME LogInv, UNCHANGED <<current, next, buffers, new1, new2, toWrite, writing, output, back,
                               clock, lines, gone>>,
           user' = "new" => user = "new"
    PROVE  LogInv'
<1>1. LogType'
  BY DEF LogInv, LogType
<1>2. BuffersCome'
  BY DEF LogInv, BuffersCome, Log!NULL, Log!Empty
<1>3. FilesKept'
  BY DEF LogInv, FilesKept
<1>4. Log!OnTheWay' = Log!OnTheWay
  BY DEF Log!OnTheWay
<1> QED
  BY <1>1, <1>2, <1>3, <1>4 DEF LogInv

(* start().                                                                *)
LEMMA StartKeeps == ASSUME LogInv, Log!StartLogging PROVE LogInv'
<1> USE DEF Log!StartLogging, Log!frontVars
<1>1. back = "none"
  BY DEF LogInv, LogType
<1>2. LogType'
  BY <1>1 DEF LogInv, LogType
<1>3. BuffersCome'
  BY <1>1 DEF LogInv, BuffersCome, Log!NULL, Log!Empty
<1>4. FilesKept'
  BY <1>1 DEF LogInv, FilesKept
<1>5. Log!OnTheWay' = Log!OnTheWay
  BY DEF Log!OnTheWay
<1> QED
  BY <1>2, <1>3, <1>4, <1>5 DEF LogInv

(* The clock.                                                              *)
LEMMA SecondKeeps == ASSUME LogInv, Log!Second PROVE LogInv'
<1> USE DEF Log!Second, Log!frontVars, Log!backVars, Log!ownerVars
<1>1. clock \in Nat \ {0} /\ clock' = clock + 1 /\ clock' \in Nat \ {0}
  BY DEF LogInv, LogType
<1>2. LogType'
  BY <1>1 DEF LogInv, LogType
<1>3. BuffersCome'
  BY DEF LogInv, BuffersCome, Log!NULL, Log!Empty
<1>4. FilesKept'
  <2>1. Opened(output, clock) => Opened(output, clock + 1)
    BY <1>1, TimePasses
  <2> QED
    BY <1>1, <2>1 DEF LogInv, FilesKept
<1>5. Log!OnTheWay' = Log!OnTheWay
  BY DEF Log!OnTheWay
<1> QED
  BY <1>2, <1>3, <1>4, <1>5 DEF LogInv

(* threadFunc() opens its LogFile.                                         *)
LEMMA BeginsKeeps == ASSUME LogInv, Log!Begins PROVE LogInv'
<1> USE DEF Log!Begins, Log!frontVars
<1>1. LogType'
  BY DEF LogInv, LogType
<1>2. BuffersCome'
  BY DEF LogInv, BuffersCome, Log!NULL, Log!Empty
<1>3. Opened(output', clock) /\ Watched(output') /\ Log!LinesOf(output') = <<>> /\ AllFlushed(output')
  <2>1. clock \in Nat \ {0} /\ output' = Log!NewLogFile(clock)
    BY DEF LogInv, LogType
  <2> QED
    BY <2>1, NewWell DEF AllFlushed
<1>4. FilesKept'
  BY <1>3 DEF FilesKept
<1>5. Log!OnTheWay' = Log!OnTheWay
  <2>1. Log!LinesOf(output) = <<>>
    BY NoLines DEF LogInv, FilesKept
  <2> QED
    BY <1>3, <2>1 DEF Log!OnTheWay
<1> QED
  BY <1>1, <1>2, <1>4, <1>5 DEF LogInv

(* A flush at the test or at the end of a round.                           *)
LEMMA FlushWell ==
    ASSUME NEW f, NEW now, Opened(f, now), Watched(f)
    PROVE  LET h == Log!Flush(f) IN
           Opened(h, now) /\ Watched(h) /\ AllFlushed(h) /\ Log!LinesOf(h) = Log!LinesOf(f)
<1>1. PICK h : h = Log!Flush(f)
  OBVIOUS
<1>2. /\ Opened(h, now) /\ Len(h.files) = Len(f.files) /\ Log!LinesOf(h) = Log!LinesOf(f)
      /\ \A i \in 1 .. Len(h.files) : h.files[i].flushed = Len(h.files[i].lines)
      /\ h.count = f.count /\ h.files[Len(f.files)].late = f.files[Len(f.files)].late
  BY <1>1, FlushKeeps
<1>3. Watched(h)
  BY <1>2 DEF Watched
<1> QED
  BY <1>1, <1>2, <1>3 DEF AllFlushed

(* The test of running_.                                                   *)
LEMMA TestKeeps == ASSUME LogInv, Log!TestsRunning PROVE LogInv'
<1> USE DEF Log!TestsRunning, Log!frontVars, Log!ownerVars
<1>1. LogType'
  BY DEF LogInv, LogType
<1>2. BuffersCome'
  BY DEF LogInv, BuffersCome, Log!NULL, Log!Empty
<1>3. /\ Opened(output', clock) /\ Watched(output') /\ AllFlushed(output')
      /\ Log!LinesOf(output') = Log!LinesOf(output)
  <2>1. Opened(output, clock) /\ Watched(output) /\ AllFlushed(output)
    BY DEF LogInv, FilesKept
  <2>2. output' = output \/ output' = Log!Flush(output)
    OBVIOUS
  <2> QED
    BY <2>1, <2>2, FlushWell
<1>4. FilesKept'
  BY <1>3 DEF FilesKept
<1>5. Log!OnTheWay' = Log!OnTheWay
  BY <1>3 DEF Log!OnTheWay
<1> QED
  BY <1>1, <1>2, <1>4, <1>5 DEF LogInv

(* The buffers are kept for the next round, and the file is flushed.       *)
LEMMA RecyclesKeeps == ASSUME LogInv, Log!Recycles PROVE LogInv'
<1> USE DEF Log!Recycles, Log!frontVars, Log!ownerVars
<1>1. LogType'
  <2>1. <<>> \in Seq(Seq(Line)) /\ 0 \in 0 .. Len(<<>>)
    BY EmptySeq
  <2> QED
    BY <2>1 DEF LogInv, LogType
<1>2. BuffersCome'
  <2>1. new1 = Log!NULL /\ new2 \in {Log!NULL, Log!Empty} /\ (new2 = Log!NULL => Len(toWrite) >= 2)
    BY DEF LogInv, BuffersCome
  <2>2. new1' = Log!Empty
    BY <2>1 DEF Log!Reset
  <2>3. new2' = Log!Empty
    <3>1. CASE new2 # Log!NULL
      BY <2>1, <3>1
    <3>2. CASE new2 = Log!NULL
      <4>1. PICK left : left = IF Len(toWrite) > 2 THEN SubSeq(toWrite, 1, 2) ELSE toWrite
        OBVIOUS
      <4>2. left \in Seq(Seq(Line)) /\ Len(left) = 2
        <5>1. toWrite \in Seq(Seq(Line)) /\ Len(toWrite) \in Nat
          BY DEF LogInv, LogType
        <5>2. CASE Len(toWrite) > 2
          BY <4>1, <5>1, <5>2
        <5>3. CASE ~ Len(toWrite) > 2
          BY <2>1, <3>2, <4>1, <5>1, <5>3
        <5> QED
          BY <5>2, <5>3
      <4>3. Len(Log!Front(left)) = 1
        BY <4>2 DEF Log!Front
      <4>4. Log!Front(left) # <<>>
        BY <4>3
      <4>5. new2' = Log!Reset(Log!Last(Log!Front(left)))
        BY <2>1, <3>2, <4>1, <4>4
      <4> QED
        BY <4>5 DEF Log!Reset
    <3> QED
      BY <3>1, <3>2
  <2> QED
    BY <2>2, <2>3 DEF LogInv, BuffersCome, Log!NULL, Log!Empty
<1>3. /\ Opened(output', clock) /\ Watched(output') /\ AllFlushed(output')
      /\ Log!LinesOf(output') = Log!LinesOf(output)
  <2>1. Opened(output, clock) /\ Watched(output) /\ output' = Log!Flush(output)
    BY DEF LogInv, FilesKept, Log!RoundFlush
  <2> QED
    BY <2>1, FlushWell
<1>4. FilesKept'
  BY <1>3 DEF FilesKept
<1>5. Log!OnTheWay' = Log!OnTheWay
  <2>1. toWrite \in Seq(Seq(Line)) /\ writing = Len(toWrite)
    BY DEF LogInv, LogType
  <2>2. SubSeq(toWrite, writing + 1, Len(toWrite)) = <<>>
    BY <2>1
  <2>3. SubSeq(toWrite', writing' + 1, Len(toWrite')) = <<>>
    OBVIOUS
  <2> QED
    BY <1>3, <2>2, <2>3 DEF Log!OnTheWay
<1> QED
  BY <1>1, <1>2, <1>4, <1>5 DEF LogInv

(* Under the lock the full buffers and the current one change hands.       *)
LEMMA SwapsKeeps == ASSUME LogInv, Log!Swaps PROVE LogInv'
<1> USE DEF Log!Swaps, Log!frontVars, Log!ownerVars
<1>1. CASE Log!SwapWaits
  BY <1>1, LogQuiet
<1>2. CASE ~ Log!SwapWaits
  <2>1. /\ toWrite' = Append(buffers, current) /\ buffers' = <<>> /\ back' = "write"
        /\ current' = <<>> /\ new1' = Log!NULL /\ writing' = 0
    BY <1>2 DEF LogInv, BuffersCome, Log!Empty, Log!Collected
  <2>2. buffers \in Seq(Seq(Line)) /\ current \in Seq(Line) /\ <<>> \in Seq(Line) /\ <<>> \in Seq(Seq(Line))
    BY EmptySeq DEF LogInv, LogType
  <2>3. toWrite' \in Seq(Seq(Line)) /\ Len(toWrite') = Len(buffers) + 1
    BY <2>1, <2>2, AppendProperties
  <2>4. LogType'
    <3>1. 0 \in 0 .. Len(toWrite')
      BY <2>2, <2>3
    <3> QED
      BY <2>1, <2>2, <2>3, <3>1 DEF LogInv, LogType
  <2>5. BuffersCome'
    <3>1. next' = Log!Empty /\ new2' \in {Log!NULL, Log!Empty} /\ (new2' = Log!NULL => buffers # <<>>)
      BY <1>2 DEF LogInv, BuffersCome, Log!NULL, Log!Empty
    <3>2. Len(toWrite') >= 1 /\ (buffers # <<>> => Len(toWrite') >= 2)
      BY <2>2, <2>3, EmptySeq
    <3> QED
      BY <2>1, <3>1, <3>2 DEF BuffersCome, Log!NULL, Log!Empty
  <2>6. FilesKept'
    BY <2>1 DEF LogInv, FilesKept
  <2>7. Log!OnTheWay' = Log!OnTheWay
    <3>1. PICK a \in Seq(Line), c \in Seq(Line) :
             /\ a = Log!LinesOf(output) /\ c = Log!FlattenSeq(buffers)
      BY WayParts
    <3>2. SubSeq(toWrite, writing + 1, Len(toWrite)) = <<>>
      BY DEF LogInv, BuffersCome
    <3>3. Log!OnTheWay = ((a \o <<>>) \o c) \o current
      BY <3>1, <3>2, FlatEmpty DEF Log!OnTheWay
    <3>4. SubSeq(toWrite', writing' + 1, Len(toWrite')) = toWrite'
      <4>1. writing' + 1 = 1
        BY <2>1
      <4> QED
        BY <2>3, <4>1, SubSeqFull
    <3>5. Log!FlattenSeq(toWrite') = c \o current
      BY <2>1, <2>2, <3>1, FlatAppend
    <3>6. Log!OnTheWay' = ((a \o (c \o current)) \o <<>>) \o <<>>
      BY <2>1, <3>1, <3>4, <3>5, FlatEmpty DEF Log!OnTheWay
    <3>7. c \o current \in Seq(Line)
      BY <2>2
    <3>8. a \o (c \o current) \in Seq(Line)
      BY <3>7
    <3>9. ((a \o (c \o current)) \o <<>>) \o <<>> = a \o (c \o current)
      BY <3>8
    <3>10. a \o (c \o current) = ((a \o <<>>) \o c) \o current
      BY <2>2, LinesAssociative, SMTT(40)
    <3> QED
      BY <3>3, <3>6, <3>9, <3>10
  <2> QED
    BY <2>4, <2>5, <2>6, <2>7 DEF LogInv
<1> QED
  BY <1>1, <1>2

(* append(), in any thread.                                                *)
LEMMA AppendLineKeeps == ASSUME LogInv, NEW len \in LineLengths, Log!AppendLine(len) PROVE LogInv'
<1> USE DEF Log!AppendLine, Log!backVars, Log!ownerVars
<1>1. PICK e : e = [id |-> Len(lines) + 1, len |-> len]
  OBVIOUS
<1>2. lines \in Seq(Line) /\ gone \in SUBSET (1 .. Len(lines)) /\ buffers \in Seq(Seq(Line))
      /\ current \in Seq(Line) /\ <<>> \in Seq(Line)
  BY EmptySeq DEF LogInv, LogType
<1>3. e \in Line /\ e.id = Len(lines) + 1
  BY <1>1, <1>2 DEF Line
<1>4. lines' = Append(lines, e) /\ lines' \in Seq(Line) /\ Len(lines') = Len(lines) + 1
  <2>1. lines' = Append(lines, e)
    BY <1>1
  <2> QED
    BY <1>2, <1>3, <2>1, AppendProperties
<1>5. /\ Kept(Append(Log!OnTheWay, e), lines', gone)
      /\ Kept(Log!OnTheWay, lines', gone \union {e.id})
  <2>1. PICK w \in Seq(Line), ls \in Seq(Line), g \in {gone} :
           w = Log!OnTheWay /\ ls = lines /\ g = gone /\ g \in SUBSET (1 .. Len(ls))
    BY <1>2, WayParts
  <2>2. Kept(w, ls, g)
    BY <2>1 DEF LogInv
  <2>3. Kept(Append(w, e), Append(ls, e), g) /\ Kept(w, Append(ls, e), g \union {e.id})
    BY <1>3, <2>1, <2>2, AddOn
  <2> QED
    BY <1>4, <2>1, <2>3
<1>6. gone \in SUBSET (1 .. Len(lines')) /\ gone \union {e.id} \in SUBSET (1 .. Len(lines'))
  <2>1. PICK k \in Nat : k = Len(lines) /\ k + 1 = Len(lines') /\ e.id = k + 1
    BY <1>2, <1>3, <1>4
  <2>2. gone \subseteq 1 .. k
    BY <1>2, <2>1
  <2>3. 1 .. k \subseteq 1 .. k + 1 /\ k + 1 \in 1 .. k + 1
    OBVIOUS
  <2> QED
    BY <2>1, <2>2, <2>3
<1>7. <<e>> \in Seq(Line) /\ Append(current, e) \in Seq(Line) /\ Append(current, e) = current \o <<e>>
  BY <1>2, <1>3, AppendProperties
<1>8. PICK a \in Seq(Line), b \in Seq(Line), c \in Seq(Line), d \in Seq(Line) :
         /\ a = Log!LinesOf(output) /\ c = Log!FlattenSeq(buffers) /\ d = current
         /\ b = Log!FlattenSeq(SubSeq(toWrite, writing + 1, Len(toWrite)))
  BY WayParts
<1>9. PICK ab \in Seq(Line), abc \in Seq(Line) :
         ab = a \o b /\ abc = ab \o c /\ Log!OnTheWay = abc \o d
  <2>1. a \o b \in Seq(Line)
    OBVIOUS
  <2>2. (a \o b) \o c \in Seq(Line)
    BY <2>1
  <2> QED
    BY <1>8, <2>1, <2>2 DEF Log!OnTheWay
<1>10. CASE Log!Fits(current, e)
  <2>1. current' = Append(current, e) /\ UNCHANGED <<next, buffers, gone>>
    BY <1>1, <1>10
  <2>2. LogType'
    BY <1>4, <1>6, <1>7, <2>1 DEF LogInv, LogType
  <2>3. BuffersCome'
    BY <2>1 DEF LogInv, BuffersCome, Log!NULL, Log!Empty
  <2>4. FilesKept'
    BY DEF LogInv, FilesKept
  <2>5. Log!OnTheWay' = abc \o (d \o <<e>>)
    BY <1>7, <1>8, <1>9, <2>1 DEF Log!OnTheWay
  <2>6. abc \o (d \o <<e>>) = (abc \o d) \o <<e>>
    BY <1>7, LinesAssociative, ZenonT(60)
  <2>7. Log!OnTheWay' = Append(Log!OnTheWay, e)
    <3>1. Append(Log!OnTheWay, e) = Log!OnTheWay \o <<e>>
      BY <1>3, WayParts, AppendIsConcat
    <3> QED
      BY <1>9, <2>5, <2>6, <3>1
  <2> QED
    BY <1>5, <2>1, <2>2, <2>3, <2>4, <2>7 DEF LogInv
<1>11. CASE ~ Log!Fits(current, e)
  <2>1. PICK r \in Seq(Line), g \in {gone, gone \union {e.id}} :
           /\ r = (IF Log!Fits(<<>>, e) THEN <<e>> ELSE <<>>)
           /\ g = (IF Log!Fits(<<>>, e) THEN gone ELSE gone \union {e.id})
    BY <1>2, <1>7
  <2>2. buffers' = Append(buffers, current) /\ next' = Log!NULL /\ current' = r /\ gone' = g
    BY <1>1, <1>11, <2>1
  <2>3. buffers' \in Seq(Seq(Line)) /\ buffers' # <<>>
    <3>1. Append(buffers, current) \in Seq(Seq(Line)) /\ Append(buffers, current) # <<>>
      <4>1. PICK bs \in Seq(Seq(Line)) : bs = buffers
        BY <1>2
      <4>2. Append(bs, d) \in Seq(Seq(Line)) /\ Append(bs, d) # <<>>
        <5>1. PICK k \in Nat : k = Len(bs)
          OBVIOUS
        <5>2. Append(bs, d) \in Seq(Seq(Line)) /\ Len(Append(bs, d)) = k + 1
          BY <5>1
        <5>3. Len(<<>>) = 0 /\ k + 1 # 0
          OBVIOUS
        <5> QED
          BY <5>2, <5>3
      <4> QED
        BY <1>8, <4>1, <4>2
    <3> QED
      BY <2>2, <3>1
  <2>4. LogType'
    BY <1>4, <1>6, <2>1, <2>2, <2>3 DEF LogInv, LogType
  <2>5. BuffersCome'
    BY <2>2, <2>3 DEF LogInv, BuffersCome, Log!NULL, Log!Empty
  <2>6. FilesKept'
    BY DEF LogInv, FilesKept
  <2>7. Log!OnTheWay' = Log!OnTheWay \o r
    <3>1. Log!FlattenSeq(buffers') = c \o d
      BY <1>2, <1>8, <2>2, FlatAppend
    <3>2. Log!OnTheWay' = (ab \o (c \o d)) \o r
      BY <1>8, <1>9, <2>2, <3>1 DEF Log!OnTheWay
    <3>3. (ab \o c) \o d = ab \o (c \o d)
      BY LinesAssociative, ZenonT(60)
    <3> QED
      BY <1>9, <3>2, <3>3
  <2>8. Kept(Log!OnTheWay \o r, lines', g)
    <3>1. CASE Log!Fits(<<>>, e)
      <4>1. Append(Log!OnTheWay, e) = Log!OnTheWay \o <<e>>
        BY <1>3, WayParts, AppendIsConcat
      <4> QED
        BY <1>5, <2>1, <3>1, <4>1
    <3>2. CASE ~ Log!Fits(<<>>, e)
      <4>1. Log!OnTheWay \o <<>> = Log!OnTheWay
        BY WayParts, ConcatEmptySeq
      <4> QED
        BY <1>5, <2>1, <3>2, <4>1
    <3> QED
      BY <3>1, <3>2
  <2> QED
    BY <2>2, <2>4, <2>5, <2>6, <2>7, <2>8 DEF LogInv
<1> QED
  BY <1>10, <1>11

(* Lines one behind the other, however they are put together.              *)
Cat(a, b) == a \o b

(* Joining lines.                                                          *)
LEMMA CatFacts ==
    /\ \A x1, x2 \in Seq(Line) : Cat(x1, x2) \in Seq(Line)
    /\ \A x1, x2, x3 \in Seq(Line) : Cat(Cat(x1, x2), x3) = Cat(x1, Cat(x2, x3))
  BY LinesAssociative, SMTT(40) DEF Cat

(* The groupings in which the lines on their way are read.                 *)
LEMMA Regroup ==
    ASSUME NEW a \in Seq(Line), NEW b \in Seq(Line), NEW r \in Seq(Line), NEW c \in Seq(Line),
           NEW d \in Seq(Line)
    PROVE  /\ Cat(Cat(Cat(a, Cat(b, r)), c), d) = Cat(Cat(a, b), Cat(r, Cat(c, d)))
           /\ Cat(Cat(Cat(a, b), c), d) = Cat(Cat(a, b), Cat(c, d))
           /\ Cat(Cat(Cat(a, Cat(b, r)), c), d) = Cat(a, Cat(b, Cat(r, Cat(c, d))))
           /\ Cat(Cat(Cat(a, b), c), d) = Cat(a, Cat(b, Cat(c, d)))
           /\ Cat(Cat(a, b), Cat(r, Cat(c, d))) = Cat(a, Cat(b, Cat(r, Cat(c, d))))
<1>1. PICK ab \in Seq(Line), br \in Seq(Line), cd \in Seq(Line) :
         ab = Cat(a, b) /\ br = Cat(b, r) /\ cd = Cat(c, d)
  BY CatFacts
<1>2. PICK abr \in Seq(Line), rcd \in Seq(Line) : abr = Cat(ab, r) /\ rcd = Cat(r, cd)
  BY CatFacts
<1>3. Cat(a, br) = abr /\ Cat(Cat(abr, c), d) = Cat(abr, cd) /\ Cat(abr, cd) = Cat(ab, rcd)
  BY <1>1, <1>2, CatFacts
<1>4. Cat(Cat(ab, c), d) = Cat(ab, cd) /\ Cat(ab, cd) = Cat(a, Cat(b, cd))
  BY <1>1, CatFacts
<1>5. Cat(ab, rcd) = Cat(a, Cat(b, rcd))
  BY <1>1, CatFacts
<1> QED
  BY <1>1, <1>2, <1>3, <1>4, <1>5

(* More than 25 buffers: all but two are thrown away, and a line says so.  *)
LEMMA DropsKeeps == ASSUME LogInv, Log!Drops PROVE LogInv'
<1>0. /\ back = "write" /\ writing = 0 /\ Len(toWrite) > DropAbove
      /\ toWrite' = SubSeq(toWrite, 1, 2)
      /\ gone' = gone \union Log!Ids(Log!FlattenSeq(SubSeq(toWrite, 3, Len(toWrite))))
      /\ UNCHANGED <<current, next, buffers, new1, new2, writing, back, user, clock, lines>>
  BY DEF Log!Drops, Log!frontVars, Log!ownerVars
<1>1. PICK n \in Nat, tw \in Seq(Seq(Line)) : n = Len(toWrite) /\ tw = toWrite /\ n > 2 /\ writing = 0
  BY <1>0, LogAssumption DEF LogInv, LogType
<1>2. PICK two \in Seq(Seq(Line)), more \in Seq(Seq(Line)) :
         two = SubSeq(tw, 1, 2) /\ more = SubSeq(tw, 3, n) /\ Len(two) = 2 /\ two \o more = tw
  <2>1. SubSeq(tw, 1, 2) \in Seq(Seq(Line)) /\ Len(SubSeq(tw, 1, 2)) = 2
    BY <1>1
  <2>2. SubSeq(tw, 3, n) \in Seq(Seq(Line))
    BY <1>1
  <2>3. SubSeq(tw, 1, 2) \o SubSeq(tw, 2 + 1, n) = SubSeq(tw, 1, n)
    <3>1. 1 \in 1 .. Len(tw) + 1 /\ 2 \in 1 - 1 .. Len(tw) /\ n \in 2 .. Len(tw)
      BY <1>1
    <3> QED
      BY <3>1, ConcatAdjacentSubSeq
  <2>4. SubSeq(tw, 1, n) = tw /\ 2 + 1 = 3
    BY <1>1, SubSeqFull
  <2> QED
    BY <2>1, <2>2, <2>3, <2>4
<1>3. toWrite' = two /\ gone' = gone \union Log!Ids(Log!FlattenSeq(more)) /\ writing' = 0
  BY <1>0, <1>1, <1>2
<1>4. PICK a \in Seq(Line), b \in Seq(Line), r \in Seq(Line), c \in Seq(Line), d \in Seq(Line) :
         /\ a = Log!LinesOf(output) /\ c = Log!FlattenSeq(buffers) /\ d = current
         /\ b = Log!FlattenSeq(two) /\ r = Log!FlattenSeq(more)
  <2>1. Log!FlattenSeq(two) \in Seq(Line) /\ Log!FlattenSeq(more) \in Seq(Line)
    BY <1>2, EmptySeq, FlatAppend
  <2> QED
    BY <2>1, WayParts
<1>5. PICK x \in Seq(Line), y \in Seq(Line) :
         /\ x = a \o b /\ y = c \o d /\ Log!OnTheWay = x \o (r \o y)
         /\ ((a \o b) \o c) \o d = x \o y
  <2>1. PICK x \in Seq(Line), y \in Seq(Line) : x = a \o b /\ y = c \o d
    <3>1. a \o b \in Seq(Line) /\ c \o d \in Seq(Line)
      OBVIOUS
    <3> QED
      BY <3>1
  <2>2. SubSeq(toWrite, writing + 1, Len(toWrite)) = tw
    <3>1. writing + 1 = 1
      BY <1>1
    <3> QED
      BY <1>1, <3>1, SubSeqFull
  <2>3. Log!FlattenSeq(tw) = b \o r
    BY <1>2, <1>4, FlatConcat
  <2>4. Log!OnTheWay = ((a \o (b \o r)) \o c) \o d
    BY <1>4, <2>2, <2>3 DEF Log!OnTheWay
  <2>5. /\ ((a \o (b \o r)) \o c) \o d = (a \o b) \o (r \o (c \o d))
        /\ ((a \o b) \o c) \o d = (a \o b) \o (c \o d)
    <3>1. /\ Cat(Cat(Cat(a, Cat(b, r)), c), d) = Cat(Cat(a, b), Cat(r, Cat(c, d)))
          /\ Cat(Cat(Cat(a, b), c), d) = Cat(Cat(a, b), Cat(c, d))
      BY Regroup
    <3> QED
      BY <3>1 DEF Cat
  <2> QED
    BY <2>1, <2>4, <2>5
<1>6. Kept(x \o y, lines, gone \union Log!Ids(r)) /\ Log!Ids(r) \subseteq 1 .. Len(lines)
  <2>1. Kept(x \o (r \o y), lines, gone)
    BY <1>5 DEF LogInv
  <2> QED
    BY <2>1, CutOut
<1>7. Opened(output', clock') /\ Watched(output') /\ Log!LinesOf(output') = a
  <2>1. Opened(output, clock) /\ Watched(output) /\ clock \in Nat /\ clock' = clock
    BY <1>0 DEF LogInv, LogType, FilesKept
  <2>2. PICK e \in Seq(Line) : e = <<>> /\ output' = Log!append_unlocked(output, e, 1, TRUE, clock)
    BY EmptySeq DEF Log!Drops
  <2>3. AppendedWell(output', output, e, TRUE, clock)
    BY <2>1, <2>2, AppendWell
  <2>4. a \o <<>> = a
    OBVIOUS
  <2> QED
    BY <1>4, <2>1, <2>2, <2>3, <2>4 DEF AppendedWell
<1>8. LogType'
  <2>1. 0 \in 0 .. Len(two)
    BY <1>2
  <2>2. gone' \in SUBSET (1 .. Len(lines))
    BY <1>3, <1>4, <1>6 DEF LogInv, LogType
  <2> QED
    BY <1>0, <1>3, <2>1, <2>2 DEF LogInv, LogType
<1>9. BuffersCome'
  BY <1>0, <1>2, <1>3 DEF LogInv, BuffersCome, Log!NULL, Log!Empty
<1>10. FilesKept'
  BY <1>0, <1>7 DEF FilesKept
<1>11. Log!OnTheWay' = x \o y
  <2>1. SubSeq(toWrite', writing' + 1, Len(toWrite')) = two
    <3>1. writing' + 1 = 1
      BY <1>3
    <3> QED
      BY <1>3, <3>1, SubSeqFull
  <2>2. Log!OnTheWay' = ((a \o b) \o c) \o d
    BY <1>0, <1>4, <1>7, <2>1 DEF Log!OnTheWay
  <2> QED
    BY <1>5, <2>2
<1> QED
  BY <1>0, <1>3, <1>4, <1>6, <1>8, <1>9, <1>10, <1>11 DEF LogInv

(* One buffer is written to the file.                                      *)
LEMMA WritesKeeps == ASSUME LogInv, NEW ok \in BOOLEAN, Log!WritesBuffer(ok) PROVE LogInv'
<1>0. /\ back = "write" /\ writing < Len(toWrite) /\ writing' = writing + 1
      /\ output' = Log!append_unlocked(output, toWrite[writing + 1],
                                       Log!length(toWrite[writing + 1]), ok, clock)
      /\ gone' = IF ok THEN gone ELSE gone \union Log!Ids(toWrite[writing + 1])
      /\ UNCHANGED <<current, next, buffers, new1, new2, toWrite, back, user, clock, lines>>
  BY DEF Log!WritesBuffer, Log!frontVars, Log!ownerVars
<1>1. PICK n \in Nat, w \in Nat, tw \in Seq(Seq(Line)) :
         n = Len(tw) /\ tw = toWrite /\ w = writing /\ w + 1 \in 1 .. n
  BY <1>0 DEF LogInv, LogType
<1>2. PICK r \in Seq(Line), more \in Seq(Seq(Line)) :
         /\ r = tw[w + 1] /\ more = SubSeq(tw, w + 2, n)
         /\ SubSeq(tw, w + 1, n) = <<r>> \o more
  <2>1. tw[w + 1] \in Seq(Line) /\ SubSeq(tw, w + 2, n) \in Seq(Seq(Line)) /\ (w + 1) + 1 = w + 2
    BY <1>1
  <2>2. SubSeq(tw, w + 1, n) = <<tw[w + 1]>> \o SubSeq(tw, (w + 1) + 1, n)
    <3>1. n \in w + 1 .. Len(tw) /\ w + 1 \in 1 .. Len(tw)
      BY <1>1
    <3> QED
      BY <3>1, SubSeqRecursiveFirst
  <2> QED
    BY <2>1, <2>2
<1>3. PICK a \in Seq(Line), b \in Seq(Line), c \in Seq(Line), d \in Seq(Line) :
         /\ a = Log!LinesOf(output) /\ c = Log!FlattenSeq(buffers) /\ d = current
         /\ b = Log!FlattenSeq(more)
  <2>1. Log!FlattenSeq(more) \in Seq(Line)
    BY <1>2, EmptySeq, FlatAppend
  <2> QED
    BY <2>1, WayParts
<1>4. PICK y \in Seq(Line) : y = b \o (c \o d)
  <2>1. c \o d \in Seq(Line)
    OBVIOUS
  <2>2. b \o (c \o d) \in Seq(Line)
    BY <2>1
  <2> QED
    BY <2>2
<1>5. Log!OnTheWay = a \o (r \o y) /\ (a \o r) \o y = a \o (r \o y)
  <2>1. Log!FlattenSeq(<<r>> \o more) = r \o b
    <3>1. <<r>> \in Seq(Seq(Line))
      OBVIOUS
    <3>2. Log!FlattenSeq(<<r>>) = r
      BY FlatOne
    <3> QED
      BY <1>3, <3>1, <3>2, FlatConcat
  <2>2. Log!OnTheWay = ((a \o (r \o b)) \o c) \o d
    BY <1>1, <1>2, <1>3, <2>1 DEF Log!OnTheWay
  <2>3. /\ ((a \o (r \o b)) \o c) \o d = a \o (r \o (b \o (c \o d)))
        /\ (a \o r) \o (b \o (c \o d)) = a \o (r \o (b \o (c \o d)))
    <3>1. /\ Cat(Cat(Cat(a, Cat(r, b)), c), d) = Cat(a, Cat(r, Cat(b, Cat(c, d))))
          /\ Cat(Cat(a, r), Cat(b, Cat(c, d))) = Cat(a, Cat(r, Cat(b, Cat(c, d))))
      BY Regroup
    <3> QED
      BY <3>1 DEF Cat
  <2> QED
    BY <1>4, <2>2, <2>3
<1>6. Kept(a \o y, lines, gone \union Log!Ids(r)) /\ Log!Ids(r) \subseteq 1 .. Len(lines)
  <2>1. Kept(a \o (r \o y), lines, gone)
    BY <1>5 DEF LogInv
  <2> QED
    BY <2>1, CutOut
<1>7. Opened(output', clock') /\ Watched(output') /\ Log!LinesOf(output') = IF ok THEN a \o r ELSE a
  <2>1. Opened(output, clock) /\ Watched(output) /\ clock \in Nat /\ clock' = clock
    BY <1>0 DEF LogInv, LogType, FilesKept
  <2>2. output' = Log!append_unlocked(output, r, Log!length(r), ok, clock)
    BY <1>0, <1>1, <1>2
  <2>3. AppendedWell(output', output, r, ok, clock)
    BY <2>1, <2>2, AppendWell
  <2> QED
    BY <1>3, <2>1, <2>3 DEF AppendedWell
<1>8. writing' = w + 1 /\ toWrite' = tw /\ gone' = (IF ok THEN gone ELSE gone \union Log!Ids(r))
  BY <1>0, <1>1, <1>2
<1>9. LogType'
  <2>1. w + 1 \in 0 .. Len(tw)
    BY <1>1
  <2>2. gone' \in SUBSET (1 .. Len(lines))
    BY <1>6, <1>8 DEF LogInv, LogType
  <2> QED
    BY <1>0, <1>8, <2>1, <2>2 DEF LogInv, LogType
<1>10. BuffersCome'
  BY <1>0, <1>1, <1>8 DEF LogInv, BuffersCome, Log!NULL, Log!Empty
<1>11. FilesKept'
  BY <1>0, <1>7 DEF FilesKept
<1>12. Log!OnTheWay' = Log!LinesOf(output') \o y
  <2>1. SubSeq(toWrite', writing' + 1, Len(toWrite')) = more
    <3>1. (w + 1) + 1 = w + 2
      OBVIOUS
    <3> QED
      BY <1>1, <1>2, <1>8, <3>1
  <2>2. PICK z \in Seq(Line) : z = Log!LinesOf(output')
    <3>1. a \o r \in Seq(Line)
      OBVIOUS
    <3> QED
      BY <1>7, <3>1
  <2>3. Log!OnTheWay' = ((z \o b) \o c) \o d
    BY <1>0, <1>3, <2>1, <2>2 DEF Log!OnTheWay
  <2>4. ((z \o b) \o c) \o d = z \o (b \o (c \o d))
    <3>1. Cat(Cat(Cat(z, b), c), d) = Cat(z, Cat(b, Cat(c, d)))
      BY Regroup
    <3> QED
      BY <3>1 DEF Cat
  <2> QED
    BY <1>4, <2>2, <2>3, <2>4
<1>13. Kept(Log!OnTheWay', lines, gone')
  <2>1. CASE ok
    BY <1>5, <1>7, <1>8, <1>12, <2>1 DEF LogInv
  <2>2. CASE ~ ok
    BY <1>6, <1>7, <1>8, <1>12, <2>2
  <2> QED
    BY <2>1, <2>2
<1> QED
  BY <1>0, <1>9, <1>10, <1>11, <1>13 DEF LogInv

(* Every step of the logging keeps the invariant.                          *)
LEMMA LogStep == ASSUME LogInv, Log!Next PROVE LogInv'
<1>1. CASE Log!LatchWait \/ Log!StopNotifies \/ Log!StopJoins \/ Log!StopLogging
           \/ Log!TimesOut \/ Log!Wakes
  <2>1. UNCHANGED <<current, next, buffers, new1, new2, toWrite, writing, output, back, clock,
                    lines, gone>>
    BY <1>1 DEF Log!LatchWait, Log!StopNotifies, Log!StopJoins, Log!StopLogging, Log!TimesOut,
                Log!Wakes, Log!frontVars, Log!backVars, Log!ownerVars
  <2>2. user' = "new" => user = "new"
    BY <1>1 DEF Log!LatchWait, Log!StopNotifies, Log!StopJoins, Log!StopLogging, Log!TimesOut,
                Log!Wakes, Log!ownerVars
  <2> QED
    BY <2>1, <2>2, LogQuiet
<1>2. CASE Log!StartLogging \/ Log!Second
  BY <1>2, StartKeeps, SecondKeeps
<1>3. CASE Log!BackStep
  BY <1>3, BeginsKeeps, TestKeeps, SwapsKeeps, DropsKeeps, RecyclesKeeps, WritesKeeps
     DEF Log!BackStep
<1>4. ASSUME NEW len \in LineLengths, Log!AppendLine(len) PROVE LogInv'
  BY <1>4, AppendLineKeeps
<1> QED
  BY <1>1, <1>2, <1>3, <1>4 DEF Log!Next, Log!UserStep

(* The invariant says what is promised about the logging.                  *)
LEMMA LogPromises == ASSUME LogInv PROVE LogKept
<1>1. Log!LinesInOrder
  BY DEF LogInv, Kept, Log!LinesInOrder
<1>2. Log!BuffersReady
  BY DEF LogInv, BuffersCome, Log!BuffersReady
<1>3. Log!Flushed
  BY DEF LogInv, FilesKept, AllFlushed, Log!Flushed
<1>4. Log!FilesRolled
  <2>1. CASE back \in {"none", "start"}
    <3>1. output = NoFile /\ NoFile.files = <<>> /\ Len(NoFile.files) = 0
      BY <2>1 DEF LogInv, FilesKept, NoFile
    <3> QED
      BY <3>1 DEF Log!FilesRolled, Log!DistinctFiles, Log!RolledInTime
  <2>2. CASE back \in {"test", "swap", "write", "exit"}
    <3>1. Opened(output, clock)
      BY <2>2 DEF LogInv, FilesKept
    <3>2. \A i \in 1 .. Len(output.files) : output.files[i].late \in 0 .. checkEveryN
      BY <3>1 DEF Opened, Files, IsFile
    <3> QED
      BY <3>1, <3>2, LogAssumption DEF Opened, Log!FilesRolled, Log!RolledInTime
  <2> QED
    BY <2>1, <2>2 DEF LogInv, LogType
<1> QED
  BY <1>1, <1>2, <1>3, <1>4 DEF LogKept, Log!LogKept

(* Whatever the sizes of the buffers and of the files, the number of lines *)
(* and the interleaving of append() with the background thread: every line *)
(* is written once, in order, or given up for one of the three reasons,    *)
(* the writer always finds two clean buffers, it has flushed before it     *)
(* waits or ends, and no file is opened twice or kept past its period.     *)
THEOREM LogSafe == Spec => []LogKept
<1>1. Init => LogInv
  BY LogInit DEF Init
<1>2. LogInv /\ [Next]_vars => LogInv'
  <2> SUFFICES ASSUME LogInv, [Next]_vars PROVE LogInv'
    OBVIOUS
  <2>1. CASE Log!Next
    BY <2>1, LogStep
  <2>2. CASE UNCHANGED logVars
    <3>1. UNCHANGED <<current, next, buffers, new1, new2, toWrite, writing, output, back, clock,
                      lines, gone, user>>
      BY <2>2 DEF logVars
    <3> QED
      BY <3>1, LogQuiet
  <2> QED
    BY <2>1, <2>2 DEF Next, vars
<1>3. LogInv => LogKept
  BY LogPromises
<1> QED
  BY <1>1, <1>2, <1>3, PTL DEF Spec
=============================================================================
