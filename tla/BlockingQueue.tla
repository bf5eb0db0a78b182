--------------------------- MODULE BlockingQueue ----------------------------
(***************************************************************************)
(* BlockingQueue (Capacity = 0: it never fills) and BoundedBlockingQueue.  *)
(* Producers put() and consumers take(), over and over.                    *)
(***************************************************************************)
EXTENDS Naturals, Sequences, FiniteSets, FiniteSetsExt, Condition

CONSTANTS Producers, Consumers,
          Capacity,     \* maxSize
          MaxPuts       \* bound: items

VARIABLES items,        \* queue_
          at,           \* where each thread is, see Condition
          puts, taken   \* history: items put, and items taken

queueVars == <<items, at, puts, taken>>

full == Capacity > 0 /\ Len(items) >= Capacity

(* A full boost::circular_buffer forgets its front for a new item.         *)
push_back(x) == Append(IF Capacity > 0 /\ Len(items) = Capacity THEN Tail(items) ELSE items, x)

Init == /\ items = <<>> /\ puts = 0 /\ taken = {}
        /\ at = [t \in Producers \union Consumers |-> "out"]

(* put(): waits while the queue is full.                                   *)
Put(p) ==
    /\ at[p] \in {"out", "awake"} /\ puts < MaxPuts
    /\ IF full THEN at' = wait(at, p, "notFull") /\ UNCHANGED <<items, puts>>
       ELSE /\ puts' = puts + 1 /\ items' = push_back(puts')
            /\ at' \in notify(leave(at, p), "notEmpty")
    /\ UNCHANGED taken

(* Mutant: tells notFull only when the queue was full.                     *)
MutNotifyIfFull(w) == IF full THEN notify(w, "notFull") ELSE {w}

AfterTake(w) == IF Capacity > 0 THEN notify(w, "notFull") ELSE {w}

(* take(): waits while the queue is empty.                                 *)
Takes(c) == items # <<>>

Take(c) ==
    /\ at[c] \in {"out", "awake"}
    /\ IF Takes(c)
       THEN /\ taken' = taken \union {IF items = <<>> THEN 0 ELSE Head(items)}
            /\ items' = IF items = <<>> THEN items ELSE Tail(items)
            /\ at' \in AfterTake(leave(at, c))
       ELSE at' = wait(at, c, "notEmpty") /\ UNCHANGED <<items, taken>>
    /\ UNCHANGED puts

Wakes(t) == at' \in Spurious(at, t) /\ UNCHANGED <<items, puts, taken>>

Next == \/ \E p \in Producers : Put(p)
        \/ \E c \in Consumers : Take(c)
        \/ \E t \in DOMAIN at : Wakes(t)

Spec == Init /\ [][Next]_queueVars
-----------------------------------------------------------------------------
(* A put() wakes one consumer and a take() one producer.  That is enough:  *)
(* while consumers sleep, there is one awake for each item; while          *)
(* producers sleep, there is one awake for each free place (unless the     *)
(* bound keeps it from putting).                                           *)
EnoughAwake ==
    /\ Asleep(at, "notEmpty") # {} => Cardinality(Awake(at, Consumers)) >= Len(items)
    /\ Asleep(at, "notFull") # {} => Cardinality(Awake(at, Producers)) >= Capacity - Len(items)

(* What is taken has been put, and is not in the queue any more.           *)
TakenOnce == \A i \in taken : i \in 1 .. puts /\ ~ \E j \in 1 .. Len(items) : items[j] = i

(* A queue wakes whom it must and hands out every item once.               *)
QueueServes == EnoughAwake /\ TakenOnce

(* Time and again all that was put has been taken and no put() waits       *)
(* (unless the bound stops it), although woken threads may find that       *)
(* others have been faster.                                                *)
ItemsTaken == []<>(/\ taken = 1 .. puts
                   /\ Asleep(at, "notFull") = {} \/ puts = MaxPuts)
=============================================================================
