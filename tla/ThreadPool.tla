----------------------------- MODULE ThreadPool -----------------------------
(***************************************************************************)
(* ThreadPool: a bounded queue of tasks, worker threads, and an owner that *)
(* starts the pool and stops it while other threads hand it tasks.         *)
(***************************************************************************)
EXTENDS Naturals, Sequences, FiniteSets, FiniteSetsExt, Condition

CONSTANTS Workers,
          Clients,        \* threads that call run()
          maxQueueSize,   \* 0: no limit
          MaxTasks        \* bound: calls of run()

VARIABLES
    running,    \* running_
    tasks,      \* queue_
    threads,    \* threads_ started, in order
    joined,     \* how many of them stop() has joined
    owner,      \* where the owner is: "new", "starting", "up", "stopping", "down"
    doing,      \* what each worker is about to do: "none" (no thread yet), "test"
                \* running_, "take", "task", "exit"
    in,         \* where each thread is in the monitor, see Condition
    asked, done \* history: calls of run() accepted, and tasks run

poolVars == <<running, tasks, threads, joined, owner, doing, in, asked, done>>

isFull == maxQueueSize > 0 /\ Len(tasks) >= maxQueueSize

Init == /\ running = FALSE /\ tasks = <<>> /\ threads = <<>> /\ joined = 0 /\ owner = "new"
        /\ doing = [w \in Workers |-> "none"]
        /\ in = [t \in Workers \union Clients |-> "out"]
        /\ asked = 0 /\ done = {}

(* start(), one thread at a time; each runs at once.                       *)
Start == /\ owner = "new" /\ owner' = "starting" /\ running' = TRUE
         /\ UNCHANGED <<tasks, threads, joined, doing, in, asked, done>>

StartThread(w) ==
    /\ owner = "starting" /\ doing[w] = "none"
    /\ threads' = Append(threads, w) /\ doing' = [doing EXCEPT ![w] = "test"]
    /\ owner' = IF Len(threads') = Cardinality(Workers) THEN "up" ELSE owner
    /\ UNCHANGED <<running, tasks, joined, in, asked, done>>

StopWakes(w) == {notifyAll(w, "notEmpty")}

(* stop(): the critical section, then the joins in order.                  *)
Stop == /\ owner = "up" /\ owner' = "stopping"
        /\ running' = FALSE /\ in' \in StopWakes(in)
        /\ UNCHANGED <<tasks, threads, joined, doing, asked, done>>

Join == /\ owner = "stopping" /\ doing[threads[joined + 1]] = "exit"
        /\ joined' = joined + 1
        /\ owner' = IF joined' = Len(threads) THEN "down" ELSE owner
        /\ UNCHANGED <<running, tasks, threads, doing, in, asked, done>>

(* run() in the caller's thread, while the pool has no threads.            *)
RunInline == /\ threads = <<>> /\ owner = "new" /\ asked < MaxTasks
             /\ asked' = asked + 1 /\ done' = done \union {asked'}
             /\ UNCHANGED <<running, tasks, threads, joined, owner, doing, in>>

(* run(), also after stop().                                               *)
Run(c) ==
    /\ in[c] \in {"out", "awake"} /\ asked < MaxTasks /\ owner \in {"up", "stopping", "down"}
    /\ IF isFull THEN in' = wait(in, c, "notFull") /\ UNCHANGED <<tasks, asked>>
       ELSE /\ asked' = asked + 1 /\ tasks' = Append(tasks, asked')
            /\ in' \in notify(leave(in, c), "notEmpty")
    /\ UNCHANGED <<running, threads, joined, owner, doing, done>>

(* Mutant: the loop goes on until a task says otherwise.                   *)
MutLoops == TRUE

Loops == running

(* runInThread(): running_ is read without the mutex.                      *)
TestRunning(w) ==
    /\ doing[w] = "test"
    /\ doing' = [doing EXCEPT ![w] = IF Loops THEN "take" ELSE "exit"]
    /\ UNCHANGED <<running, tasks, threads, joined, owner, in, asked, done>>

TakeWaits == tasks = <<>> /\ running

(* take(); a stopped pool may hand out nothing.                            *)
Take(w) ==
    /\ doing[w] = "take" /\ in[w] \in {"out", "awake"}
    /\ IF TakeWaits
       THEN in' = wait(in, w, "notEmpty") /\ UNCHANGED <<tasks, doing>>
       ELSE IF tasks = <<>>
       THEN in' = leave(in, w) /\ doing' = [doing EXCEPT ![w] = "test"] /\ UNCHANGED tasks
       ELSE /\ doing' = [doing EXCEPT ![w] = "task"] /\ tasks' = Tail(tasks)
            /\ in' \in IF maxQueueSize > 0 THEN notify(leave(in, w), "notFull")
                       ELSE {leave(in, w)}
    /\ done' = IF TakeWaits \/ tasks = <<>> THEN done ELSE done \union {Head(tasks)}
    /\ UNCHANGED <<running, threads, joined, owner, asked>>

EndTask(w) ==
    /\ doing[w] = "task" /\ doing' = [doing EXCEPT ![w] = "test"]
    /\ UNCHANGED <<running, tasks, threads, joined, owner, in, asked, done>>

Wakes(t) == /\ in' \in Spurious(in, t)
            /\ UNCHANGED <<running, tasks, threads, joined, owner, doing, asked, done>>

OwnerStep == Start \/ Join \/ \E w \in Workers : StartThread(w)
WorkerStep(w) == TestRunning(w) \/ Take(w) \/ EndTask(w)

Next == \/ OwnerStep \/ Stop \/ RunInline
        \/ \E w \in Workers : WorkerStep(w)
        \/ \E c \in Clients : Run(c)
        \/ \E t \in DOMAIN in : Wakes(t)

Spec == Init /\ [][Next]_poolVars
-----------------------------------------------------------------------------
(* While workers sleep the pool is running and has one awake for each task *)
(* in the queue; while clients sleep it has one awake for each free place, *)
(* after stop() too.                                                       *)
PoolWakesEnough ==
    /\ Asleep(in, "notEmpty") # {} => /\ running
                                      /\ Cardinality(Awake(in, Workers)) >= Len(tasks)
    /\ Asleep(in, "notFull") # {} => Cardinality(Awake(in, Clients)) >= maxQueueSize - Len(tasks)

(* stop() returns: every worker sees that running_ has gone, whether it    *)
(* sleeps, runs a task, or has tested running_ just before.                *)
StopReturns == []<>(owner # "stopping")

(* A running pool runs every task it has accepted.                         *)
TasksRun == []<>(running => done = 1 .. asked)

(* Tasks are run, and the pool can be stopped.                             *)
PoolFinishes == StopReturns /\ TasksRun
=============================================================================
