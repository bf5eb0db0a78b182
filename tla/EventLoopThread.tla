-------------------------- MODULE EventLoopThread ---------------------------
(***************************************************************************)
(* EventLoopThread: a thread with an EventLoop on its stack, published to  *)
(* its owner through loop_.  The owner waits for the loop, uses it, and    *)
(* destroys the EventLoopThread, which quits the loop and joins the        *)
(* thread; a functor in the loop may have quit it before.                  *)
(***************************************************************************)
EXTENDS Naturals, Condition

VARIABLES
    loop_,      \* loop_ # NULL
    quit,       \* quit_ of the loop
    alive,      \* the EventLoop exists
    woken,      \* its eventfd is readable
    thread,     \* where the thread is: "none", "construct", "publish", "enter", "test",
                \* "poll", "left", "exit"
    holder,     \* where the owner is: "new", "start", "up", "quit", "join", "gone"
    blocked,    \* the owner in the monitor, see Condition
    early,      \* history: quit() came before loop() had begun
    read,       \* history: the loop was alive when the destructor read loop_
    freed       \* history: quit() was called on a destroyed loop

threadVars == <<loop_, quit, alive, woken, thread, holder, blocked, early, read, freed>>

Init == /\ loop_ = FALSE /\ quit = FALSE /\ alive = FALSE /\ woken = FALSE
        /\ thread = "none" /\ holder = "new" /\ blocked = [t \in {"owner"} |-> "out"]
        /\ early = FALSE /\ read = FALSE /\ freed = FALSE

(* startLoop(): starts the thread and waits for loop_.                     *)
StartLoop ==
    /\ holder = "new" /\ holder' = "start" /\ thread' = "construct"
    /\ UNCHANGED <<loop_, quit, alive, woken, blocked, early, read, freed>>

StartLoopWaits ==
    /\ holder = "start" /\ blocked["owner"] \in {"out", "awake"}
    /\ IF loop_ THEN holder' = "up" /\ blocked' = leave(blocked, "owner")
       ELSE blocked' = wait(blocked, "owner", "cond") /\ UNCHANGED holder
    /\ UNCHANGED <<loop_, quit, alive, woken, thread, early, read, freed>>

Wakes == /\ blocked' \in Spurious(blocked, "owner")
         /\ UNCHANGED <<loop_, quit, alive, woken, thread, holder, early, read, freed>>

(* The destructor, also of a thread never started: the test of loop_, and  *)
(* then quit() through it.                                                 *)
Destroy ==
    /\ holder \in {"new", "up"} /\ holder' = IF loop_ THEN "quit" ELSE "gone"
    /\ read' = alive
    /\ UNCHANGED <<loop_, quit, alive, woken, thread, blocked, early, freed>>

DestroyQuits ==
    /\ holder = "quit" /\ holder' = "join"
    /\ freed' = ~ alive
    /\ quit' = TRUE /\ woken' = TRUE /\ early' = (early \/ thread = "enter")
    /\ UNCHANGED <<loop_, alive, thread, blocked, read>>

DestroyJoins ==
    /\ holder = "join" /\ thread = "exit" /\ holder' = "gone"
    /\ UNCHANGED <<loop_, quit, alive, woken, thread, blocked, early, read, freed>>

-----------------------------------------------------------------------------
(* threadFunc().                                                           *)
Construct ==
    /\ thread = "construct" /\ thread' = "publish" /\ alive' = TRUE
    /\ UNCHANGED <<loop_, quit, woken, holder, blocked, early, read, freed>>

(* Mutant: the owner is not told.                                          *)
MutTold(w) == {w}

Told(w) == notify(w, "cond")

Publish ==
    /\ thread = "publish" /\ thread' = "enter" /\ loop_' = TRUE /\ blocked' \in Told(blocked)
    /\ UNCHANGED <<quit, alive, woken, holder, early, read, freed>>

(* loop(): resets quit_, then runs until it finds it set; see EventLoop.   *)
Enter ==
    /\ thread = "enter" /\ thread' = "test" /\ quit' = FALSE
    /\ UNCHANGED <<loop_, alive, woken, holder, blocked, early, read, freed>>

TestQuit ==
    /\ thread = "test" /\ thread' = IF quit THEN "left" ELSE "poll"
    /\ UNCHANGED <<loop_, quit, alive, woken, holder, blocked, early, read, freed>>

Poll ==
    /\ thread = "poll" /\ woken /\ woken' = FALSE /\ thread' = "test"
    /\ UNCHANGED <<loop_, quit, alive, holder, blocked, early, read, freed>>

(* A functor or callback in the loop calls quit().                         *)
QuitInside ==
    /\ thread = "poll" /\ quit' = TRUE /\ thread' = "test"
    /\ UNCHANGED <<loop_, alive, woken, holder, blocked, early, read, freed>>

LoopLeft == FALSE

(* Behind loop(): loop_ = NULL, and the EventLoop is destroyed.            *)
Leave ==
    /\ thread = "left" /\ thread' = "destroy" /\ loop_' = LoopLeft
    /\ UNCHANGED <<quit, alive, woken, holder, blocked, early, read, freed>>

Exit ==
    /\ thread = "destroy" /\ thread' = "exit" /\ alive' = FALSE
    /\ UNCHANGED <<loop_, quit, woken, holder, blocked, early, read, freed>>

ThreadStep == Construct \/ Publish \/ Enter \/ TestQuit \/ Poll \/ Leave \/ Exit
OwnerStep == StartLoopWaits \/ DestroyQuits \/ DestroyJoins

Next == ThreadStep \/ OwnerStep \/ StartLoop \/ Wakes \/ Destroy \/ QuitInside

Spec == Init /\ [][Next]_threadVars
-----------------------------------------------------------------------------
(* quit() goes to a destroyed loop only if the thread left the loop after  *)
(* the destructor had looked at loop_.                                     *)
QuitsLiveLoop == freed => read

(* startLoop() returns, and so does the destructor, which quits a loop     *)
(* that lives, unless its quit() came before the thread was in loop(),     *)
(* which forgets it, or startLoop() found a loop quit already.             *)
ThreadEnds ==
    /\ []QuitsLiveLoop
    /\ []<>(holder \notin {"start", "join"} \/ early \/ (holder = "start" /\ thread = "exit"))
=============================================================================
