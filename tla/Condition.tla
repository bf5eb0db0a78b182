----------------------------- MODULE Condition ------------------------------
(***************************************************************************)
(* MutexLock and Condition, for the monitors of muduo/base.  A critical    *)
(* section is one step of its thread; wait() ends one, and the thread goes *)
(* on in a later one.  A monitor keeps, for each of its threads, where the *)
(* thread is: "out" of the monitor, asleep on the condition of that name,  *)
(* or "awake", that is woken and about to lock the mutex again.            *)
(***************************************************************************)
EXTENDS FiniteSets

Asleep(w, cond) == {t \in DOMAIN w : w[t] = cond}
Awake(w, S) == {t \in S : w[t] = "awake"}

wait(w, t, cond) == [w EXCEPT ![t] = cond]
leave(w, t) == [w EXCEPT ![t] = "out"]

(* pthread_cond_signal(): what may be woken is one thread, if there is one.*)
notify(w, cond) ==
    IF Asleep(w, cond) = {} THEN {w}
    ELSE {[w EXCEPT ![t] = "awake"] : t \in Asleep(w, cond)}

notifyAll(w, cond) == [t \in DOMAIN w |-> IF w[t] = cond THEN "awake" ELSE w[t]]

(* A wait may end although nobody has called notify().                     *)
Spurious(w, t) == IF w[t] \in {"out", "awake"} THEN {} ELSE {[w EXCEPT ![t] = "awake"]}
=============================================================================
