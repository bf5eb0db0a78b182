----------------------------- MODULE TaskQueue -----------------------------
(***************************************************************************)
(* What EventLoop promises to whoever hands it a callback: every callback  *)
(* given to runInLoop / queueInLoop is put in one queue and the loop       *)
(* thread runs the callbacks of that queue one at a time, each once, in    *)
(* the order in which they were put there.                                 *)
(***************************************************************************)
EXTENDS Naturals, Sequences

VARIABLES
  queue,     \* callbacks submitted and not yet run, oldest first
  executed   \* callbacks already run, in the order they were run

vars == <<queue, executed>>

Init == queue = <<>> /\ executed = <<>>

Submit ==
  /\ queue' = Append(queue, Len(queue) + Len(executed) + 1)
  /\ UNCHANGED executed

Execute ==
  /\ queue # <<>>
  /\ executed' = Append(executed, Head(queue))
  /\ queue' = Tail(queue)

Next == Submit \/ Execute

Spec == Init /\ [][Next]_vars
=============================================================================
