----------------------------- MODULE EventLoop -----------------------------
(***************************************************************************)
(* muduo::net::EventLoop, the reactor under woody::HTTPServer: one thread  *)
(* that polls, dispatches the active channels and then runs the functors   *)
(* other threads (or its own callbacks) queued, with an eventfd to get it  *)
(* out of poll().                                                          *)
(*                                                                         *)
(* A functor is known by its place in the order in which queueInLoop       *)
(* pushed it: the first one is 1, the next one 2, ...                      *)
(***************************************************************************)
EXTENDS Naturals, Sequences

CONSTANTS
  Threads,      \* the threads other than the one that owns the loop
  Loop,         \* the loop thread
  MaxFunctors   \* bound on the number of queueInLoop calls

ASSUME ThreadsAssumption == Loop \notin Threads
ASSUME MaxFunctorsAssumption == MaxFunctors \in Nat

VARIABLES
  loopPc,                  \* where the loop thread is in loop()
  call,                    \* call[c]: where thread c is in queueInLoop() or quit()
  quit_,
  callingPendingFunctors_,
  pendingFunctors_,
  functors,                \* the local vector of doPendingFunctors(), from the next one to run
  activeChannels_,         \* channels poll() returned and not yet dispatched
  wakeupFd_,               \* TRUE iff the eventfd counter is not 0, that is, readable
  executed,                \* history: functors already run
  unsignalled              \* history: functors the loop thread queued outside loop()

vars == <<loopPc, call, quit_, callingPendingFunctors_, pendingFunctors_,
          functors, activeChannels_, wakeupFd_, executed, unsignalled>>

Callers == Threads \cup {Loop}

Functor == 1..MaxFunctors

\* The eventfd's own channel, and the channels of all the sockets.
Channels == {"wakeup", "io"}

TypeOK ==
  /\ loopPc \in {"outside", "while", "poll", "dispatch", "swap", "run"}
  /\ call \in [Callers -> {"none", "pushed", "quitting"}]
  /\ quit_ \in BOOLEAN
  /\ callingPendingFunctors_ \in BOOLEAN
  /\ pendingFunctors_ \in Seq(Functor)
  /\ functors \in Seq(Functor)
  /\ activeChannels_ \subseteq Channels
  /\ wakeupFd_ \in BOOLEAN
  /\ executed \in Seq(Functor)
  /\ unsignalled \subseteq Functor

Init ==
  /\ loopPc = "outside"
  /\ call = [c \in Callers |-> "none"]
  /\ quit_ = FALSE
  /\ callingPendingFunctors_ = FALSE
  /\ pendingFunctors_ = <<>>
  /\ functors = <<>>
  /\ activeChannels_ = {}
  /\ wakeupFd_ = FALSE
  /\ executed = <<>>
  /\ unsignalled = {}

-----------------------------------------------------------------------------
(* queueInLoop() and quit(), called by any thread.  The loop thread calls    *)
(* them from a channel callback, from a functor, or outside loop().          *)

\* The loop thread runs user code: a channel's callback, the functor at the
\* head of functors, or whatever it does outside loop().
InUserCode ==
  \/ loopPc = "outside"
  \/ loopPc = "dispatch" /\ "io" \in activeChannels_
  \/ loopPc = "run" /\ functors # <<>>

CanCall(c) == call[c] = "none" /\ (c = Loop => InUserCode)

NextFunctor == Len(executed) + Len(functors) + Len(pendingFunctors_) + 1

\* The critical section of queueInLoop().
Push(c) ==
  /\ CanCall(c)
  /\ NextFunctor \in Functor
  /\ pendingFunctors_' = Append(pendingFunctors_, NextFunctor)
  /\ unsignalled' = IF c = Loop /\ loopPc = "outside"
                      THEN unsignalled \cup {NextFunctor} ELSE unsignalled
  /\ call' = [call EXCEPT ![c] = "pushed"]
  /\ UNCHANGED <<loopPc, quit_, callingPendingFunctors_, functors,
                 activeChannels_, wakeupFd_, executed>>

\* Mutant: queueInLoop() forgets that a functor being run may queue another one.
MutWakeupOnlyFromThreads(c) ==
  /\ call[c] = "pushed"
  /\ wakeupFd_' = (wakeupFd_ \/ c # Loop)
  /\ call' = [call EXCEPT ![c] = "none"]
  /\ UNCHANGED <<loopPc, quit_, callingPendingFunctors_, pendingFunctors_,
                 functors, activeChannels_, executed, unsignalled>>

\* The test after it, and wakeup() when the test says so.
WakeupAfterPush(c) ==
  /\ call[c] = "pushed"
  /\ wakeupFd_' = (wakeupFd_ \/ c # Loop \/ callingPendingFunctors_)
  /\ call' = [call EXCEPT ![c] = "none"]
  /\ UNCHANGED <<loopPc, quit_, callingPendingFunctors_, pendingFunctors_,
                 functors, activeChannels_, executed, unsignalled>>

\* quit() sets the flag ...
SetQuit(c) ==
  /\ CanCall(c)
  /\ quit_' = TRUE
  /\ call' = [call EXCEPT ![c] = "quitting"]
  /\ UNCHANGED <<loopPc, callingPendingFunctors_, pendingFunctors_, functors,
                 activeChannels_, wakeupFd_, executed, unsignalled>>

\* Mutant: quit() sets the flag and does not wake the loop up.
MutQuitWithoutWakeup(c) ==
  /\ call[c] = "quitting"
  /\ call' = [call EXCEPT ![c] = "none"]
  /\ UNCHANGED <<loopPc, quit_, callingPendingFunctors_, pendingFunctors_,
                 functors, activeChannels_, wakeupFd_, executed, unsignalled>>

\* ... and then wakes the loop up, unless it is called by the loop thread.
WakeupAfterQuit(c) ==
  /\ call[c] = "quitting"
  /\ wakeupFd_' = (wakeupFd_ \/ c # Loop)
  /\ call' = [call EXCEPT ![c] = "none"]
  /\ UNCHANGED <<loopPc, quit_, callingPendingFunctors_, pendingFunctors_,
                 functors, activeChannels_, executed, unsignalled>>

-----------------------------------------------------------------------------
(* loop(), doPendingFunctors() and handleRead(), run by the loop thread.     *)

\* The loop thread is at pc, and not inside a call of queueInLoop() or quit().
LoopAt(pc) == loopPc = pc /\ call[Loop] = "none"

StartLoop ==
  /\ LoopAt("outside")
  /\ loopPc' = "while"
  /\ quit_' = FALSE
  /\ UNCHANGED <<call, callingPendingFunctors_, pendingFunctors_, functors,
                 activeChannels_, wakeupFd_, executed, unsignalled>>

TestQuit ==
  /\ LoopAt("while")
  /\ loopPc' = IF quit_ THEN "outside" ELSE "poll"
  /\ UNCHANGED <<call, quit_, callingPendingFunctors_, pendingFunctors_, functors,
                 activeChannels_, wakeupFd_, executed, unsignalled>>

\* poll() comes back with some of the ready channels.
PollReturns(ready) ==
  /\ LoopAt("poll")
  /\ ready # {}
  /\ "wakeup" \in ready => wakeupFd_
  /\ activeChannels_' = ready
  /\ loopPc' = "dispatch"
  /\ UNCHANGED <<call, quit_, callingPendingFunctors_, pendingFunctors_, functors,
                 wakeupFd_, executed, unsignalled>>

\* kPollTimeMs went by, or a signal interrupted epoll_wait().
PollReturnsNothing ==
  /\ LoopAt("poll")
  /\ loopPc' = "dispatch"
  /\ UNCHANGED <<call, quit_, callingPendingFunctors_, pendingFunctors_, functors,
                 activeChannels_, wakeupFd_, executed, unsignalled>>

\* EventLoop::handleRead() empties the eventfd.
DispatchWakeup ==
  /\ LoopAt("dispatch")
  /\ "wakeup" \in activeChannels_
  /\ activeChannels_' = activeChannels_ \ {"wakeup"}
  /\ wakeupFd_' = FALSE
  /\ UNCHANGED <<loopPc, call, quit_, callingPendingFunctors_, pendingFunctors_,
                 functors, executed, unsignalled>>

\* The callbacks of the other channels, which may Push and SetQuit, are done.
DispatchIo ==
  /\ LoopAt("dispatch")
  /\ "io" \in activeChannels_
  /\ activeChannels_' = activeChannels_ \ {"io"}
  /\ UNCHANGED <<loopPc, call, quit_, callingPendingFunctors_, pendingFunctors_,
                 functors, wakeupFd_, executed, unsignalled>>

\* Mutant: doPendingFunctors() does not set callingPendingFunctors_.
MutFlagNotSet ==
  /\ LoopAt("dispatch")
  /\ activeChannels_ = {}
  /\ loopPc' = "swap"
  /\ UNCHANGED <<call, quit_, callingPendingFunctors_, pendingFunctors_, functors,
                 activeChannels_, wakeupFd_, executed, unsignalled>>

\* No channel is left: doPendingFunctors() begins.
BeginPendingFunctors ==
  /\ LoopAt("dispatch")
  /\ activeChannels_ = {}
  /\ callingPendingFunctors_' = TRUE
  /\ loopPc' = "swap"
  /\ UNCHANGED <<call, quit_, pendingFunctors_, functors, activeChannels_,
                 wakeupFd_, executed, unsignalled>>

\* Mutant: the vector is copied instead of swapped.
MutCopyFunctors ==
  /\ LoopAt("swap")
  /\ functors' = pendingFunctors_
  /\ loopPc' = "run"
  /\ UNCHANGED <<call, quit_, callingPendingFunctors_, pendingFunctors_,
                 activeChannels_, wakeupFd_, executed, unsignalled>>

\* The critical section of doPendingFunctors().
SwapFunctors ==
  /\ LoopAt("swap")
  /\ functors' = pendingFunctors_
  /\ pendingFunctors_' = functors
  /\ loopPc' = "run"
  /\ UNCHANGED <<call, quit_, callingPendingFunctors_, activeChannels_,
                 wakeupFd_, executed, unsignalled>>

\* functors[i]() returns.
RunFunctor ==
  /\ LoopAt("run")
  /\ functors # <<>>
  /\ executed' = Append(executed, Head(functors))
  /\ functors' = Tail(functors)
  /\ UNCHANGED <<loopPc, call, quit_, callingPendingFunctors_, pendingFunctors_,
                 activeChannels_, wakeupFd_, unsignalled>>

EndPendingFunctors ==
  /\ LoopAt("run")
  /\ functors = <<>>
  /\ callingPendingFunctors_' = FALSE
  /\ loopPc' = "while"
  /\ UNCHANGED <<call, quit_, pendingFunctors_, functors, activeChannels_,
                 wakeupFd_, executed, unsignalled>>

-----------------------------------------------------------------------------
CallStep(c) == Push(c) \/ WakeupAfterPush(c) \/ SetQuit(c) \/ WakeupAfterQuit(c)

LoopStep ==
  \/ StartLoop \/ TestQuit
  \/ \E ready \in SUBSET Channels : PollReturns(ready)
  \/ PollReturnsNothing
  \/ DispatchWakeup \/ DispatchIo
  \/ BeginPendingFunctors \/ SwapFunctors \/ RunFunctor \/ EndPendingFunctors

Next == LoopStep \/ \E c \in Callers : CallStep(c)

Spec == Init /\ [][Next]_vars

\* Poll comes back when the eventfd is readable; nothing is assumed of its timeout.
PollWoken == wakeupFd_ /\ \E ready \in SUBSET Channels : PollReturns(ready)

\* A thread inside queueInLoop() or quit() goes on, the loop thread goes on, and
\* poll() comes back once the eventfd is readable.  Fairness is strong for
\* DispatchIo and RunFunctor, which stand for the return of user code that may
\* call quit() as often as it likes but not for ever.  Nobody has to call
\* loop(), queueInLoop() or quit().
Fairness ==
  /\ WF_vars(TestQuit \/ DispatchWakeup \/ BeginPendingFunctors
               \/ SwapFunctors \/ EndPendingFunctors)
  /\ SF_vars(DispatchIo) /\ SF_vars(RunFunctor)
  /\ WF_vars(PollWoken)
  /\ \A c \in Callers : WF_vars(WakeupAfterPush(c)) /\ WF_vars(WakeupAfterQuit(c))

FairSpec == Spec /\ Fairness

-----------------------------------------------------------------------------
(* Properties.                                                               *)

\* A functor that has been queued and not run, whoever queued it, save the
\* loop thread itself outside loop().
HasSignalled == \E i \in DOMAIN pendingFunctors_ : pendingFunctors_[i] \notin unsignalled

\* The loop never sleeps in poll() on a functor queued by another thread, by a
\* callback or by a functor: the eventfd is readable or the caller is about to
\* write to it.  (queueInLoop() skips the write when the loop thread calls it
\* and is not in doPendingFunctors(), so this is what makes the test right.)
NoLostWakeup ==
  loopPc = "poll" /\ HasSignalled =>
    wakeupFd_ \/ \E t \in Threads : call[t] = "pushed"

\* Somebody is between the push and the wakeup() of a queueInLoop() that will
\* call wakeup().
AboutToWake ==
  \/ \E t \in Threads : call[t] = "pushed"
  \/ loopPc = "run" /\ call[Loop] = "pushed"

\* NoLostWakeup for every place at which the loop is not bound to empty the
\* queue before it polls again, with what makes it inductive: the flag
\* queueInLoop() tests is set exactly while doPendingFunctors() runs, and the
\* loop thread calls queueInLoop() only from user code.
WakeupInv ==
  /\ callingPendingFunctors_ <=> loopPc \in {"swap", "run"}
  /\ loopPc # "run" => functors = <<>>
  /\ call[Loop] # "none" => loopPc \in {"outside", "dispatch", "run"}
  /\ loopPc \notin {"dispatch", "swap"} /\ HasSignalled => wakeupFd_ \/ AboutToWake

\* The loop implements TaskQueue: swapping the vectors in doPendingFunctors()
\* while others push neither drops, duplicates nor reorders a functor.
TQ == INSTANCE TaskQueue WITH queue <- functors \o pendingFunctors_
RunsInOrder == TQ!Spec

\* A functor queued in a running loop is run, even if poll() never times out,
\* unless somebody quits the loop first.
FunctorsRun ==
  (loopPc # "outside" /\ HasSignalled)
    ~> (loopPc = "outside" \/ (pendingFunctors_ = <<>> /\ functors = <<>>))

\* quit() stops a running loop, from whichever thread and wherever the loop is.
QuitStops == (quit_ /\ loopPc # "outside") ~> (loopPc = "outside")
=============================================================================
