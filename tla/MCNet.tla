------------------------------- MODULE MCNet --------------------------------
(***************************************************************************)
(* Parts of muduo/net around the EventLoop: timers, pollers, the client,   *)
(* loop threads and the server with several loops.  They do not share      *)
(* state: a behaviour chooses one of them, `part', and only that one       *)
(* moves.                                                                  *)
(***************************************************************************)
EXTENDS TimerQueue

CONSTANTS Retry, StopAnywhere, MaxConnects, MaxFailures
VARIABLES k, connect_, connection, restarting, connects, failures, stopped, hopeless

VARIABLES loop_, quit, alive, woken, thread, holder, blocked, early, read, freed

CONSTANTS IoLoops, Conns, FdLimit
VARIABLES loops, started, listenning, next, idleFd, accepting, backlog, conn, connections,
          pending, served, broken

CONSTANTS Channels, Events
VARIABLES kind, chan, channels, epoll, pollfds, wrong

VARIABLE part

(* Finitely many clients; the base loop is not one of the pool; and there  *)
(* is a descriptor for idleFd_.                                            *)
ASSUME ServerAssumption == /\ IsFiniteSet(Conns) /\ IsFiniteSet(IoLoops) /\ "base" \notin IoLoops
                           /\ FdLimit \in Nat \ {0}

(* The application calls connect() so many times at most.                  *)
ASSUME ClientAssumption == MaxConnects \in Nat

(* Descriptors are natural numbers.                                        *)
ASSUME ChannelsAssumption == Channels \subseteq Nat \X Nat

Client == INSTANCE TcpClient
Thread == INSTANCE EventLoopThread
Server == INSTANCE TcpServer
Polls == INSTANCE Poller

(* Channels of three descriptors, two of them in turn for the first.       *)
TheChannels == {<<3, 1>>, <<3, 2>>, <<4, 1>>, <<5, 1>>}

clientVars == <<k, connect_, connection, restarting, connects, failures, stopped, hopeless>>
threadVars == <<loop_, quit, alive, woken, thread, holder, blocked, early, read, freed>>
serverVars == <<loops, started, listenning, next, idleFd, accepting, backlog, conn, connections,
                pending, served, broken>>
pollerVars == <<kind, chan, channels, epoll, pollfds, wrong>>
vars == <<timerVars, clientVars, threadVars, serverVars, pollerVars, part>>

NetInit ==
    /\ part \in {"timers", "client", "thread", "server", "poller"}
    /\ Init /\ Client!Init /\ Thread!Init /\ Server!Init /\ Polls!Init

NetNext ==
    \/ part = "timers" /\ Next
       /\ UNCHANGED <<part, clientVars, threadVars, serverVars, pollerVars>>
    \/ part = "client" /\ Client!Next
       /\ UNCHANGED <<part, timerVars, threadVars, serverVars, pollerVars>>
    \/ part = "thread" /\ Thread!Next
       /\ UNCHANGED <<part, timerVars, clientVars, serverVars, pollerVars>>
    \/ part = "server" /\ Server!Next
       /\ UNCHANGED <<part, timerVars, clientVars, threadVars, pollerVars>>
    \/ part = "poller" /\ Polls!Next
       /\ UNCHANGED <<part, timerVars, clientVars, threadVars, serverVars>>

(* Every loop thread goes on as long as it has something to do, the clock  *)
(* goes on, and a connecting socket becomes ready sooner or later.         *)
NetFairness ==
    /\ WF_timerVars(part = "timers" /\ Loop)
    /\ WF_timerVars(part = "timers" /\ Tick)
    /\ \A t \in Threads : WF_timerVars(part = "timers" /\ AddTimerReturns(t))
    /\ WF_clientVars(part = "client" /\ \E result \in Client!Results : Client!LoopStep(result))
    /\ WF_clientVars(part = "client" /\ \E error \in BOOLEAN, outcome \in Client!Outcomes :
                                             Client!SocketReady(error, outcome))
    /\ WF_threadVars(part = "thread" /\ Thread!ThreadStep)
    /\ WF_threadVars(part = "thread" /\ Thread!OwnerStep)
    /\ WF_serverVars(part = "server" /\ Server!BaseStep)
    /\ \A l \in IoLoops \union {"base"} : WF_serverVars(part = "server" /\ Server!RunFunctor(l))

NetSpec == NetInit /\ [][NetNext]_vars /\ NetFairness
-----------------------------------------------------------------------------
(* TimersKept and CalledAsDue are in TimerQueue, the others repeat those   *)
(* of their modules.                                                       *)

(* The Connector makes one attempt at a time, passes its asserts, loses no *)
(* socket and keeps its retry delay within its limits.                     *)
ClientConsistent == Client!ClientConsistent

(* TcpClient gets through when its peer lets it, and not after stop().     *)
ConnectsAsAsked == Client!ConnectsAsAsked

(* startLoop() and ~EventLoopThread() return, and the latter quits a loop  *)
(* that lives, but for the races that EventLoopThread names.               *)
ThreadEnds == Thread!ThreadEnds

(* The loops of a TcpServer agree on its connections, the Acceptor keeps   *)
(* its spare descriptor, and the pool's loops are used in turn.            *)
ServerConsistent == Server!ServerConsistent

(* Clients are accepted or refused, and closed connections destroyed.      *)
ServerDrains == Server!ServerDrains

(* The books of both pollers agree with each other and with the channels.  *)
PollersAgree == Polls!PollersAgree
=============================================================================
