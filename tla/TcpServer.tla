----------------------------- MODULE TcpServer ------------------------------
(***************************************************************************)
(* TcpServer over several loops: the Acceptor in the base loop, with its   *)
(* spare descriptor for the moment the process has no more, and the        *)
(* EventLoopThreadPool whose loops serve the connections in turn.          *)
(***************************************************************************)
EXTENDS Naturals, Sequences, FiniteSets

CONSTANTS
    IoLoops,        \* loops of the pool; loops_ has one order of them
    Conns,          \* clients that connect
    FdLimit         \* descriptors the process may have, besides the listening socket

VARIABLES
    loops,          \* loops_
    started,        \* the pool has all its threads
    listenning,     \* listenning_
    next,           \* next_ of the pool
    idleFd,         \* idleFd_ is open
    accepting,      \* where handleRead() is on its way through EMFILE
    backlog,        \* clients waiting to be accepted, in order
    conn,           \* per client: state_ of its TcpConnection, and its loop
    connections,    \* connections_
    pending,        \* the functors of each loop
    served,         \* history: connections given to each loop
    broken          \* an assert has failed

serverVars == <<loops, started, listenning, next, idleFd, accepting, backlog, conn, connections,
                pending, served, broken>>

Base == "base"
AllLoops == IoLoops \union {Base}
None == [state |-> "none", loop |-> Base]

Init == /\ loops = <<>> /\ started = FALSE /\ listenning = FALSE /\ next = 0
        /\ idleFd = TRUE /\ accepting = "no" /\ backlog = <<>>
        /\ conn = [c \in Conns |-> None] /\ connections = {}
        /\ pending = [l \in AllLoops |-> <<>>] /\ served = [l \in AllLoops |-> 0]
        /\ broken = FALSE

(* Descriptors in use: those of connections that are not destroyed.        *)
InUse == {c \in Conns : conn[c].state \notin {"none", "waiting", "refused", "destroyed"}}
FdsLeft == Cardinality(InUse) + (IF idleFd THEN 1 ELSE 0) < FdLimit

(* runInLoop() and queueInLoop() to a loop of another thread.              *)
Queue(l, f) == [pending EXCEPT ![l] = Append(@, f)]

-----------------------------------------------------------------------------
(* TcpServer::start(): EventLoopThreadPool::start(), a loop at a time, and *)
(* then Acceptor::listen().                                                *)
StartPool(l) ==
    /\ ~ started /\ \A i \in 1 .. Len(loops) : loops[i] # l
    /\ loops' = Append(loops, l) /\ started' = (Len(loops') = Cardinality(IoLoops))
    /\ UNCHANGED <<listenning, next, idleFd, accepting, backlog, conn, connections, pending, served,
                   broken>>

Listen ==
    /\ (started \/ IoLoops = {}) /\ ~ listenning /\ listenning' = TRUE
    /\ UNCHANGED <<loops, started, next, idleFd, accepting, backlog, conn, connections, pending,
                   served, broken>>

(* A client connects; the kernel keeps it in the backlog.                  *)
Connects(c) ==
    /\ listenning /\ conn[c].state = "none"
    /\ backlog' = Append(backlog, c) /\ conn' = [conn EXCEPT ![c].state = "waiting"]
    /\ UNCHANGED <<loops, started, listenning, next, idleFd, accepting, connections, pending,
                   served, broken>>

NextIndex == IF next + 1 >= Len(loops) THEN 0 ELSE next + 1

getNextLoop == IF loops = <<>> THEN Base ELSE loops[next + 1]

(* Acceptor::handleRead() with a descriptor to spare: newConnection().  On *)
(* the base loop connectEstablished() is called at once.                   *)
Accept ==
    LET c == Head(backlog)
        l == getNextLoop
    IN /\ backlog # <<>> /\ accepting = "no" /\ FdsLeft
       /\ backlog' = Tail(backlog)
       /\ next' = IF loops = <<>> THEN next ELSE NextIndex
       /\ conn' = [conn EXCEPT ![c] = [state |-> IF l = Base THEN "kConnected" ELSE "kConnecting",
                                       loop |-> l]]
       /\ connections' = connections \union {c}
       /\ pending' = IF l = Base THEN pending
                     ELSE Queue(l, [op |-> "connectEstablished", c |-> c])
       /\ served' = [served EXCEPT ![l] = @ + 1]
       /\ UNCHANGED <<loops, started, listenning, idleFd, accepting, broken>>

(* handleRead() without one (EMFILE): close idleFd_, accept, close, open.  *)
AcceptFails ==
    /\ backlog # <<>> /\ accepting = "no" /\ ~ FdsLeft
    /\ idleFd' = FALSE /\ accepting' = "accept"
    /\ UNCHANGED <<loops, started, listenning, next, backlog, conn, connections, pending, served,
                   broken>>

(* Mutant: the client stays in the backlog.                                *)
MutAcceptToRefuse ==
    /\ accepting = "accept" /\ accepting' = "open"
    /\ UNCHANGED <<loops, started, listenning, next, idleFd, backlog, conn, connections, pending,
                   served, broken>>

AcceptToRefuse ==
    /\ accepting = "accept"
    /\ IF FdsLeft
       THEN /\ backlog' = Tail(backlog)
            /\ conn' = [conn EXCEPT ![Head(backlog)].state = "refused"]
       ELSE UNCHANGED <<backlog, conn>>
    /\ accepting' = "open"
    /\ UNCHANGED <<loops, started, listenning, next, idleFd, connections, pending, served, broken>>

ReopenIdleFd ==
    /\ accepting = "open" /\ accepting' = "no" /\ idleFd' = FdsLeft
    /\ UNCHANGED <<loops, started, listenning, next, backlog, conn, connections, pending, served,
                   broken>>

-----------------------------------------------------------------------------

Removed(c, p) == [p EXCEPT ![conn[c].loop] = Append(@, [op |-> "connectDestroyed", c |-> c])]

(* handleClose() in the connection's loop; removeConnection() takes it to  *)
(* the base loop.                                                          *)
Closes(c) ==
    /\ conn[c].state = "kConnected" /\ (conn[c].loop = Base => accepting = "no")
    /\ conn' = [conn EXCEPT ![c].state = "kDisconnected"]
    /\ IF conn[c].loop = Base
       THEN /\ connections' = connections \ {c} /\ broken' = (broken \/ c \notin connections)
            /\ pending' = Removed(c, pending)
       ELSE /\ pending' = Queue(Base, [op |-> "removeConnectionInLoop", c |-> c])
            /\ UNCHANGED <<connections, broken>>
    /\ UNCHANGED <<loops, started, listenning, next, idleFd, accepting, backlog, served>>

(* Mutant: the connection is destroyed in the base loop.                   *)
MutRemoveConnectionInLoop(c, p) == [p EXCEPT ![Base] = Append(@, [op |-> "connectDestroyed", c |-> c])]

RemoveConnectionInLoop(c, p) == Removed(c, p)

(* A loop runs a functor.                                                  *)
RunFunctor(l) ==
    /\ pending[l] # <<>> /\ (l = Base => accepting = "no")
    /\ LET f == Head(pending[l])
           rest == [pending EXCEPT ![l] = Tail(@)]
       IN CASE f.op = "connectEstablished" ->
                 /\ broken' = (broken \/ conn[f.c].state # "kConnecting" \/ conn[f.c].loop # l)
                 /\ conn' = [conn EXCEPT ![f.c].state = "kConnected"]
                 /\ pending' = rest /\ UNCHANGED connections
            [] f.op = "removeConnectionInLoop" ->
                 /\ broken' = (broken \/ f.c \notin connections)
                 /\ connections' = connections \ {f.c}
                 /\ pending' = RemoveConnectionInLoop(f.c, rest) /\ UNCHANGED conn
            [] f.op = "connectDestroyed" ->
                 /\ broken' = (broken \/ conn[f.c].state # "kDisconnected" \/ conn[f.c].loop # l)
                 /\ conn' = [conn EXCEPT ![f.c].state = "destroyed"]
                 /\ pending' = rest /\ UNCHANGED connections
    /\ UNCHANGED <<loops, started, listenning, next, idleFd, accepting, backlog, served>>

BaseStep == Accept \/ AcceptFails \/ AcceptToRefuse \/ ReopenIdleFd
Next == \/ Listen \/ BaseStep
        \/ \E l \in IoLoops : StartPool(l)
        \/ \E c \in Conns : Connects(c) \/ Closes(c)
        \/ \E l \in AllLoops : RunFunctor(l)

Spec == Init /\ [][Next]_serverVars
-----------------------------------------------------------------------------
(* Establishing, removing and destroying a connection, done by two loops,  *)
(* happen once each, in that order, and in the right loop: no assert       *)
(* fails, and connections_ has the connection from the accept on until     *)
(* its removal.                                                            *)
LoopsAgree ==
    /\ ~ broken
    /\ \A c \in Conns :
        /\ conn[c].state \in {"kConnecting", "kConnected"} => c \in connections
        /\ c \in connections /\ conn[c].state = "kDisconnected" =>
             \E i \in 1 .. Len(pending[Base]) : pending[Base][i].c = c

(* The descriptors stay within the limit, and the spare one is there       *)
(* whenever the base loop returns to poll().                               *)
SpareFd == /\ Cardinality(InUse) + (IF idleFd THEN 1 ELSE 0) <= FdLimit
           /\ accepting = "no" => idleFd

(* Round robin: no loop gets two connections more than another.            *)
Balanced == \A i, j \in 1 .. Len(loops) : served[loops[i]] <= served[loops[j]] + 1

(* The backlog does not stay: with no descriptor left, clients are refused *)
(* instead of keeping the loop busy; and a closed connection is destroyed. *)
BacklogDrains == []<>(backlog = <<>>)
ClosedAreDestroyed == []<>(\A c \in Conns : conn[c].state # "kDisconnected")

(* The loops, the books and the descriptors of a server stay in order.     *)
ServerConsistent == LoopsAgree /\ SpareFd /\ Balanced

(* Every client is dealt with and every connection ends.                   *)
ServerDrains == BacklogDrains /\ ClosedAreDestroyed
=============================================================================
