----------------------------- MODULE TcpClient ------------------------------
(***************************************************************************)
(* TcpClient with its Connector and one connection at a time.  The loop    *)
(* thread takes events, functors and timers one at a time; the application *)
(* calls connect(), disconnect() and stop() in that thread or in another.  *)
(***************************************************************************)
EXTENDS Connector, FiniteSets

CONSTANTS
    Retry,          \* retry_, set by enableRetry()
    StopAnywhere,   \* stop() may be called in another thread too
    MaxConnects,    \* bound: calls of connect()
    MaxFailures     \* bound: attempts that fail

VARIABLES
    k,              \* the connector
    connect_,       \* TcpClient::connect_
    connection,     \* connection_: "none", "up", or "shut" down for writing
    restarting,     \* removeConnection() is about to call restart()
    connects,       \* calls of connect()
    failures,       \* attempts that failed, since connect() or restart(), and in all
    stopped,        \* history: stop() has been called
    hopeless        \* history: ::connect() has failed for good

clientVars == <<k, connect_, connection, restarting, connects, failures, stopped, hopeless>>

Init == /\ k = NewConnector /\ connect_ = TRUE /\ connection = "none" /\ restarting = FALSE
        /\ connects = 0 /\ failures = [inRow |-> 0, all |-> 0] /\ stopped = FALSE /\ hopeless = FALSE

(* An attempt fails at most MaxFailures times.                             *)
MayFail(fails) == fails => failures.all < MaxFailures
Count(fails) == failures' = IF fails THEN [inRow |-> failures.inRow + (IF k'.connect THEN 1 ELSE 0),
                                           all |-> failures.all + 1]
                            ELSE failures

(* startInLoop() is called; it tries only if connect_ is still set.        *)
StartsInLoop(from, result) ==
    /\ MayFail(result = "again") /\ (~ from.connect => result = "started")
    /\ k' = startInLoop(from, result)
    /\ Count(from.connect /\ result = "again")
    /\ hopeless' = (hopeless \/ result = "hopeless")

-----------------------------------------------------------------------------
(* connect(), in the loop thread and elsewhere.                            *)
ConnectHere(result) ==
    /\ connects < MaxConnects /\ ~ restarting
    /\ connects' = connects + 1 /\ connect_' = TRUE /\ stopped' = FALSE
    /\ StartsInLoop([k EXCEPT !.connect = TRUE], result)
    /\ UNCHANGED <<connection, restarting>>

ConnectElsewhere ==
    /\ connects < MaxConnects
    /\ connects' = connects + 1 /\ connect_' = TRUE /\ stopped' = FALSE
    /\ k' = queueInLoop([k EXCEPT !.connect = TRUE], "startInLoop")
    /\ UNCHANGED <<connection, restarting, failures, hopeless>>

Disconnect ==
    /\ connect_ /\ connect_' = FALSE
    /\ connection' = IF connection = "up" THEN "shut" ELSE connection
    /\ UNCHANGED <<k, restarting, connects, failures, stopped, hopeless>>

(* stop(): in the loop thread, so never inside removeConnection(), or      *)
(* anywhere.                                                               *)
Stop ==
    /\ ~ stopped /\ connects > 0 /\ (StopAnywhere \/ ~ restarting)
    /\ stopped' = TRUE /\ connect_' = FALSE
    /\ k' = queueInLoop([k EXCEPT !.connect = FALSE], "stopInLoop")
    /\ UNCHANGED <<connection, restarting, connects, failures, hopeless>>

-----------------------------------------------------------------------------
(* The loop runs a functor.                                                *)
RunFunctor(result) ==
    /\ k.functors # <<>> /\ ~ restarting
    /\ LET f == Head(k.functors)
           popped == [k EXCEPT !.functors = Tail(@)]
       IN IF f = "startInLoop" THEN StartsInLoop(popped, result)
          ELSE /\ result = "started" /\ UNCHANGED <<failures, hopeless>>
               /\ k' = CASE f = "stopInLoop" -> stopInLoop(popped)
                         [] f = "resetChannel" -> resetChannel(popped)
                         [] f = "connectDestroyed" -> [popped EXCEPT !.sockets = @ - 1]
    /\ UNCHANGED <<connect_, connection, restarting, connects, stopped>>

(* A timer of retry(); timers come in a later round than functors.         *)
RetryTimer(result) ==
    /\ k.timers > 0 /\ k.functors = <<>> /\ ~ restarting
    /\ StartsInLoop([k EXCEPT !.timers = @ - 1], result)
    /\ UNCHANGED <<connect_, connection, restarting, connects, stopped>>

(* The connecting socket is ready: Channel calls handleError() before      *)
(* handleWrite(), and newConnection() keeps what has been connected.       *)
SocketReady(error, outcome) ==
    /\ k.channel = "watching" /\ ~ restarting
    /\ MayFail(error \/ outcome # "connected")
    /\ k' = handleWrite(IF error THEN handleError(k) ELSE k, outcome)
    /\ Count(error \/ outcome # "connected")
    /\ connection' = IF k'.state = "kConnected" /\ Wanted(k) THEN "up" ELSE connection
    /\ UNCHANGED <<connect_, restarting, connects, stopped, hopeless>>

SocketError ==
    /\ k.channel = "watching" /\ ~ restarting
    /\ MayFail(TRUE)
    /\ k' = handleError(k) /\ Count(TRUE)
    /\ UNCHANGED <<connect_, connection, restarting, connects, stopped, hopeless>>

(* The connection closes: removeConnection() up to its test of connect_.   *)
RemoveConnection ==
    /\ connection # "none" /\ k.functors = <<>> /\ ~ restarting
    /\ connection' = "none" /\ k' = queueInLoop(k, "connectDestroyed")
    /\ restarting' = (Retry /\ connect_)
    /\ UNCHANGED <<connect_, connects, failures, stopped, hopeless>>

Restart(result) ==
    /\ restarting /\ restarting' = FALSE
    /\ MayFail(result = "again")
    /\ k' = restart(k, result) /\ hopeless' = (hopeless \/ result = "hopeless")
    /\ failures' = [inRow |-> IF result = "again" THEN 1 ELSE 0,
                    all |-> failures.all + IF result = "again" THEN 1 ELSE 0]
    /\ UNCHANGED <<connect_, connection, connects, stopped>>

LoopStep(result) == RunFunctor(result) \/ RetryTimer(result) \/ Restart(result)

Next == \/ \E result \in Results : LoopStep(result) \/ ConnectHere(result)
        \/ \E error \in BOOLEAN, outcome \in Outcomes : SocketReady(error, outcome)
        \/ ConnectElsewhere \/ Disconnect \/ Stop \/ SocketError \/ RemoveConnection

Spec == Init /\ [][Next]_clientVars
-----------------------------------------------------------------------------
(* No assert of Connector fails.                                           *)
ConnectorAsserts == ~ k.failed

(* At any time the client has at most one way to a connection: one start,  *)
(* one retry timer, one attempt, or one connection.                        *)
Queued(f) == Cardinality({i \in 1 .. Len(k.functors) : k.functors[i] = f})
SingleAttempt ==
    Queued("startInLoop") + k.timers + (IF k.channel = "watching" THEN 1 ELSE 0)
        + (IF connection # "none" \/ restarting THEN 1 ELSE 0) <= 1

(* Every open socket is watched, in use, or about to be destroyed.         *)
SocketsOwned ==
    k.sockets = (IF k.channel = "watching" THEN 1 ELSE 0) + (IF connection # "none" THEN 1 ELSE 0)
                + Queued("connectDestroyed")

(* The delay doubles with each failure in a row, up to half a minute, and  *)
(* starts again from half a second after a connection.                     *)
DelayAfter == <<500, 1000, 2000, 4000, 8000, 16000>>   \* 0, 1, ... failures
Backoff == k.delay = IF failures.inRow < Len(DelayAfter) THEN DelayAfter[failures.inRow + 1]
                                                         ELSE kMaxRetryDelayMs

(* After stop(), until connect() is called again, no connection comes up,  *)
(* and nothing is tried once the loop has run stopInLoop().                *)
StopSticks ==
    /\ [][stopped /\ connection = "none" => connection' = "none"]_clientVars
    /\ [][stopped /\ k.functors = <<>> /\ stopped' => k'.channel # "watching"]_clientVars

(* A client that wants a connection gets one, whatever failures it meets   *)
(* on the way, unless ::connect() fails for good; also after a connection  *)
(* was lost, if it is to retry.                                            *)
Pending == k.timers > 0 \/ Queued("startInLoop") > 0 \/ k.channel = "watching" \/ restarting
GetsThrough == Pending /\ k.connect ~> connection = "up" \/ ~ k.connect \/ hopeless

(* Start, timer, channel, functors and connection fit together, whatever   *)
(* fails and whenever the application calls.                               *)
ClientConsistent == ConnectorAsserts /\ SingleAttempt /\ SocketsOwned /\ Backoff

(* The client connects as long as it is to, and not once it was stopped.   *)
ConnectsAsAsked == StopSticks /\ GetsThrough
=============================================================================
