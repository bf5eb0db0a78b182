----------------------------- MODULE Connector ------------------------------
(***************************************************************************)
(* Connector: connects a socket without blocking, and tries again with     *)
(* growing delays when it fails.  Its operations as functions of a state k *)
(* of the connector and of what it has pending in the loop:                *)
(*   connect, state, delay   connect_, state_, retryDelayMs_               *)
(*   channel      "none", "watching" the socket, or "removed" and to be    *)
(*                reset by a queued resetChannel()                         *)
(*   functors     what it queued in the loop                               *)
(*   timers       calls of startInLoop() that retry() has scheduled        *)
(*   sockets      how many sockets are open                                *)
(*   failed       an assert has failed                                     *)
(***************************************************************************)
EXTENDS Naturals, Sequences

kInitRetryDelayMs == 500
kMaxRetryDelayMs == 30 * 1000

NewConnector == [connect |-> FALSE, state |-> "kDisconnected", delay |-> kInitRetryDelayMs,
                 channel |-> "none", functors |-> <<>>, timers |-> 0, sockets |-> 0,
                 failed |-> FALSE]

queueInLoop(k, f) == [k EXCEPT !.functors = Append(@, f)]
Asserts(k, test) == [k EXCEPT !.failed = @ \/ ~ test]

Doubled(delay) == IF delay * 2 < kMaxRetryDelayMs THEN delay * 2 ELSE kMaxRetryDelayMs

Retries(k) == k.connect

Closed(k) == [k EXCEPT !.sockets = @ - 1, !.state = "kDisconnected"]

retry(k) == IF Retries(k) THEN [Closed(k) EXCEPT !.timers = @ + 1, !.delay = Doubled(@)] ELSE Closed(k)

connecting(k) ==
    [Asserts(k, k.channel = "none") EXCEPT !.state = "kConnecting", !.channel = "watching"]

(* What ::connect() may return, by what connect() makes of it.             *)
Results == {"started", "again", "hopeless"}

connect(k, result) ==
    LET opened == [k EXCEPT !.sockets = @ + 1] IN
    CASE result = "started" -> connecting(opened)
      [] result = "again" -> retry(opened)
      [] result = "hopeless" -> k

startInLoop(k, result) ==
    LET checked == Asserts(k, k.state = "kDisconnected") IN
    IF k.connect THEN connect(checked, result) ELSE checked

removeAndResetChannel(k) == queueInLoop([k EXCEPT !.channel = "removed"], "resetChannel")

resetChannel(k) == [k EXCEPT !.channel = "none"]

stopInLoop(k) ==
    IF k.state = "kConnecting"
    THEN retry(removeAndResetChannel([k EXCEPT !.state = "kDisconnected"]))
    ELSE k

restart(k, result) ==
    startInLoop([k EXCEPT !.state = "kDisconnected", !.delay = kInitRetryDelayMs,
                          !.connect = TRUE], result)

handleError(k) ==
    IF k.state = "kConnecting" THEN retry(removeAndResetChannel(k)) ELSE k

(* What the socket turns out to be once it is writable.                    *)
Outcomes == {"connected", "SO_ERROR", "self connect"}

(* Mutant: every connection is handed on.                                  *)
MutWanted(k) == TRUE

Wanted(k) == k.connect

Unwanted(k) == [k EXCEPT !.sockets = @ - 1]

(* Mutant: does not ask whether handleError() has been there before.       *)
MutStillConnecting(k) == TRUE

StillConnecting(k) == k.state = "kConnecting"

(* handleWrite(), up to the call of newConnectionCallback_.                *)
handleWrite(k, outcome) ==
    IF ~ StillConnecting(k) THEN Asserts(k, k.state = "kDisconnected")
    ELSE LET r == removeAndResetChannel(k) IN
         IF outcome # "connected" THEN retry(r)
         ELSE IF Wanted(k) THEN [r EXCEPT !.state = "kConnected"]
         ELSE Unwanted([r EXCEPT !.state = "kConnected"])
=============================================================================
