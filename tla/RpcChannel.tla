---------------------------- MODULE RpcChannel ------------------------------
(***************************************************************************)
(* muduo::net::RpcChannel at both ends of a connection: threads of the     *)
(* client call CallMethod(), the server's loop hands the requests to its   *)
(* services, and the answers come back to the client's loop, which runs    *)
(* the calls' closures.  The codec and the connection deliver whole        *)
(* messages in order while the connection is up (ProtobufCodec,            *)
(* TcpConnection).                                                         *)
(*                                                                         *)
(* A call is known by its caller and its number.  Its method tells what    *)
(* the server has for it: a service that answers from within CallMethod(), *)
(* one that keeps the closure and runs it later, or an error.              *)
(***************************************************************************)
EXTENDS Naturals, Sequences, SequencesExt

CONSTANTS
  Callers,   \* the client's threads that make calls
  MaxCalls   \* bound on the calls each of them makes

\* "refused": NO_SERVICE, NO_METHOD or INVALID_REQUEST, which the client does
\* not tell apart.
Methods == {"prompt", "deferred", "refused"}

VARIABLES
  id_,            \* the client's AtomicInt64
  caller,         \* caller[t]: the calls thread t has made and what it has to do for the last
  outstandings_,  \* the client's map, as a set of its entries
  requests,       \* messages on their way to the server
  responses,      \* messages on their way to the client
  kept,           \* closures that services have kept, as the requests they answer
  up,             \* whether the connection is up
  channel,        \* the channels that exist, of "client" and "server"
  fate,           \* history: what the closure of a call was run with, or that it was deleted
  dangling        \* history: a kept closure has been run on a deleted channel

rpcVars ==
  <<id_, caller, outstandings_, requests, responses, kept, up, channel, fate, dangling>>

Init ==
  /\ id_ = 0
  /\ caller = [t \in Callers |-> [made |-> <<>>, id |-> 0, todo |-> <<>>]]
  /\ outstandings_ = {}
  /\ requests = <<>>
  /\ responses = <<>>
  /\ kept = {}
  /\ up = TRUE
  /\ channel = {"client", "server"}
  /\ fate = [t \in Callers |-> [n \in 1..MaxCalls |-> <<>>]]
  /\ dangling = FALSE

-----------------------------------------------------------------------------
(* CallMethod(), in a thread of the client.                                  *)

\* What is left to do once the call has its id.
Steps == <<"register", "send">>

\* id_.incrementAndGet()
NextId == id_ + 1

LastCall(t) ==
  [by |-> t, n |-> Len(caller[t].made), method |-> Last(caller[t].made)]

BeginsCall(t, method) ==
  /\ "client" \in channel
  /\ caller[t].todo = <<>> /\ Len(caller[t].made) < MaxCalls
  /\ id_' = NextId
  /\ caller' = [caller EXCEPT ![t] =
                  [made |-> Append(@.made, method), id |-> NextId, todo |-> Steps]]
  /\ UNCHANGED <<outstandings_, requests, responses, kept, up, channel, fate, dangling>>

\* Thread t is at step what of CallMethod(), and goes on.
Does(t, what) ==
  /\ caller[t].todo # <<>> /\ Head(caller[t].todo) = what
  /\ caller' = [caller EXCEPT ![t].todo = Tail(@)]

\* outstandings_[id] = out
Registers(t) ==
  /\ Does(t, "register")
  /\ outstandings_' = {o \in outstandings_ : o.id # caller[t].id}
                        \cup {[id |-> caller[t].id, call |-> LastCall(t)]}
  /\ UNCHANGED <<id_, requests, responses, kept, up, channel, fate, dangling>>

\* codec_.send(); a connection that is down drops it.
Sends(t) ==
  /\ Does(t, "send")
  /\ requests' = IF up THEN Append(requests, [id |-> caller[t].id, call |-> LastCall(t)])
                       ELSE requests
  /\ UNCHANGED <<id_, outstandings_, responses, kept, up, channel, fate, dangling>>

-----------------------------------------------------------------------------
(* onRpcMessage() in the server's loop, and doneCallback().                  *)

\* A RESPONSE: what the service made of the request or, after an error, no
\* response field (the client does not look at the error field).
Response(request) ==
  [id |-> request.id,
   response |-> IF request.call.method = "refused" THEN {} ELSE {request.call}]

\* codec_.send(conn_, response)
Answer(request) == responses' = IF up THEN Append(responses, Response(request)) ELSE responses

\* No service, no method, or the request does not parse.
Refuses(request) ==
  request.call.method = "refused" /\ Answer(request) /\ UNCHANGED kept

\* service->CallMethod() runs the closure, which is doneCallback(), itself ...
AnswersAtOnce(request) ==
  request.call.method = "prompt" /\ Answer(request) /\ UNCHANGED kept

\* ... or keeps it.
KeepsDone(request) ==
  request.call.method = "deferred" /\ kept' = kept \cup {request} /\ UNCHANGED responses

OnRequest ==
  /\ "server" \in channel /\ requests # <<>>
  /\ requests' = Tail(requests)
  /\ \/ Refuses(Head(requests))
     \/ AnswersAtOnce(Head(requests))
     \/ KeepsDone(Head(requests))
  /\ UNCHANGED <<id_, caller, outstandings_, up, channel, fate, dangling>>

\* A service runs a closure it has kept.  The closure has the channel's
\* address, whether the channel still exists or not.
RunsKept(request) ==
  /\ request \in kept
  /\ kept' = kept \ {request}
  /\ IF "server" \in channel THEN Answer(request) /\ UNCHANGED dangling
     ELSE dangling' = TRUE /\ UNCHANGED responses
  /\ UNCHANGED <<id_, caller, outstandings_, requests, up, channel, fate>>

-----------------------------------------------------------------------------
(* onRpcMessage() in the client's loop.                                      *)

\* Adds to what has become of a call.
Ends(what, calls) ==
  fate' = [t \in Callers |-> [n \in 1..MaxCalls |->
             IF \E c \in calls : c.by = t /\ c.n = n THEN Append(fate[t][n], what) ELSE fate[t][n]]]

\* Mutant: answers are taken for those of the oldest call.
MutFound(id) == {o \in outstandings_ : \A p \in outstandings_ : o.id <= p.id}

\* outstandings_.find(id)
Found(id) == {o \in outstandings_ : o.id = id}

\* The closure runs with the response parsed, or left empty after an error;
\* an answer nobody waits for is ignored.
OnResponse ==
  /\ "client" \in channel /\ responses # <<>>
  /\ responses' = Tail(responses)
  /\ outstandings_' = outstandings_ \ Found(Head(responses).id)
  /\ Ends([is |-> "run", with |-> Head(responses).response],
          {o.call : o \in Found(Head(responses).id)})
  /\ UNCHANGED <<id_, caller, requests, kept, up, channel, dangling>>

-----------------------------------------------------------------------------
(* The connection goes down, and the client deletes its channel after that.  *)

\* RpcServer::onConnection() resets the context, which holds the channel; some
\* of the answers may still reach the client.
Disconnects(n) ==
  /\ up /\ n <= Len(responses)
  /\ up' = FALSE
  /\ requests' = <<>>
  /\ responses' = SubSeq(responses, 1, n)
  /\ channel' = channel \ {"server"}
  /\ UNCHANGED <<id_, caller, outstandings_, kept, fate, dangling>>

\* ~RpcChannel() deletes the responses and closures of the calls that have not
\* been answered.
DeletesChannel ==
  /\ ~up /\ "client" \in channel
  /\ \A t \in Callers : caller[t].todo = <<>>
  /\ channel' = channel \ {"client"}
  /\ responses' = <<>>
  /\ Ends([is |-> "deleted", with |-> {}], {o.call : o \in outstandings_})
  /\ outstandings_' = {}
  /\ UNCHANGED <<id_, caller, requests, kept, up, dangling>>

CallerStep(t) == Registers(t) \/ Sends(t)

Next ==
  \/ \E t \in Callers : CallerStep(t) \/ \E method \in Methods : BeginsCall(t, method)
  \/ OnRequest \/ OnResponse
  \/ \E request \in kept : RunsKept(request)
  \/ \E n \in 0..Len(responses) : Disconnects(n)
  \/ DeletesChannel

-----------------------------------------------------------------------------
(* Properties.                                                               *)

\* The calls that thread t has got through CallMethod().
Made(t) == 1..(Len(caller[t].made) - (IF caller[t].todo = <<>> THEN 0 ELSE 1))

\* Whoever answers, in whatever order, the closure of a call is run at most
\* once, with the result of its own request and not of another thread's; or it
\* is deleted with the channel, not both.
OwnAnswerOnce ==
  \A t \in Callers : \A n \in DOMAIN caller[t].made :
    /\ Len(fate[t][n]) <= 1
    /\ fate[t][n] # <<>> =>
         LET method == caller[t].made[n]
             own == IF method = "refused" THEN {} ELSE {[by |-> t, n |-> n, method |-> method]}
         IN  fate[t][n][1] \in {[is |-> "deleted", with |-> {}], [is |-> "run", with |-> own]}

\* An answer never comes before its call is in the map: the call is registered
\* before it is sent, so that even a server that answers at once finds it.
AnswersFindTheirCall ==
  "client" \in channel =>
    \A i \in DOMAIN responses : \E o \in outstandings_ : o.id = responses[i].id

\* No response object leaks: every call that has been made is in the map, or
\* its closure has been run or deleted.
NoneForgotten ==
  \A t \in Callers : \A n \in Made(t) :
    fate[t][n] = <<>> <=> \E o \in outstandings_ : o.call.by = t /\ o.call.n = n

\* Every call is accounted for, whatever the order of threads and answers.
CallsKept == OwnAnswerOnce /\ AnswersFindTheirCall /\ NoneForgotten

\* While the connection stays up every call is answered, errors included.
CallsAnswered ==
  \A t \in Callers : \A n \in 1..MaxCalls : (n \in Made(t)) ~> (fate[t][n] # <<>> \/ ~up)
=============================================================================
