---------------------------- MODULE StreamsProofs ----------------------------
(***************************************************************************)
(* Proofs about what muduo/net builds on a byte stream: an RpcChannel      *)
(* keeps account of its calls, a Buffer is a queue of bytes, and           *)
(* ProtobufCodecLite finds the frames in the stream.                       *)
(***************************************************************************)
EXTENDS MCStreams, SequenceTheorems, FiniteSetTheorems, WellFoundedInduction, TLAPS

-----------------------------------------------------------------------------
(* Sequences.                                                              *)

(* What Append() adds is the last element.                                 *)
LEMMA AppendFacts ==
    ASSUME NEW S, NEW s \in Seq(S), NEW x \in S
    PROVE  /\ Append(s, x) \in Seq(S)
           /\ Len(Append(s, x)) = Len(s) + 1
           /\ Len(s) \in Nat
           /\ \A i \in 1..(Len(s) + 1) : Append(s, x)[i] = IF i = Len(s) + 1 THEN x ELSE s[i]
           /\ \A i \in 1..Len(s) : s[i] \in S
  OBVIOUS

(* Tail() moves the elements down by one.                                  *)
LEMMA TailFacts ==
    ASSUME NEW S, NEW s \in Seq(S), s # <<>>
    PROVE  /\ Tail(s) \in Seq(S)
           /\ Len(Tail(s)) = Len(s) - 1
           /\ Len(s) \in Nat /\ Len(s) > 0
           /\ Head(s) = s[1] /\ Head(s) \in S
           /\ \A i \in 1..(Len(s) - 1) : Tail(s)[i] = s[i + 1]
           /\ \A i \in 1..Len(s) : s[i] \in S
  OBVIOUS

-----------------------------------------------------------------------------
(* RpcChannel: every call of it gets its own answer, once.                 *)

(* Calls, as they are known; the entries of the map; messages and fates.   *)
Calls == [by : Callers, n : 1..MaxCalls, method : Rpc!Methods]
Entries == [id : Nat, call : Calls]
Replies == [id : Nat, response : SUBSET Calls]
Fates == [is : {"run", "deleted"}, with : SUBSET Calls]
Todos == {<<>>, <<"send">>, <<"register", "send">>}

(* Types.                                                                  *)
RpcType ==
  /\ id_ \in Nat
  /\ caller \in [Callers -> [made : Seq(Rpc!Methods), id : Nat, todo : Todos]]
  /\ \A t \in Callers : Len(caller[t].made) <= MaxCalls
  /\ outstandings_ \in SUBSET Entries
  /\ requests \in Seq(Entries)
  /\ responses \in Seq(Replies)
  /\ kept \in SUBSET Entries
  /\ up \in BOOLEAN
  /\ channel \in SUBSET {"client", "server"}
  /\ fate \in [Callers -> [1..MaxCalls -> Seq(Fates)]]

(* What goes with the connection and with the client's channel.            *)
LinkInv ==
  /\ ("server" \in channel) <=> up
  /\ ~up => requests = <<>>
  /\ "client" \notin channel =>
       /\ ~up /\ responses = <<>> /\ outstandings_ = {}
       /\ \A t \in Callers : caller[t].todo = <<>>

(* The call c has been made by its thread, with its method.                *)
IsMade(c) == c.n <= Len(caller[c.by].made) /\ c.method = caller[c.by].made[c.n]

SameCall(c, d) == c.by = d.by /\ c.n = d.n

(* An entry of the map has an id that was given out, is of a call that was *)
(* made and has not ended, and is the only one of its id and of its call.  *)
MapInv ==
  \A o \in outstandings_ :
    /\ o.id <= id_
    /\ IsMade(o.call)
    /\ fate[o.call.by][o.call.n] = <<>>
    /\ \A p \in outstandings_ : (p.id = o.id \/ SameCall(p.call, o.call)) => p = o

(* Where a thread is in CallMethod().                                      *)
Registering(t) == caller[t].todo = <<"register", "send">>
Sending(t) == caller[t].todo = <<"send">>

(* Threads within CallMethod() have ids of their own; the call is not yet  *)
(* in the map before it is registered, and is there before it is sent.     *)
CallersInv ==
  \A t \in Callers :
    /\ caller[t].todo # <<>> =>
         /\ Len(caller[t].made) > 0 /\ caller[t].id <= id_
         /\ \A u \in Callers : (u # t /\ caller[u].todo # <<>>) => caller[u].id # caller[t].id
    /\ Registering(t) =>
         /\ fate[t][Len(caller[t].made)] = <<>>
         /\ \A o \in outstandings_ :
              o.id # caller[t].id /\ ~(o.call.by = t /\ o.call.n = Len(caller[t].made))
    /\ Sending(t) => [id |-> caller[t].id, call |-> Rpc!LastCall(t)] \in outstandings_

(* While the client's channel exists, what is on its way belongs to an     *)
(* entry of the map.                                                       *)
WaitedFor ==
  "client" \in channel =>
    /\ \A i \in 1..Len(requests) : requests[i] \in outstandings_
    /\ kept \subseteq outstandings_
    /\ \A i \in 1..Len(responses) : \E o \in outstandings_ : responses[i] = Rpc!Response(o)

(* A call is in one place at a time: about to be sent, on its way to the   *)
(* server, kept there, or on its way back.                                 *)
OnlyOnce ==
  "client" \in channel =>
    /\ \A i, j \in 1..Len(requests) : requests[i].id = requests[j].id => i = j
    /\ \A i, j \in 1..Len(responses) : responses[i].id = responses[j].id => i = j
    /\ \A i \in 1..Len(requests) : \A j \in 1..Len(responses) : requests[i].id # responses[j].id
    /\ \A k \in kept :
         /\ \A i \in 1..Len(requests) : requests[i].id # k.id
         /\ \A i \in 1..Len(responses) : responses[i].id # k.id
    /\ \A t \in Callers : Sending(t) =>
         /\ \A i \in 1..Len(requests) : requests[i].id # caller[t].id
         /\ \A i \in 1..Len(responses) : responses[i].id # caller[t].id
         /\ \A k \in kept : k.id # caller[t].id

(* The answer to call n of thread t.                                       *)
Own(t, n) ==
  IF caller[t].made[n] = "refused" THEN {} ELSE {[by |-> t, n |-> n, method |-> caller[t].made[n]]}

(* A call ends at most once, with its own answer or by the channel's       *)
(* deletion; until then it is in the map, or about to be.                  *)
FateInv ==
  \A t \in Callers : \A n \in 1..MaxCalls :
    /\ n > Len(caller[t].made) => fate[t][n] = <<>>
    /\ n <= Len(caller[t].made) =>
         /\ fate[t][n] \in {<<>>, <<[is |-> "deleted", with |-> {}]>>,
                            <<[is |-> "run", with |-> Own(t, n)]>>}
         /\ \/ fate[t][n] # <<>>
            \/ Registering(t) /\ n = Len(caller[t].made)
            \/ \E o \in outstandings_ : o.call.by = t /\ o.call.n = n

(* The inductive invariant.                                                *)
RpcInv == RpcType /\ LinkInv /\ MapInv /\ CallersInv /\ WaitedFor /\ OnlyOnce /\ FateInv

(* The three places in CallMethod().                                       *)
LEMMA TodoFacts ==
    /\ <<"send">> # <<>> /\ <<"register", "send">> # <<>> /\ <<"send">> # <<"register", "send">>
    /\ Head(<<"send">>) = "send" /\ Tail(<<"send">>) = <<>>
    /\ Head(<<"register", "send">>) = "register" /\ Tail(<<"register", "send">>) = <<"send">>
<1>1. Len(<<"send">>) = 1 /\ Len(<<>>) = 0 /\ Len(<<"register", "send">>) = 2
  OBVIOUS
<1>2. Tail(<<"send">>) = <<>>
  OBVIOUS
<1>3. Tail(<<"register", "send">>) = <<"send">>
  OBVIOUS
<1> QED
  BY <1>1, <1>2, <1>3

(* The last call of a thread that has made one.                            *)
LEMMA LastCallFacts ==
    ASSUME NEW t \in Callers, RpcType, Len(caller[t].made) > 0
    PROVE  /\ Rpc!LastCall(t) = [by |-> t, n |-> Len(caller[t].made),
                                 method |-> caller[t].made[Len(caller[t].made)]]
           /\ Rpc!LastCall(t) \in Calls
<1>1. Rpc!LastCall(t) = [by |-> t, n |-> Len(caller[t].made),
                         method |-> caller[t].made[Len(caller[t].made)]]
  BY DEF Rpc!LastCall, Rpc!Last
<1>2. caller[t].made \in Seq(Rpc!Methods) /\ Len(caller[t].made) \in 1..MaxCalls
  BY CallsAssumption DEF RpcType
<1>3. caller[t].made[Len(caller[t].made)] \in Rpc!Methods
  BY <1>2
<1> QED
  BY <1>1, <1>2, <1>3 DEF Calls

(* A new channel keeps account of its calls.                               *)
LEMMA RpcInitInv == Rpc!Init => RpcInv
<1> SUFFICES ASSUME Rpc!Init PROVE RpcInv
  OBVIOUS
<1> USE DEF Rpc!Init
<1>1. RpcType
  BY CallsAssumption DEF RpcType, Todos
<1>2. LinkInv
  BY DEF LinkInv
<1>3. MapInv
  BY DEF MapInv
<1>4. CallersInv
  BY DEF CallersInv, Registering, Sending
<1>5. WaitedFor
  BY DEF WaitedFor
<1>6. OnlyOnce
  BY DEF OnlyOnce, Sending
<1>7. FateInv
  BY CallsAssumption DEF FateInv
<1> QED
  BY <1>1, <1>2, <1>3, <1>4, <1>5, <1>6, <1>7 DEF RpcInv

(* CallMethod() takes a new id.                                            *)
LEMMA BeginsCallInv ==
    ASSUME RpcInv, NEW t \in Callers, NEW method \in Rpc!Methods, Rpc!BeginsCall(t, method)
    PROVE  RpcInv'
<1> DEFINE made == caller[t].made
<1>1. RpcType /\ LinkInv /\ MapInv /\ CallersInv /\ WaitedFor /\ OnlyOnce /\ FateInv
  BY DEF RpcInv
<1>2. /\ "client" \in channel /\ caller[t].todo = <<>> /\ Len(made) < MaxCalls
      /\ id_' = id_ + 1
      /\ caller' = [caller EXCEPT ![t] = [made |-> Append(made, method), id |-> id_ + 1,
                                          todo |-> <<"register", "send">>]]
      /\ UNCHANGED <<outstandings_, requests, responses, kept, up, channel, fate>>
  BY DEF Rpc!BeginsCall, Rpc!NextId, Rpc!Steps
<1>3. /\ made \in Seq(Rpc!Methods) /\ Len(made) \in Nat
      /\ Append(made, method) \in Seq(Rpc!Methods) /\ Len(Append(made, method)) = Len(made) + 1
      /\ \A i \in 1..Len(made) : Append(made, method)[i] = made[i]
  BY <1>1, AppendFacts DEF RpcType
<1>4. /\ caller'[t] = [made |-> Append(made, method), id |-> id_ + 1, todo |-> <<"register", "send">>]
      /\ \A u \in Callers : u # t => caller'[u] = caller[u]
  BY <1>1, <1>2 DEF RpcType
<1>5. RpcType'
  <2>1. caller' \in [Callers -> [made : Seq(Rpc!Methods), id : Nat, todo : Todos]]
    BY <1>1, <1>2, <1>3 DEF RpcType, Todos
  <2>2. \A u \in Callers : Len(caller'[u].made) <= MaxCalls
    BY <1>1, <1>2, <1>3, <1>4, CallsAssumption DEF RpcType
  <2> QED
    BY <1>1, <1>2, <2>1, <2>2 DEF RpcType
<1>6. LinkInv'
  BY <1>1, <1>2 DEF LinkInv
<1>7. MapInv'
  <2> SUFFICES ASSUME NEW o \in outstandings_
               PROVE  o.id <= id_ + 1 /\ IsMade(o.call)'
    BY <1>1, <1>2 DEF MapInv, SameCall
  <2>1. o.id \in Nat /\ o.call.by \in Callers /\ o.call.n \in 1..MaxCalls /\ id_ \in Nat
    BY <1>1 DEF RpcType, Entries, Calls
  <2>2. o.id <= id_ /\ IsMade(o.call)
    BY <1>1 DEF MapInv
  <2>3. o.call.by = t => IsMade(o.call)'
    BY <1>3, <1>4, <2>1, <2>2, SMTT(40) DEF IsMade
  <2>4. o.call.by # t => IsMade(o.call)'
    BY <1>4, <2>1, <2>2 DEF IsMade
  <2> QED
    BY <2>1, <2>2, <2>3, <2>4
<1>8. CallersInv'
  <2>1. \A o \in outstandings_ : o.id # id_ + 1 /\ ~(o.call.by = t /\ o.call.n = Len(made) + 1)
    BY <1>1, <1>3 DEF MapInv, IsMade, RpcType, Entries, Calls
  <2>2. fate[t][Len(made) + 1] = <<>>
    BY <1>1, <1>2, <1>3, CallsAssumption, SMTT(40) DEF FateInv
  <2>3. \A u \in Callers : u # t /\ caller[u].todo # <<>> => caller[u].id # id_ + 1
    <3> SUFFICES ASSUME NEW u \in Callers, caller[u].todo # <<>> PROVE caller[u].id # id_ + 1
      OBVIOUS
    <3>1. caller[u].id \in Nat /\ id_ \in Nat /\ caller[u].id <= id_
      BY <1>1 DEF CallersInv, RpcType
    <3> QED
      BY <3>1
  <2> SUFFICES ASSUME NEW u \in Callers
               PROVE  /\ caller'[u].todo # <<>> =>
                           /\ Len(caller'[u].made) > 0 /\ caller'[u].id <= id_ + 1
                           /\ \A v \in Callers : (v # u /\ caller'[v].todo # <<>>) => caller'[v].id # caller'[u].id
                      /\ Registering(u)' =>
                           /\ fate[u][Len(caller'[u].made)] = <<>>
                           /\ \A o \in outstandings_ :
                                o.id # caller'[u].id /\ ~(o.call.by = u /\ o.call.n = Len(caller'[u].made))
                      /\ Sending(u)' => [id |-> caller'[u].id, call |-> Rpc!LastCall(u)'] \in outstandings_
    BY <1>2 DEF CallersInv
  <2>4. CASE u = t
    BY <1>1, <1>3, <1>4, <2>1, <2>2, <2>3, <2>4 DEF Sending, RpcType
  <2>5. CASE u # t
    <3>1. caller'[u] = caller[u] /\ Rpc!LastCall(u)' = Rpc!LastCall(u) /\ Registering(u)' = Registering(u)
            /\ Sending(u)' = Sending(u)
      BY <1>4, <2>5 DEF Rpc!LastCall, Registering, Sending
    <3>2. caller[u].id \in Nat /\ id_ \in Nat
      BY <1>1 DEF RpcType
    <3>3. /\ caller[u].todo # <<>> => Len(caller[u].made) > 0 /\ caller[u].id <= id_
          /\ Registering(u) =>
               /\ fate[u][Len(caller[u].made)] = <<>>
               /\ \A o \in outstandings_ :
                    o.id # caller[u].id /\ ~(o.call.by = u /\ o.call.n = Len(caller[u].made))
          /\ Sending(u) => [id |-> caller[u].id, call |-> Rpc!LastCall(u)] \in outstandings_
      BY <1>1 DEF CallersInv
    <3>4. ASSUME NEW v \in Callers, v # u, caller'[v].todo # <<>>, caller[u].todo # <<>>
          PROVE  caller'[v].id # caller[u].id
      <4>1. CASE v = t
        BY <1>4, <2>3, <2>5, <3>4, <4>1
      <4>2. CASE v # t
        BY <1>1, <1>4, <3>4, <4>2, ZenonT(60) DEF CallersInv
      <4> QED
        BY <4>1, <4>2
    <3> QED
      BY <3>1, <3>2, <3>3, <3>4
  <2> QED
    BY <2>4, <2>5
<1>9. WaitedFor'
  BY <1>1, <1>2 DEF WaitedFor, Rpc!Response
<1>10. OnlyOnce'
  <2>1. \A u \in Callers : Sending(u)' => Sending(u) /\ caller'[u] = caller[u]
    BY <1>4 DEF Sending
  <2>2. /\ channel' = channel /\ requests' = requests /\ responses' = responses /\ kept' = kept
        /\ OnlyOnce
    BY <1>1, <1>2
  <2> SUFFICES ASSUME "client" \in channel, NEW u \in Callers, Sending(u)'
               PROVE  /\ \A i \in 1..Len(requests) : requests[i].id # caller'[u].id
                      /\ \A i \in 1..Len(responses) : responses[i].id # caller'[u].id
                      /\ \A k \in kept : k.id # caller'[u].id
    BY <2>2, ZenonT(60) DEF OnlyOnce
  <2>3. caller'[u] = caller[u] /\ Sending(u)
    BY <2>1
  <2> QED
    BY <2>2, <2>3 DEF OnlyOnce
<1>11. FateInv'
  <2> SUFFICES ASSUME NEW u \in Callers, NEW n \in 1..MaxCalls
               PROVE  /\ n > Len(caller'[u].made) => fate[u][n] = <<>>
                      /\ n <= Len(caller'[u].made) =>
                           /\ fate[u][n] \in {<<>>, <<[is |-> "deleted", with |-> {}]>>,
                                              <<[is |-> "run", with |-> Own(u, n)']>>}
                           /\ \/ fate[u][n] # <<>>
                              \/ Registering(u)' /\ n = Len(caller'[u].made)
                              \/ \E o \in outstandings_ : o.call.by = u /\ o.call.n = n
    BY <1>2 DEF FateInv
  <2>1. CASE u # t
    BY <1>1, <1>4, <2>1 DEF FateInv, Registering, Own
  <2>2. CASE u = t
    <3>1. n <= Len(made) => Own(t, n)' = Own(t, n)
      <4>1. n <= Len(made) => caller'[t].made[n] = made[n]
        BY <1>3, <1>4
      <4> QED
        BY <4>1 DEF Own
    <3>2. Registering(t)' /\ ~ Registering(t) /\ Len(caller'[t].made) = Len(made) + 1
      BY <1>2, <1>3, <1>4 DEF Registering
    <3> QED
      BY <1>1, <1>3, <2>2, <3>1, <3>2 DEF FateInv
  <2> QED
    BY <2>1, <2>2
<1> QED
  BY <1>5, <1>6, <1>7, <1>8, <1>9, <1>10, <1>11 DEF RpcInv

(* What FateInv is after a step that does not touch the calls made.        *)
LEMMA FatePrimed ==
    ASSUME \A t \in Callers : caller'[t].made = caller[t].made,
           \A t \in Callers : \A n \in 1..MaxCalls :
             /\ n > Len(caller[t].made) => fate'[t][n] = <<>>
             /\ n <= Len(caller[t].made) =>
                  /\ fate'[t][n] \in {<<>>, <<[is |-> "deleted", with |-> {}]>>,
                                      <<[is |-> "run", with |-> Own(t, n)]>>}
                  /\ \/ fate'[t][n] # <<>>
                     \/ Registering(t)' /\ n = Len(caller[t].made)
                     \/ \E o \in outstandings_' : o.call.by = t /\ o.call.n = n
    PROVE  FateInv'
<1>1. \A t \in Callers, n \in 1..MaxCalls : Own(t, n)' = Own(t, n)
  BY DEF Own
<1> HIDE DEF Own
<1> SUFFICES ASSUME NEW t \in Callers, NEW n \in 1..MaxCalls
             PROVE  /\ n > Len(caller'[t].made) => fate'[t][n] = <<>>
                    /\ n <= Len(caller'[t].made) =>
                         /\ fate'[t][n] \in {<<>>, <<[is |-> "deleted", with |-> {}]>>,
                                             <<[is |-> "run", with |-> Own(t, n)']>>}
                         /\ \/ fate'[t][n] # <<>>
                            \/ Registering(t)' /\ n = Len(caller'[t].made)
                            \/ \E o \in outstandings_' : o.call.by = t /\ o.call.n = n
  BY DEF FateInv
<1>2. caller'[t].made = caller[t].made /\ Own(t, n)' = Own(t, n)
  BY <1>1
<1> QED
  BY <1>2

(* The call is entered into the map under its id, before it is sent.       *)
LEMMA RegistersInv ==
    ASSUME RpcInv, NEW t \in Callers, Rpc!Registers(t)
    PROVE  RpcInv'
<1> DEFINE new == [id |-> caller[t].id, call |-> Rpc!LastCall(t)]
<1>1. RpcType /\ LinkInv /\ MapInv /\ CallersInv /\ WaitedFor /\ OnlyOnce /\ FateInv
  BY DEF RpcInv
<1>2. /\ Head(caller[t].todo) = "register" /\ caller[t].todo # <<>>
      /\ caller' = [caller EXCEPT ![t].todo = Tail(@)]
      /\ outstandings_' = {o \in outstandings_ : o.id # caller[t].id} \cup {new}
      /\ UNCHANGED <<id_, requests, responses, kept, up, channel, fate>>
  BY DEF Rpc!Registers, Rpc!Does
<1>3. caller[t].todo = <<"register", "send">> /\ Tail(caller[t].todo) = <<"send">>
  <2>1. caller[t].todo \in Todos
    BY <1>1 DEF RpcType
  <2> QED
    BY <1>2, <2>1, TodoFacts DEF Todos
<1>4. /\ caller' \in [Callers -> [made : Seq(Rpc!Methods), id : Nat, todo : Todos]]
      /\ caller'[t].made = caller[t].made /\ caller'[t].id = caller[t].id /\ caller'[t].todo = <<"send">>
      /\ \A u \in Callers : u # t => caller'[u] = caller[u]
      /\ \A u \in Callers : caller'[u].made = caller[u].made /\ caller'[u].id = caller[u].id
  BY <1>1, <1>2, <1>3 DEF RpcType, Todos
<1>5. /\ Len(caller[t].made) > 0 /\ caller[t].id <= id_ /\ caller[t].id \in Nat
      /\ fate[t][Len(caller[t].made)] = <<>>
      /\ \A o \in outstandings_ :
           o.id # caller[t].id /\ ~(o.call.by = t /\ o.call.n = Len(caller[t].made))
      /\ \A u \in Callers : (u # t /\ caller[u].todo # <<>>) => caller[u].id # caller[t].id
      /\ "client" \in channel
  <2>1. caller[t].id \in Nat /\ caller[t].todo # <<>> /\ Registering(t)
    BY <1>1, <1>3, TodoFacts DEF RpcType, Registering
  <2>2. "client" \in channel
    BY <1>1, <2>1 DEF LinkInv
  <2> QED
    BY <1>1, <2>1, <2>2 DEF CallersInv
<1>6. outstandings_' = outstandings_ \cup {new}
  BY <1>2, <1>5
<1>7. /\ new \in Entries /\ new.id = caller[t].id /\ new.call.by = t
      /\ new.call.n = Len(caller[t].made) /\ new.call.method = caller[t].made[new.call.n]
      /\ new.call = Rpc!LastCall(t)
  BY <1>1, <1>5, LastCallFacts DEF Entries
<1>8. \A u \in Callers : Rpc!LastCall(u)' = Rpc!LastCall(u)
  BY <1>4 DEF Rpc!LastCall
<1> HIDE DEF new
<1>9. RpcType'
  BY <1>1, <1>2, <1>4, <1>6, <1>7 DEF RpcType
<1>10. LinkInv'
  BY <1>1, <1>2, <1>5 DEF LinkInv
<1>11. MapInv'
  <2>1. \A c : c.by \in Callers => (IsMade(c)' <=> IsMade(c))
    BY <1>4 DEF IsMade
  <2>2. IsMade(new.call)
    BY <1>1, <1>7 DEF IsMade, RpcType
  <2>3. \A o \in outstandings_ : o.id # new.id /\ ~ SameCall(o.call, new.call) /\ ~ SameCall(new.call, o.call)
    BY <1>5, <1>7 DEF SameCall
  <2>4. \A o \in outstandings_ : o.call.by \in Callers
    BY <1>1 DEF RpcType, Entries, Calls
  <2> SUFFICES ASSUME NEW o \in outstandings_ \cup {new}
               PROVE  /\ o.id <= id_
                      /\ IsMade(o.call)
                      /\ fate[o.call.by][o.call.n] = <<>>
                      /\ \A p \in outstandings_ \cup {new} :
                           (p.id = o.id \/ SameCall(p.call, o.call)) => p = o
    BY <1>2, <1>6, <1>7, <2>1, <2>4 DEF MapInv, SameCall
  <2>5. CASE o = new
    BY <1>5, <1>7, <2>2, <2>3, <2>5
  <2>6. CASE o \in outstandings_
    BY <1>1, <2>3, <2>6 DEF MapInv
  <2> QED
    BY <2>5, <2>6
<1>12. CallersInv'
  <2> SUFFICES ASSUME NEW u \in Callers
               PROVE  /\ caller'[u].todo # <<>> =>
                           /\ Len(caller'[u].made) > 0 /\ caller'[u].id <= id_
                           /\ \A v \in Callers : (v # u /\ caller'[v].todo # <<>>) => caller'[v].id # caller'[u].id
                      /\ Registering(u)' =>
                           /\ fate[u][Len(caller'[u].made)] = <<>>
                           /\ \A o \in outstandings_' :
                                o.id # caller'[u].id /\ ~(o.call.by = u /\ o.call.n = Len(caller'[u].made))
                      /\ Sending(u)' => [id |-> caller'[u].id, call |-> Rpc!LastCall(u)'] \in outstandings_'
    BY <1>2 DEF CallersInv
  <2>1. CASE u = t
    <3>1. ~ Registering(u)'
      BY <1>4, <2>1 DEF Registering
    <3>2. new \in outstandings_' /\ [id |-> caller'[u].id, call |-> Rpc!LastCall(u)'] = new
      BY <1>4, <1>6, <1>8, <2>1 DEF new
    <3> QED
      BY <1>4, <1>5, <2>1, <3>1, <3>2
  <2>2. CASE u # t
    <3>1. caller'[u] = caller[u] /\ (Registering(u)' <=> Registering(u)) /\ (Sending(u)' <=> Sending(u))
      BY <1>4, <2>2 DEF Registering, Sending
    <3>2. /\ caller[u].todo # <<>> => Len(caller[u].made) > 0 /\ caller[u].id <= id_
          /\ Registering(u) =>
               /\ fate[u][Len(caller[u].made)] = <<>>
               /\ caller[u].todo # <<>>
               /\ \A o \in outstandings_ :
                    o.id # caller[u].id /\ ~(o.call.by = u /\ o.call.n = Len(caller[u].made))
          /\ Sending(u) => [id |-> caller[u].id, call |-> Rpc!LastCall(u)] \in outstandings_
      BY <1>1 DEF CallersInv, Registering
    <3>3. ASSUME NEW v \in Callers, v # u, caller'[v].todo # <<>>, caller[u].todo # <<>>
          PROVE  caller'[v].id # caller[u].id
      <4>1. CASE v = t
        BY <1>4, <1>5, <2>2, <3>3, <4>1
      <4>2. CASE v # t
        <5>1. caller'[v] = caller[v]
          BY <1>4, <4>2
        <5>2. caller[v].todo # <<>> /\ caller[u].todo # <<>> /\ v # u
          BY <3>3, <5>1
        <5>3. caller[v].id # caller[u].id
          BY <1>1, <5>2 DEF CallersInv
        <5> QED
          BY <5>1, <5>3
      <4> QED
        BY <4>1, <4>2
    <3>4. Registering(u) => new.id # caller[u].id /\ new.call.by # u
      BY <1>5, <1>7, <2>2, <3>2
    <3> QED
      BY <1>6, <1>8, <3>1, <3>2, <3>3, <3>4
  <2> QED
    BY <2>1, <2>2
<1>13. WaitedFor'
  BY <1>1, <1>2, <1>6 DEF WaitedFor, Rpc!Response
<1>14. OnlyOnce'
  <2>1. /\ \A i \in 1..Len(requests) : requests[i].id # caller[t].id
        /\ \A k \in kept : k.id # caller[t].id
    BY <1>1, <1>5 DEF WaitedFor
  <2>2. ASSUME NEW i \in 1..Len(responses) PROVE responses[i].id # caller[t].id
    <3>1. PICK o \in outstandings_ : responses[i] = Rpc!Response(o)
      BY <1>1, <1>5 DEF WaitedFor
    <3> QED
      BY <1>5, <3>1 DEF Rpc!Response
  <2>3. \A u \in Callers : u # t => (Sending(u)' <=> Sending(u))
    BY <1>4 DEF Sending
  <2> QED
    BY <1>1, <1>2, <1>4, <2>1, <2>2, <2>3 DEF OnlyOnce
<1>15. FateInv'
  <2>2. \A u \in Callers : u # t => (Registering(u)' <=> Registering(u))
    BY <1>4 DEF Registering
  <2> SUFFICES ASSUME NEW u \in Callers, NEW n \in 1..MaxCalls
               PROVE  /\ n > Len(caller[u].made) => fate'[u][n] = <<>>
                      /\ n <= Len(caller[u].made) =>
                           /\ fate'[u][n] \in {<<>>, <<[is |-> "deleted", with |-> {}]>>,
                                              <<[is |-> "run", with |-> Own(u, n)]>>}
                           /\ \/ fate'[u][n] # <<>>
                              \/ Registering(u)' /\ n = Len(caller[u].made)
                              \/ \E o \in outstandings_' : o.call.by = u /\ o.call.n = n
    BY <1>4, FatePrimed
  <2>3. fate' = fate /\ new \in outstandings_' /\ outstandings_ \subseteq outstandings_'
    BY <1>2, <1>6
  <2> QED
    BY <1>1, <1>7, <2>2, <2>3 DEF FateInv
<1> QED
  BY <1>9, <1>10, <1>11, <1>12, <1>13, <1>14, <1>15 DEF RpcInv

(* The call that is sent is waited for.                                    *)
LEMMA SendsInv ==
    ASSUME RpcInv, NEW t \in Callers, Rpc!Sends(t)
    PROVE  RpcInv'
<1> DEFINE new == [id |-> caller[t].id, call |-> Rpc!LastCall(t)]
<1>1. RpcType /\ LinkInv /\ MapInv /\ CallersInv /\ WaitedFor /\ OnlyOnce /\ FateInv
  BY DEF RpcInv
<1>2. /\ Head(caller[t].todo) = "send" /\ caller[t].todo # <<>>
      /\ caller' = [caller EXCEPT ![t].todo = Tail(@)]
      /\ requests' = IF up THEN Append(requests, new) ELSE requests
      /\ UNCHANGED <<id_, outstandings_, responses, kept, up, channel, fate>>
  BY DEF Rpc!Sends, Rpc!Does
<1>3. caller[t].todo = <<"send">> /\ Tail(caller[t].todo) = <<>>
  <2>1. caller[t].todo \in Todos
    BY <1>1 DEF RpcType
  <2> QED
    BY <1>2, <2>1, TodoFacts DEF Todos
<1>4. /\ caller' \in [Callers -> [made : Seq(Rpc!Methods), id : Nat, todo : Todos]]
      /\ caller'[t].todo = <<>>
      /\ \A u \in Callers : u # t => caller'[u] = caller[u]
      /\ \A u \in Callers : caller'[u].made = caller[u].made /\ caller'[u].id = caller[u].id
  BY <1>1, <1>2, <1>3 DEF RpcType, Todos
<1>5. new \in outstandings_ /\ new \in Entries /\ new.id = caller[t].id
  BY <1>1, <1>3 DEF CallersInv, Sending, RpcType
<1>6. \A u \in Callers : Rpc!LastCall(u)' = Rpc!LastCall(u)
  BY <1>4 DEF Rpc!LastCall
<1> HIDE DEF new
<1>7. /\ requests' \in Seq(Entries) /\ Len(requests) \in Nat
      /\ Len(requests') \in {Len(requests), Len(requests) + 1}
      /\ \A i \in 1..Len(requests') :
           requests'[i] = IF i = Len(requests) + 1 THEN new ELSE requests[i]
  <2>1. CASE up
    BY <1>1, <1>2, <1>5, <2>1, AppendFacts DEF RpcType
  <2>2. CASE ~ up
    BY <1>1, <1>2, <2>2 DEF RpcType
  <2> QED
    BY <2>1, <2>2
<1>8. RpcType'
  BY <1>1, <1>2, <1>4, <1>7 DEF RpcType
<1>9. LinkInv'
  BY <1>1, <1>2, <1>4 DEF LinkInv
<1>10. MapInv'
  <2>1. \A o \in outstandings_ : o.call.by \in Callers
    BY <1>1 DEF RpcType, Entries, Calls
  <2> QED
    BY <1>1, <1>2, <1>4, <2>1 DEF MapInv, IsMade, SameCall
<1>11. CallersInv'
  <2>1. \A u \in Callers : Registering(u)' => Registering(u)
    BY <1>4, TodoFacts DEF Registering
  <2>2. \A u \in Callers : Sending(u)' => Sending(u)
    BY <1>4, TodoFacts DEF Sending
  <2>3. \A u \in Callers : caller'[u].todo # <<>> => caller[u].todo # <<>>
    BY <1>4
  <2> QED
    BY <1>1, <1>2, <1>4, <1>6, <2>1, <2>2, <2>3 DEF CallersInv
<1>12. WaitedFor'
  <2>1. \A i \in 1..Len(requests') : i = Len(requests) + 1 \/ i \in 1..Len(requests)
    BY <1>7
  <2> QED
    BY <1>1, <1>2, <1>5, <1>7, <2>1 DEF WaitedFor, Rpc!Response
<1>13. OnlyOnce'
  <2> SUFFICES ASSUME "client" \in channel PROVE OnlyOnce'
    BY <1>2 DEF OnlyOnce
  <2>1. \A i \in 1..Len(requests') : i = Len(requests) + 1 \/ i \in 1..Len(requests)
    BY <1>7
  <2>2. /\ \A i \in 1..Len(requests) : requests[i].id # new.id
        /\ \A i \in 1..Len(responses) : responses[i].id # new.id
        /\ \A k \in kept : k.id # new.id
    BY <1>1, <1>3, <1>5 DEF OnlyOnce, Sending
  <2>3. \A u \in Callers : Sending(u)' => Sending(u) /\ caller[u].id # new.id
    <3> SUFFICES ASSUME NEW u \in Callers, Sending(u)' PROVE Sending(u) /\ caller[u].id # new.id
      OBVIOUS
    <3>1. u # t /\ Sending(u)
      BY <1>4, TodoFacts DEF Sending
    <3> QED
      BY <1>1, <1>3, <1>5, <3>1, TodoFacts DEF Sending, CallersInv
  <2>4. \A i, j \in 1..Len(requests') : requests'[i].id = requests'[j].id => i = j
    BY <1>1, <1>7, <2>1, <2>2 DEF OnlyOnce
  <2>5. \A i \in 1..Len(requests') :
           /\ \A j \in 1..Len(responses) : requests'[i].id # responses[j].id
           /\ \A k \in kept : requests'[i].id # k.id
           /\ \A u \in Callers : Sending(u)' => requests'[i].id # caller[u].id
    <3> SUFFICES ASSUME NEW i \in 1..Len(requests')
                 PROVE  /\ \A j \in 1..Len(responses) : requests'[i].id # responses[j].id
                        /\ \A k \in kept : requests'[i].id # k.id
                        /\ \A u \in Callers : Sending(u)' => requests'[i].id # caller[u].id
      OBVIOUS
    <3>1. CASE i = Len(requests) + 1
      BY <1>7, <2>2, <2>3, <3>1
    <3>2. CASE i \in 1..Len(requests)
      BY <1>1, <1>7, <2>3, <3>2 DEF OnlyOnce
    <3> QED
      BY <2>1, <3>1, <3>2
  <2> QED
    BY <1>1, <1>2, <1>4, <2>3, <2>4, <2>5 DEF OnlyOnce
<1>14. FateInv'
  <2>2. \A u \in Callers : Registering(u) => Registering(u)'
    BY <1>3, <1>4, TodoFacts DEF Registering
  <2> SUFFICES ASSUME NEW u \in Callers, NEW n \in 1..MaxCalls
               PROVE  /\ n > Len(caller[u].made) => fate[u][n] = <<>>
                      /\ n <= Len(caller[u].made) =>
                           /\ fate[u][n] \in {<<>>, <<[is |-> "deleted", with |-> {}]>>,
                                              <<[is |-> "run", with |-> Own(u, n)]>>}
                           /\ \/ fate[u][n] # <<>>
                              \/ Registering(u)' /\ n = Len(caller[u].made)
                              \/ \E o \in outstandings_' : o.call.by = u /\ o.call.n = n
    BY <1>2, <1>4, FatePrimed
  <2> QED
    BY <1>1, <1>2, <2>2 DEF FateInv
<1> QED
  BY <1>8, <1>9, <1>10, <1>11, <1>12, <1>13, <1>14 DEF RpcInv

(* The server takes the first request, and answers it or keeps it.         *)
LEMMA OnRequestInv ==
    ASSUME RpcInv, Rpc!OnRequest
    PROVE  RpcInv'
<1> DEFINE first == Head(requests)
<1>1. RpcType /\ LinkInv /\ MapInv /\ CallersInv /\ WaitedFor /\ OnlyOnce /\ FateInv
  BY DEF RpcInv
<1>2. /\ "server" \in channel /\ requests # <<>>
      /\ requests' = Tail(requests)
      /\ \/ responses' = Append(responses, Rpc!Response(first)) /\ kept' = kept
         \/ responses' = responses /\ kept' = kept \cup {first}
      /\ UNCHANGED <<id_, caller, outstandings_, up, channel, fate>>
  BY <1>1 DEF LinkInv, Rpc!OnRequest, Rpc!Refuses, Rpc!AnswersAtOnce, Rpc!KeepsDone, Rpc!Answer
<1>3. /\ requests' \in Seq(Entries) /\ Len(requests) \in Nat /\ Len(requests) > 0
      /\ Len(requests') = Len(requests) - 1
      /\ first = requests[1] /\ first \in Entries
      /\ \A i \in 1..Len(requests') : requests'[i] = requests[i + 1]
  BY <1>1, <1>2, TailFacts DEF RpcType
<1>4. Rpc!Response(first) \in Replies /\ Rpc!Response(first).id = first.id
  BY <1>3 DEF Rpc!Response, Replies, Entries
<1> HIDE DEF first
<1>5. \/ /\ kept' = kept /\ responses' \in Seq(Replies)
         /\ Len(responses) \in Nat /\ Len(responses') = Len(responses) + 1
         /\ \A i \in 1..Len(responses') :
              responses'[i] = IF i = Len(responses) + 1 THEN Rpc!Response(first) ELSE responses[i]
      \/ responses' = responses /\ kept' = kept \cup {first}
  <2>1. CASE responses' = responses /\ kept' = kept \cup {first}
    BY <2>1
  <2>2. CASE responses' = Append(responses, Rpc!Response(first)) /\ kept' = kept
    <3>1. responses \in Seq(Replies)
      BY <1>1 DEF RpcType
    <3> QED
      BY <1>4, <2>2, <3>1, AppendFacts
  <2> QED
    BY <1>2, <2>1, <2>2
<1>6. "client" \in channel =>
        /\ first \in outstandings_
        /\ \A i \in 1..Len(requests') :
             /\ requests'[i].id # first.id /\ requests'[i] \in outstandings_
             /\ \A j \in 1..Len(requests') : requests'[i].id = requests'[j].id => i = j
             /\ \A j \in 1..Len(responses) : responses[j].id # requests'[i].id
             /\ \A k \in kept : k.id # requests'[i].id
             /\ \A t \in Callers : Sending(t) => caller[t].id # requests'[i].id
        /\ \A j \in 1..Len(responses) : responses[j].id # first.id
        /\ \A k \in kept : k.id # first.id
        /\ \A t \in Callers : Sending(t) => caller[t].id # first.id
  <2> SUFFICES ASSUME "client" \in channel
               PROVE  /\ first \in outstandings_
                      /\ \A i \in 1..Len(requests') :
                           /\ requests'[i].id # first.id /\ requests'[i] \in outstandings_
                           /\ \A j \in 1..Len(requests') : requests'[i].id = requests'[j].id => i = j
                           /\ \A j \in 1..Len(responses) : responses[j].id # requests'[i].id
                           /\ \A k \in kept : k.id # requests'[i].id
                           /\ \A t \in Callers : Sending(t) => caller[t].id # requests'[i].id
                      /\ \A j \in 1..Len(responses) : responses[j].id # first.id
                      /\ \A k \in kept : k.id # first.id
                      /\ \A t \in Callers : Sending(t) => caller[t].id # first.id
    OBVIOUS
  <2>1. 1 \in 1..Len(requests) /\ \A i \in 1..Len(requests') : i + 1 \in 1..Len(requests) /\ i + 1 # 1
    BY <1>3
  <2>2. \A i \in 1..Len(requests') : requests'[i].id # first.id /\ requests'[i] \in outstandings_
    BY <1>1, <1>3, <2>1 DEF OnlyOnce, WaitedFor
  <2>3. \A i, j \in 1..Len(requests') : requests'[i].id = requests'[j].id => i = j
    <3> SUFFICES ASSUME NEW i \in 1..Len(requests'), NEW j \in 1..Len(requests'),
                        requests'[i].id = requests'[j].id
                 PROVE  i = j
      OBVIOUS
    <3>1. i + 1 = j + 1
      BY <1>1, <1>3, <2>1 DEF OnlyOnce
    <3> QED
      BY <1>3, <3>1
  <2>4. first \in outstandings_
    BY <1>1, <1>3, <2>1 DEF WaitedFor
  <2>5. /\ \A j \in 1..Len(responses) : responses[j].id # first.id
        /\ \A k \in kept : k.id # first.id
        /\ \A t \in Callers : Sending(t) => caller[t].id # first.id
    BY <1>1, <1>3, <2>1 DEF OnlyOnce
  <2>6. \A i \in 1..Len(requests') :
           /\ \A j \in 1..Len(responses) : responses[j].id # requests'[i].id
           /\ \A k \in kept : k.id # requests'[i].id
           /\ \A t \in Callers : Sending(t) => caller[t].id # requests'[i].id
    <3> SUFFICES ASSUME NEW i \in 1..Len(requests')
                 PROVE  /\ \A j \in 1..Len(responses) : responses[j].id # requests'[i].id
                        /\ \A k \in kept : k.id # requests'[i].id
                        /\ \A t \in Callers : Sending(t) => caller[t].id # requests'[i].id
      OBVIOUS
    <3>1. PICK m \in 1..Len(requests) : requests'[i] = requests[m]
      BY <1>3, <2>1
    <3> QED
      BY <1>1, <3>1 DEF OnlyOnce
  <2> QED
    BY <2>2, <2>3, <2>4, <2>5, <2>6
<1>7. RpcType'
  BY <1>1, <1>2, <1>3, <1>5 DEF RpcType
<1>8. LinkInv'
  BY <1>1, <1>2 DEF LinkInv
<1>9. MapInv'
  BY <1>1, <1>2 DEF MapInv, IsMade, SameCall
<1>10. CallersInv'
  BY <1>1, <1>2 DEF CallersInv, Registering, Sending, Rpc!LastCall
<1>11. WaitedFor'
  <2> SUFFICES ASSUME "client" \in channel PROVE WaitedFor'
    BY <1>2 DEF WaitedFor
  <2>1. kept' \subseteq outstandings_
    BY <1>1, <1>5, <1>6 DEF WaitedFor
  <2>2. \A i \in 1..Len(responses') : \E o \in outstandings_ : responses'[i] = Rpc!Response(o)
    <3> SUFFICES ASSUME NEW i \in 1..Len(responses')
                 PROVE  \E o \in outstandings_ : responses'[i] = Rpc!Response(o)
      OBVIOUS
    <3>1. responses'[i] = Rpc!Response(first) \/ (i \in 1..Len(responses) /\ responses'[i] = responses[i])
      BY <1>5
    <3> QED
      BY <1>1, <1>6, <3>1 DEF WaitedFor
  <2> QED
    BY <1>2, <1>6, <2>1, <2>2 DEF WaitedFor, Rpc!Response
<1>12. OnlyOnce'
  <2> SUFFICES ASSUME "client" \in channel PROVE OnlyOnce'
    BY <1>2 DEF OnlyOnce
  <2>1. /\ \A t \in Callers : Sending(t)' <=> Sending(t)
        /\ caller' = caller
    BY <1>2 DEF Sending
  <2>2. \A i \in 1..Len(responses') :
           \/ i \in 1..Len(responses) /\ responses'[i] = responses[i]
           \/ i = Len(responses) + 1 /\ responses'[i] = Rpc!Response(first) /\ kept' = kept
    BY <1>5
  <2>3. \A k \in kept' : k \in kept \/ (k = first /\ responses' = responses)
    BY <1>5
  <2>4. \A i, j \in 1..Len(responses') : responses'[i].id = responses'[j].id => i = j
    BY <1>1, <1>4, <1>6, <2>2 DEF OnlyOnce
  <2>5. \A i \in 1..Len(responses') :
           /\ \A j \in 1..Len(requests') : requests'[j].id # responses'[i].id
           /\ \A t \in Callers : Sending(t) => responses'[i].id # caller[t].id
    BY <1>1, <1>4, <1>6, <2>2 DEF OnlyOnce
  <2>6. \A k \in kept' :
           /\ \A i \in 1..Len(requests') : requests'[i].id # k.id
           /\ \A i \in 1..Len(responses') : responses'[i].id # k.id
           /\ \A t \in Callers : Sending(t) => k.id # caller[t].id
    <3> SUFFICES ASSUME NEW k \in kept'
                 PROVE  /\ \A i \in 1..Len(requests') : requests'[i].id # k.id
                        /\ \A i \in 1..Len(responses') : responses'[i].id # k.id
                        /\ \A t \in Callers : Sending(t) => k.id # caller[t].id
      OBVIOUS
    <3>1. CASE k \in kept
      BY <1>1, <1>4, <1>6, <2>2, <3>1 DEF OnlyOnce
    <3>2. CASE k = first /\ responses' = responses
      BY <1>6, <3>2
    <3> QED
      BY <2>3, <3>1, <3>2
  <2> QED
    BY <1>2, <1>6, <2>1, <2>4, <2>5, <2>6 DEF OnlyOnce
<1>13. FateInv'
  BY <1>1, <1>2 DEF FateInv, Registering, Own
<1> QED
  BY <1>7, <1>8, <1>9, <1>10, <1>11, <1>12, <1>13 DEF RpcInv

(* A kept closure answers its request, if the connection is still there.   *)
LEMMA RunsKeptInv ==
    ASSUME RpcInv, NEW request \in kept, Rpc!RunsKept(request)
    PROVE  RpcInv'
<1>1. RpcType /\ LinkInv /\ MapInv /\ CallersInv /\ WaitedFor /\ OnlyOnce /\ FateInv
  BY DEF RpcInv
<1>2. /\ kept' = kept \ {request}
      /\ \/ responses' = Append(responses, Rpc!Response(request))
         \/ responses' = responses
      /\ "client" \notin channel => responses' = responses
      /\ UNCHANGED <<id_, caller, outstandings_, requests, up, channel, fate>>
  BY <1>1 DEF LinkInv, Rpc!RunsKept, Rpc!Answer
<1>3. /\ request \in Entries
      /\ Rpc!Response(request) \in Replies /\ Rpc!Response(request).id = request.id
  BY <1>1 DEF Rpc!Response, Replies, Entries, RpcType
<1>4. /\ responses' \in Seq(Replies)
      /\ \/ /\ Len(responses) \in Nat /\ Len(responses') = Len(responses) + 1
            /\ \A i \in 1..Len(responses') :
                 responses'[i] = IF i = Len(responses) + 1 THEN Rpc!Response(request) ELSE responses[i]
         \/ responses' = responses
  <2>1. responses \in Seq(Replies)
    BY <1>1 DEF RpcType
  <2>2. CASE responses' = responses
    BY <2>1, <2>2
  <2>3. CASE responses' = Append(responses, Rpc!Response(request))
    BY <1>3, <2>1, <2>3, AppendFacts
  <2> QED
    BY <1>2, <2>2, <2>3
<1>5. \A i \in 1..Len(responses') :
         \/ i \in 1..Len(responses) /\ responses'[i] = responses[i]
         \/ i = Len(responses) + 1 /\ responses'[i] = Rpc!Response(request)
  BY <1>4
<1>6. "client" \in channel =>
        /\ request \in outstandings_
        /\ \A i \in 1..Len(requests) : requests[i].id # request.id
        /\ \A i \in 1..Len(responses) : responses[i].id # request.id
        /\ \A k \in kept' : k.id # request.id
        /\ \A t \in Callers : Sending(t) => caller[t].id # request.id
  <2> SUFFICES ASSUME "client" \in channel, NEW k \in kept' PROVE k.id # request.id
    BY <1>1 DEF WaitedFor, OnlyOnce
  <2>1. k \in outstandings_ /\ request \in outstandings_ /\ k # request
    BY <1>1, <1>2 DEF WaitedFor
  <2> QED
    BY <1>1, <2>1 DEF MapInv
<1>7. RpcType'
  BY <1>1, <1>2, <1>4 DEF RpcType
<1>8. LinkInv'
  BY <1>1, <1>2 DEF LinkInv
<1>9. MapInv'
  BY <1>1, <1>2 DEF MapInv, IsMade, SameCall
<1>10. CallersInv'
  BY <1>1, <1>2 DEF CallersInv, Registering, Sending, Rpc!LastCall
<1>11. WaitedFor'
  <2> SUFFICES ASSUME "client" \in channel PROVE WaitedFor'
    BY <1>2 DEF WaitedFor
  <2>1. \A i \in 1..Len(responses') : \E o \in outstandings_ : responses'[i] = Rpc!Response(o)
    BY <1>1, <1>5, <1>6 DEF WaitedFor
  <2> QED
    BY <1>1, <1>2, <2>1 DEF WaitedFor, Rpc!Response
<1>12. OnlyOnce'
  <2> SUFFICES ASSUME "client" \in channel PROVE OnlyOnce'
    BY <1>2 DEF OnlyOnce
  <2>1. /\ \A t \in Callers : Sending(t)' <=> Sending(t)
        /\ caller' = caller
    BY <1>2 DEF Sending
  <2>2. \A i, j \in 1..Len(responses') : responses'[i].id = responses'[j].id => i = j
    BY <1>1, <1>3, <1>5, <1>6 DEF OnlyOnce
  <2>3. \A i \in 1..Len(responses') :
           /\ \A j \in 1..Len(requests) : requests[j].id # responses'[i].id
           /\ \A t \in Callers : Sending(t) => responses'[i].id # caller[t].id
           /\ \A k \in kept' : k.id # responses'[i].id
    BY <1>1, <1>2, <1>3, <1>5, <1>6 DEF OnlyOnce
  <2> QED
    BY <1>1, <1>2, <2>1, <2>2, <2>3 DEF OnlyOnce
<1>13. FateInv'
  BY <1>1, <1>2 DEF FateInv, Registering, Own
<1> QED
  BY <1>7, <1>8, <1>9, <1>10, <1>11, <1>12, <1>13 DEF RpcInv

(* What becomes of the calls that Ends() names, and of the others.         *)
LEMMA EndsFacts ==
    ASSUME RpcType, NEW what \in Fates, NEW calls \in SUBSET Calls, Rpc!Ends(what, calls)
    PROVE  /\ fate' \in [Callers -> [1..MaxCalls -> Seq(Fates)]]
           /\ \A t \in Callers : \A n \in 1..MaxCalls :
                fate'[t][n] = IF \E c \in calls : c.by = t /\ c.n = n
                                THEN Append(fate[t][n], what) ELSE fate[t][n]
<1>1. \A t \in Callers : \A n \in 1..MaxCalls :
        fate'[t][n] = IF \E c \in calls : c.by = t /\ c.n = n
                        THEN Append(fate[t][n], what) ELSE fate[t][n]
  BY DEF Rpc!Ends
<1>2. \A t \in Callers : \A n \in 1..MaxCalls :
        (IF \E c \in calls : c.by = t /\ c.n = n THEN Append(fate[t][n], what) ELSE fate[t][n])
          \in Seq(Fates)
  <2> SUFFICES ASSUME NEW t \in Callers, NEW n \in 1..MaxCalls
               PROVE  fate[t][n] \in Seq(Fates) /\ Append(fate[t][n], what) \in Seq(Fates)
    OBVIOUS
  <2>1. fate[t][n] \in Seq(Fates)
    BY DEF RpcType
  <2> QED
    BY <2>1, AppendFacts
<1>3. fate' \in [Callers -> [1..MaxCalls -> Seq(Fates)]]
  BY <1>2 DEF Rpc!Ends
<1> QED
  BY <1>1, <1>3

(* The first response ends the call of its id, which is waited for.        *)
LEMMA OnResponseInv ==
    ASSUME RpcInv, Rpc!OnResponse
    PROVE  RpcInv'
<1> DEFINE first == Head(responses)
<1>1. RpcType /\ LinkInv /\ MapInv /\ CallersInv /\ WaitedFor /\ OnlyOnce /\ FateInv
  BY DEF RpcInv
<1>2. /\ "client" \in channel /\ responses # <<>>
      /\ responses' = Tail(responses)
      /\ outstandings_' = outstandings_ \ Rpc!Found(first.id)
      /\ Rpc!Ends([is |-> "run", with |-> first.response], {o.call : o \in Rpc!Found(first.id)})
      /\ UNCHANGED <<id_, caller, requests, kept, up, channel>>
  BY DEF Rpc!OnResponse
<1>3. /\ responses' \in Seq(Replies) /\ Len(responses) \in Nat /\ Len(responses) > 0
      /\ Len(responses') = Len(responses) - 1
      /\ first = responses[1] /\ first \in Replies
      /\ \A i \in 1..Len(responses') : responses'[i] = responses[i + 1]
  BY <1>1, <1>2, TailFacts DEF RpcType
<1> HIDE DEF first
<1>4. 1 \in 1..Len(responses) /\ \A i \in 1..Len(responses') : i + 1 \in 1..Len(responses) /\ i + 1 # 1
  BY <1>3
<1>5. PICK done \in outstandings_ : first = Rpc!Response(done)
  BY <1>1, <1>2, <1>3, <1>4 DEF WaitedFor
<1>6. first.id = done.id /\ done \in Entries /\ done.call \in Calls
  BY <1>1, <1>5 DEF Rpc!Response, RpcType, Entries
<1>7. Rpc!Found(first.id) = {done}
  BY <1>1, <1>6 DEF Rpc!Found, MapInv
<1>8. outstandings_' = outstandings_ \ {done}
  BY <1>2, <1>7
<1>9. /\ \A o \in outstandings_' : o \in outstandings_ /\ o.id # done.id /\ ~ SameCall(o.call, done.call)
      /\ \A o \in outstandings_ : o.id # done.id => o \in outstandings_'
      /\ fate[done.call.by][done.call.n] = <<>>
  BY <1>1, <1>8 DEF MapInv
<1> DEFINE what == [is |-> "run", with |-> first.response]
<1>10. /\ fate' \in [Callers -> [1..MaxCalls -> Seq(Fates)]]
       /\ \A t \in Callers : \A n \in 1..MaxCalls :
            fate'[t][n] = IF done.call.by = t /\ done.call.n = n
                            THEN Append(fate[t][n], what) ELSE fate[t][n]
  <2>1. what \in Fates /\ {done.call} \in SUBSET Calls
    BY <1>3, <1>6 DEF Fates, Replies
  <2>2. {o.call : o \in Rpc!Found(first.id)} = {done.call}
    BY <1>7
  <2>3. Rpc!Ends(what, {done.call})
    BY <1>2, <2>2
  <2> HIDE DEF what
  <2>4. /\ fate' \in [Callers -> [1..MaxCalls -> Seq(Fates)]]
        /\ \A t \in Callers : \A n \in 1..MaxCalls :
             fate'[t][n] = IF \E c \in {done.call} : c.by = t /\ c.n = n
                             THEN Append(fate[t][n], what) ELSE fate[t][n]
    BY <1>1, <2>1, <2>3, EndsFacts
  <2> QED
    BY <2>4
<1>11. /\ \A i \in 1..Len(responses') :
            /\ responses'[i].id # done.id
            /\ \A j \in 1..Len(responses') : responses'[i].id = responses'[j].id => i = j
       /\ \A i \in 1..Len(requests) : requests[i].id # done.id
       /\ \A k \in kept : k.id # done.id
       /\ \A t \in Callers : Sending(t) => caller[t].id # done.id
  <2>1. \A i \in 1..Len(responses') : responses'[i].id # done.id
    BY <1>1, <1>2, <1>3, <1>4, <1>6 DEF OnlyOnce
  <2>2. \A i, j \in 1..Len(responses') : responses'[i].id = responses'[j].id => i = j
    <3> SUFFICES ASSUME NEW i \in 1..Len(responses'), NEW j \in 1..Len(responses'),
                        responses'[i].id = responses'[j].id
                 PROVE  i = j
      OBVIOUS
    <3>1. i + 1 = j + 1
      BY <1>1, <1>2, <1>3, <1>4 DEF OnlyOnce
    <3> QED
      BY <1>3, <3>1
  <2>3. /\ \A i \in 1..Len(requests) : requests[i].id # done.id
        /\ \A k \in kept : k.id # done.id
        /\ \A t \in Callers : Sending(t) => caller[t].id # done.id
    BY <1>1, <1>2, <1>3, <1>4, <1>6 DEF OnlyOnce
  <2> QED
    BY <2>1, <2>2, <2>3
<1>12. RpcType'
  BY <1>1, <1>2, <1>3, <1>8, <1>10 DEF RpcType
<1>13. LinkInv'
  BY <1>1, <1>2 DEF LinkInv
<1>14. MapInv'
  <2>1. \A o \in outstandings_' : fate'[o.call.by][o.call.n] = fate[o.call.by][o.call.n]
    BY <1>1, <1>9, <1>10, ZenonT(60) DEF SameCall, RpcType, Entries, Calls
  <2> QED
    BY <1>1, <1>2, <1>9, <2>1 DEF MapInv, IsMade, SameCall
<1>15. CallersInv'
  <2> SUFFICES ASSUME NEW t \in Callers
               PROVE  /\ Registering(t) => fate'[t][Len(caller[t].made)] = <<>>
                      /\ Sending(t) => [id |-> caller[t].id, call |-> Rpc!LastCall(t)] \in outstandings_'
    BY <1>1, <1>2, <1>9 DEF CallersInv, Registering, Sending, Rpc!LastCall
  <2>1. ASSUME Registering(t) PROVE fate'[t][Len(caller[t].made)] = <<>>
    <3>1. Len(caller[t].made) \in 1..MaxCalls
      <4>1. caller[t].todo # <<>>
        BY <2>1, TodoFacts DEF Registering
      <4>2. Len(caller[t].made) \in Nat /\ Len(caller[t].made) <= MaxCalls
        BY <1>1 DEF RpcType
      <4>3. Len(caller[t].made) > 0
        BY <1>1, <4>1 DEF CallersInv
      <4> QED
        BY <4>2, <4>3, CallsAssumption
    <3>2. /\ fate[t][Len(caller[t].made)] = <<>>
          /\ ~ (done.call.by = t /\ done.call.n = Len(caller[t].made))
      BY <1>1, <2>1 DEF CallersInv
    <3> QED
      BY <1>10, <3>1, <3>2
  <2>2. ASSUME Sending(t)
        PROVE  [id |-> caller[t].id, call |-> Rpc!LastCall(t)] \in outstandings_'
    BY <1>1, <1>9, <1>11, <2>2 DEF CallersInv
  <2> QED
    BY <2>1, <2>2
<1>16. WaitedFor'
  <2>1. ASSUME NEW i \in 1..Len(responses')
        PROVE  \E o \in outstandings_' : responses'[i] = Rpc!Response(o)
    <3>1. PICK o \in outstandings_ : responses'[i] = Rpc!Response(o)
      BY <1>1, <1>2, <1>3, <1>4 DEF WaitedFor
    <3>2. o.id # done.id
      BY <1>11, <3>1 DEF Rpc!Response
    <3> QED
      BY <1>9, <3>1, <3>2
  <2>2. /\ \A i \in 1..Len(requests) : requests[i] \in outstandings_'
        /\ kept \subseteq outstandings_'
    BY <1>1, <1>2, <1>9, <1>11 DEF WaitedFor
  <2> QED
    BY <1>2, <2>1, <2>2 DEF WaitedFor, Rpc!Response
<1>17. OnlyOnce'
  <2>1. /\ \A t \in Callers : Sending(t)' <=> Sending(t)
        /\ caller' = caller
    BY <1>2 DEF Sending
  <2>2. ASSUME NEW i \in 1..Len(responses')
        PROVE  /\ \A j \in 1..Len(requests) : requests[j].id # responses'[i].id
               /\ \A t \in Callers : Sending(t) => responses'[i].id # caller[t].id
               /\ \A k \in kept : responses'[i].id # k.id
    <3>1. PICK m \in 1..Len(responses) : responses'[i] = responses[m]
      BY <1>3, <1>4
    <3> QED
      BY <1>1, <1>2, <3>1 DEF OnlyOnce
  <2> QED
    BY <1>1, <1>2, <1>11, <2>1, <2>2 DEF OnlyOnce
<1>18. FateInv'
  <2>1. /\ IsMade(done.call) /\ done.call.by \in Callers /\ done.call.n \in 1..MaxCalls
        /\ first.response = Own(done.call.by, done.call.n)
    <3>1. IsMade(done.call)
      BY <1>1 DEF MapInv
    <3>2. done.call.by \in Callers /\ done.call.n \in 1..MaxCalls
      BY <1>6 DEF Calls
    <3>3. done.call = [by |-> done.call.by, n |-> done.call.n, method |-> done.call.method]
      BY <1>6 DEF Calls
    <3>4. first.response = IF done.call.method = "refused" THEN {} ELSE {done.call}
      BY <1>5 DEF Rpc!Response
    <3> QED
      BY <3>1, <3>2, <3>3, <3>4 DEF IsMade, Own
  <2> SUFFICES ASSUME NEW t \in Callers, NEW n \in 1..MaxCalls
               PROVE  /\ n > Len(caller[t].made) => fate'[t][n] = <<>>
                      /\ n <= Len(caller[t].made) =>
                           /\ fate'[t][n] \in {<<>>, <<[is |-> "deleted", with |-> {}]>>,
                                               <<[is |-> "run", with |-> Own(t, n)]>>}
                           /\ \/ fate'[t][n] # <<>>
                              \/ Registering(t)' /\ n = Len(caller[t].made)
                              \/ \E o \in outstandings_' : o.call.by = t /\ o.call.n = n
    BY <1>2, FatePrimed
  <2>2. CASE done.call.by = t /\ done.call.n = n
    <3>1. fate'[t][n] = Append(fate[t][n], what) /\ fate[t][n] = <<>>
      BY <1>9, <1>10, <2>2
    <3>2. fate'[t][n] = <<[is |-> "run", with |-> Own(t, n)]>>
      BY <2>1, <2>2, <3>1
    <3>3. n <= Len(caller[t].made) /\ ~ (n > Len(caller[t].made))
      BY <1>1, <2>1, <2>2 DEF IsMade, RpcType
    <3> QED
      BY <3>2, <3>3
  <2>3. CASE ~ (done.call.by = t /\ done.call.n = n)
    <3>1. fate'[t][n] = fate[t][n] /\ (Registering(t)' <=> Registering(t))
      BY <1>2, <1>10, <2>3 DEF Registering
    <3>2. ASSUME NEW o \in outstandings_, o.call.by = t, o.call.n = n PROVE o \in outstandings_'
      BY <1>8, <2>3, <3>2
    <3> QED
      BY <1>1, <3>1, <3>2 DEF FateInv
  <2> QED
    BY <2>2, <2>3
<1> QED
  BY <1>12, <1>13, <1>14, <1>15, <1>16, <1>17, <1>18 DEF RpcInv

(* The connection goes down, with the requests and some of the responses.  *)
LEMMA DisconnectsInv ==
    ASSUME RpcInv, NEW m \in 0..Len(responses), Rpc!Disconnects(m)
    PROVE  RpcInv'
<1>1. RpcType /\ LinkInv /\ MapInv /\ CallersInv /\ WaitedFor /\ OnlyOnce /\ FateInv
  BY DEF RpcInv
<1>2. /\ up /\ up' = FALSE /\ requests' = <<>>
      /\ responses' = SubSeq(responses, 1, m)
      /\ channel' = channel \ {"server"}
      /\ UNCHANGED <<id_, caller, outstandings_, kept, fate>>
  BY DEF Rpc!Disconnects
<1>3. /\ responses' \in Seq(Replies) /\ Len(responses') = m
      /\ \A i \in 1..m : i \in 1..Len(responses) /\ responses'[i] = responses[i]
  <2>1. responses \in Seq(Replies) /\ Len(responses) \in Nat
    BY <1>1 DEF RpcType
  <2> QED
    BY <1>2, <2>1
<1>4. /\ "client" \in channel /\ "client" \in channel' /\ "server" \notin channel'
      /\ Len(requests') = 0 /\ requests' \in Seq(Entries) /\ channel' \subseteq channel
  BY <1>1, <1>2 DEF LinkInv
<1>5. RpcType'
  BY <1>1, <1>2, <1>3, <1>4 DEF RpcType
<1>6. LinkInv'
  BY <1>2, <1>4 DEF LinkInv
<1>7. MapInv'
  BY <1>1, <1>2 DEF MapInv, IsMade, SameCall
<1>8. CallersInv'
  BY <1>1, <1>2 DEF CallersInv, Registering, Sending, Rpc!LastCall
<1>9. WaitedFor'
  <2>1. \A i \in 1..Len(responses') : \E o \in outstandings_ : responses'[i] = Rpc!Response(o)
    BY <1>1, <1>3, <1>4 DEF WaitedFor
  <2>2. kept \subseteq outstandings_ /\ \A i \in 1..Len(requests') : FALSE
    BY <1>1, <1>4 DEF WaitedFor
  <2> QED
    BY <1>2, <2>1, <2>2 DEF WaitedFor, Rpc!Response
<1>10. OnlyOnce'
  BY <1>1, <1>2, <1>3, <1>4 DEF OnlyOnce, Sending
<1>11. FateInv'
  BY <1>1, <1>2 DEF FateInv, Registering, Own
<1> QED
  BY <1>5, <1>6, <1>7, <1>8, <1>9, <1>10, <1>11 DEF RpcInv

(* The client's channel is deleted, with the calls that are still in it.   *)
LEMMA DeletesChannelInv ==
    ASSUME RpcInv, Rpc!DeletesChannel
    PROVE  RpcInv'
<1> DEFINE what == [is |-> "deleted", with |-> {}]
<1>1. RpcType /\ LinkInv /\ MapInv /\ CallersInv /\ WaitedFor /\ OnlyOnce /\ FateInv
  BY DEF RpcInv
<1>2. /\ ~ up /\ \A t \in Callers : caller[t].todo = <<>>
      /\ channel' = channel \ {"client"}
      /\ responses' = <<>>
      /\ outstandings_' = {}
      /\ Rpc!Ends(what, {o.call : o \in outstandings_})
      /\ UNCHANGED <<id_, caller, requests, kept, up>>
  BY DEF Rpc!DeletesChannel
<1>3. /\ fate' \in [Callers -> [1..MaxCalls -> Seq(Fates)]]
      /\ \A t \in Callers : \A n \in 1..MaxCalls :
           fate'[t][n] = IF \E o \in outstandings_ : o.call.by = t /\ o.call.n = n
                           THEN Append(fate[t][n], what) ELSE fate[t][n]
  <2>1. what \in Fates
    BY DEF Fates
  <2>2. {o.call : o \in outstandings_} \in SUBSET Calls
    BY <1>1 DEF RpcType, Entries
  <2> HIDE DEF what
  <2>3. /\ fate' \in [Callers -> [1..MaxCalls -> Seq(Fates)]]
        /\ \A t \in Callers : \A n \in 1..MaxCalls :
             fate'[t][n] = IF \E c \in {o.call : o \in outstandings_} : c.by = t /\ c.n = n
                             THEN Append(fate[t][n], what) ELSE fate[t][n]
    BY <1>1, <1>2, <2>1, <2>2, EndsFacts
  <2>4. \A t, n : (\E c \in {o.call : o \in outstandings_} : c.by = t /\ c.n = n)
                    <=> \E o \in outstandings_ : o.call.by = t /\ o.call.n = n
    OBVIOUS
  <2> QED
    BY <2>3, <2>4
<1>4. "client" \notin channel' /\ \A t \in Callers : ~ Registering(t) /\ ~ Sending(t)
  BY <1>2, TodoFacts DEF Registering, Sending
<1>5. RpcType'
  <2>1. responses' \in Seq(Replies) /\ outstandings_' \in SUBSET Entries
    BY <1>2
  <2> QED
    BY <1>1, <1>2, <1>3, <2>1 DEF RpcType
<1>6. LinkInv'
  BY <1>1, <1>2 DEF LinkInv
<1>7. MapInv'
  BY <1>2 DEF MapInv
<1>8. CallersInv'
  <2>1. \A t \in Callers : ~ Registering(t)' /\ ~ Sending(t)' /\ caller'[t].todo = <<>>
    BY <1>2, <1>4 DEF Registering, Sending
  <2> QED
    BY <2>1 DEF CallersInv
<1>9. WaitedFor'
  BY <1>4 DEF WaitedFor
<1>10. OnlyOnce'
  BY <1>4 DEF OnlyOnce
<1>11. FateInv'
  <2> SUFFICES ASSUME NEW t \in Callers, NEW n \in 1..MaxCalls
               PROVE  /\ n > Len(caller[t].made) => fate'[t][n] = <<>>
                      /\ n <= Len(caller[t].made) =>
                           /\ fate'[t][n] \in {<<>>, <<[is |-> "deleted", with |-> {}]>>,
                                               <<[is |-> "run", with |-> Own(t, n)]>>}
                           /\ \/ fate'[t][n] # <<>>
                              \/ Registering(t)' /\ n = Len(caller[t].made)
                              \/ \E o \in outstandings_' : o.call.by = t /\ o.call.n = n
    BY <1>2, FatePrimed
  <2>1. CASE \E o \in outstandings_ : o.call.by = t /\ o.call.n = n
    <3>1. PICK o \in outstandings_ : o.call.by = t /\ o.call.n = n
      BY <2>1
    <3>2. fate'[t][n] = Append(fate[t][n], what)
      BY <1>3, <2>1
    <3>3. fate[t][n] = <<>> /\ n <= Len(caller[t].made)
      BY <1>1, <3>1 DEF MapInv, IsMade
    <3>4. fate'[t][n] = <<[is |-> "deleted", with |-> {}]>>
      BY <3>2, <3>3
    <3>5. ~ (n > Len(caller[t].made))
      BY <1>1, <3>3 DEF RpcType
    <3> QED
      BY <3>4, <3>5
  <2>2. CASE ~ \E o \in outstandings_ : o.call.by = t /\ o.call.n = n
    <3>1. fate'[t][n] = fate[t][n]
      BY <1>3, <2>2
    <3> QED
      BY <1>1, <1>4, <2>2, <3>1 DEF FateInv
  <2> QED
    BY <2>1, <2>2
<1> QED
  BY <1>5, <1>6, <1>7, <1>8, <1>9, <1>10, <1>11 DEF RpcInv

(* No step of the channels breaks the account.                             *)
LEMMA RpcNextInv == RpcInv /\ [Rpc!Next]_rpcVars => RpcInv'
<1> SUFFICES ASSUME RpcInv, [Rpc!Next]_rpcVars PROVE RpcInv'
  OBVIOUS
<1>1. ASSUME NEW t \in Callers, Rpc!CallerStep(t) PROVE RpcInv'
  BY <1>1, RegistersInv, SendsInv DEF Rpc!CallerStep
<1>2. ASSUME NEW t \in Callers, NEW method \in Rpc!Methods, Rpc!BeginsCall(t, method) PROVE RpcInv'
  BY <1>2, BeginsCallInv
<1>3. CASE Rpc!OnRequest
  BY <1>3, OnRequestInv
<1>4. CASE Rpc!OnResponse
  BY <1>4, OnResponseInv
<1>5. ASSUME NEW request \in kept, Rpc!RunsKept(request) PROVE RpcInv'
  BY <1>5, RunsKeptInv
<1>6. ASSUME NEW n \in 0..Len(responses), Rpc!Disconnects(n) PROVE RpcInv'
  BY <1>6, DisconnectsInv
<1>7. CASE Rpc!DeletesChannel
  BY <1>7, DeletesChannelInv
<1>8. CASE UNCHANGED rpcVars
  <2>1. UNCHANGED <<id_, caller, outstandings_, requests, responses, kept, up, channel, fate>>
    BY <1>8 DEF rpcVars
  <2>2. RpcType' /\ LinkInv' /\ MapInv'
    BY <2>1 DEF RpcInv, RpcType, LinkInv, MapInv, IsMade, SameCall
  <2>3. CallersInv' /\ FateInv'
    BY <2>1 DEF RpcInv, CallersInv, FateInv, Registering, Sending, Rpc!LastCall, Own
  <2>4. WaitedFor' /\ OnlyOnce'
    BY <2>1, ZenonT(60) DEF RpcInv, WaitedFor, OnlyOnce, Sending, Rpc!Response
  <2> QED
    BY <2>2, <2>3, <2>4 DEF RpcInv
<1> QED
  BY <1>1, <1>2, <1>3, <1>4, <1>5, <1>6, <1>7, <1>8 DEF Rpc!Next

(* With the account in order, calls are kept.                              *)
LEMMA RpcInvKeepsCalls == RpcInv => CallsKept
<1> SUFFICES ASSUME RpcType, LinkInv, MapInv, CallersInv, WaitedFor, FateInv PROVE CallsKept
  BY DEF RpcInv
<1>1. \A t \in Callers : /\ caller[t].made \in Seq(Rpc!Methods) /\ Len(caller[t].made) \in Nat
                         /\ Len(caller[t].made) <= MaxCalls
                         /\ DOMAIN caller[t].made = 1..Len(caller[t].made)
  BY DEF RpcType
<1>2. ASSUME NEW t \in Callers, NEW n \in DOMAIN caller[t].made
      PROVE  n \in 1..MaxCalls /\ n <= Len(caller[t].made)
  BY <1>1, CallsAssumption
<1>3. Rpc!OwnAnswerOnce
  <2> SUFFICES ASSUME NEW t \in Callers, NEW n \in DOMAIN caller[t].made
               PROVE  /\ Len(fate[t][n]) <= 1
                      /\ fate[t][n] # <<>> =>
                           fate[t][n][1] \in {[is |-> "deleted", with |-> {}],
                                              [is |-> "run", with |-> Own(t, n)]}
    BY DEF Rpc!OwnAnswerOnce, Own
  <2> HIDE DEF Own
  <2>1. fate[t][n] \in {<<>>, <<[is |-> "deleted", with |-> {}]>>, <<[is |-> "run", with |-> Own(t, n)]>>}
    BY <1>2 DEF FateInv
  <2>2. ASSUME NEW x, fate[t][n] = <<x>> PROVE Len(fate[t][n]) = 1 /\ fate[t][n][1] = x
    BY <2>2
  <2>3. CASE fate[t][n] = <<>>
    BY <2>3
  <2>4. CASE fate[t][n] = <<[is |-> "deleted", with |-> {}]>>
    BY <2>2, <2>4
  <2>5. CASE fate[t][n] = <<[is |-> "run", with |-> Own(t, n)]>>
    BY <2>2, <2>5
  <2> QED
    BY <2>1, <2>3, <2>4, <2>5
<1>4. Rpc!AnswersFindTheirCall
  <2> SUFFICES ASSUME "client" \in channel, NEW i \in DOMAIN responses
               PROVE  \E o \in outstandings_ : o.id = responses[i].id
    BY DEF Rpc!AnswersFindTheirCall
  <2>1. i \in 1..Len(responses)
    BY DEF RpcType
  <2>2. PICK o \in outstandings_ : responses[i] = Rpc!Response(o)
    BY <2>1 DEF WaitedFor
  <2> QED
    BY <2>2 DEF Rpc!Response
<1>5. Rpc!NoneForgotten
  <2> SUFFICES ASSUME NEW t \in Callers, NEW n \in Rpc!Made(t)
               PROVE  fate[t][n] = <<>> <=> \E o \in outstandings_ : o.call.by = t /\ o.call.n = n
    BY DEF Rpc!NoneForgotten
  <2>1. n \in 1..MaxCalls /\ n <= Len(caller[t].made) /\ (Registering(t) => n # Len(caller[t].made))
    <3>1. CASE caller[t].todo = <<>>
      BY <1>1, <3>1, CallsAssumption, TodoFacts DEF Rpc!Made, Registering
    <3>2. CASE caller[t].todo # <<>>
      BY <1>1, <3>2, CallsAssumption DEF Rpc!Made
    <3> QED
      BY <3>1, <3>2
  <2> QED
    BY <2>1 DEF FateInv, MapInv
<1> QED
  BY <1>3, <1>4, <1>5 DEF CallsKept, Rpc!CallsKept

(* Whatever threads call, whatever the services answer at once, later or   *)
(* not at all, and whenever the connection goes: the closure of a call     *)
(* runs at most once, with the answer to its own request; an answer always *)
(* finds its call in the map; and a call is in the map until it is         *)
(* answered or deleted with the channel.                                   *)
THEOREM RpcSafe == StreamsSpec => []CallsKept
<1>1. StreamsInit => RpcInv
  BY RpcInitInv DEF StreamsInit
<1>2. RpcInv /\ [StreamsNext]_<<vars, codecVars, rpcVars, httpVars, part>> => RpcInv'
  <2> SUFFICES ASSUME RpcInv, [StreamsNext]_<<vars, codecVars, rpcVars, httpVars, part>>
               PROVE  RpcInv'
    OBVIOUS
  <2>1. [Rpc!Next]_rpcVars
    BY DEF StreamsNext
  <2> QED
    BY <2>1, RpcNextInv
<1> QED
  BY <1>1, <1>2, RpcInvKeepsCalls, PTL DEF StreamsSpec

-----------------------------------------------------------------------------
(* Buffer: the vector with its two indices is a queue of bytes.            *)

(* A buffer of bytes of S whose indices are in order, with room for those  *)
(* to go back.                                                             *)
Bufs(S) ==
  {b \in [buffer_ : Seq(S), readerIndex_ : Nat, writerIndex_ : Nat] :
     /\ b.readerIndex_ <= b.writerIndex_ /\ b.writerIndex_ <= Len(b.buffer_)
     /\ kCheapPrepend <= Len(b.buffer_)}

(* What the indices say about the vector.                                  *)
LEMMA BufFacts ==
    ASSUME NEW S, NEW b \in Bufs(S)
    PROVE  /\ b.buffer_ \in Seq(S) /\ Len(b.buffer_) \in Nat
           /\ b.readerIndex_ \in Nat /\ b.writerIndex_ \in Nat
           /\ b.readerIndex_ <= b.writerIndex_ /\ b.writerIndex_ <= Len(b.buffer_)
           /\ kCheapPrepend <= Len(b.buffer_)
           /\ \A i \in 1..Len(b.buffer_) : b.buffer_[i] \in S
           /\ b = [buffer_ |-> b.buffer_, readerIndex_ |-> b.readerIndex_,
                   writerIndex_ |-> b.writerIndex_]
<1>1. b \in [buffer_ : Seq(S), readerIndex_ : Nat, writerIndex_ : Nat]
  BY DEF Bufs
<1>2. /\ b.readerIndex_ <= b.writerIndex_ /\ b.writerIndex_ <= Len(b.buffer_)
      /\ kCheapPrepend <= Len(b.buffer_)
  BY DEF Bufs
<1> QED
  BY <1>1, <1>2

(* The content is the part of the vector between the indices.              *)
LEMMA ContentFacts ==
    ASSUME NEW S, NEW b \in Bufs(S)
    PROVE  /\ Content(b) \in Seq(S)
           /\ Len(Content(b)) = b.writerIndex_ - b.readerIndex_
           /\ readableBytes(b) = Len(Content(b)) /\ readableBytes(b) \in Nat
           /\ \A i \in 1..Len(Content(b)) : Content(b)[i] = b.buffer_[b.readerIndex_ + i]
<1> DEFINE s == b.buffer_
           m == b.readerIndex_ + 1
           n == b.writerIndex_
<1>1. /\ m \in Int /\ n \in Int /\ m <= n + 1 /\ Len(s) \in Nat
      /\ \A i \in m..n : s[i] \in S
  BY BufFacts
<1> HIDE DEF s, m, n
<1>2. /\ SubSeq(s, m, n) \in Seq(S)
      /\ Len(SubSeq(s, m, n)) = n - m + 1
      /\ \A i \in 1..(n - m + 1) : SubSeq(s, m, n)[i] = s[m + i - 1]
  BY <1>1, SubSeqProperties
<1>3. /\ SubSeq(s, m, n) = Content(b) /\ n - m + 1 = b.writerIndex_ - b.readerIndex_
      /\ b.writerIndex_ - b.readerIndex_ \in Nat
  BY BufFacts DEF s, m, n, Content
<1>4. \A i \in Nat : s[m + i - 1] = b.buffer_[b.readerIndex_ + i]
  BY BufFacts DEF s, m
<1> QED
  BY <1>2, <1>3, <1>4 DEF readableBytes

(* A sequence that has the same bytes is the content.                      *)
LEMMA ContentIs ==
    ASSUME NEW S, NEW b \in Bufs(S), NEW s \in Seq(S),
           Len(s) = b.writerIndex_ - b.readerIndex_,
           \A i \in 1..Len(s) : b.buffer_[b.readerIndex_ + i] = s[i]
    PROVE  Content(b) = s
  BY ContentFacts, SeqEqual

(* A buffer of fewer bytes is one of more.                                 *)
LEMMA BufsMonotonic ==
    ASSUME NEW S, NEW T, S \subseteq T, NEW b \in Bufs(S)
    PROVE  b \in Bufs(T)
<1>1. b.buffer_ \in Seq(T)
  BY BufFacts, SeqMonotonic
<1>2. b \in [buffer_ : Seq(T), readerIndex_ : Nat, writerIndex_ : Nat]
  BY <1>1, BufFacts
<1> QED
  BY <1>2, BufFacts DEF Bufs

(* A record with its indices in order is a buffer.                         *)
LEMMA IsBuf ==
    ASSUME NEW S, NEW s \in Seq(S), NEW r \in Nat, NEW w \in Nat, r <= w, w <= Len(s),
           kCheapPrepend <= Len(s)
    PROVE  [buffer_ |-> s, readerIndex_ |-> r, writerIndex_ |-> w] \in Bufs(S)
  BY DEF Bufs

(* Copying into a vector, within its bounds.                               *)
LEMMA OverwriteFacts ==
    ASSUME NEW S, NEW bytes \in Seq(S), NEW data \in Seq(S), NEW at \in Nat
    PROVE  /\ Overwrite(bytes, at, data) \in Seq(S)
           /\ Len(Overwrite(bytes, at, data)) = Len(bytes)
           /\ \A i \in 1..Len(bytes) :
                Overwrite(bytes, at, data)[i] =
                  IF at < i /\ i <= at + Len(data) THEN data[i - at] ELSE bytes[i]
<1>1. DOMAIN bytes = 1..Len(bytes) /\ DOMAIN data = 1..Len(data) /\ Len(bytes) \in Nat /\ Len(data) \in Nat
  OBVIOUS
<1>2. \A i \in 1..Len(bytes) : (i - at \in 1..Len(data)) <=> (at < i /\ i <= at + Len(data))
  BY <1>1
<1>3. Overwrite(bytes, at, data) =
        [i \in 1..Len(bytes) |-> IF i - at \in 1..Len(data) THEN data[i - at] ELSE bytes[i]]
  BY <1>1 DEF Overwrite
<1>4. \A i \in 1..Len(bytes) :
        (IF i - at \in 1..Len(data) THEN data[i - at] ELSE bytes[i]) \in S
  BY <1>1
<1>5. Overwrite(bytes, at, data) \in [1..Len(bytes) -> S]
  BY <1>3, <1>4
<1>6. Overwrite(bytes, at, data) \in Seq(S) /\ Len(Overwrite(bytes, at, data)) = Len(bytes)
  BY <1>1, <1>5
<1> QED
  BY <1>2, <1>3, <1>6

(* makeSpace() and ensureWritableBytes() leave the content alone and make  *)
(* the room.  The vector grows only if the free bytes do not suffice, and  *)
(* then to less than twice what it is to hold.                             *)
LEMMA EnsureFacts ==
    ASSUME NEW S, 0 \in S, NEW b \in Bufs(S), NEW len \in Nat,
           NEW r, r = ensureWritableBytes(b, len)
    PROVE  /\ r \in Bufs(S)
           /\ Content(r) = Content(b)
           /\ r.writerIndex_ + len <= Len(r.buffer_)
           /\ r.readerIndex_ \in {b.readerIndex_, kCheapPrepend}
           /\ \/ Len(r.buffer_) = Len(b.buffer_)
              \/ Len(r.buffer_) <= kCheapPrepend + 2 * (Len(Content(b)) + len)
<1> USE BufferAssumption
<1>1. /\ b.buffer_ \in Seq(S) /\ Len(b.buffer_) \in Nat
      /\ b.readerIndex_ \in Nat /\ b.writerIndex_ \in Nat
      /\ b.readerIndex_ <= b.writerIndex_ /\ b.writerIndex_ <= Len(b.buffer_)
      /\ kCheapPrepend <= Len(b.buffer_)
  BY BufFacts
<1>2. /\ Content(b) \in Seq(S) /\ Len(Content(b)) = b.writerIndex_ - b.readerIndex_
      /\ readableBytes(b) = Len(Content(b)) /\ Len(Content(b)) \in Nat
      /\ \A i \in 1..Len(Content(b)) : Content(b)[i] = b.buffer_[b.readerIndex_ + i]
  BY ContentFacts
<1>3. CASE ~ (writableBytes(b) < len)
  BY <1>1, <1>3 DEF ensureWritableBytes, writableBytes
<1>4. CASE writableBytes(b) < len /\ Fits(b, len)
  <2> DEFINE over == Overwrite(b.buffer_, kCheapPrepend, Content(b))
  <2>1. r = [buffer_ |-> over, readerIndex_ |-> kCheapPrepend,
             writerIndex_ |-> kCheapPrepend + Len(Content(b))]
    BY <1>2, <1>4 DEF ensureWritableBytes, makeSpace, Moved
  <2>2. /\ over \in Seq(S) /\ Len(over) = Len(b.buffer_)
        /\ \A i \in 1..Len(b.buffer_) :
             over[i] = IF kCheapPrepend < i /\ i <= kCheapPrepend + Len(Content(b))
                         THEN Content(b)[i - kCheapPrepend] ELSE b.buffer_[i]
    <3>1. b.buffer_ \in Seq(S) /\ Content(b) \in Seq(S) /\ kCheapPrepend \in Nat
      BY <1>1, <1>2
    <3> HIDE BufferAssumption
    <3> QED
      BY <3>1, OverwriteFacts, ZenonT(60)
  <2> HIDE DEF over
  <2>3. kCheapPrepend + Len(Content(b)) + len <= Len(over)
    BY <1>1, <1>2, <1>4, <2>2, SMTT(40) DEF Fits, writableBytes, prependableBytes
  <2>4. r \in Bufs(S)
    <3>1. /\ over \in Seq(S) /\ kCheapPrepend \in Nat /\ kCheapPrepend + Len(Content(b)) \in Nat
          /\ kCheapPrepend <= kCheapPrepend + Len(Content(b))
          /\ kCheapPrepend + Len(Content(b)) <= Len(over) /\ kCheapPrepend <= Len(over)
      BY <1>1, <1>2, <2>2, <2>3
    <3> QED
      BY <2>1, <3>1, IsBuf
  <2>5. \A i \in 1..Len(Content(b)) : r.buffer_[r.readerIndex_ + i] = Content(b)[i]
    <3> SUFFICES ASSUME NEW i \in 1..Len(Content(b)) PROVE over[kCheapPrepend + i] = Content(b)[i]
      BY <2>1
    <3> DEFINE j == kCheapPrepend + i
    <3>1. /\ j \in 1..Len(b.buffer_) /\ kCheapPrepend < j /\ j <= kCheapPrepend + Len(Content(b))
          /\ j - kCheapPrepend = i
      BY <1>2, <2>2, <2>3
    <3> HIDE DEF j
    <3> HIDE BufferAssumption
    <3>2. over[j] = Content(b)[j - kCheapPrepend]
      BY <2>2, <3>1
    <3> QED
      BY <3>1, <3>2 DEF j
  <2>6. Content(r) = Content(b)
    BY <1>2, <2>1, <2>4, <2>5, ContentIs
  <2> QED
    BY <2>1, <2>2, <2>3, <2>4, <2>6
<1>5. CASE writableBytes(b) < len /\ ~ Fits(b, len)
  <2> DEFINE more == b.writerIndex_ + len - Len(b.buffer_)
             grown == b.buffer_ \o Zeros(more)
  <2>1. r = [buffer_ |-> grown, readerIndex_ |-> b.readerIndex_, writerIndex_ |-> b.writerIndex_]
    <3>1. b = [buffer_ |-> b.buffer_, readerIndex_ |-> b.readerIndex_, writerIndex_ |-> b.writerIndex_]
      BY BufFacts
    <3>2. r = [b EXCEPT !.buffer_ = grown]
      BY <1>5 DEF ensureWritableBytes, makeSpace, Grown
    <3> HIDE DEF grown
    <3> QED
      BY <3>1, <3>2
  <2>2. more \in Nat /\ Zeros(more) \in Seq(S) /\ Len(Zeros(more)) = more
    <3>1. more \in Nat
      BY <1>1, <1>5 DEF writableBytes
    <3> HIDE DEF more
    <3>2. Zeros(more) \in [1..more -> S]
      BY DEF Zeros
    <3> QED
      BY <3>1, <3>2
  <2>3. /\ grown \in Seq(S) /\ Len(grown) = b.writerIndex_ + len
        /\ \A i \in 1..Len(b.buffer_) : grown[i] = b.buffer_[i]
    <3> HIDE DEF more
    <3>1. /\ grown \in Seq(S) /\ Len(grown) = Len(b.buffer_) + more
          /\ \A i \in 1..(Len(b.buffer_) + more) :
               grown[i] = IF i <= Len(b.buffer_) THEN b.buffer_[i] ELSE Zeros(more)[i - Len(b.buffer_)]
      <4>1. b.buffer_ \in Seq(S) /\ Zeros(more) \in Seq(S) /\ Len(Zeros(more)) = more
        BY <1>1, <2>2
      <4> DEFINE v == b.buffer_
                 z == Zeros(more)
      <4>2. v \in Seq(S) /\ z \in Seq(S) /\ grown = v \o z
        BY <4>1
      <4> HIDE DEF v, z, grown
      <4>3. /\ v \o z \in Seq(S)
            /\ Len(v \o z) = Len(v) + Len(z)
            /\ \A i \in 1..(Len(v) + Len(z)) :
                 (v \o z)[i] = IF i <= Len(v) THEN v[i] ELSE z[i - Len(v)]
        BY <4>2, ConcatProperties
      <4> QED
        BY <4>1, <4>2, <4>3, Zenon DEF v, z
    <3> HIDE DEF grown
    <3>2. Len(b.buffer_) + more = b.writerIndex_ + len
      BY <1>1 DEF more
    <3>3. \A i \in 1..Len(b.buffer_) : i \in 1..(Len(b.buffer_) + more) /\ i <= Len(b.buffer_)
      BY <1>1, <2>2
    <3> QED
      BY <3>1, <3>2, <3>3
  <2> HIDE DEF grown
  <2>9. kCheapPrepend <= Len(grown)
    BY <1>1, <2>2, <2>3 DEF more
  <2> HIDE DEF more
  <2>4. r \in Bufs(S)
    BY <1>1, <2>1, <2>3, <2>9, IsBuf
  <2>5. \A i \in 1..Len(Content(b)) : r.buffer_[r.readerIndex_ + i] = Content(b)[i]
    <3> SUFFICES ASSUME NEW i \in 1..Len(Content(b)) PROVE grown[b.readerIndex_ + i] = Content(b)[i]
      BY <2>1
    <3>1. b.readerIndex_ + i \in 1..Len(b.buffer_)
      BY <1>1, <1>2
    <3> QED
      BY <1>2, <2>3, <3>1, Zenon
  <2>6. Content(r) = Content(b)
    BY <1>2, <2>1, <2>4, <2>5, ContentIs
  <2>7. b.readerIndex_ <= len + kCheapPrepend
    BY <1>1, <1>5 DEF Fits, writableBytes, prependableBytes
  <2>8. b.writerIndex_ + len <= kCheapPrepend + 2 * (Len(Content(b)) + len)
    BY <1>1, <1>2, <2>7, SMTT(40)
  <2> QED
    BY <2>1, <2>3, <2>4, <2>6, <2>8
<1> QED
  BY <1>3, <1>4, <1>5

(* One sequence and then another.                                          *)
Joined(s, t) == s \o t

(* append() adds the bytes at the back.                                    *)
LEMMA AppendBuf ==
    ASSUME NEW S, 0 \in S, NEW b \in Bufs(S), NEW data \in Seq(S),
           NEW r, r = append(b, data)
    PROVE  /\ r \in Bufs(S)
           /\ Content(r) = Joined(Content(b), data)
           /\ r.readerIndex_ \in {b.readerIndex_, kCheapPrepend}
           /\ \/ Len(r.buffer_) = Len(b.buffer_)
              \/ Len(r.buffer_) <= kCheapPrepend + 2 * (Len(Content(b)) + Len(data))
<1> USE BufferAssumption
<1> DEFINE room == ensureWritableBytes(b, Len(data))
           over == Overwrite(room.buffer_, room.writerIndex_, data)
<1>1. /\ room \in Bufs(S)
      /\ Content(room) = Content(b)
      /\ room.writerIndex_ + Len(data) <= Len(room.buffer_)
      /\ room.readerIndex_ \in {b.readerIndex_, kCheapPrepend}
      /\ \/ Len(room.buffer_) = Len(b.buffer_)
         \/ Len(room.buffer_) <= kCheapPrepend + 2 * (Len(Content(b)) + Len(data))
      /\ Len(data) \in Nat
  BY EnsureFacts
<1>2. r = hasWritten([room EXCEPT !.buffer_ = over], Len(data))
  BY DEF append
<1> HIDE DEF room
<1>3. /\ room.buffer_ \in Seq(S) /\ Len(room.buffer_) \in Nat
      /\ room.readerIndex_ \in Nat /\ room.writerIndex_ \in Nat
      /\ room.readerIndex_ <= room.writerIndex_ /\ kCheapPrepend <= Len(room.buffer_)
      /\ room = [buffer_ |-> room.buffer_, readerIndex_ |-> room.readerIndex_,
                 writerIndex_ |-> room.writerIndex_]
  BY <1>1, BufFacts
<1>4. r = [buffer_ |-> over, readerIndex_ |-> room.readerIndex_,
           writerIndex_ |-> room.writerIndex_ + Len(data)]
  BY <1>2, <1>3 DEF hasWritten
<1>5. /\ over \in Seq(S) /\ Len(over) = Len(room.buffer_)
      /\ \A i \in 1..Len(room.buffer_) :
           over[i] = IF room.writerIndex_ < i /\ i <= room.writerIndex_ + Len(data)
                       THEN data[i - room.writerIndex_] ELSE room.buffer_[i]
  <2>1. room.buffer_ \in Seq(S) /\ data \in Seq(S) /\ room.writerIndex_ \in Nat
    BY <1>3
  <2> QED
    BY <2>1, OverwriteFacts, ZenonT(60)
<1> HIDE DEF over
<1>6. r \in Bufs(S)
  <2>1. /\ over \in Seq(S) /\ room.readerIndex_ \in Nat /\ room.writerIndex_ + Len(data) \in Nat
        /\ room.readerIndex_ <= room.writerIndex_ + Len(data)
        /\ room.writerIndex_ + Len(data) <= Len(over) /\ kCheapPrepend <= Len(over)
    BY <1>1, <1>3, <1>5
  <2> QED
    BY <1>4, <2>1, IsBuf
<1>7. /\ Content(room) \in Seq(S)
      /\ Len(Content(room)) = room.writerIndex_ - room.readerIndex_
      /\ \A i \in 1..Len(Content(room)) : Content(room)[i] = room.buffer_[room.readerIndex_ + i]
  BY <1>1, ContentFacts
<1>8. /\ Content(room) \o data \in Seq(S)
      /\ Len(Content(room) \o data) = Len(Content(room)) + Len(data)
      /\ \A i \in 1..(Len(Content(room)) + Len(data)) :
           (Content(room) \o data)[i] =
             IF i <= Len(Content(room)) THEN Content(room)[i] ELSE data[i - Len(Content(room))]
  BY <1>7, ConcatProperties
<1>9. \A i \in 1..Len(Content(room) \o data) : r.buffer_[r.readerIndex_ + i] = (Content(room) \o data)[i]
  <2> SUFFICES ASSUME NEW i \in 1..(Len(Content(room)) + Len(data))
               PROVE  over[room.readerIndex_ + i] = (Content(room) \o data)[i]
    BY <1>4, <1>8
  <2> DEFINE at == room.readerIndex_ + i
  <2>1. /\ at \in 1..Len(room.buffer_) /\ i \in Nat
        /\ room.writerIndex_ = room.readerIndex_ + Len(Content(room)) /\ Len(Content(room)) \in Nat
    <3>1. room.writerIndex_ = room.readerIndex_ + Len(Content(room)) /\ Len(Content(room)) \in Nat
      BY <1>3, <1>7
    <3> QED
      BY <1>1, <1>3, <3>1, SMTT(40)
  <2>2. CASE i <= Len(Content(room))
    <3>1. ~ (room.writerIndex_ < at) /\ i \in 1..Len(Content(room))
      BY <1>3, <2>1, <2>2
    <3>2. over[at] = room.buffer_[at]
      BY <1>5, <2>1, <3>1, Zenon
    <3>3. (Content(room) \o data)[i] = Content(room)[i]
      BY <1>8, <2>2, Zenon
    <3> QED
      BY <1>7, <3>1, <3>2, <3>3, Zenon
  <2>3. CASE ~ (i <= Len(Content(room)))
    <3>1. /\ at - room.writerIndex_ = i - Len(Content(room))
          /\ room.writerIndex_ < at /\ at <= room.writerIndex_ + Len(data)
      <4>1. i <= Len(Content(room)) + Len(data) /\ Len(data) \in Nat /\ room.readerIndex_ \in Nat
        BY <1>1, <1>3
      <4> QED
        BY <2>1, <2>3, <4>1
    <3>2. over[at] = data[at - room.writerIndex_]
      BY <1>5, <2>1, <3>1, Zenon
    <3>3. (Content(room) \o data)[i] = data[i - Len(Content(room))]
      BY <1>8, <2>3, Zenon
    <3> QED
      BY <3>1, <3>2, <3>3, Zenon
  <2> QED
    BY <2>2, <2>3
<1>10. Content(r) = Content(room) \o data
  <2>1. Len(Content(room) \o data) = r.writerIndex_ - r.readerIndex_
    BY <1>1, <1>3, <1>4, <1>7, <1>8
  <2> QED
    BY <1>6, <1>8, <1>9, <2>1, ContentIs
<1> QED
  BY <1>1, <1>4, <1>5, <1>6, <1>10 DEF Joined

(* prepend() adds the bytes in front.                                      *)
LEMMA PrependBuf ==
    ASSUME NEW S, NEW b \in Bufs(S), NEW data \in Seq(S), Len(data) <= b.readerIndex_,
           NEW r, r = prepend(b, data)
    PROVE  /\ r \in Bufs(S)
           /\ Content(r) = Joined(data, Content(b))
           /\ r.readerIndex_ = b.readerIndex_ - Len(data)
           /\ Len(r.buffer_) = Len(b.buffer_)
<1> DEFINE start == b.readerIndex_ - Len(data)
           over == Overwrite(b.buffer_, start, data)
<1>1. /\ b.buffer_ \in Seq(S) /\ Len(b.buffer_) \in Nat
      /\ b.readerIndex_ \in Nat /\ b.writerIndex_ \in Nat
      /\ b.readerIndex_ <= b.writerIndex_ /\ b.writerIndex_ <= Len(b.buffer_)
      /\ kCheapPrepend <= Len(b.buffer_)
      /\ b = [buffer_ |-> b.buffer_, readerIndex_ |-> b.readerIndex_,
              writerIndex_ |-> b.writerIndex_]
  BY BufFacts
<1>2. start \in Nat /\ Len(data) \in Nat /\ start + Len(data) = b.readerIndex_
  BY <1>1
<1>3. r = [buffer_ |-> over, readerIndex_ |-> start, writerIndex_ |-> b.writerIndex_]
  <2>1. r = [b EXCEPT !.readerIndex_ = start, !.buffer_ = over]
    BY DEF prepend
  <2> HIDE DEF start, over
  <2> QED
    BY <1>1, <2>1
<1> HIDE DEF start
<1>4. /\ over \in Seq(S) /\ Len(over) = Len(b.buffer_)
      /\ \A i \in 1..Len(b.buffer_) :
           over[i] = IF start < i /\ i <= start + Len(data) THEN data[i - start] ELSE b.buffer_[i]
  <2>1. b.buffer_ \in Seq(S) /\ data \in Seq(S) /\ start \in Nat
    BY <1>1, <1>2
  <2> QED
    BY <2>1, OverwriteFacts, Zenon
<1> HIDE DEF over
<1>5. r \in Bufs(S)
  BY <1>1, <1>2, <1>3, <1>4, IsBuf
<1> DEFINE c == Content(b)
<1>6. /\ c \in Seq(S) /\ Len(c) = b.writerIndex_ - b.readerIndex_ /\ Len(c) \in Nat
      /\ \A i \in 1..Len(c) : c[i] = b.buffer_[b.readerIndex_ + i]
  BY ContentFacts
<1> HIDE DEF c
<1>7. /\ data \o c \in Seq(S)
      /\ Len(data \o c) = Len(data) + Len(c)
      /\ \A i \in 1..(Len(data) + Len(c)) :
           (data \o c)[i] = IF i <= Len(data) THEN data[i] ELSE c[i - Len(data)]
  BY <1>6, ConcatProperties
<1>8. \A i \in 1..Len(data \o c) : r.buffer_[r.readerIndex_ + i] = (data \o c)[i]
  <2> SUFFICES ASSUME NEW i \in 1..(Len(data) + Len(c)) PROVE over[start + i] = (data \o c)[i]
    BY <1>3, <1>7
  <2> DEFINE j == start + i
  <2>1. i \in Nat /\ i >= 1 /\ i <= Len(data) + Len(c)
    BY <1>2, <1>6
  <2>2. /\ j \in 1..Len(b.buffer_) /\ start < j /\ j - start = i
        /\ j <= start + Len(data) <=> i <= Len(data)
    BY <1>1, <1>2, <1>6, <2>1, SMTT(40)
  <2>3. CASE i <= Len(data)
    <3> HIDE DEF j
    <3>1. over[j] = data[j - start]
      BY <1>4, <2>2, <2>3
    <3>2. over[j] = (data \o c)[i]
      BY <1>7, <2>2, <2>3, <3>1
    <3> QED
      BY <3>2 DEF j
  <2>4. CASE ~ (i <= Len(data))
    <3>1. i - Len(data) \in 1..Len(c) /\ b.readerIndex_ + (i - Len(data)) = j
      BY <1>1, <1>2, <1>6, <2>1, <2>4, SMTT(40)
    <3> HIDE DEF j
    <3>2. over[j] = b.buffer_[j]
      BY <1>4, <2>2, <2>4
    <3>3. c[i - Len(data)] = b.buffer_[j]
      BY <1>6, <3>1
    <3>4. over[j] = (data \o c)[i]
      BY <1>7, <2>4, <3>2, <3>3
    <3> QED
      BY <3>4 DEF j
  <2> QED
    BY <2>3, <2>4
<1>9. Content(r) = data \o c
  <2>1. Len(data \o c) = r.writerIndex_ - r.readerIndex_
    BY <1>1, <1>2, <1>3, <1>6, <1>7
  <2> QED
    BY <1>5, <1>7, <1>8, <2>1, ContentIs
<1> QED
  BY <1>3, <1>4, <1>5, <1>9 DEF c, start, Joined

(* A new buffer is empty.                                                  *)
LEMMA NewBuf ==
    ASSUME NEW S, 0 \in S
    PROVE  /\ NewBuffer(kInitialSize) \in Bufs(S)
           /\ Content(NewBuffer(kInitialSize)) = <<>>
           /\ NewBuffer(kInitialSize).readerIndex_ = kCheapPrepend
           /\ Len(NewBuffer(kInitialSize).buffer_) = kCheapPrepend + kInitialSize
<1> DEFINE size == kCheapPrepend + kInitialSize
<1>1. size \in Nat /\ kCheapPrepend <= size /\ kCheapPrepend \in Nat
  BY BufferAssumption
<1>2. NewBuffer(kInitialSize) = [buffer_ |-> Zeros(size), readerIndex_ |-> kCheapPrepend,
                                 writerIndex_ |-> kCheapPrepend]
  BY DEF NewBuffer
<1> HIDE DEF size
<1>3. Zeros(size) \in Seq(S) /\ Len(Zeros(size)) = size
  <2>1. Zeros(size) \in [1..size -> S]
    BY DEF Zeros
  <2> QED
    BY <1>1, <2>1
<1>4. NewBuffer(kInitialSize) \in Bufs(S)
  BY <1>1, <1>2, <1>3, IsBuf, SMTT(40)
<1>5. Content(NewBuffer(kInitialSize)) = <<>>
  <2> DEFINE b == NewBuffer(kInitialSize)
  <2>1. Len(<<>>) = b.writerIndex_ - b.readerIndex_ /\ Len(<<>>) = 0 /\ <<>> \in Seq(S)
    BY <1>1, <1>2
  <2>2. \A i \in 1..Len(<<>>) : b.buffer_[b.readerIndex_ + i] = <<>>[i]
    BY <2>1
  <2> HIDE DEF b
  <2>3. b \in Bufs(S)
    BY <1>4 DEF b
  <2>4. Content(b) = <<>>
    BY <2>1, <2>2, <2>3, ContentIs
  <2> QED
    BY <2>4 DEF b
<1> QED
  BY <1>2, <1>3, <1>4, <1>5 DEF size

(* retrieveAll() empties the buffer.                                       *)
LEMMA RetrieveAllBuf ==
    ASSUME NEW S, NEW b \in Bufs(S), NEW r, r = retrieveAll(b)
    PROVE  /\ r \in Bufs(S)
           /\ Content(r) = <<>>
           /\ r.readerIndex_ = kCheapPrepend
           /\ Len(r.buffer_) = Len(b.buffer_)
<1>1. b.buffer_ \in Seq(S) /\ kCheapPrepend \in Nat /\ kCheapPrepend <= Len(b.buffer_)
  BY BufFacts, BufferAssumption
<1>2. r = [buffer_ |-> b.buffer_, readerIndex_ |-> kCheapPrepend, writerIndex_ |-> kCheapPrepend]
  <2>1. b = [buffer_ |-> b.buffer_, readerIndex_ |-> b.readerIndex_, writerIndex_ |-> b.writerIndex_]
    BY BufFacts
  <2> QED
    BY <2>1 DEF retrieveAll
<1>3. r \in Bufs(S)
  BY <1>1, <1>2, IsBuf
<1>4. Content(r) = <<>>
  <2>1. Len(<<>>) = r.writerIndex_ - r.readerIndex_ /\ Len(<<>>) = 0 /\ <<>> \in Seq(S)
    BY <1>1, <1>2
  <2>2. \A i \in 1..Len(<<>>) : r.buffer_[r.readerIndex_ + i] = <<>>[i]
    BY <2>1
  <2> QED
    BY <1>3, <2>1, <2>2, ContentIs
<1> QED
  BY <1>2, <1>3, <1>4

(* A part of the content, where it lies in the vector.                     *)
LEMMA SubContent ==
    ASSUME NEW S, NEW b \in Bufs(S), NEW m \in Nat, NEW n \in Nat,
           m <= n, n <= Len(Content(b)), NEW r \in Bufs(S), r.buffer_ = b.buffer_,
           r.readerIndex_ = b.readerIndex_ + m, r.writerIndex_ = b.readerIndex_ + n
    PROVE  Content(r) = SubSeq(Content(b), m + 1, n)
<1> DEFINE c == Content(b)
<1>1. /\ c \in Seq(S) /\ Len(c) \in Nat /\ b.readerIndex_ \in Nat
      /\ \A i \in 1..Len(c) : c[i] \in S /\ c[i] = b.buffer_[b.readerIndex_ + i]
  <2>1. /\ c \in Seq(S) /\ Len(c) \in Nat
        /\ \A i \in 1..Len(c) : c[i] = b.buffer_[b.readerIndex_ + i]
    BY ContentFacts
  <2> HIDE DEF c
  <2>2. \A i \in 1..Len(c) : c[i] \in S
    BY <2>1
  <2>3. b.readerIndex_ \in Nat
    BY BufFacts
  <2> QED
    BY <2>1, <2>2, <2>3
<1> HIDE DEF c
<1>2. n <= Len(c)
  BY DEF c
<1>3. /\ m + 1 \in Int /\ n \in Int /\ \A i \in (m + 1)..n : c[i] \in S
  BY <1>1, <1>2
<1> DEFINE p == SubSeq(c, m + 1, n)
           a == m + 1
<1>4. /\ p \in Seq(S) /\ Len(p) = n - m
      /\ \A i \in 1..(n - m) : p[i] = c[m + i]
  <2>1. a \in Int /\ n \in Int /\ \A i \in a..n : c[i] \in S
    BY <1>3
  <2> HIDE DEF a
  <2>2. /\ SubSeq(c, a, n) \in Seq(S)
        /\ Len(SubSeq(c, a, n)) = IF a <= n THEN n - a + 1 ELSE 0
        /\ \A i \in 1..(n - a + 1) : SubSeq(c, a, n)[i] = c[a + i - 1]
    BY <2>1, SubSeqProperties
  <2>3. SubSeq(c, a, n) = p /\ n - a + 1 = n - m /\ (IF a <= n THEN n - a + 1 ELSE 0) = n - m
    BY DEF a
  <2>4. \A i \in 1..(n - m) : a + i - 1 = m + i
    BY DEF a
  <2> HIDE DEF p
  <2> QED
    BY <2>2, <2>3, <2>4
<1> HIDE DEF p
<1>5. \A i \in 1..Len(p) : r.buffer_[r.readerIndex_ + i] = p[i]
  <2> SUFFICES ASSUME NEW i \in 1..(n - m)
               PROVE  b.buffer_[(b.readerIndex_ + m) + i] = p[i]
    BY <1>4
  <2>1. m + i \in 1..Len(c) /\ b.readerIndex_ + (m + i) = (b.readerIndex_ + m) + i
    BY <1>1, <1>2
  <2>2. c[m + i] = b.buffer_[(b.readerIndex_ + m) + i]
    BY <1>1, <2>1
  <2> QED
    BY <1>4, <2>2
<1>6. Len(p) = r.writerIndex_ - r.readerIndex_
  BY <1>1, <1>4
<1>7. Content(r) = p
  BY <1>4, <1>5, <1>6, ContentIs
<1> QED
  BY <1>7 DEF p, c

(* retrieve() takes bytes from the front; an empty buffer starts afresh.   *)
LEMMA RetrieveBuf ==
    ASSUME NEW S, NEW b \in Bufs(S), NEW len \in Nat, len <= readableBytes(b),
           NEW r, r = retrieve(b, len)
    PROVE  /\ r \in Bufs(S)
           /\ Content(r) = SubSeq(Content(b), len + 1, Len(Content(b)))
           /\ r.readerIndex_ = IF len < readableBytes(b) THEN b.readerIndex_ + len ELSE kCheapPrepend
           /\ Len(r.buffer_) = Len(b.buffer_)
<1>1. /\ b.buffer_ \in Seq(S) /\ Len(b.buffer_) \in Nat
      /\ b.readerIndex_ \in Nat /\ b.writerIndex_ \in Nat
      /\ b.readerIndex_ <= b.writerIndex_ /\ b.writerIndex_ <= Len(b.buffer_)
      /\ kCheapPrepend <= Len(b.buffer_)
      /\ b = [buffer_ |-> b.buffer_, readerIndex_ |-> b.readerIndex_,
              writerIndex_ |-> b.writerIndex_]
  BY BufFacts
<1>2. /\ Len(Content(b)) = b.writerIndex_ - b.readerIndex_ /\ Len(Content(b)) \in Nat
      /\ readableBytes(b) = Len(Content(b)) /\ Content(b) \in Seq(S)
  BY ContentFacts
<1>3. CASE len < readableBytes(b)
  <2>1. r = [b EXCEPT !.readerIndex_ = b.readerIndex_ + len]
    BY <1>3 DEF retrieve
  <2>2. r = [buffer_ |-> b.buffer_, readerIndex_ |-> b.readerIndex_ + len,
             writerIndex_ |-> b.writerIndex_]
    BY <1>1, <2>1
  <2>3. b.readerIndex_ + len \in Nat /\ b.readerIndex_ + len <= b.writerIndex_
          /\ b.writerIndex_ = b.readerIndex_ + Len(Content(b))
    BY <1>1, <1>2, <1>3
  <2>4. r \in Bufs(S)
    BY <1>1, <2>2, <2>3, IsBuf
  <2>5. /\ r.buffer_ = b.buffer_ /\ r.readerIndex_ = b.readerIndex_ + len
        /\ r.writerIndex_ = b.readerIndex_ + Len(Content(b))
        /\ len <= Len(Content(b)) /\ Len(Content(b)) <= Len(Content(b))
    BY <1>2, <1>3, <2>2, <2>3
  <2>6. Content(r) = SubSeq(Content(b), len + 1, Len(Content(b)))
    BY <1>2, <2>4, <2>5, SubContent
  <2> QED
    BY <1>3, <2>2, <2>4, <2>6
<1>4. CASE ~ (len < readableBytes(b))
  <2>1. r = retrieveAll(b)
    BY <1>4 DEF retrieve
  <2>2. Len(Content(b)) < len + 1 /\ len + 1 \in Int /\ Len(Content(b)) \in Int
    BY <1>2, <1>4
  <2>3. SubSeq(Content(b), len + 1, Len(Content(b))) = <<>>
    BY <2>2, SubSeqEmpty
  <2> QED
    BY <1>4, <2>1, <2>3, RetrieveAllBuf
<1> QED
  BY <1>3, <1>4

(* unwrite() drops bytes at the back.                                      *)
LEMMA UnwriteBuf ==
    ASSUME NEW S, NEW b \in Bufs(S), NEW len \in Nat, len <= readableBytes(b),
           NEW r, r = unwrite(b, len)
    PROVE  /\ r \in Bufs(S)
           /\ Content(r) = SubSeq(Content(b), 1, Len(Content(b)) - len)
           /\ r.readerIndex_ = b.readerIndex_
           /\ Len(r.buffer_) = Len(b.buffer_)
<1>1. /\ b.buffer_ \in Seq(S) /\ Len(b.buffer_) \in Nat
      /\ b.readerIndex_ \in Nat /\ b.writerIndex_ \in Nat
      /\ b.readerIndex_ <= b.writerIndex_ /\ b.writerIndex_ <= Len(b.buffer_)
      /\ kCheapPrepend <= Len(b.buffer_)
      /\ b = [buffer_ |-> b.buffer_, readerIndex_ |-> b.readerIndex_,
              writerIndex_ |-> b.writerIndex_]
  BY BufFacts
<1> DEFINE left == Len(Content(b)) - len
<1>2. /\ left \in Nat /\ left <= Len(Content(b)) /\ b.writerIndex_ - len = b.readerIndex_ + left
      /\ b.readerIndex_ + left \in Nat /\ b.readerIndex_ + left <= Len(b.buffer_)
      /\ b.readerIndex_ <= b.readerIndex_ + left
  <2>1. Len(Content(b)) = b.writerIndex_ - b.readerIndex_ /\ len <= Len(Content(b))
    BY ContentFacts
  <2> QED
    BY <1>1, <2>1
<1> HIDE DEF left
<1>3. r = [buffer_ |-> b.buffer_, readerIndex_ |-> b.readerIndex_,
           writerIndex_ |-> b.readerIndex_ + left]
  <2>1. r = [b EXCEPT !.writerIndex_ = b.readerIndex_ + left]
    BY <1>2 DEF unwrite
  <2> QED
    BY <1>1, <2>1
<1>4. r \in Bufs(S)
  BY <1>1, <1>2, <1>3, IsBuf
<1>5. Content(r) = SubSeq(Content(b), 0 + 1, left)
  <2>1. /\ r.readerIndex_ = b.readerIndex_ + 0 /\ r.writerIndex_ = b.readerIndex_ + left
        /\ r.buffer_ = b.buffer_ /\ 0 <= left /\ 0 \in Nat
    BY <1>1, <1>2, <1>3
  <2> QED
    BY <1>2, <1>4, <2>1, SubContent
<1> QED
  BY <1>3, <1>4, <1>5 DEF left

(* readFd() adds what readv() has returned at the back, although it may    *)
(* have landed in two places.                                              *)
LEMMA ReadFdBuf ==
    ASSUME NEW S, 0 \in S, NEW b \in Bufs(S), NEW data \in Seq(S),
           NEW r, r = readFd(b, data)
    PROVE  /\ r \in Bufs(S)
           /\ Content(r) = Joined(Content(b), data)
           /\ r.readerIndex_ \in {b.readerIndex_, kCheapPrepend}
           /\ \/ Len(r.buffer_) = Len(b.buffer_)
              \/ Len(r.buffer_) <= kCheapPrepend + 2 * (Len(Content(b)) + Len(data))
<1> DEFINE writable == writableBytes(b)
           over == Overwrite(b.buffer_, b.writerIndex_, data)
<1>1. /\ b.buffer_ \in Seq(S) /\ Len(b.buffer_) \in Nat
      /\ b.readerIndex_ \in Nat /\ b.writerIndex_ \in Nat
      /\ b.readerIndex_ <= b.writerIndex_ /\ b.writerIndex_ <= Len(b.buffer_)
      /\ kCheapPrepend <= Len(b.buffer_)
      /\ b = [buffer_ |-> b.buffer_, readerIndex_ |-> b.readerIndex_,
              writerIndex_ |-> b.writerIndex_]
  BY BufFacts
<1>2. writable \in Nat /\ b.writerIndex_ + writable = Len(b.buffer_) /\ Len(data) \in Nat
  BY <1>1 DEF writableBytes
<1>3. CASE Len(data) <= writable
  <2>1. ensureWritableBytes(b, Len(data)) = b
    BY <1>2, <1>3 DEF ensureWritableBytes
  <2>2. r = append(b, data)
    BY <1>3, <2>1 DEF readFd, append
  <2> QED
    BY <2>2, AppendBuf
<1>4. CASE ~ (Len(data) <= writable)
  <2> DEFINE c == Content(b)
             front == SubSeq(data, 1, writable)
             back == SubSeq(data, writable + 1, Len(data))
             full == [buffer_ |-> over, readerIndex_ |-> b.readerIndex_,
                      writerIndex_ |-> Len(b.buffer_)]
  <2>1. r = append(full, back)
    <3>1. [[b EXCEPT !.buffer_ = over] EXCEPT !.writerIndex_ = Len(b.buffer_)] = full
      <4> HIDE DEF over
      <4>1. [b EXCEPT !.buffer_ = over] = [buffer_ |-> over, readerIndex_ |-> b.readerIndex_,
                                           writerIndex_ |-> b.writerIndex_]
        BY <1>1
      <4> DEFINE once == [b EXCEPT !.buffer_ = over]
      <4> HIDE DEF once
      <4>2. once = [buffer_ |-> over, readerIndex_ |-> b.readerIndex_, writerIndex_ |-> b.writerIndex_]
        BY <4>1 DEF once
      <4>3. [once EXCEPT !.writerIndex_ = Len(b.buffer_)] = full
        BY <4>2
      <4> QED
        BY <4>3 DEF once
    <3>2. r = append([[b EXCEPT !.buffer_ = over] EXCEPT !.writerIndex_ = Len(b.buffer_)], back)
      BY <1>4 DEF readFd
    <3> QED
      BY <3>1, <3>2, Zenon
  <2>2. /\ over \in Seq(S) /\ Len(over) = Len(b.buffer_)
        /\ \A i \in 1..Len(b.buffer_) :
             over[i] = IF b.writerIndex_ < i /\ i <= b.writerIndex_ + Len(data)
                         THEN data[i - b.writerIndex_] ELSE b.buffer_[i]
    <3>1. b.buffer_ \in Seq(S) /\ data \in Seq(S) /\ b.writerIndex_ \in Nat
      BY <1>1
    <3> QED
      BY <3>1, OverwriteFacts, ZenonT(60)
  <2>3. /\ front \in Seq(S) /\ Len(front) = writable
        /\ \A i \in 1..writable : front[i] = data[i]
        /\ back \in Seq(S) /\ Len(back) = Len(data) - writable
        /\ front \o back = data
    <3> HIDE DEF writable
    <3>1. /\ \A i \in 1..writable : data[i] \in S
          /\ \A i \in (writable + 1)..Len(data) : data[i] \in S
          /\ 1 \in Int /\ writable \in Int /\ writable + 1 \in Int /\ Len(data) \in Int
      BY <1>2, <1>4
    <3>2. /\ front \in Seq(S) /\ Len(front) = IF 1 <= writable THEN writable - 1 + 1 ELSE 0
          /\ \A i \in 1..(writable - 1 + 1) : front[i] = data[1 + i - 1]
      BY <3>1, SubSeqProperties
    <3>3. /\ back \in Seq(S)
          /\ Len(back) = IF writable + 1 <= Len(data) THEN Len(data) - (writable + 1) + 1 ELSE 0
      BY <3>1, SubSeqProperties
    <3>4. front \o back = SubSeq(data, 1, Len(data))
      <4>1. 1 \in 1..(Len(data) + 1) /\ writable \in (1 - 1)..Len(data) /\ Len(data) \in writable..Len(data)
        BY <1>2, <1>4
      <4> QED
        BY <4>1, ConcatAdjacentSubSeq
    <3>5. SubSeq(data, 1, Len(data)) = data
      BY SubSeqFull
    <3> HIDE DEF front, back
    <3>6. Len(front) = writable /\ \A i \in 1..writable : front[i] = data[i]
      BY <1>2, <3>2
    <3>7. Len(back) = Len(data) - writable
      BY <1>2, <1>4, <3>3
    <3> QED
      BY <3>2, <3>3, <3>4, <3>5, <3>6, <3>7
  <2> HIDE DEF over, front, back
  <2>4. full \in Bufs(S)
    BY <1>1, <2>2, IsBuf
  <2>5. /\ c \in Seq(S) /\ Len(c) = b.writerIndex_ - b.readerIndex_ /\ Len(c) \in Nat
        /\ \A i \in 1..Len(c) : c[i] = b.buffer_[b.readerIndex_ + i]
    BY ContentFacts
  <2> HIDE DEF c
  <2>6. /\ c \o front \in Seq(S) /\ Len(c \o front) = Len(c) + writable
        /\ \A i \in 1..(Len(c) + writable) :
             (c \o front)[i] = IF i <= Len(c) THEN c[i] ELSE front[i - Len(c)]
    <3>1. /\ c \o front \in Seq(S) /\ Len(c \o front) = Len(c) + Len(front)
          /\ \A i \in 1..(Len(c) + Len(front)) :
               (c \o front)[i] = IF i <= Len(c) THEN c[i] ELSE front[i - Len(c)]
      BY <2>3, <2>5, ConcatProperties
    <3> QED
      BY <2>3, <3>1, Zenon
  <2>7. \A i \in 1..Len(c \o front) : over[b.readerIndex_ + i] = (c \o front)[i]
    <3> SUFFICES ASSUME NEW i \in 1..(Len(c) + writable)
                 PROVE  over[b.readerIndex_ + i] = (c \o front)[i]
      BY <2>6
    <3> HIDE DEF writable
    <3> DEFINE j == b.readerIndex_ + i
    <3>1. /\ i \in Nat /\ i >= 1 /\ i <= Len(c) + writable /\ j \in 1..Len(b.buffer_)
          /\ b.writerIndex_ = b.readerIndex_ + Len(c)
      BY <1>1, <1>2, <2>5, SMTT(40)
    <3>2. CASE i <= Len(c)
      <4>1. ~ (b.writerIndex_ < j) /\ i \in 1..Len(c)
        BY <1>1, <2>5, <3>1, <3>2
      <4>2. c[i] = b.buffer_[j]
        BY <2>5, <4>1
      <4> HIDE DEF j
      <4>3. over[j] = b.buffer_[j]
        BY <2>2, <3>1, <4>1, Zenon
      <4>4. over[j] = (c \o front)[i]
        BY <2>6, <3>2, <4>2, <4>3, Zenon
      <4> QED
        BY <4>4 DEF j
    <3>3. CASE ~ (i <= Len(c))
      <4>1. /\ b.writerIndex_ < j /\ j <= b.writerIndex_ + Len(data)
            /\ j - b.writerIndex_ = i - Len(c) /\ i - Len(c) \in 1..writable
        <5>1. /\ b.readerIndex_ \in Nat /\ Len(c) \in Nat /\ writable \in Nat /\ Len(data) \in Nat
              /\ writable < Len(data)
          BY <1>1, <1>2, <1>4, <2>5
        <5>2. i > Len(c)
          BY <3>1, <3>3, <5>1
        <5>3. i - Len(c) \in 1..writable
          BY <3>1, <5>1, <5>2
        <5> QED
          BY <3>1, <5>1, <5>2, <5>3, SMTT(40)
      <4> HIDE DEF j
      <4>2. over[j] = data[i - Len(c)]
        BY <2>2, <3>1, <4>1
      <4>3. front[i - Len(c)] = data[i - Len(c)]
        BY <2>3, <4>1
      <4>4. over[j] = (c \o front)[i]
        BY <2>6, <3>3, <4>2, <4>3, Zenon
      <4> QED
        BY <4>4 DEF j
    <3> QED
      BY <3>2, <3>3
  <2>8. Content(full) = c \o front
    <3>1. /\ full.buffer_ = over /\ full.readerIndex_ = b.readerIndex_
          /\ full.writerIndex_ = Len(b.buffer_)
      OBVIOUS
    <3>2. Len(c \o front) = full.writerIndex_ - full.readerIndex_
      BY <1>1, <1>2, <2>5, <2>6, <3>1, SMTT(40)
    <3>3. \A i \in 1..Len(c \o front) : full.buffer_[full.readerIndex_ + i] = (c \o front)[i]
      BY <2>7, <3>1
    <3> HIDE DEF full
    <3> QED
      BY <2>4, <2>6, <3>2, <3>3, ContentIs
  <2>9. full.readerIndex_ = b.readerIndex_ /\ Len(full.buffer_) = Len(b.buffer_)
    BY <2>2
  <2> HIDE DEF full
  <2>10. /\ r \in Bufs(S)
         /\ Content(r) = Joined(Content(full), back)
         /\ r.readerIndex_ \in {full.readerIndex_, kCheapPrepend}
         /\ \/ Len(r.buffer_) = Len(full.buffer_)
            \/ Len(r.buffer_) <= kCheapPrepend + 2 * (Len(Content(full)) + Len(back))
    BY <2>1, <2>3, <2>4, AppendBuf
  <2>11. Content(r) = c \o data
    <3>1. (c \o front) \o back = c \o (front \o back)
      <4>1. c \in Seq(S) /\ front \in Seq(S) /\ back \in Seq(S)
        BY <2>3, <2>5
      <4> QED
        BY <4>1, ConcatAssociative, SMTT(40)
    <3> QED
      BY <2>3, <2>8, <2>10, <3>1, Zenon DEF Joined
  <2>12. Len(Content(full)) + Len(back) = Len(c) + Len(data)
    BY <1>2, <2>3, <2>5, <2>6, <2>8
  <2> QED
    BY <2>9, <2>10, <2>11, <2>12 DEF c, Joined
<1> QED
  BY <1>3, <1>4

(* shrink() copies the content into a new buffer, no larger than it needs. *)
LEMMA ShrinkBuf ==
    ASSUME NEW S, 0 \in S, NEW b \in Bufs(S), NEW reserve \in Nat,
           NEW r, r = shrink(b, reserve)
    PROVE  /\ r \in Bufs(S)
           /\ Content(r) = Content(b)
           /\ r.readerIndex_ = kCheapPrepend
           /\ \/ Len(r.buffer_) = kCheapPrepend + kInitialSize
              \/ Len(r.buffer_) <= kCheapPrepend + 2 * (Len(Content(b)) + reserve)
<1> DEFINE new == NewBuffer(kInitialSize)
           size == Len(Content(b)) + reserve
           room == ensureWritableBytes(new, size)
<1>1. Content(b) \in Seq(S) /\ Len(Content(b)) \in Nat /\ readableBytes(b) = Len(Content(b))
  BY ContentFacts
<1>2. r = append(room, Content(b)) /\ size \in Nat
  BY <1>1 DEF shrink
<1>3. /\ new \in Bufs(S) /\ Content(new) = <<>> /\ new.readerIndex_ = kCheapPrepend
      /\ Len(new.buffer_) = kCheapPrepend + kInitialSize
  BY NewBuf
<1> HIDE DEF new, size
<1>4. /\ room \in Bufs(S) /\ Content(room) = <<>>
      /\ room.writerIndex_ + size <= Len(room.buffer_)
      /\ room.readerIndex_ = kCheapPrepend
      /\ \/ Len(room.buffer_) = kCheapPrepend + kInitialSize
         \/ Len(room.buffer_) <= kCheapPrepend + 2 * size
  <2>1. /\ room \in Bufs(S) /\ Content(room) = Content(new)
        /\ room.writerIndex_ + size <= Len(room.buffer_)
        /\ room.readerIndex_ \in {new.readerIndex_, kCheapPrepend}
        /\ \/ Len(room.buffer_) = Len(new.buffer_)
           \/ Len(room.buffer_) <= kCheapPrepend + 2 * (Len(Content(new)) + size)
    BY <1>2, <1>3, EnsureFacts
  <2>2. Len(Content(new)) + size = size
    BY <1>2, <1>3
  <2> HIDE DEF room
  <2> QED
    BY <1>3, <2>1, <2>2
<1> HIDE DEF room
<1>5. /\ r \in Bufs(S) /\ Content(r) = Joined(<<>>, Content(b))
      /\ r.readerIndex_ \in {room.readerIndex_, kCheapPrepend}
      /\ \/ Len(r.buffer_) = Len(room.buffer_)
         \/ Len(r.buffer_) <= kCheapPrepend + 2 * (0 + Len(Content(b)))
  <2>1. Len(Content(room)) = 0
    BY <1>4
  <2> DEFINE c == Content(b)
  <2>2. room \in Bufs(S) /\ c \in Seq(S) /\ r = append(room, c)
    BY <1>1, <1>2, <1>4
  <2> HIDE DEF c
  <2>3. /\ r \in Bufs(S) /\ Content(r) = Joined(Content(room), c)
        /\ r.readerIndex_ \in {room.readerIndex_, kCheapPrepend}
        /\ \/ Len(r.buffer_) = Len(room.buffer_)
           \/ Len(r.buffer_) <= kCheapPrepend + 2 * (Len(Content(room)) + Len(c))
    BY <2>2, AppendBuf
  <2> QED
    BY <1>4, <2>1, <2>3, Zenon DEF c
<1>6. Content(r) = Content(b)
  <2>1. <<>> \o Content(b) = Content(b)
    BY <1>1, ConcatEmptySeq
  <2> QED
    BY <1>5, <2>1, Zenon DEF Joined
<1>7. 2 * (0 + Len(Content(b))) <= 2 * size /\ kCheapPrepend \in Nat /\ Len(r.buffer_) \in Nat
  BY <1>1, <1>5, BufFacts, BufferAssumption DEF size
<1>8. \/ Len(r.buffer_) = kCheapPrepend + kInitialSize
      \/ Len(r.buffer_) <= kCheapPrepend + 2 * size
  BY <1>1, <1>2, <1>4, <1>5, <1>7
<1> QED
  BY <1>4, <1>5, <1>6, <1>8 DEF size

-----------------------------------------------------------------------------
(* Integers in network byte order.                                         *)

(* The powers of 256 up to the fourth byte.                                *)
LEMMA Powers == 256^0 = 1 /\ 256^1 = 256 /\ 256^2 = 65536 /\ 256^3 = 16777216
  BY SMT

(* Byte i of an integer of width bytes.                                    *)
ByteOf(x, width, i) == (x \div 256^(width - i)) % 256

(* The bytes of an integer of up to four bytes.                            *)
LEMMA NetworkBytes ==
    ASSUME NEW x \in Int, NEW width \in 1..4
    PROVE  /\ HostToNetwork(x, width) \in Seq(0..255)
           /\ Len(HostToNetwork(x, width)) = width
           /\ \A i \in 1..width : HostToNetwork(x, width)[i] = ByteOf(x, width, i)
<1>1. \A i \in 1..width : (x \div 256^(width - i)) % 256 \in 0..255
  <2> SUFFICES ASSUME NEW i \in 1..width PROVE (x \div 256^(width - i)) % 256 \in 0..255
    OBVIOUS
  <2> DEFINE k == width - i
  <2>1. k \in {0, 1, 2, 3}
    OBVIOUS
  <2> HIDE DEF k
  <2>2. 256^k \in {1, 256, 65536, 16777216}
    <3>1. k = 0 => 256^k = 1
      BY Powers, SMT
    <3>2. k = 1 => 256^k = 256
      BY Powers, SMT
    <3>3. k = 2 => 256^k = 65536
      BY Powers, SMT
    <3>4. k = 3 => 256^k = 16777216
      BY Powers, SMT
    <3> QED
      BY <2>1, <3>1, <3>2, <3>3, <3>4, SMT
  <2>3. \A d \in {1, 256, 65536, 16777216} : x \div d \in Int
    BY SMT
  <2>4. \A q \in Int : q % 256 \in 0..255
    BY SMT
  <2>5. (x \div 256^k) % 256 \in 0..255
    BY <2>2, <2>3, <2>4, SMTT(40)
  <2> QED
    BY <2>5, SMT DEF k
<1>2. HostToNetwork(x, width) \in [1..width -> 0..255]
  BY <1>1, SMT DEF HostToNetwork
<1>3. \A i \in 1..width : HostToNetwork(x, width)[i] = ByteOf(x, width, i)
  BY SMT DEF HostToNetwork, ByteOf
<1> HIDE DEF HostToNetwork
<1>4. HostToNetwork(x, width) \in Seq(0..255) /\ Len(HostToNetwork(x, width)) = width
  BY <1>2, SMT
<1> QED
  BY <1>3, <1>4

(* A byte taken as one with a sign.                                        *)
SignedByte(t) == IF t > 127 THEN t - 256 ELSE t

(* What the recursive function in NetworkToHost() computes.                *)
LEMMA HostValue ==
    ASSUME NEW len \in 1..4, NEW bytes \in [1..len -> 0..255]
    PROVE  \E Value :
             /\ NetworkToHost(bytes) = Value[len]
             /\ Value[1] = SignedByte(bytes[1])
             /\ len >= 2 => Value[2] = 256 * Value[1] + bytes[2]
             /\ len >= 3 => Value[3] = 256 * Value[2] + bytes[3]
             /\ len >= 4 => Value[4] = 256 * Value[3] + bytes[4]
<1> DEFINE signed == [bytes EXCEPT ![1] = IF @ > 127 THEN @ - 256 ELSE @]
           Value == CHOOSE f : f = [n \in 0..len |-> IF n = 0 THEN 0 ELSE 256 * f[n - 1] + signed[n]]
<1>1. NetworkToHost(bytes) = Value[len]
  <2>1. Len(bytes) = len
    BY SMT
  <2> QED
    BY <2>1 DEF NetworkToHost
<1>2. /\ signed[1] = SignedByte(bytes[1]) /\ signed[1] \in Int
      /\ \A i \in 2..len : signed[i] = bytes[i]
  <2>1. 1 \in 1..len /\ bytes[1] \in 0..255 /\ \A i \in 2..len : i \in 1..len /\ i # 1
    BY SMT
  <2>2. signed[1] = (IF bytes[1] > 127 THEN bytes[1] - 256 ELSE bytes[1])
    BY <2>1
  <2>3. \A i \in 2..len : signed[i] = bytes[i]
    BY <2>1
  <2> HIDE DEF signed
  <2>4. signed[1] = SignedByte(bytes[1])
    BY <2>2 DEF SignedByte
  <2>5. signed[1] \in Int
    <3>1. \A t \in 0..255 : SignedByte(t) \in Int
      BY SMT DEF SignedByte
    <3> QED
      BY <2>1, <2>4, <3>1
  <2> QED
    BY <2>3, <2>4, <2>5
<1> HIDE DEF signed
<1>3. Value = [n \in 0..len |-> IF n = 0 THEN 0 ELSE 256 * Value[n - 1] + signed[n]]
  <2> DEFINE one == 256 * 0 + signed[1]
             two == 256 * one + signed[2]
             three == 256 * two + signed[3]
             four == 256 * three + signed[4]
             Item(n) == IF n = 0 THEN 0 ELSE IF n = 1 THEN one ELSE IF n = 2 THEN two
                          ELSE IF n = 3 THEN three ELSE four
             f == [n \in 0..len |-> Item(n)]
  <2> HIDE DEF one, two, three, four
  <2>1. \A n \in 0..len : n # 0 => /\ n - 1 \in 0..len /\ n \in {1, 2, 3, 4}
                                   /\ n - 1 = 0 <=> n = 1
                                   /\ n - 1 = 1 <=> n = 2
                                   /\ n - 1 = 2 <=> n = 3
    BY SMT
  <2>2. \A n \in 0..len : f[n] = Item(n)
    BY Zenon
  <2>3. f = [n \in 0..len |-> f[n]]
    BY Zenon
  <2> HIDE DEF f
  <2>4. \A n \in 0..len : f[n] = IF n = 0 THEN 0 ELSE 256 * f[n - 1] + signed[n]
    <3> SUFFICES ASSUME NEW n \in 0..len, n # 0 PROVE f[n] = 256 * f[n - 1] + signed[n]
      BY <2>2
    <3>1. f[n] = Item(n) /\ f[n - 1] = Item(n - 1)
      BY <2>1, <2>2
    <3>2. CASE n = 1
      BY <3>1, <3>2, SMT DEF one
    <3>3. CASE n = 2
      BY <3>1, <3>3, SMT DEF two
    <3>4. CASE n = 3
      BY <3>1, <3>4, SMT DEF three
    <3>5. CASE n = 4
      BY <3>1, <3>5, SMT DEF four
    <3> QED
      BY <2>1, <3>2, <3>3, <3>4, <3>5
  <2>5. f = [n \in 0..len |-> IF n = 0 THEN 0 ELSE 256 * f[n - 1] + signed[n]]
    BY <2>3, <2>4
  <2>6. \E g : g = [n \in 0..len |-> IF n = 0 THEN 0 ELSE 256 * g[n - 1] + signed[n]]
    BY <2>5
  <2> QED
    BY <2>6
<1> HIDE DEF Value
<1>4. \A n \in 0..len : Value[n] = IF n = 0 THEN 0 ELSE 256 * Value[n - 1] + signed[n]
  BY <1>3
<1>5. ASSUME NEW n \in 1..len PROVE Value[n] = 256 * Value[n - 1] + signed[n]
  BY <1>4, SMT
<1>6. Value[0] = 0 /\ Value[1] = SignedByte(bytes[1])
  <2>1. Value[0] = 0
    BY <1>4, SMT
  <2>2. Value[1] = 256 * Value[1 - 1] + signed[1]
    BY <1>5, SMT
  <2> QED
    BY <1>2, <2>1, <2>2, SMT
<1>7. len >= 2 => Value[2] = 256 * Value[1] + bytes[2]
  <2>1. len >= 2 => Value[2] = 256 * Value[2 - 1] + signed[2] /\ 2 - 1 = 1
    BY <1>5, SMT
  <2> QED
    BY <1>2, <2>1, SMT
<1>8. len >= 3 => Value[3] = 256 * Value[2] + bytes[3]
  <2>1. len >= 3 => Value[3] = 256 * Value[3 - 1] + signed[3] /\ 3 - 1 = 2
    BY <1>5, SMT
  <2> QED
    BY <1>2, <2>1, SMT
<1>9. len >= 4 => Value[4] = 256 * Value[3] + bytes[4]
  <2>1. len >= 4 => Value[4] = 256 * Value[4 - 1] + signed[4] /\ 4 - 1 = 3
    BY <1>5, SMT
  <2> QED
    BY <1>2, <2>1, SMT
<1> QED
  BY <1>1, <1>6, <1>7, <1>8, <1>9

(* The last byte of a number, and what is before it.                       *)
LEMMA LastByte ==
    ASSUME NEW x \in Int
    PROVE  x = 256 * (x \div 256) + (x % 256) /\ x % 256 \in 0..255 /\ x \div 256 \in Int
  BY SMT

(* What is before the last byte is in a smaller range.                     *)
LEMMA Shifted ==
    ASSUME NEW x \in Int, NEW h \in Nat, -(256 * h) <= x, x < 256 * h, NEW y, y = x \div 256
    PROVE  y \in Int /\ -h <= y /\ y < h
<1>1. x = 256 * y + (x % 256) /\ x % 256 \in 0..255 /\ y \in Int
  BY LastByte
<1> DEFINE m == x % 256
<1>2. x = 256 * y + m /\ m \in 0..255
  BY <1>1
<1> HIDE DEF m
<1> QED
  BY <1>1, <1>2, SMT

(* The first byte has the sign.                                            *)
LEMMA TopByte ==
    ASSUME NEW w \in Int, -128 <= w, w < 128
    PROVE  SignedByte(w % 256) = w
<1>1. w % 256 = IF w < 0 THEN w + 256 ELSE w
  BY SMT
<1> QED
  BY <1>1, SMT DEF SignedByte

(* Every integer is read back from its bytes.                              *)
THEOREM IntsRoundTrip ==
    /\ \A x \in Int : -128 <= x /\ x < 128 => NetworkToHost(HostToNetwork(x, 1)) = x
    /\ \A x \in Int : -32768 <= x /\ x < 32768 => NetworkToHost(HostToNetwork(x, 2)) = x
    /\ \A x \in Int : -2147483648 <= x /\ x < 2147483648 => NetworkToHost(HostToNetwork(x, 4)) = x
<1>1. ASSUME NEW x \in Int, NEW width \in 1..4
      PROVE  /\ HostToNetwork(x, width) \in [1..width -> 0..255]
             /\ \A i \in 1..width : HostToNetwork(x, width)[i] = ByteOf(x, width, i)
  <2> DEFINE bytes == HostToNetwork(x, width)
  <2>1. /\ bytes \in Seq(0..255) /\ Len(bytes) = width
        /\ \A i \in 1..width : bytes[i] = ByteOf(x, width, i)
    BY NetworkBytes
  <2> HIDE DEF bytes
  <2>2. bytes \in [1..width -> 0..255]
    BY <2>1, LenProperties
  <2> QED
    BY <2>1, <2>2 DEF bytes
<1>2. ASSUME NEW x \in Int, -128 <= x, x < 128 PROVE NetworkToHost(HostToNetwork(x, 1)) = x
  <2> DEFINE bytes == HostToNetwork(x, 1)
  <2>1. bytes \in [1..1 -> 0..255] /\ bytes[1] = (x \div 256^(1 - 1)) % 256
    <3>1. 1 \in 1..4 /\ \A i \in 1..1 : i \in 1..1
      BY SMT
    <3>2. /\ bytes \in [1..1 -> 0..255]
          /\ \A i \in 1..1 : bytes[i] = ByteOf(x, 1, i)
      BY <1>1, <3>1
    <3> HIDE DEF bytes
    <3> QED
      BY <3>2, SMT DEF ByteOf
  <2> HIDE DEF bytes
  <2>2. bytes[1] = x % 256
    BY <2>1, Powers, SMT
  <2>3. PICK Value : NetworkToHost(bytes) = Value[1] /\ Value[1] = SignedByte(bytes[1])
    BY <2>1, HostValue, SMT
  <2>4. NetworkToHost(bytes) = x
    BY <1>2, <2>2, <2>3, TopByte, SMT
  <2> QED
    BY <2>4 DEF bytes
<1>3. ASSUME NEW x \in Int, -32768 <= x, x < 32768 PROVE NetworkToHost(HostToNetwork(x, 2)) = x
  <2> DEFINE bytes == HostToNetwork(x, 2)
             y == x \div 256
  <2>1. /\ bytes \in [1..2 -> 0..255]
        /\ bytes[1] = (x \div 256^(2 - 1)) % 256 /\ bytes[2] = (x \div 256^(2 - 2)) % 256
    <3>1. 2 \in 1..4 /\ \A i \in 1..2 : i \in 1..2
      BY SMT
    <3>2. /\ bytes \in [1..2 -> 0..255]
          /\ \A i \in 1..2 : bytes[i] = ByteOf(x, 2, i)
      BY <1>1, <3>1
    <3> HIDE DEF bytes
    <3> QED
      BY <3>2, SMT DEF ByteOf
  <2> HIDE DEF bytes
  <2>2. bytes[1] = y % 256 /\ bytes[2] = x % 256
    BY <2>1, Powers, SMT
  <2>3. x = 256 * y + (x % 256) /\ x % 256 \in 0..255
    BY LastByte, SMT
  <2>4. y \in Int /\ -128 <= y /\ y < 128
    BY <1>3, Shifted, SMT
  <2> HIDE DEF y
  <2>5. PICK Value : /\ NetworkToHost(bytes) = Value[2] /\ Value[1] = SignedByte(bytes[1])
                     /\ Value[2] = 256 * Value[1] + bytes[2]
    BY <2>1, HostValue, SMT
  <2>6. Value[1] = y
    BY <2>2, <2>4, <2>5, TopByte, SMT
  <2>7. NetworkToHost(bytes) = x
    BY <2>2, <2>3, <2>4, <2>5, <2>6, SMT
  <2> QED
    BY <2>7 DEF bytes
<1>4. ASSUME NEW x \in Int, -2147483648 <= x, x < 2147483648 PROVE NetworkToHost(HostToNetwork(x, 4)) = x
  <2> DEFINE bytes == HostToNetwork(x, 4)
             y == x \div 256
             z == y \div 256
             w == z \div 256
  <2>1. /\ bytes \in [1..4 -> 0..255]
        /\ bytes[1] = (x \div 256^(4 - 1)) % 256 /\ bytes[2] = (x \div 256^(4 - 2)) % 256
        /\ bytes[3] = (x \div 256^(4 - 3)) % 256 /\ bytes[4] = (x \div 256^(4 - 4)) % 256
    <3>1. 4 \in 1..4 /\ \A i \in 1..4 : i \in 1..4
      BY SMT
    <3>2. /\ bytes \in [1..4 -> 0..255]
          /\ \A i \in 1..4 : bytes[i] = ByteOf(x, 4, i)
      BY <1>1, <3>1
    <3> HIDE DEF bytes
    <3> QED
      BY <3>2, SMT DEF ByteOf
  <2> HIDE DEF bytes
  <2>2. x \div 65536 = z
    BY SMT
  <2>3. x \div 16777216 = w
    BY SMT
  <2>4. bytes[1] = (x \div 16777216) % 256 /\ bytes[2] = (x \div 65536) % 256
    BY <2>1, Powers, SMT
  <2>5. bytes[3] = y % 256 /\ bytes[4] = x % 256
    BY <2>1, Powers, SMT
  <2>6. x = 256 * y + (x % 256) /\ x % 256 \in 0..255
    BY LastByte, SMT
  <2>7. y \in Int /\ -8388608 <= y /\ y < 8388608
    BY <1>4, Shifted, SMT
  <2>8. bytes[1] = w % 256 /\ bytes[2] = z % 256
    BY <2>2, <2>3, <2>4, SMT
  <2> HIDE DEF y
  <2>9. y = 256 * z + (y % 256) /\ y % 256 \in 0..255
    BY <2>7, LastByte, SMT
  <2>10. z \in Int /\ -32768 <= z /\ z < 32768
    BY <2>7, Shifted, SMT
  <2> HIDE DEF z
  <2>11. z = 256 * w + (z % 256) /\ z % 256 \in 0..255
    BY <2>10, LastByte, SMT
  <2>12. w \in Int /\ -128 <= w /\ w < 128
    BY <2>10, Shifted, SMT
  <2> HIDE DEF w
  <2>13. PICK Value : /\ NetworkToHost(bytes) = Value[4] /\ Value[1] = SignedByte(bytes[1])
                      /\ Value[2] = 256 * Value[1] + bytes[2]
                      /\ Value[3] = 256 * Value[2] + bytes[3]
                      /\ Value[4] = 256 * Value[3] + bytes[4]
    BY <2>1, HostValue, SMT
  <2>14. Value[1] = w
    BY <2>8, <2>12, <2>13, TopByte, SMT
  <2>15. Value[2] = z
    BY <2>8, <2>10, <2>11, <2>12, <2>13, <2>14, SMT
  <2>16. Value[3] = y
    BY <2>5, <2>7, <2>9, <2>10, <2>13, <2>15, SMT
  <2>17. NetworkToHost(bytes) = x
    BY <2>5, <2>6, <2>7, <2>13, <2>16, SMT
  <2> QED
    BY <2>17 DEF bytes
<1> QED
  BY <1>2, <1>3, <1>4, SMT

-----------------------------------------------------------------------------
(* The buffer in use.                                                      *)

(* What a byte of the vector may be; resize() fills with zeros.            *)
Cells == Bytes \cup {0}

(* The inductive invariant: a buffer with its indices in order, its        *)
(* content, the room in front and the size.                                *)
BufferInv ==
  /\ buf \in Bufs(Cells)
  /\ peak \in Nat /\ peak >= kInitialSize
  /\ pushed \in Nat
  /\ ContentKept
  /\ RoomInFront
  /\ SizeBounded

(* A new buffer.                                                           *)
LEMMA BufferInitInv == Init => BufferInv
<1> SUFFICES ASSUME Init PROVE BufferInv
  OBVIOUS
<1> DEFINE new == NewBuffer(kInitialSize)
<1>1. buf = new /\ held = <<>> /\ peak = kInitialSize /\ pushed = 0
  BY DEF Init, Queue!Init
<1>2. 0 \in Cells
  BY DEF Cells
<1>3. /\ new \in Bufs(Cells) /\ Content(new) = <<>> /\ new.readerIndex_ = kCheapPrepend
      /\ Len(new.buffer_) = kCheapPrepend + kInitialSize
  BY <1>2, NewBuf
<1> HIDE DEF new
<1> QED
  BY <1>1, <1>3, BufferAssumption
  DEF BufferInv, ContentKept, RoomInFront, SizeBounded, prependableBytes

(* What a step may do to the buffer: it is enough to know the content, how *)
(* far the first index has moved, and the size.                            *)
LEMMA BufferStep ==
    ASSUME BufferInv, buf' \in Bufs(Cells), Content(buf') = held',
           peak' \in Nat, peak' >= peak, pushed' \in Nat,
           \/ buf'.readerIndex_ = kCheapPrepend
           \/ buf'.readerIndex_ + pushed' >= buf.readerIndex_ + pushed,
           \/ Len(buf'.buffer_) = Len(buf.buffer_)
           \/ Len(buf'.buffer_) <= kCheapPrepend + 2 * peak'
    PROVE  BufferInv'
<1>1. /\ buf.readerIndex_ \in Nat /\ buf'.readerIndex_ \in Nat
      /\ Len(buf.buffer_) \in Nat /\ Len(buf'.buffer_) \in Nat
  BY BufFacts DEF BufferInv
<1>2. peak \in Nat /\ peak >= kInitialSize /\ pushed \in Nat /\ kCheapPrepend \in Nat /\ kInitialSize \in Nat
  BY BufferAssumption DEF BufferInv
<1>3. RoomInFront'
  BY <1>1, <1>2 DEF BufferInv, RoomInFront, prependableBytes
<1>4. SizeBounded'
  BY <1>1, <1>2 DEF BufferInv, SizeBounded
<1>5. peak' >= kInitialSize
  BY <1>2
<1> QED
  BY <1>3, <1>4, <1>5 DEF BufferInv, ContentKept

(* What is put in is bytes.                                                *)
LEMMA DataFacts == ASSUME NEW data \in Data PROVE data \in Seq(Cells) /\ Len(data) \in Nat
<1>1. PICK n \in 1..MaxReadable : data \in [1..n -> Bytes]
  BY DEF Data
<1>2. n \in Nat
  BY ReadableAssumption
<1>3. data \in [1..n -> Cells]
  BY <1>1 DEF Cells
<1> QED
  BY <1>2, <1>3

(* The larger of two numbers.                                              *)
LEMMA LargerFacts ==
    ASSUME NEW m \in Int, NEW n \in Int
    PROVE  Larger(m, n) \in {m, n} /\ Larger(m, n) >= m /\ Larger(m, n) >= n
  BY DEF Larger

(* No operation breaks the invariant.                                      *)
LEMMA BufferNextInv == BufferInv /\ [Next]_vars => BufferInv'
<1> SUFFICES ASSUME BufferInv, [Next]_vars PROVE BufferInv'
  OBVIOUS
<1>1. /\ buf \in Bufs(Cells) /\ peak \in Nat /\ pushed \in Nat /\ Content(buf) = held /\ 0 \in Cells
      /\ kCheapPrepend \in Nat
  BY BufferAssumption DEF BufferInv, ContentKept, Cells
<1>2. /\ buf.readerIndex_ \in Nat /\ held \in Seq(Cells) /\ Len(held) \in Nat
      /\ readableBytes(buf) = Len(held) /\ prependableBytes(buf) = buf.readerIndex_
  BY <1>1, BufFacts, ContentFacts DEF prependableBytes
<1>3. ASSUME NEW data \in Data, AppendData(data) PROVE BufferInv'
  <2>1. /\ buf' = append(buf, data) /\ peak' = Larger(peak, Len(held) + Len(data))
        /\ held' = Joined(held, data) /\ pushed' = pushed
    BY <1>2, <1>3 DEF AppendData, Becomes, Queue!PutBack, Joined
  <2>2. data \in Seq(Cells) /\ Len(data) \in Nat
    BY DataFacts
  <2>3. /\ buf' \in Bufs(Cells) /\ Content(buf') = Joined(held, data)
        /\ buf'.readerIndex_ \in {buf.readerIndex_, kCheapPrepend}
        /\ \/ Len(buf'.buffer_) = Len(buf.buffer_)
           \/ Len(buf'.buffer_) <= kCheapPrepend + 2 * (Len(held) + Len(data))
    BY <1>1, <2>1, <2>2, AppendBuf
  <2>4. peak' \in Nat /\ peak' >= peak /\ peak' >= Len(held) + Len(data)
    BY <1>1, <1>2, <2>1, <2>2, LargerFacts
  <2>5. Len(buf'.buffer_) = Len(buf.buffer_) \/ Len(buf'.buffer_) <= kCheapPrepend + 2 * peak'
    <3>1. Len(buf'.buffer_) \in Nat
      BY <2>3, BufFacts
    <3> QED
      BY <1>1, <1>2, <2>2, <2>3, <2>4, <3>1
  <2> QED
    BY <1>1, <1>2, <2>1, <2>3, <2>4, <2>5, BufferStep
<1>4. ASSUME NEW data \in Data, PrependData(data) PROVE BufferInv'
  <2>1. /\ buf' = prepend(buf, data) /\ peak' = peak /\ Len(data) <= buf.readerIndex_
        /\ held' = Joined(data, held) /\ pushed' = pushed + Len(data)
    BY <1>2, <1>4 DEF PrependData, Queue!PutFront, Joined
  <2>2. data \in Seq(Cells) /\ Len(data) \in Nat
    BY DataFacts
  <2>3. /\ buf' \in Bufs(Cells) /\ Content(buf') = Joined(data, held)
        /\ buf'.readerIndex_ = buf.readerIndex_ - Len(data)
        /\ Len(buf'.buffer_) = Len(buf.buffer_)
    BY <1>1, <2>1, <2>2, PrependBuf
  <2>4. pushed' \in Nat /\ buf'.readerIndex_ + pushed' >= buf.readerIndex_ + pushed /\ peak >= peak
    BY <1>1, <1>2, <2>1, <2>2, <2>3
  <2> QED
    BY <1>1, <2>1, <2>3, <2>4, BufferStep
<1>5. ASSUME NEW data \in Data, ReadFd(data) PROVE BufferInv'
  <2>1. /\ buf' = readFd(buf, data) /\ peak' = Larger(peak, Len(held) + Len(data))
        /\ held' = Joined(held, data) /\ pushed' = pushed
    BY <1>2, <1>5 DEF ReadFd, Becomes, Queue!PutBack, Joined
  <2>2. data \in Seq(Cells) /\ Len(data) \in Nat
    BY DataFacts
  <2>3. /\ buf' \in Bufs(Cells) /\ Content(buf') = Joined(held, data)
        /\ buf'.readerIndex_ \in {buf.readerIndex_, kCheapPrepend}
        /\ \/ Len(buf'.buffer_) = Len(buf.buffer_)
           \/ Len(buf'.buffer_) <= kCheapPrepend + 2 * (Len(held) + Len(data))
    BY <1>1, <2>1, <2>2, ReadFdBuf
  <2>4. peak' \in Nat /\ peak' >= peak /\ peak' >= Len(held) + Len(data)
    BY <1>1, <1>2, <2>1, <2>2, LargerFacts
  <2>5. Len(buf'.buffer_) = Len(buf.buffer_) \/ Len(buf'.buffer_) <= kCheapPrepend + 2 * peak'
    <3>1. Len(buf'.buffer_) \in Nat
      BY <2>3, BufFacts
    <3> QED
      BY <1>1, <1>2, <2>2, <2>3, <2>4, <3>1
  <2> QED
    BY <1>1, <1>2, <2>1, <2>3, <2>4, <2>5, BufferStep
<1>6. ASSUME NEW len \in 1..MaxReadable, Retrieve(len) PROVE BufferInv'
  <2>1. /\ buf' = retrieve(buf, len) /\ peak' = peak /\ len <= readableBytes(buf)
        /\ held' = SubSeq(held, len + 1, Len(held))
        /\ pushed' = IF len = Len(held) THEN 0 ELSE Larger(pushed - len, 0)
    BY <1>2, <1>6 DEF Retrieve, Queue!TakeFront
  <2>2. len \in Nat
    BY ReadableAssumption
  <2>3. /\ buf' \in Bufs(Cells) /\ Content(buf') = SubSeq(held, len + 1, Len(held))
        /\ buf'.readerIndex_ = IF len < Len(held) THEN buf.readerIndex_ + len ELSE kCheapPrepend
        /\ Len(buf'.buffer_) = Len(buf.buffer_)
    BY <1>1, <1>2, <2>1, <2>2, RetrieveBuf
  <2>4. Larger(pushed - len, 0) \in Nat /\ Larger(pushed - len, 0) >= pushed - len
    BY <1>1, <2>2 DEF Larger
  <2>5. /\ pushed' \in Nat /\ peak >= peak
        /\ \/ buf'.readerIndex_ = kCheapPrepend
           \/ buf'.readerIndex_ + pushed' >= buf.readerIndex_ + pushed
    BY <1>1, <1>2, <2>1, <2>2, <2>3, <2>4
  <2> QED
    BY <1>1, <2>1, <2>3, <2>5, BufferStep
<1>7. ASSUME NEW len \in 1..MaxReadable, Unwrite(len) PROVE BufferInv'
  <2>1. /\ buf' = unwrite(buf, len) /\ peak' = Larger(peak, 0) /\ len <= readableBytes(buf)
        /\ held' = SubSeq(held, 1, Len(held) - len) /\ pushed' = pushed
    BY <1>7 DEF Unwrite, Becomes, Queue!DropBack
  <2>2. len \in Nat
    BY ReadableAssumption
  <2>3. /\ buf' \in Bufs(Cells) /\ Content(buf') = SubSeq(held, 1, Len(held) - len)
        /\ buf'.readerIndex_ = buf.readerIndex_
        /\ Len(buf'.buffer_) = Len(buf.buffer_)
    BY <1>1, <2>1, <2>2, UnwriteBuf
  <2>4. peak' \in Nat /\ peak' >= peak /\ buf'.readerIndex_ + pushed' >= buf.readerIndex_ + pushed
    BY <1>1, <1>2, <2>1, <2>3, LargerFacts
  <2> QED
    BY <1>1, <2>1, <2>3, <2>4, BufferStep
<1>8. ASSUME NEW len \in 1..MaxReadable, EnsureWritableBytes(len) PROVE BufferInv'
  <2>1. /\ buf' = ensureWritableBytes(buf, len) /\ peak' = Larger(peak, Len(held) + len)
        /\ held' = held /\ pushed' = pushed
    BY <1>2, <1>8 DEF EnsureWritableBytes, Becomes, Queue!Same
  <2>2. len \in Nat
    BY ReadableAssumption
  <2>3. /\ buf' \in Bufs(Cells) /\ Content(buf') = held
        /\ buf'.readerIndex_ \in {buf.readerIndex_, kCheapPrepend}
        /\ \/ Len(buf'.buffer_) = Len(buf.buffer_)
           \/ Len(buf'.buffer_) <= kCheapPrepend + 2 * (Len(held) + len)
    BY <1>1, <2>1, <2>2, EnsureFacts
  <2>4. peak' \in Nat /\ peak' >= peak /\ peak' >= Len(held) + len
    BY <1>1, <1>2, <2>1, <2>2, LargerFacts
  <2>5. Len(buf'.buffer_) = Len(buf.buffer_) \/ Len(buf'.buffer_) <= kCheapPrepend + 2 * peak'
    <3>1. Len(buf'.buffer_) \in Nat
      BY <2>3, BufFacts
    <3> QED
      BY <1>1, <1>2, <2>2, <2>3, <2>4, <3>1
  <2> QED
    BY <1>1, <1>2, <2>1, <2>3, <2>4, <2>5, BufferStep
<1>9. ASSUME NEW reserve \in 0..MaxReadable, Shrink(reserve) PROVE BufferInv'
  <2>1. /\ buf' = shrink(buf, reserve) /\ peak' = Larger(peak, Len(held) + reserve)
        /\ held' = held /\ pushed' = 0
    BY <1>2, <1>9 DEF Shrink, Becomes, Queue!Same
  <2>2. reserve \in Nat
    BY ReadableAssumption
  <2>3. /\ buf' \in Bufs(Cells) /\ Content(buf') = held
        /\ buf'.readerIndex_ = kCheapPrepend
        /\ \/ Len(buf'.buffer_) = kCheapPrepend + kInitialSize
           \/ Len(buf'.buffer_) <= kCheapPrepend + 2 * (Len(held) + reserve)
    BY <1>1, <2>1, <2>2, ShrinkBuf
  <2>4. peak' \in Nat /\ peak' >= peak /\ peak' >= Len(held) + reserve
    BY <1>1, <1>2, <2>1, <2>2, LargerFacts
  <2>5. Len(buf'.buffer_) <= kCheapPrepend + 2 * peak'
    <3>1. Len(buf'.buffer_) \in Nat /\ kInitialSize \in Nat /\ peak >= kInitialSize
      BY <2>3, BufFacts, BufferAssumption DEF BufferInv
    <3> QED
      BY <1>1, <1>2, <2>2, <2>3, <2>4, <3>1, SMTT(40)
  <2> QED
    BY <1>1, <2>1, <2>3, <2>4, <2>5, BufferStep
<1>10. CASE RetrieveAll
  <2>1. /\ buf' = retrieveAll(buf) /\ peak' = Larger(peak, 0) /\ pushed' = 0
        /\ held' = SubSeq(held, Len(held) + 1, Len(held))
    BY <1>2, <1>10 DEF RetrieveAll, Becomes, Queue!TakeFront
  <2>2. held' = <<>>
    BY <1>2, <2>1, SubSeqEmpty
  <2>3. /\ buf' \in Bufs(Cells) /\ Content(buf') = <<>>
        /\ buf'.readerIndex_ = kCheapPrepend
        /\ Len(buf'.buffer_) = Len(buf.buffer_)
    BY <1>1, <2>1, RetrieveAllBuf
  <2>4. peak' \in Nat /\ peak' >= peak
    BY <1>1, <2>1, LargerFacts
  <2> QED
    BY <2>1, <2>2, <2>3, <2>4, BufferStep
<1>11. CASE UNCHANGED vars
  BY <1>11 DEF vars, BufferInv, ContentKept, RoomInFront, SizeBounded, prependableBytes
<1> QED
  BY <1>3, <1>4, <1>5, <1>6, <1>7, <1>8, <1>9, <1>10, <1>11 DEF Next

(* Integers are read back wherever they are written into a buffer.         *)
LEMMA BufferInts == BufferInv => IntsReadBack
<1> SUFFICES ASSUME BufferInv, NEW width \in {1, 2, 4}, NEW x \in Edges(width)
             PROVE  /\ held = <<>> => peekInt(appendInt(buf, x, width), width) = x
                    /\ prependableBytes(buf) >= width =>
                         peekInt(prependInt(buf, x, width), width) = x
  BY Zenon DEF IntsReadBack
<1> DEFINE T == Cells \cup 0..255
           data == HostToNetwork(x, width)
<1>1. x \in Int /\ width \in 1..4
  BY SMT DEF Edges
<1>2. NetworkToHost(data) = x
  <2>1. width = 1 => -128 <= x /\ x < 128
    BY SMT DEF Edges
  <2>2. width = 2 => -32768 <= x /\ x < 32768
    BY SMT DEF Edges
  <2>3. width = 4 => -2147483648 <= x /\ x < 2147483648
    BY SMT DEF Edges
  <2> HIDE DEF data
  <2> QED
    BY <1>1, <2>1, <2>2, <2>3, IntsRoundTrip, SMT DEF data
<1>3. data \in Seq(T) /\ Len(data) = width
  <2>1. data \in Seq(0..255) /\ Len(data) = width
    BY <1>1, NetworkBytes
  <2> QED
    BY <2>1, SeqMonotonic
<1>4. buf \in Bufs(T) /\ 0 \in T /\ Content(buf) = held
  BY BufsMonotonic DEF BufferInv, Cells, ContentKept
<1>5. held \in Seq(T)
  BY <1>4, ContentFacts
<1> HIDE DEF T, data
<1>6. ASSUME held = <<>> PROVE peekInt(appendInt(buf, x, width), width) = x
  <2>1. Content(append(buf, data)) = Joined(held, data)
    BY <1>3, <1>4, AppendBuf
  <2>2. Joined(held, data) = data
    BY <1>3, <1>6, ConcatEmptySeq DEF Joined
  <2>3. SubSeq(data, 1, width) = data
    BY <1>3, SubSeqFull
  <2>4. peekInt(appendInt(buf, x, width), width) = NetworkToHost(SubSeq(Content(append(buf, data)), 1, width))
    BY DEF peekInt, appendInt, data
  <2> QED
    BY <1>2, <2>1, <2>2, <2>3, <2>4
<1>7. ASSUME prependableBytes(buf) >= width PROVE peekInt(prependInt(buf, x, width), width) = x
  <2>1. Len(data) <= buf.readerIndex_
    BY <1>1, <1>3, <1>4, <1>7, BufFacts DEF prependableBytes
  <2>2. Content(prepend(buf, data)) = Joined(data, held)
    BY <1>3, <1>4, <2>1, PrependBuf
  <2>3. SubSeq(Joined(data, held), 1, width) = SubSeq(data, 1, width)
    <3>1. 1 \in 1..Len(data) /\ width \in 1..Len(data)
      BY <1>1, <1>3
    <3> QED
      BY <1>3, <1>5, <3>1, SubSeqOfConcat1 DEF Joined
  <2>4. SubSeq(data, 1, width) = data
    BY <1>3, SubSeqFull
  <2>5. peekInt(prependInt(buf, x, width), width) = NetworkToHost(SubSeq(Content(prepend(buf, data)), 1, width))
    BY DEF peekInt, prependInt, data
  <2> QED
    BY <1>2, <2>2, <2>3, <2>4, <2>5
<1> QED
  BY <1>6, <1>7

(* Whatever its owner does to a buffer, within the preconditions: it holds *)
(* the bytes put in and not yet taken, in their order; only what has been  *)
(* prepended is missing from the room in front; the vector stays below     *)
(* twice what it held at its fullest; and integers are read back.          *)
THEOREM BufferSafe == StreamsSpec => []BufferServes
<1>1. StreamsInit => BufferInv
  BY BufferInitInv DEF StreamsInit
<1>2. BufferInv /\ [StreamsNext]_<<vars, codecVars, rpcVars, httpVars, part>> => BufferInv'
  <2> SUFFICES ASSUME BufferInv, [StreamsNext]_<<vars, codecVars, rpcVars, httpVars, part>>
               PROVE  BufferInv'
    OBVIOUS
  <2>1. [Next]_vars
    BY DEF StreamsNext
  <2> QED
    BY <2>1, BufferNextInv
<1>3. BufferInv => BufferServes
  BY BufferInts DEF BufferInv, BufferServes
<1> QED
  BY <1>1, <1>2, <1>3, PTL DEF StreamsSpec

-----------------------------------------------------------------------------
(* ProtobufCodecLite: frames are found in the stream however it is cut.    *)

(* What holds at 0 and from each number to the next holds everywhere.      *)
LEMMA Induction ==
    ASSUME NEW T, 0 \in T, \A n \in Nat : n \in T => n + 1 \in T PROVE Nat \subseteq T
<1> SUFFICES ASSUME Nat \ T # {} PROVE FALSE
  OBVIOUS
<1> DEFINE R == OpToRel(<, Nat)
           U == Nat \ T
<1>1. IsWellFoundedOn(R, Nat)
  BY NatLessThanWellFounded
<1>2. PICK x \in U : \A y \in U : ~ (<<y, x>> \in R)
  <2>1. U \subseteq Nat /\ U # {}
    OBVIOUS
  <2> HIDE DEF R, U
  <2> QED
    BY <1>1, <2>1, WFMin
<1>3. x \in Nat /\ x \notin T /\ \A y \in Nat : y < x => y \in T
  BY <1>2 DEF OpToRel
<1>4. x # 0 /\ x - 1 \in Nat /\ x - 1 \in T /\ (x - 1) + 1 = x
  BY <1>3
<1> QED
  BY <1>3, <1>4

(* The elements of b come behind those of a.                               *)
LEMMA ConcatFacts ==
    ASSUME NEW S, NEW a \in Seq(S), NEW b \in Seq(S)
    PROVE  /\ a \o b \in Seq(S) /\ Len(a \o b) = Len(a) + Len(b)
           /\ Len(a) \in Nat /\ Len(b) \in Nat
           /\ \A p \in 1 .. Len(a) : (a \o b)[p] = a[p]
           /\ \A p \in 1 .. Len(b) : (a \o b)[Len(a) + p] = b[p]
  OBVIOUS

(* Sums of the first parts of s.                                           *)
IsSum(f, s, n, S) ==
    /\ f \in [0 .. n -> Seq(S)]
    /\ f[0] = <<>>
    /\ \A i \in 1 .. n : f[i] = f[i - 1] \o s[i]

(* What is joined so far can be told part by part.                         *)
LEMMA SumExists ==
    ASSUME NEW S, NEW n \in Nat, NEW s \in [1 .. n -> Seq(S)] PROVE \E f : IsSum(f, s, n, S)
<1> DEFINE T == {m \in Nat : m <= n => \E f : IsSum(f, s, m, S)}
<1>1. 0 \in T
  <2>1. IsSum([i \in 0 .. 0 |-> <<>>], s, 0, S)
    BY DEF IsSum
  <2> QED
    BY <2>1
<1>2. ASSUME NEW m \in Nat, m \in T PROVE m + 1 \in T
  <2> SUFFICES ASSUME m + 1 <= n PROVE \E f : IsSum(f, s, m + 1, S)
    OBVIOUS
  <2>1. PICK f : IsSum(f, s, m, S)
    BY <1>2
  <2> DEFINE g == [i \in 0 .. m + 1 |-> IF i = m + 1 THEN f[m] \o s[m + 1] ELSE f[i]]
  <2>2. f[m] \in Seq(S) /\ s[m + 1] \in Seq(S)
    BY <2>1 DEF IsSum
  <2>3. f[m] \o s[m + 1] \in Seq(S)
    BY <2>2
  <2>4. g \in [0 .. m + 1 -> Seq(S)]
    BY <2>1, <2>3 DEF IsSum
  <2>5. g[0] = <<>>
    BY <2>1, SMTT(40) DEF IsSum
  <2>6. ASSUME NEW i \in 1 .. m + 1 PROVE g[i] = g[i - 1] \o s[i]
    <3>1. CASE i = m + 1
      <4>1. i - 1 = m /\ i - 1 # m + 1 /\ i - 1 \in 0 .. m + 1
        BY <3>1
      <4>2. g[i - 1] = f[m]
        BY <4>1
      <4>3. m + 1 \in 0 .. m + 1
        OBVIOUS
      <4>4. g[m + 1] = f[m] \o s[m + 1]
        BY <4>3
      <4> QED
        BY <3>1, <4>2, <4>4
    <3>2. CASE i # m + 1
      <4>1. i \in 1 .. m /\ i - 1 \in 0 .. m + 1 /\ i - 1 # m + 1 /\ i \in 0 .. m + 1
        BY <3>2
      <4>2. f[i] = f[i - 1] \o s[i]
        BY <2>1, <4>1 DEF IsSum
      <4>3. g[i] = f[i] /\ g[i - 1] = f[i - 1]
        BY <3>2, <4>1
      <4> QED
        BY <4>2, <4>3
    <3> QED
      BY <3>1, <3>2
  <2> QED
    BY <2>4, <2>5, <2>6 DEF IsSum
<1> HIDE DEF T
<1>3. Nat \subseteq T
  BY <1>1, <1>2, Induction
<1> QED
  BY <1>3 DEF T

(* FlattenSeq() puts the parts of s one behind the other.                  *)
LEMMA Flattened ==
    ASSUME NEW S, NEW n \in Nat, NEW s \in [1 .. n -> Seq(S)], NEW f, IsSum(f, s, n, S)
    PROVE  Codec!FlattenSeq(s) = f[n]
<1>1. Len(s) = n /\ s \in Seq(Seq(S))
  OBVIOUS
<1>2. CASE n = 0
  BY <1>1, <1>2 DEF Codec!FlattenSeq, IsSum
<1>3. CASE n # 0
  <2> DEFINE G == CHOOSE g : g = [i \in 1 .. Len(s) |-> IF i = 1 THEN s[i] ELSE g[i - 1] \o s[i]]
             g0 == [i \in 1 .. n |-> f[i]]
  <2>1. Codec!FlattenSeq(s) = G[n]
    BY <1>1, <1>3 DEF Codec!FlattenSeq
  <2>2. g0 = [i \in 1 .. Len(s) |-> IF i = 1 THEN s[i] ELSE g0[i - 1] \o s[i]]
    <3>1. ASSUME NEW i \in 1 .. n PROVE f[i] = IF i = 1 THEN s[i] ELSE g0[i - 1] \o s[i]
      <4>1. f[i] = f[i - 1] \o s[i] /\ s[i] \in Seq(S) /\ f[0] = <<>>
        BY DEF IsSum
      <4>2. CASE i = 1
        BY <4>1, <4>2
      <4>3. CASE i # 1
        <5>1. i - 1 \in 1 .. n
          BY <4>3
        <5> QED
          BY <4>1, <4>3, <5>1, SMTT(40)
      <4> QED
        BY <4>2, <4>3
    <3> QED
      BY <1>1, <3>1
  <2>3. G = [i \in 1 .. Len(s) |-> IF i = 1 THEN s[i] ELSE G[i - 1] \o s[i]]
    <3> HIDE DEF g0
    <3> QED
      BY <2>2, Zenon
  <2> HIDE DEF G
  <2> DEFINE T == {m \in Nat : m \in 1 .. n => G[m] = f[m]}
  <2>4. 0 \in T
    OBVIOUS
  <2>5. ASSUME NEW m \in Nat, m \in T PROVE m + 1 \in T
    <3> SUFFICES ASSUME m + 1 \in 1 .. n PROVE G[m + 1] = f[m + 1]
      OBVIOUS
    <3>0. (m + 1) - 1 = m
      OBVIOUS
    <3>1. f[m + 1] = f[m] \o s[m + 1] /\ s[m + 1] \in Seq(S) /\ f[0] = <<>>
      <4>1. f[m + 1] = f[(m + 1) - 1] \o s[m + 1]
        BY DEF IsSum
      <4> QED
        BY <3>0, <4>1 DEF IsSum
    <3>2. G[m + 1] = IF m + 1 = 1 THEN s[m + 1] ELSE G[m] \o s[m + 1]
      <4>1. G[m + 1] = IF m + 1 = 1 THEN s[m + 1] ELSE G[(m + 1) - 1] \o s[m + 1]
        BY <1>1, <2>3
      <4> QED
        BY <3>0, <4>1
    <3>3. CASE m = 0
      BY <3>1, <3>2, <3>3, SMTT(40)
    <3>4. CASE m # 0
      <4>1. m \in 1 .. n /\ m + 1 # 1
        BY <3>4
      <4>2. G[m] = f[m]
        BY <2>5, <4>1
      <4> QED
        BY <3>1, <3>2, <4>1, <4>2
    <3> QED
      BY <3>3, <3>4
  <2> HIDE DEF T
  <2>6. Nat \subseteq T
    BY <2>4, <2>5, Induction
  <2>7. G[n] = f[n]
    BY <1>3, <2>6 DEF T
  <2> QED
    BY <2>1, <2>7
<1> QED
  BY <1>2, <1>3

(* Nothing joined is nothing.                                              *)
LEMMA FlatEmpty == Codec!FlattenSeq(<<>>) = <<>>
  BY DEF Codec!FlattenSeq

(* One more part comes behind the others.                                  *)
LEMMA FlatAppend ==
    ASSUME NEW S, NEW s \in Seq(Seq(S)), NEW x \in Seq(S)
    PROVE  /\ Codec!FlattenSeq(s) \in Seq(S)
           /\ Codec!FlattenSeq(Append(s, x)) = Codec!FlattenSeq(s) \o x
<1>1. PICK n \in Nat : n = Len(s)
  OBVIOUS
<1> DEFINE u == Append(s, x)
<1>0. n + 1 \in Nat
  OBVIOUS
<1>2. s \in [1 .. n -> Seq(S)] /\ u \in [1 .. n + 1 -> Seq(S)] /\ u[n + 1] = x
  <2>1. u \in Seq(Seq(S)) /\ Len(u) = n + 1 /\ u[n + 1] = x
    BY <1>1
  <2> HIDE DEF u
  <2> QED
    BY <1>1, <2>1, LenProperties
<1>3. \A i \in 1 .. n : u[i] = s[i]
  BY <1>1
<1> HIDE DEF u
<1>4. PICK f : IsSum(f, u, n + 1, S)
  BY <1>0, <1>2, SumExists
<1> DEFINE g == [i \in 0 .. n |-> f[i]]
<1>5. IsSum(g, s, n, S)
  <2>1. g \in [0 .. n -> Seq(S)] /\ g[0] = <<>>
    BY <1>4 DEF IsSum
  <2>2. ASSUME NEW i \in 1 .. n PROVE g[i] = g[i - 1] \o s[i]
    <3>1. i \in 1 .. n + 1 /\ i \in 0 .. n /\ i - 1 \in 0 .. n
      OBVIOUS
    <3>2. f[i] = f[i - 1] \o u[i]
      BY <1>4, <3>1 DEF IsSum
    <3> QED
      BY <1>3, <3>1, <3>2
  <2> HIDE DEF g
  <2> QED
    BY <2>1, <2>2 DEF IsSum
<1>6. Codec!FlattenSeq(s) = g[n] /\ g[n] \in Seq(S) /\ g[n] = f[n]
  <2>1. g[n] = f[n]
    OBVIOUS
  <2> HIDE DEF g
  <2>2. Codec!FlattenSeq(s) = g[n]
    BY <1>2, <1>5, Flattened
  <2>3. g[n] \in Seq(S)
    BY <1>5 DEF IsSum
  <2> QED
    BY <2>1, <2>2, <2>3
<1>7. Codec!FlattenSeq(u) = f[n + 1]
  BY <1>0, <1>2, <1>4, Flattened
<1>8. f[n + 1] = f[n] \o x
  <2>1. n + 1 \in 1 .. n + 1 /\ (n + 1) - 1 = n
    OBVIOUS
  <2>2. f[n + 1] = f[(n + 1) - 1] \o u[n + 1]
    BY <1>4, <2>1 DEF IsSum
  <2> QED
    BY <1>2, <2>1, <2>2
<1> QED
  BY <1>6, <1>7, <1>8 DEF u

-----------------------------------------------------------------------------
(* The checksum.                                                           *)

(* What adler32 sums up to.                                                *)
Residues == {k \in Nat : k < 65521}

(* One of the two sums of adler32, as far as the first n numbers.          *)
IsRunning(r, c, x, n) ==
    /\ r \in [0 .. n -> Residues] /\ r[0] = c
    /\ \A i \in 1 .. n : r[i] = (r[i - 1] + x[i]) % 65521

(* A remainder is small.                                                   *)
LEMMA AdlerMod ==
    ASSUME NEW u \in Residues, NEW z \in Residues
    PROVE  /\ (u + z) % 65521 \in Residues
           /\ (u + z) % 65521 = IF u + z < 65521 THEN u + z ELSE u + z - 65521
  BY DEF Residues

(* There is such a sum.                                                    *)
LEMMA RunningExists ==
    ASSUME NEW n \in Nat, NEW x, \A i \in 1 .. n : x[i] \in Residues, NEW c \in Residues
    PROVE  \E r : IsRunning(r, c, x, n)
<1> DEFINE T == {m \in Nat : m <= n => \E r : IsRunning(r, c, x, m)}
<1>1. 0 \in T
  <2>1. IsRunning([i \in 0 .. 0 |-> c], c, x, 0)
    BY DEF IsRunning
  <2> QED
    BY <2>1
<1>2. ASSUME NEW m \in Nat, m \in T PROVE m + 1 \in T
  <2> SUFFICES ASSUME m + 1 <= n PROVE \E r : IsRunning(r, c, x, m + 1)
    OBVIOUS
  <2>1. PICK f : IsRunning(f, c, x, m)
    BY <1>2
  <2> DEFINE z == (f[m] + x[m + 1]) % 65521
             g == [i \in 0 .. m + 1 |-> IF i = m + 1 THEN z ELSE f[i]]
  <2>2. f[m] \in Residues /\ x[m + 1] \in Residues
    BY <2>1 DEF IsRunning
  <2>3. z \in Residues
    BY <2>2, AdlerMod
  <2>4. \A i \in 0 .. m : f[i] \in Residues
    BY <2>1 DEF IsRunning
  <2>5. \A i \in 1 .. m : f[i] = (f[i - 1] + x[i]) % 65521
    BY <2>1 DEF IsRunning
  <2>6. f[0] = c
    BY <2>1 DEF IsRunning
  <2>7. z = (f[m] + x[m + 1]) % 65521
    OBVIOUS
  <2> HIDE DEF z
  <2>8. g \in [0 .. m + 1 -> Residues] /\ g[0] = c
    BY <2>3, <2>4, <2>6
  <2>9. ASSUME NEW i \in 1 .. m + 1 PROVE g[i] = (g[i - 1] + x[i]) % 65521
    <3>1. CASE i = m + 1
      <4>1. i - 1 = m /\ m \in 0 .. m + 1 /\ m # m + 1 /\ i \in 0 .. m + 1
        BY <3>1
      <4>2. g[i - 1] = f[m] /\ g[i] = z
        BY <3>1, <4>1
      <4> QED
        BY <2>7, <3>1, <4>2
    <3>2. CASE i # m + 1
      <4>1. i \in 1 .. m /\ i - 1 \in 0 .. m + 1 /\ i - 1 # m + 1 /\ i \in 0 .. m + 1
        BY <3>2
      <4>2. g[i] = f[i] /\ g[i - 1] = f[i - 1]
        BY <3>2, <4>1
      <4> QED
        BY <2>5, <4>1, <4>2
    <3> QED
      BY <3>1, <3>2
  <2> HIDE DEF g
  <2>10. IsRunning(g, c, x, m + 1)
    BY <2>8, <2>9 DEF IsRunning
  <2> QED
    BY <2>10
<1> HIDE DEF T
<1>3. Nat \subseteq T
  BY <1>1, <1>2, Induction
<1> QED
  BY <1>3 DEF T

(* A recursive function like those in checksum() is such a sum.            *)
LEMMA RunningIs ==
    ASSUME NEW n \in Nat, NEW x, \A i \in 1 .. n : x[i] \in Residues, NEW c \in Residues
    PROVE  IsRunning(CHOOSE f : f = [i \in 0 .. n |-> IF i = 0 THEN c ELSE (f[i - 1] + x[i]) % 65521], c, x, n)
<1> DEFINE r == CHOOSE f : f = [i \in 0 .. n |-> IF i = 0 THEN c ELSE (f[i - 1] + x[i]) % 65521]
<1>1. PICK g : IsRunning(g, c, x, n)
  BY RunningExists
<1>2. g = [i \in 0 .. n |-> IF i = 0 THEN c ELSE (g[i - 1] + x[i]) % 65521]
  <2>1. ASSUME NEW i \in 0 .. n PROVE g[i] = IF i = 0 THEN c ELSE (g[i - 1] + x[i]) % 65521
    <3>1. i # 0 => i \in 1 .. n
      OBVIOUS
    <3> QED
      BY <1>1, <3>1 DEF IsRunning
  <2>2. g \in [0 .. n -> Residues]
    BY <1>1 DEF IsRunning
  <2> QED
    BY <2>1, <2>2
<1>3. r = [i \in 0 .. n |-> IF i = 0 THEN c ELSE (r[i - 1] + x[i]) % 65521]
  <2> HIDE DEF IsRunning
  <2> QED
    BY <1>2, SMTT(40)
<1> HIDE DEF r
<1>4. r[0] = c /\ \A i \in 1 .. n : r[i] = (r[i - 1] + x[i]) % 65521
  <2>1. r[0] = c
    BY <1>3
  <2>2. ASSUME NEW i \in 1 .. n PROVE r[i] = (r[i - 1] + x[i]) % 65521
    <3>1. i \in 0 .. n /\ i # 0
      OBVIOUS
    <3> QED
      BY <1>3, <3>1
  <2> QED
    BY <2>1, <2>2
<1> DEFINE T == {m \in Nat : m <= n => r[m] \in Residues}
<1>5. 0 \in T
  BY <1>4
<1>6. ASSUME NEW m \in Nat, m \in T PROVE m + 1 \in T
  <2> SUFFICES ASSUME m + 1 <= n PROVE r[m + 1] \in Residues
    OBVIOUS
  <2>1. r[m] \in Residues /\ m + 1 \in 1 .. n /\ (m + 1) - 1 = m
    BY <1>6
  <2>2. r[m + 1] = (r[m] + x[m + 1]) % 65521 /\ x[m + 1] \in Residues
    <3>1. r[m + 1] = (r[(m + 1) - 1] + x[m + 1]) % 65521
      BY <1>4, <2>1
    <3> QED
      BY <2>1, <3>1
  <2> QED
    BY <2>1, <2>2, AdlerMod
<1> HIDE DEF T
<1>7. Nat \subseteq T
  BY <1>5, <1>6, Induction
<1>8. \A m \in 0 .. n : r[m] \in Residues
  BY <1>7 DEF T
<1>9. DOMAIN r = 0 .. n
  BY <1>3
<1>10. r = [m \in 0 .. n |-> r[m]]
  BY <1>3
<1> QED
  <2>1. r \in [0 .. n -> Residues]
    BY <1>8, <1>10
  <2>2. IsRunning(r, c, x, n)
    BY <1>4, <2>1 DEF IsRunning
  <2> QED
    BY <2>2 DEF r

(* A sequence has elements of its own.                                     *)
LEMMA ElementsOf ==
    ASSUME NEW S, NEW s \in Seq(S) PROVE Len(s) \in Nat /\ \A i \in 1 .. Len(s) : s[i] \in S
  OBVIOUS

(* A byte is small.                                                        *)
LEMMA ByteFacts ==
    ASSUME NEW k \in 0 .. 255 PROVE k \in Nat /\ k < 256 /\ k \in Residues
  BY DEF Residues

(* Integers are written and read the same way by codec and buffer.         *)
LEMMA SameInts ==
    /\ \A x, width : Codec!HostToNetwork(x, width) = HostToNetwork(x, width)
    /\ \A bytes : Codec!NetworkToHost(bytes) = NetworkToHost(bytes)
  BY DEF Codec!HostToNetwork, HostToNetwork, Codec!NetworkToHost, NetworkToHost

(* The bytes of the message's sum are the last two.                        *)
LEMMA ChecksumFacts ==
    ASSUME NEW x \in Seq(0 .. 255)
    PROVE  /\ Codec!checksum(x) \in Seq(0 .. 255) /\ Len(Codec!checksum(x)) = 4
           /\ \E a : /\ IsRunning(a, 1, x, Len(x))
                     /\ Codec!checksum(x)[3] = (a[Len(x)] \div 256) % 256
                     /\ Codec!checksum(x)[4] = a[Len(x)] % 256
<1> DEFINE n == Len(x)
<1>3. \A i \in 1 .. n : x[i] \in Residues
  <2>1. \A i \in 1 .. n : x[i] \in 0 .. 255
    BY ElementsOf
  <2> QED
    BY <2>1, ByteFacts
<1> DEFINE a == CHOOSE f : f = [i \in 0 .. n |-> IF i = 0 THEN 1 ELSE (f[i - 1] + x[i]) % 65521]
           b == CHOOSE f : f = [i \in 0 .. n |-> IF i = 0 THEN 0 ELSE (f[i - 1] + a[i]) % 65521]
<1>1. n \in Nat /\ 0 \in Residues /\ 1 \in Residues
  BY DEF Residues
<1>2. Codec!checksum(x) = Codec!HostToNetwork(b[n], 2) \o Codec!HostToNetwork(a[n], 2)
  BY DEF Codec!checksum
<1>4. IsRunning(a, 1, x, n)
  <2> HIDE DEF n
  <2> QED
    BY <1>1, <1>3, RunningIs
<1> HIDE DEF a
<1>5. \A i \in 0 .. n : a[i] \in Residues
  BY <1>4 DEF IsRunning
<1>6. IsRunning(b, 0, a, n)
  <2>1. \A i \in 1 .. n : a[i] \in Residues
    BY <1>5
  <2>2. 0 \in Residues /\ n \in Nat
    BY <1>1
  <2> HIDE DEF n
  <2> QED
    BY <2>1, <2>2, RunningIs
<1> HIDE DEF b
<1>7. a[n] \in Residues /\ b[n] \in Residues
  BY <1>1, <1>4, <1>6 DEF IsRunning
<1> HIDE DEF n
<1>8. PICK u \in Nat : u = a[n]
  BY <1>7 DEF Residues
<1>9. PICK v \in Nat : v = b[n]
  BY <1>7 DEF Residues
<1>10. PICK s \in Seq(0 .. 255) : s = HostToNetwork(v, 2) /\ Len(s) = 2
  BY NetworkBytes, SMTT(40)
<1>11. PICK t \in Seq(0 .. 255) : /\ t = HostToNetwork(u, 2) /\ Len(t) = 2
                                  /\ \A i \in 1 .. 2 : t[i] = ByteOf(u, 2, i)
  BY NetworkBytes, SMTT(40)
<1>12. Codec!checksum(x) = s \o t
  BY <1>2, <1>8, <1>9, <1>10, <1>11, SameInts
<1>13. /\ s \o t \in Seq(0 .. 255) /\ Len(s \o t) = 4
       /\ (s \o t)[3] = t[1] /\ (s \o t)[4] = t[2]
  <2>1. 2 + 2 = 4 /\ 2 + 1 = 3 /\ 1 \in 1 .. 2 /\ 2 \in 1 .. 2
    OBVIOUS
  <2>2. /\ s \o t \in Seq(0 .. 255) /\ Len(s \o t) = 2 + 2
        /\ \A p \in 1 .. 2 : (s \o t)[2 + p] = t[p]
    <3>1. Len(s) = 2 /\ Len(t) = 2
      BY <1>10, <1>11
    <3>2. /\ s \o t \in Seq(0 .. 255) /\ Len(s \o t) = Len(s) + Len(t)
          /\ \A p \in 1 .. Len(t) : (s \o t)[Len(s) + p] = t[p]
      BY ConcatFacts
    <3> QED
      BY <3>1, <3>2
  <2> QED
    BY <2>1, <2>2
<1>14. t[1] = (u \div 256) % 256 /\ t[2] = u % 256
  <2>1. t[1] = ByteOf(u, 2, 1) /\ t[2] = ByteOf(u, 2, 2)
    BY <1>11
  <2>2. 2 - 1 = 1 /\ 2 - 2 = 0 /\ u \div 1 = u
    OBVIOUS
  <2> QED
    BY <2>1, <2>2, Powers DEF ByteOf
<1> QED
  BY <1>4, <1>8, <1>12, <1>13, <1>14 DEF n

(* Two sums that differ by one byte differ from there on.                  *)
LEMMA ChecksumDiffers ==
    ASSUME NEW x \in Seq(0 .. 255), NEW y \in Seq(0 .. 255), Len(x) = Len(y), Len(x) > 0,
           x[1] # y[1], \A i \in 2 .. Len(x) : x[i] = y[i]
    PROVE  Codec!checksum(x) # Codec!checksum(y)
<1>1. PICK n \in Nat : n = Len(x) /\ n = Len(y) /\ n > 0
  OBVIOUS
<1>2. PICK a : /\ IsRunning(a, 1, x, n)
               /\ Codec!checksum(x)[3] = (a[n] \div 256) % 256
               /\ Codec!checksum(x)[4] = a[n] % 256
  <2>1. \E f : /\ IsRunning(f, 1, x, Len(x))
              /\ Codec!checksum(x)[3] = (f[Len(x)] \div 256) % 256
              /\ Codec!checksum(x)[4] = f[Len(x)] % 256
    BY ChecksumFacts
  <2> QED
    BY <1>1, <2>1
<1>3. PICK b : /\ IsRunning(b, 1, y, n)
               /\ Codec!checksum(y)[3] = (b[n] \div 256) % 256
               /\ Codec!checksum(y)[4] = b[n] % 256
  <2>1. \E f : /\ IsRunning(f, 1, y, Len(y))
              /\ Codec!checksum(y)[3] = (f[Len(y)] \div 256) % 256
              /\ Codec!checksum(y)[4] = f[Len(y)] % 256
    BY ChecksumFacts
  <2> QED
    BY <1>1, <2>1
<1>4. \A i \in 1 .. n : x[i] \in 0 .. 255 /\ y[i] \in 0 .. 255
  BY <1>1, ElementsOf
<1>5. \A i \in 0 .. n : a[i] \in Residues /\ b[i] \in Residues
  BY <1>2, <1>3 DEF IsRunning
<1>6. a[0] = 1 /\ b[0] = 1
  BY <1>2, <1>3 DEF IsRunning
<1>7. \A i \in 1 .. n : a[i] = (a[i - 1] + x[i]) % 65521 /\ b[i] = (b[i - 1] + y[i]) % 65521
  BY <1>2, <1>3 DEF IsRunning
<1>8. \A i \in 2 .. n : x[i] = y[i]
  BY <1>1
<1> DEFINE T == {m \in Nat : m + 1 <= n => a[m + 1] # b[m + 1]}
<1>9. 0 \in T
  <2>1. 1 \in 1 .. n /\ 1 - 1 = 0 /\ 0 + 1 = 1
    BY <1>1
  <2>2. a[1] = (1 + x[1]) % 65521 /\ b[1] = (1 + y[1]) % 65521
    BY <1>6, <1>7, <2>1
  <2>3. PICK u \in 0 .. 255 : u = x[1]
    BY <1>4, <2>1
  <2>4. PICK v \in 0 .. 255 : v = y[1]
    BY <1>4, <2>1
  <2>5. u # v
    BY <2>3, <2>4
  <2>6. (1 + u) % 65521 = 1 + u /\ (1 + v) % 65521 = 1 + v
    <3>1. \A k \in Nat : k < 256 => (1 + k) % 65521 = 1 + k
      OBVIOUS
    <3>2. u \in Nat /\ u < 256 /\ v \in Nat /\ v < 256
      BY ByteFacts
    <3> QED
      BY <3>1, <3>2
  <2>7. a[1] # b[1]
    BY <2>2, <2>3, <2>4, <2>5, <2>6
  <2> QED
    BY <2>1, <2>7
<1>10. ASSUME NEW m \in Nat, m \in T PROVE m + 1 \in T
  <2> SUFFICES ASSUME (m + 1) + 1 <= n PROVE a[(m + 1) + 1] # b[(m + 1) + 1]
    OBVIOUS
  <2>1. PICK k \in 1 .. n : k = (m + 1) + 1 /\ k - 1 = m + 1 /\ k \in 2 .. n /\ k - 1 \in 0 .. n
    <3>1. /\ (m + 1) + 1 \in 1 .. n /\ ((m + 1) + 1) - 1 = m + 1
          /\ (m + 1) + 1 \in 2 .. n /\ m + 1 \in 0 .. n
      OBVIOUS
    <3> QED
      BY <3>1
  <2>2. a[k - 1] # b[k - 1]
    BY <1>10, <2>1
  <2>3. PICK u \in Residues : u = a[k - 1]
    BY <1>5, <2>1
  <2>4. PICK v \in Residues : v = b[k - 1]
    BY <1>5, <2>1
  <2>5. PICK z \in Residues : z = x[k] /\ z = y[k]
    BY <1>4, <1>8, <2>1, ByteFacts, ZenonT(60)
  <2>6. a[k] = (u + z) % 65521 /\ b[k] = (v + z) % 65521
    <3>1. a[k] = (a[k - 1] + x[k]) % 65521 /\ b[k] = (b[k - 1] + y[k]) % 65521
      BY <1>7, <2>1
    <3>2. a[k - 1] + x[k] = u + z
      BY <2>3, <2>5
    <3>3. b[k - 1] + y[k] = v + z
      BY <2>4, <2>5
    <3> QED
      BY <3>1, <3>2, <3>3
  <2>7. (u + z) % 65521 # (v + z) % 65521
    <3>1. u # v
      BY <2>2, <2>3, <2>4
    <3>2. (u + z) % 65521 = IF u + z < 65521 THEN u + z ELSE u + z - 65521
      BY AdlerMod
    <3>3. (v + z) % 65521 = IF v + z < 65521 THEN v + z ELSE v + z - 65521
      BY AdlerMod
    <3> QED
      BY <3>1, <3>2, <3>3 DEF Residues
  <2> QED
    BY <2>1, <2>6, <2>7
<1> HIDE DEF T
<1>11. Nat \subseteq T
  BY <1>9, <1>10, Induction
<1>12. a[n] # b[n]
  <2>1. PICK m \in Nat : m + 1 = n
    <3>1. n - 1 \in Nat /\ (n - 1) + 1 = n
      BY <1>1
    <3> QED
      BY <3>1
  <2>2. m \in T
    BY <1>11
  <2>3. m + 1 <= n
    BY <2>1
  <2> QED
    BY <2>1, <2>2, <2>3 DEF T
<1>13. PICK u \in Residues : u = a[n]
  BY <1>1, <1>5
<1>14. PICK v \in Residues : v = b[n]
  BY <1>1, <1>5
<1>15. \A k \in Residues : k \in Nat /\ k = (256 * (k \div 256)) + (k % 256) /\ (k \div 256) % 256 = k \div 256
  BY DEF Residues
<1>16. (u \div 256) % 256 # (v \div 256) % 256 \/ u % 256 # v % 256
  <2>1. u # v
    BY <1>12, <1>13, <1>14
  <2> QED
    BY <1>15, <2>1
<1> QED
  BY <1>2, <1>3, <1>13, <1>14, <1>16

-----------------------------------------------------------------------------
(* Frames.                                                                 *)

(* The codec's buffers are those of the buffer's own proofs.               *)
LEMMA SameRoom ==
    /\ \A b : Codec!Content(b) = Content(b) /\ Codec!readableBytes(b) = readableBytes(b)
    /\ \A b, len : Codec!ensureWritableBytes(b, len) = ensureWritableBytes(b, len)
<1>1. \A b : Codec!Content(b) = Content(b) /\ Codec!readableBytes(b) = readableBytes(b)
  BY DEF Codec!Content, Content, Codec!readableBytes, readableBytes
<1>2. \A bytes, at, data : Codec!Overwrite(bytes, at, data) = Overwrite(bytes, at, data)
  BY DEF Codec!Overwrite, Overwrite
<1>3. \A b : Codec!writableBytes(b) = writableBytes(b) /\ Codec!prependableBytes(b) = prependableBytes(b)
  BY DEF Codec!writableBytes, writableBytes, Codec!prependableBytes, prependableBytes
<1>4. \A b, len : Codec!Fits(b, len) = Fits(b, len)
  BY <1>3 DEF Codec!Fits, Fits
<1>5. \A n : Codec!Zeros(n) = Zeros(n)
  BY DEF Codec!Zeros, Zeros
<1>6. \A b, len : Codec!Grown(b, len) = Grown(b, len)
  BY DEF Codec!Grown, Grown, Codec!Zeros, Zeros
<1>7. \A b : Codec!Moved(b) = Moved(b)
  BY <1>1, <1>2 DEF Codec!Moved, Moved
<1>8. \A b, len : Codec!makeSpace(b, len) = makeSpace(b, len)
  BY <1>4, <1>6, <1>7 DEF Codec!makeSpace, makeSpace
<1>9. \A b, len : Codec!ensureWritableBytes(b, len) = ensureWritableBytes(b, len)
  BY <1>3, <1>8 DEF Codec!ensureWritableBytes, ensureWritableBytes
<1> QED
  BY <1>1, <1>9

(* And they are filled alike.                                              *)
LEMMA SameBuffers ==
    /\ \A n : Codec!NewBuffer(n) = NewBuffer(n)
    /\ \A b, data : Codec!append(b, data) = append(b, data)
    /\ \A b, data : Codec!prepend(b, data) = prepend(b, data)
<1>1. \A bytes, at, data : Codec!Overwrite(bytes, at, data) = Overwrite(bytes, at, data)
  BY DEF Codec!Overwrite, Overwrite
<1>2. \A b, len : Codec!hasWritten(b, len) = hasWritten(b, len)
  BY DEF Codec!hasWritten, hasWritten
<1>3. \A n : Codec!NewBuffer(n) = NewBuffer(n)
  BY DEF Codec!NewBuffer, NewBuffer, Codec!Zeros, Zeros
<1>4. \A b, data : Codec!append(b, data) = append(b, data)
  <2> SUFFICES ASSUME NEW b, NEW data PROVE Codec!append(b, data) = append(b, data)
    OBVIOUS
  <2> DEFINE r == ensureWritableBytes(b, Len(data))
  <2>1. Codec!ensureWritableBytes(b, Len(data)) = r
    BY SameRoom
  <2>2. Codec!append(b, data) =
          Codec!hasWritten([r EXCEPT !.buffer_ = Codec!Overwrite(r.buffer_, r.writerIndex_, data)], Len(data))
    BY <2>1 DEF Codec!append
  <2>3. append(b, data) =
          hasWritten([r EXCEPT !.buffer_ = Overwrite(r.buffer_, r.writerIndex_, data)], Len(data))
    BY DEF append
  <2> HIDE DEF r
  <2> QED
    BY <1>1, <1>2, <2>2, <2>3
<1>5. \A b, data : Codec!prepend(b, data) = prepend(b, data)
  BY DEF Codec!prepend, prepend, Codec!Overwrite, Overwrite
<1> QED
  BY <1>3, <1>4, <1>5

(* What follows the length in a frame.                                     *)
Sealed(tag, m) == (tag \o m) \o Codec!checksum(tag \o m)

(* It is the checksum longer than what is in it.                           *)
LEMMA SealedFacts ==
    ASSUME NEW tag \in Seq(0 .. 255), NEW m \in Seq(0 .. 255)
    PROVE  /\ Sealed(tag, m) \in Seq(0 .. 255)
           /\ Len(Sealed(tag, m)) = Len(tag) + Len(m) + 4
           /\ Len(tag) \in Nat /\ Len(m) \in Nat
<1>1. PICK x \in Seq(0 .. 255) : x = tag \o m /\ Len(x) = Len(tag) + Len(m)
  BY ConcatFacts, ZenonT(60)
<1>2. PICK y \in Seq(0 .. 255) : y = Codec!checksum(x) /\ Len(y) = 4
  BY ChecksumFacts
<1>3. x \o y \in Seq(0 .. 255) /\ Len(x \o y) = Len(x) + Len(y)
  BY ConcatFacts
<1>4. Sealed(tag, m) = x \o y
  BY <1>1, <1>2 DEF Sealed
<1>5. Len(tag) \in Nat /\ Len(m) \in Nat
  BY ElementsOf
<1> QED
  BY <1>1, <1>2, <1>3, <1>4, <1>5

(* The room in front of a buffer.                                          *)
LEMMA RoomForLength == kCheapPrepend >= 4 /\ kCheapPrepend \in Nat
  BY BufferAssumption, CodecAssumption, SMT

(* The peer's messages.                                                    *)
LEMMA MessageFacts ==
    /\ Tag \in Seq(0 .. 255) /\ Len(Tag) \in Nat /\ Len(Tag) > 0
    /\ \A m \in Messages : m \in Seq(0 .. 255) /\ Len(Tag) + Len(m) + 4 <= kMaxMessageLen
    /\ kMaxMessageLen \in Nat
<1>1. Tag \in Seq(0 .. 255) /\ Tag # <<>> /\ kMaxMessageLen \in Nat
  BY CodecAssumption, SMT
<1>2. \A m \in Messages : m \in Seq(0 .. 255) /\ Len(Tag) + Len(m) + 4 <= kMaxMessageLen
  BY CodecAssumption, SMT
<1>3. Len(Tag) \in Nat /\ Len(Tag) > 0
  BY <1>1
<1> QED
  BY <1>1, <1>2, <1>3

(* fillEmptyBuffer() writes the length and then this.                      *)
LEMMA FilledFacts ==
    ASSUME NEW tag \in Seq(0 .. 255), NEW m \in Seq(0 .. 255)
    PROVE  Codec!fillEmptyBuffer(tag, m) = HostToNetwork(Len(tag) + Len(m) + 4, 4) \o Sealed(tag, m)
<1> DEFINE S == 0 .. 255
<1>0. 0 \in S
  OBVIOUS
<1>1. tag \in Seq(S) /\ m \in Seq(S)
  OBVIOUS
<1> HIDE DEF S
<1>2. PICK b0 \in Bufs(S) : /\ b0 = NewBuffer(kInitialSize) /\ Content(b0) = <<>>
                            /\ b0.readerIndex_ = kCheapPrepend
  BY <1>0, NewBuf
<1>3. PICK b1 \in Bufs(S) : /\ b1 = append(b0, tag) /\ Content(b1) = Joined(Content(b0), tag)
                            /\ b1.readerIndex_ = kCheapPrepend
  BY <1>0, <1>1, <1>2, AppendBuf
<1>4. Content(b1) = tag
  BY <1>1, <1>2, <1>3 DEF Joined
<1>5. PICK l \in Nat : l = Len(m) + 4
  BY <1>1
<1>6. PICK b2 \in Bufs(S) : /\ b2 = ensureWritableBytes(b1, l) /\ Content(b2) = tag
                            /\ b2.readerIndex_ = kCheapPrepend
  BY <1>0, <1>3, <1>4, EnsureFacts
<1>7. PICK b3 \in Bufs(S) : /\ b3 = append(b2, m) /\ Content(b3) = tag \o m
                            /\ b3.readerIndex_ = kCheapPrepend
  <2>1. /\ append(b2, m) \in Bufs(S) /\ Content(append(b2, m)) = Joined(Content(b2), m)
        /\ append(b2, m).readerIndex_ \in {b2.readerIndex_, kCheapPrepend}
    BY <1>0, <1>1, AppendBuf
  <2> QED
    BY <1>6, <2>1 DEF Joined
<1>8. PICK y \in Seq(S) : y = Codec!checksum(tag \o m)
  <2>1. tag \o m \in Seq(0 .. 255)
    BY ConcatFacts
  <2>2. Codec!checksum(tag \o m) \in Seq(0 .. 255)
    BY <2>1, ChecksumFacts
  <2> QED
    BY <2>2 DEF S
<1>9. PICK b4 \in Bufs(S) : /\ b4 = append(b3, y) /\ Content(b4) = Sealed(tag, m)
                            /\ b4.readerIndex_ = kCheapPrepend
  <2>1. append(b3, y) \in Bufs(S) /\ Content(append(b3, y)) = Joined(Content(b3), y)
        /\ append(b3, y).readerIndex_ \in {b3.readerIndex_, kCheapPrepend}
    BY <1>0, <1>8, AppendBuf
  <2> QED
    BY <1>7, <1>8, <2>1 DEF Joined, Sealed
<1>10. readableBytes(b4) = Len(tag) + Len(m) + 4
  <2>1. readableBytes(b4) = Len(Content(b4))
    BY ContentFacts
  <2>2. Len(Sealed(tag, m)) = Len(tag) + Len(m) + 4
    BY SealedFacts
  <2> QED
    BY <1>9, <2>1, <2>2
<1>11. PICK z \in Seq(S) : z = HostToNetwork(Len(tag) + Len(m) + 4, 4) /\ Len(z) = 4
  <2>1. Len(tag) + Len(m) + 4 \in Int
    BY SealedFacts
  <2>2. PICK k \in Int : k = Len(tag) + Len(m) + 4
    BY <2>1
  <2>3. \E z \in Seq(0 .. 255) : z = HostToNetwork(k, 4) /\ Len(z) = 4
    BY NetworkBytes, SMTT(40)
  <2> QED
    BY <2>2, <2>3 DEF S
<1>12. Content(prepend(b4, z)) = Joined(z, Content(b4))
  <2>1. Len(z) <= b4.readerIndex_
    BY <1>9, <1>11, RoomForLength
  <2> QED
    BY <2>1, PrependBuf
<1>13. Codec!serializeToBuffer(m, b1) = b3
  BY <1>5, <1>6, <1>7, SameRoom, SameBuffers DEF Codec!serializeToBuffer, Codec!kChecksumLen
<1>14. Codec!append(Codec!NewBuffer(kInitialSize), tag) = b1
  BY <1>2, <1>3, SameBuffers
<1>15. Codec!append(b3, Codec!checksum(Codec!Content(b3))) = b4
  BY <1>7, <1>8, <1>9, SameRoom, SameBuffers
<1>16. Codec!prependInt(b4, Codec!readableBytes(b4), Codec!kHeaderLen) = prepend(b4, z)
  BY <1>10, <1>11, SameRoom, SameBuffers, SameInts DEF Codec!prependInt, Codec!kHeaderLen
<1>17. Codec!fillEmptyBuffer(tag, m) = Content(prepend(b4, z))
  BY <1>13, <1>14, <1>15, <1>16, SameRoom DEF Codec!fillEmptyBuffer
<1> QED
  BY <1>9, <1>11, <1>12, <1>17 DEF Joined

(* A part of a sequence.                                                   *)
LEMMA CutFacts ==
    ASSUME NEW S, NEW s \in Seq(S), NEW m \in Nat, NEW n \in Nat, m + n <= Len(s)
    PROVE  /\ SubSeq(s, m + 1, m + n) \in Seq(S) /\ Len(SubSeq(s, m + 1, m + n)) = n
           /\ \A i \in 1 .. n : SubSeq(s, m + 1, m + n)[i] = s[m + i]
<1>1. Len(s) \in Nat /\ \A i \in 1 .. Len(s) : s[i] \in S
  BY ElementsOf
<1>2. PICK k \in Int : k = m + 1
  OBVIOUS
<1>3. PICK l \in Int : l = m + n
  OBVIOUS
<1>4. \A i \in k .. l : s[i] \in S
  BY <1>1, <1>2, <1>3
<1>5. /\ SubSeq(s, k, l) \in Seq(S) /\ Len(SubSeq(s, k, l)) = IF k <= l THEN l - k + 1 ELSE 0
      /\ \A i \in 1 .. l - k + 1 : SubSeq(s, k, l)[i] = s[k + i - 1]
  BY <1>4, SubSeqProperties
<1>6. Len(SubSeq(s, k, l)) = n
  BY <1>2, <1>3, <1>5
<1>7. ASSUME NEW i \in 1 .. n PROVE SubSeq(s, k, l)[i] = s[m + i]
  <2>1. i \in 1 .. l - k + 1 /\ k + i - 1 = m + i
    BY <1>2, <1>3
  <2> QED
    BY <1>5, <2>1
<1> QED
  BY <1>2, <1>3, <1>5, <1>6, <1>7

(* A part of a sequence is what it is element by element.                  *)
LEMMA CutIs ==
    ASSUME NEW S, NEW s \in Seq(S), NEW m \in Nat, NEW x \in Seq(S), m + Len(x) <= Len(s),
           \A i \in 1 .. Len(x) : s[m + i] = x[i]
    PROVE  SubSeq(s, m + 1, m + Len(x)) = x
<1>1. Len(x) \in Nat
  BY ElementsOf
<1>2. PICK y \in Seq(S) : /\ y = SubSeq(s, m + 1, m + Len(x)) /\ Len(y) = Len(x)
                          /\ \A i \in 1 .. Len(x) : y[i] = s[m + i]
  BY <1>1, CutFacts
<1>3. \A i \in 1 .. Len(y) : y[i] = x[i]
  BY <1>2
<1>4. y = x
  BY <1>2, <1>3, SeqEqual
<1> QED
  BY <1>2, <1>4

(* The elements of b come behind those of a in x.                          *)
IsJoin(x, a, b) ==
    /\ x = a \o b /\ Len(x) = Len(a) + Len(b) /\ Len(a) \in Nat /\ Len(b) \in Nat
    /\ \A p \in 1 .. Len(a) : x[p] = a[p]
    /\ \A p \in 1 .. Len(b) : x[Len(a) + p] = b[p]

(* What is joined, by a name of its own.                                   *)
LEMMA JoinFacts ==
    ASSUME NEW S, NEW a \in Seq(S), NEW b \in Seq(S)
    PROVE  \E x \in Seq(S) : x = a \o b /\ IsJoin(x, a, b)
<1>1. a \o b \in Seq(S) /\ IsJoin(a \o b, a, b)
  BY DEF IsJoin
<1> QED
  BY <1>1

(* Cutting a sequence where it was joined.                                 *)
LEMMA CutJoined ==
    ASSUME NEW S, NEW a \in Seq(S), NEW b \in Seq(S)
    PROVE  /\ SubSeq(a \o b, 1, Len(a)) = a
           /\ SubSeq(a \o b, Len(a) + 1, Len(a) + Len(b)) = b
<1>0. PICK x \in Seq(S) : x = a \o b /\ IsJoin(x, a, b)
  BY JoinFacts
<1>1. /\ Len(x) = Len(a) + Len(b) /\ Len(a) \in Nat /\ Len(b) \in Nat
      /\ \A p \in 1 .. Len(a) : x[p] = a[p]
      /\ \A p \in 1 .. Len(b) : x[Len(a) + p] = b[p]
  BY <1>0 DEF IsJoin
<1>2. SubSeq(x, 0 + 1, 0 + Len(a)) = a
  <2>1. 0 \in Nat /\ 0 + Len(a) <= Len(x)
    BY <1>1
  <2>2. \A i \in 1 .. Len(a) : x[0 + i] = a[i]
    BY <1>1
  <2> QED
    BY <2>1, <2>2, CutIs
<1>3. 0 + 1 = 1 /\ 0 + Len(a) = Len(a)
  BY <1>1
<1>4. SubSeq(x, Len(a) + 1, Len(a) + Len(b)) = b
  BY <1>1, CutIs, SMTT(40)
<1> QED
  BY <1>0, <1>2, <1>3, <1>4

(* The part in the middle, and the one in front.                           *)
LEMMA CutMiddle ==
    ASSUME NEW S, NEW a \in Seq(S), NEW b \in Seq(S), NEW c \in Seq(S)
    PROVE  /\ SubSeq((a \o b) \o c, Len(a) + 1, Len(a) + Len(b)) = b
           /\ SubSeq((a \o b) \o c, 1, Len(a)) = a
<1>1. PICK x \in Seq(S) : x = a \o b /\ IsJoin(x, a, b)
  BY JoinFacts
<1>2. PICK y \in Seq(S) : y = x \o c /\ IsJoin(y, x, c)
  BY JoinFacts
<1>3. /\ Len(x) = Len(a) + Len(b) /\ Len(a) \in Nat /\ Len(b) \in Nat
      /\ \A p \in 1 .. Len(a) : x[p] = a[p]
      /\ \A p \in 1 .. Len(b) : x[Len(a) + p] = b[p]
  BY <1>1 DEF IsJoin
<1>4. Len(y) = Len(x) + Len(c) /\ Len(c) \in Nat /\ \A p \in 1 .. Len(x) : y[p] = x[p]
  BY <1>2 DEF IsJoin
<1>5. SubSeq(y, 0 + 1, 0 + Len(a)) = a
  <2>1. 0 \in Nat /\ 0 + Len(a) <= Len(y)
    BY <1>3, <1>4
  <2>2. \A i \in 1 .. Len(a) : y[0 + i] = a[i]
    BY <1>3, <1>4
  <2> QED
    BY <2>1, <2>2, CutIs
<1>6. SubSeq(y, Len(a) + 1, Len(a) + Len(b)) = b
  <2>1. Len(a) + Len(b) <= Len(y)
    BY <1>3, <1>4
  <2>2. \A i \in 1 .. Len(b) : y[Len(a) + i] = b[i]
    BY <1>3, <1>4
  <2> QED
    BY <1>3, <2>1, <2>2, CutIs
<1>7. 0 + 1 = 1 /\ 0 + Len(a) = Len(a)
  BY <1>3
<1> QED
  BY <1>1, <1>2, <1>5, <1>6, <1>7

(* What parse() finds first.                                               *)
Outcome(t, m, c) ==
    IF Codec!checksum(t \o m) # c THEN "kCheckSumError"
    ELSE IF t # Tag THEN "kUnknownMessageType"
    ELSE IF m \in Unparsable THEN "kParseError" ELSE "kNoError"

(* What parse() and its helpers make of a body in three parts.             *)
LEMMA BodyFacts ==
    ASSUME NEW t \in Seq(0 .. 255), Len(t) = Len(Tag), NEW m \in Seq(0 .. 255),
           NEW c \in Seq(0 .. 255), Len(c) = 4
    PROVE  /\ Codec!PayloadOf((t \o m) \o c) = m
           /\ Codec!parse((t \o m) \o c) = Outcome(t, m, c)
<1> DEFINE body == (t \o m) \o c
<1>0. t \o m \in Seq(0 .. 255) /\ Len(t \o m) = Len(t) + Len(m)
  BY ConcatFacts, ZenonT(60)
<1>1. PICK x \in Seq(0 .. 255) : x = t \o m /\ Len(x) = Len(t) + Len(m)
  BY <1>0
<1>2. Len(t) \in Nat /\ Len(m) \in Nat /\ Len(x) \in Nat
  BY ElementsOf
<1>3. Len(body) = Len(x) + 4
  <2>1. Len(x \o c) = Len(x) + Len(c)
    BY ConcatFacts, ZenonT(60)
  <2> QED
    BY <1>1, <2>1
<1>4. body = (t \o m) \o c
  OBVIOUS
<1> HIDE DEF body
<1>5. Len(body) - 4 = Len(x) /\ Len(x) = Len(Tag) + Len(m)
  BY <1>1, <1>2, <1>3
<1>6. Codec!PayloadOf(body) = m
  <2>1. SubSeq((t \o m) \o c, Len(t) + 1, Len(t) + Len(m)) = m
    BY CutMiddle
  <2> QED
    BY <1>4, <1>1, <1>5, <2>1 DEF Codec!PayloadOf, Codec!kChecksumLen
<1>7. SubSeq(body, 1, Len(x)) = x /\ SubSeq(body, Len(x) + 1, Len(body)) = c
  <2>1. SubSeq(x \o c, 1, Len(x)) = x /\ SubSeq(x \o c, Len(x) + 1, Len(x) + Len(c)) = c
    BY CutJoined, ZenonT(60)
  <2> QED
    BY <1>4, <1>1, <1>3, <2>1
<1>8. Codec!validateChecksum(body) <=> Codec!checksum(x) = c
  BY <1>5, <1>7 DEF Codec!validateChecksum, Codec!kChecksumLen
<1>9. SubSeq(body, 1, Len(Tag)) = t
  <2>1. SubSeq((t \o m) \o c, 1, Len(t)) = t
    BY CutMiddle
  <2> QED
    BY <1>4, <2>1
<1>10. Codec!parse(body) =
        IF Codec!checksum(x) # c THEN "kCheckSumError"
        ELSE IF t # Tag THEN "kUnknownMessageType"
        ELSE IF m \in Unparsable THEN "kParseError" ELSE "kNoError"
  BY <1>6, <1>8, <1>9 DEF Codec!parse
<1> QED
  BY <1>4, <1>1, <1>6, <1>10 DEF Outcome

(* Integers of 32 bits.                                                    *)
Int32 == {n \in Int : -2147483648 <= n /\ n < 2147483648}

(* The number n stands in front of x.                                      *)
IsPrefixed(y, n, x) ==
    /\ Len(y) = 4 + Len(x) /\ Len(x) \in Nat
    /\ Codec!NetworkToHost(SubSeq(y, 1, 4)) = n
    /\ SubSeq(y, 5, Len(y)) = x

(* A length can be read back, and what follows it.                         *)
LEMMA LengthFacts ==
    ASSUME NEW n \in Int32, NEW x \in Seq(0 .. 255)
    PROVE  \E y \in Seq(0 .. 255) : y = HostToNetwork(n, 4) \o x /\ IsPrefixed(y, n, x)
<1>1. n \in Int
  BY SMT DEF Int32
<1>2. NetworkToHost(HostToNetwork(n, 4)) = n
  BY IntsRoundTrip, SMT DEF Int32
<1>3. PICK z \in Seq(0 .. 255) : z = HostToNetwork(n, 4) /\ Len(z) = 4
  BY <1>1, NetworkBytes
<1>4. z \o x \in Seq(0 .. 255) /\ Len(z \o x) = Len(z) + Len(x)
  BY ConcatFacts
<1>5. SubSeq(z \o x, 1, Len(z)) = z /\ SubSeq(z \o x, Len(z) + 1, Len(z) + Len(x)) = x
  BY CutJoined
<1>6. Codec!NetworkToHost(z) = n
  BY <1>2, <1>3, SameInts
<1>7. Len(x) \in Nat /\ 4 + 1 = 5
  BY ElementsOf
<1>8. IsPrefixed(z \o x, n, x)
  BY <1>3, <1>4, <1>5, <1>6, <1>7 DEF IsPrefixed
<1> QED
  BY <1>3, <1>4, <1>8

(* x with another i-th element.                                           *)
Changed(x, i, v) == [x EXCEPT ![i] = v]

(* y is x but for its i-th element.                                        *)
IsChange(y, x, i, v) ==
    /\ y = Changed(x, i, v) /\ Len(y) = Len(x)
    /\ \A p \in 1 .. Len(x) : y[p] = IF p = i THEN v ELSE x[p]

(* A sequence with a changed element.                                      *)
LEMMA ChangeFacts ==
    ASSUME NEW S, NEW x \in Seq(S), NEW i \in 1 .. Len(x), NEW v \in S
    PROVE  \E y \in Seq(S) : IsChange(y, x, i, v)
<1>1. Changed(x, i, v) \in Seq(S) /\ Len(Changed(x, i, v)) = Len(x)
  BY DEF Changed
<1>2. \A p \in 1 .. Len(x) : Changed(x, i, v)[p] = IF p = i THEN v ELSE x[p]
  BY DEF Changed
<1>3. IsChange(Changed(x, i, v), x, i, v)
  BY <1>1, <1>2 DEF IsChange
<1> QED
  BY <1>1, <1>3

(* A changed element of a joined b.                                        *)
ChangesPart(a, b, v) ==
    /\ \A i \in 1 .. Len(a) : Changed(a \o b, i, v) = Changed(a, i, v) \o b
    /\ \A i \in 1 .. Len(b) : Changed(a \o b, Len(a) + i, v) = a \o Changed(b, i, v)

(* A changed element of what is joined is one of a or of b.                *)
LEMMA ChangeJoined ==
    ASSUME NEW S, NEW a \in Seq(S), NEW b \in Seq(S), NEW v \in S
    PROVE  ChangesPart(a, b, v)
<1>1. PICK x \in Seq(S) : x = a \o b /\ IsJoin(x, a, b)
  BY JoinFacts
<1>2. /\ Len(x) = Len(a) + Len(b) /\ Len(a) \in Nat /\ Len(b) \in Nat
      /\ \A p \in 1 .. Len(a) : x[p] = a[p]
      /\ \A p \in 1 .. Len(b) : x[Len(a) + p] = b[p]
  BY <1>1 DEF IsJoin
<1>3. ASSUME NEW i \in 1 .. Len(a)
      PROVE  Changed(x, i, v) = Changed(a, i, v) \o b
  <2>0. i \in 1 .. Len(x)
    BY <1>2
  <2>1. PICK y \in Seq(S) : IsChange(y, x, i, v)
    BY <2>0, ChangeFacts
  <2>2. PICK c \in Seq(S) : IsChange(c, a, i, v)
    BY <1>2, ChangeFacts
  <2>3. PICK z \in Seq(S) : z = c \o b /\ IsJoin(z, c, b)
    BY JoinFacts
  <2>4. /\ Len(z) = Len(a) + Len(b)
        /\ \A p \in 1 .. Len(a) : z[p] = c[p]
        /\ \A p \in 1 .. Len(b) : z[Len(a) + p] = b[p]
    BY <2>2, <2>3 DEF IsJoin, IsChange
  <2>5. ASSUME NEW p \in 1 .. Len(y) PROVE y[p] = z[p]
    <3>1. CASE p <= Len(a)
      BY <1>2, <2>1, <2>2, <2>4, <3>1 DEF IsChange
    <3>2. CASE p > Len(a)
      <4>1. PICK q \in 1 .. Len(b) : p = Len(a) + q
        <5>1. p - Len(a) \in 1 .. Len(b) /\ p = Len(a) + (p - Len(a))
          BY <1>2, <2>1, <3>2 DEF IsChange
        <5> QED
          BY <5>1
      <4> QED
        BY <1>2, <2>1, <2>4, <3>2, <4>1 DEF IsChange
    <3> QED
      BY <1>2, <2>1, <3>1, <3>2 DEF IsChange
  <2>6. y = z
    BY <1>2, <2>1, <2>4, <2>5, SeqEqual DEF IsChange
  <2> QED
    BY <2>1, <2>2, <2>3, <2>6 DEF IsChange
<1>4. ASSUME NEW i \in 1 .. Len(b) PROVE Changed(x, Len(a) + i, v) = a \o Changed(b, i, v)
  <2>0. PICK k \in 1 .. Len(x) : k = Len(a) + i
    BY <1>2
  <2>1. PICK y \in Seq(S) : IsChange(y, x, k, v)
    BY ChangeFacts
  <2>2. PICK c \in Seq(S) : IsChange(c, b, i, v)
    BY <1>2, ChangeFacts
  <2>3. PICK z \in Seq(S) : z = a \o c /\ IsJoin(z, a, c)
    BY JoinFacts
  <2>4. /\ Len(z) = Len(a) + Len(b)
        /\ \A p \in 1 .. Len(a) : z[p] = a[p]
        /\ \A p \in 1 .. Len(b) : z[Len(a) + p] = c[p]
    BY <2>2, <2>3 DEF IsJoin, IsChange
  <2>5. ASSUME NEW p \in 1 .. Len(y) PROVE y[p] = z[p]
    <3>1. CASE p <= Len(a)
      BY <1>2, <2>0, <2>1, <2>4, <3>1 DEF IsChange
    <3>2. CASE p > Len(a)
      <4>1. PICK q \in 1 .. Len(b) : p = Len(a) + q
        <5>1. p - Len(a) \in 1 .. Len(b) /\ p = Len(a) + (p - Len(a))
          BY <1>2, <2>1, <3>2 DEF IsChange
        <5> QED
          BY <5>1
      <4>2. y[p] = (IF p = k THEN v ELSE x[p]) /\ x[p] = b[q]
        BY <1>2, <2>1, <4>1 DEF IsChange
      <4>3. z[p] = IF q = i THEN v ELSE b[q]
        BY <2>2, <2>4, <4>1 DEF IsChange
      <4>4. p = k <=> q = i
        BY <1>2, <2>0, <4>1
      <4> QED
        BY <4>2, <4>3, <4>4
    <3> QED
      BY <1>2, <2>1, <3>1, <3>2 DEF IsChange
  <2>6. Len(y) = Len(z)
    BY <1>2, <2>1, <2>4 DEF IsChange
  <2>7. y = z
    BY <2>5, <2>6, SeqEqual
  <2> QED
    BY <2>0, <2>1, <2>2, <2>3, <2>7 DEF IsChange
<1> QED
  BY <1>1, <1>3, <1>4 DEF ChangesPart

(* The length a frame tells, and what follows it.                          *)
LengthOf(f) == Codec!NetworkToHost(SubSeq(f.bytes, 1, 4))
BodyOf(f) == SubSeq(f.bytes, 5, Len(f.bytes))

(* A frame is refused for its length, or it has the length it tells and    *)
(* parse() makes of it what it should.                                     *)
Shape(f) ==
    /\ f.bytes \in Seq(0 .. 255) /\ Len(f.bytes) >= Len(Tag) + 8
    /\ \/ /\ f.error = "kInvalidLength" /\ f.message \notin Refused
          /\ LengthOf(f) > kMaxMessageLen \/ LengthOf(f) < Len(Tag) + 4
       \/ /\ LengthOf(f) = Len(f.bytes) - 4 /\ LengthOf(f) <= kMaxMessageLen
          /\ Codec!PayloadOf(BodyOf(f)) = f.message /\ Codec!parse(BodyOf(f)) = f.error

(* A byte that is changed is another byte.                                 *)
LEMMA OtherByte ==
    ASSUME NEW k \in 0 .. 255 PROVE (k + 1) % 256 \in 0 .. 255 /\ (k + 1) % 256 # k
  OBVIOUS

(* Lengths within bounds fit in 32 bits.                                   *)
LEMMA LengthFits == ASSUME NEW n \in Nat, n <= kMaxMessageLen PROVE n \in Int32
  BY CodecAssumption, SMT DEF Int32

(* A frame of a tag, a message and a checksum, with its length in front.   *)
IsFrame(f, t, m, c) ==
    /\ Len(t) = Len(Tag) /\ Len(c) = 4 /\ Len(Tag) + Len(m) + 4 <= kMaxMessageLen
    /\ f.message = m /\ f.error = Outcome(t, m, c)
    /\ f.bytes = HostToNetwork(Len(Tag) + Len(m) + 4, 4) \o ((t \o m) \o c)

(* Such a frame is understood.                                             *)
LEMMA ShapeOf ==
    ASSUME NEW t \in Seq(0 .. 255), NEW m \in Seq(0 .. 255), NEW c \in Seq(0 .. 255), NEW f, IsFrame(f, t, m, c)
    PROVE  Shape(f)
<1>0. /\ Len(t) = Len(Tag) /\ Len(c) = 4 /\ Len(Tag) + Len(m) + 4 <= kMaxMessageLen
      /\ f.message = m /\ f.error = Outcome(t, m, c)
      /\ f.bytes = HostToNetwork(Len(Tag) + Len(m) + 4, 4) \o ((t \o m) \o c)
  BY DEF IsFrame
<1>1. PICK x \in Seq(0 .. 255) : x = t \o m /\ IsJoin(x, t, m)
  BY JoinFacts, ZenonT(60)
<1>2. PICK body \in Seq(0 .. 255) : body = x \o c /\ IsJoin(body, x, c)
  BY JoinFacts, ZenonT(60)
<1>3. PICK n \in Nat : n = Len(Tag) + Len(m) + 4 /\ n = Len(body) /\ Len(m) \in Nat /\ Len(Tag) \in Nat
  BY <1>0, <1>1, <1>2 DEF IsJoin
<1>4. n \in Int32
  BY <1>0, <1>3, LengthFits
<1>5. PICK y \in Seq(0 .. 255) : y = HostToNetwork(n, 4) \o body /\ IsPrefixed(y, n, body)
  BY <1>4, LengthFacts, ZenonT(60)
<1>6. f.bytes = y
  BY <1>0, <1>1, <1>2, <1>3, <1>5
<1>7. LengthOf(f) = n /\ BodyOf(f) = body
  BY <1>5, <1>6 DEF LengthOf, BodyOf, IsPrefixed
<1>8. Codec!PayloadOf(body) = m /\ Codec!parse(body) = f.error
  <2>1. body = (t \o m) \o c
    BY <1>1, <1>2
  <2>2. t \in Seq(0 .. 255) /\ Len(t) = Len(Tag) /\ m \in Seq(0 .. 255) /\ c \in Seq(0 .. 255) /\ Len(c) = 4
    BY <1>0
  <2>3. /\ Codec!PayloadOf((t \o m) \o c) = m
        /\ Codec!parse((t \o m) \o c) = Outcome(t, m, c)
    BY ONLY <2>2, BodyFacts, ZenonT(60)
  <2> QED
    BY <1>0, <2>1, <2>3
<1>9. Len(f.bytes) >= Len(Tag) + 8 /\ n = Len(f.bytes) - 4
  BY <1>3, <1>5, <1>6, SMTT(40) DEF IsPrefixed
<1> QED
  BY <1>0, <1>3, <1>5, <1>6, <1>7, <1>8, <1>9 DEF Shape

(* Frames that send() writes.                                              *)
LEMMA GoodShape == ASSUME NEW f \in Codec!Good PROVE Shape(f)
<1>1. PICK m \in Messages :
        f = Codec!Frame(IF m \in Unparsable THEN "kParseError" ELSE "kNoError", m, Codec!fillEmptyBuffer(Tag, m))
  BY DEF Codec!Good
<1>2. m \in Seq(0 .. 255) /\ Len(Tag) + Len(m) + 4 <= kMaxMessageLen /\ Tag \in Seq(0 .. 255)
  BY MessageFacts
<1>3. f.message = m /\ f.bytes = Codec!fillEmptyBuffer(Tag, m)
  BY <1>1 DEF Codec!Frame
<1>4. PICK c \in Seq(0 .. 255) : c = Codec!checksum(Tag \o m) /\ Len(c) = 4
  <2>1. Tag \o m \in Seq(0 .. 255)
    BY <1>2, ConcatFacts
  <2> QED
    BY <2>1, ChecksumFacts, ZenonT(60)
<1>5. f.bytes = HostToNetwork(Len(Tag) + Len(m) + 4, 4) \o ((Tag \o m) \o c)
  BY <1>2, <1>3, <1>4, FilledFacts, ZenonT(60) DEF Sealed
<1>6. f.error = Outcome(Tag, m, c)
  <2>1. f.error = IF m \in Unparsable THEN "kParseError" ELSE "kNoError"
    BY <1>1 DEF Codec!Frame
  <2> QED
    BY <1>4, <2>1 DEF Outcome
<1>7. IsFrame(f, Tag, m, c)
  BY <1>2, <1>3, <1>4, <1>5, <1>6 DEF IsFrame
<1> QED
  BY <1>2, <1>7, ShapeOf

(* The least of some numbers.                                              *)
LEMMA Least == ASSUME NEW T \in SUBSET Nat, T # {} PROVE \E n \in T : \A m \in T : n <= m
<1> DEFINE R == OpToRel(<, Nat)
<1>1. IsWellFoundedOn(R, Nat)
  BY NatLessThanWellFounded
<1>2. PICK n \in T : \A m \in T : ~ (<<m, n>> \in R)
  <2> HIDE DEF R
  <2> QED
    BY <1>1, WFMin
<1>3. \A m \in T : ~ (m < n)
  BY <1>2 DEF OpToRel
<1> QED
  BY <1>3

(* The message of the damaged frames.                                      *)
Shortest == CHOOSE x \in Messages \ Refused : \A y \in Messages \ Refused : Len(x) <= Len(y)

(* There is one.                                                           *)
LEMMA ShortestFacts ==
    /\ Shortest \in Messages /\ Shortest \notin Refused /\ Shortest \in Seq(0 .. 255)
    /\ Len(Tag) + Len(Shortest) + 4 <= kMaxMessageLen /\ Len(Shortest) \in Nat
<1> DEFINE T == {Len(x) : x \in Messages \ Refused}
<1>1. Messages \ Refused # {}
  BY CodecAssumption, SMT
<1>2. \A x \in Messages : Len(x) \in Nat
  BY MessageFacts, ElementsOf
<1>3. T \in SUBSET Nat /\ T # {}
  BY <1>1, <1>2
<1>4. \E x \in Messages \ Refused : \A y \in Messages \ Refused : Len(x) <= Len(y)
  <2>1. PICK n \in T : \A k \in T : n <= k
    <3> HIDE DEF T
    <3> QED
      BY <1>3, Least
  <2> QED
    BY <2>1
<1>5. Shortest \in Messages \ Refused
  BY <1>4 DEF Shortest
<1> QED
  BY <1>2, <1>5, MessageFacts

(* Lengths that are refused.                                               *)
LEMMA BadLengthFacts ==
    ASSUME NEW n \in Codec!BadLengths
    PROVE  n \in Int32 /\ (n > kMaxMessageLen \/ n < Len(Tag) + 4)
<1>1. Len(Tag) \in Nat /\ kMaxMessageLen \in Nat /\ Len(Tag) + 3 <= kMaxMessageLen
  BY MessageFacts, ShortestFacts
<1>2. kMaxMessageLen < 2147483647
  BY CodecAssumption, SMT
<1> QED
  BY <1>1, <1>2, SMT DEF Codec!BadLengths, Codec!kMinMessageLen, Codec!kChecksumLen, Int32

(* The first byte of the tag damaged.                                      *)
OtherTag == [Tag EXCEPT ![1] = (@ + 1) % 256]

(* It is another tag, and makes another sum.                               *)
LEMMA OtherTagFacts ==
    /\ OtherTag \in Seq(0 .. 255) /\ Len(OtherTag) = Len(Tag) /\ OtherTag # Tag
    /\ \A m \in Seq(0 .. 255) : Codec!checksum(OtherTag \o m) # Codec!checksum(Tag \o m)
    /\ OtherTag = Changed(Tag, 1, (Tag[1] + 1) % 256)
<1>1. Tag \in Seq(0 .. 255) /\ Len(Tag) \in Nat /\ Len(Tag) > 0 /\ 1 \in 1 .. Len(Tag)
  BY MessageFacts
<1>2. Tag[1] \in 0 .. 255
  BY <1>1, ElementsOf
<1>3. PICK v \in 0 .. 255 : v = (Tag[1] + 1) % 256 /\ v # Tag[1]
  BY <1>2, OtherByte
<1>4. OtherTag = Changed(Tag, 1, v)
  BY <1>3, SMT DEF OtherTag, Changed
<1>5. PICK t \in Seq(0 .. 255) : IsChange(t, Tag, 1, v)
  BY <1>1, ChangeFacts, ZenonT(60)
<1>6. OtherTag = t /\ Len(t) = Len(Tag) /\ t[1] = v /\ \A i \in 2 .. Len(Tag) : t[i] = Tag[i]
  BY <1>1, <1>4, <1>5 DEF IsChange
<1>7. ASSUME NEW m \in Seq(0 .. 255) PROVE Codec!checksum(t \o m) # Codec!checksum(Tag \o m)
  <2>1. PICK x \in Seq(0 .. 255) : x = t \o m /\ IsJoin(x, t, m)
    BY JoinFacts, ZenonT(60)
  <2>2. PICK y \in Seq(0 .. 255) : y = Tag \o m /\ IsJoin(y, Tag, m)
    BY <1>1, JoinFacts, ZenonT(60)
  <2>3. /\ Len(x) = Len(Tag) + Len(m) /\ Len(y) = Len(Tag) + Len(m) /\ Len(m) \in Nat
        /\ \A p \in 1 .. Len(Tag) : x[p] = t[p] /\ y[p] = Tag[p]
        /\ \A p \in 1 .. Len(m) : x[Len(Tag) + p] = m[p] /\ y[Len(Tag) + p] = m[p]
    BY <1>6, <2>1, <2>2 DEF IsJoin
  <2>4. x[1] # y[1] /\ Len(x) = Len(y) /\ Len(x) > 0
    BY <1>1, <1>3, <1>6, <2>3
  <2>5. ASSUME NEW i \in 2 .. Len(x) PROVE x[i] = y[i]
    <3>1. CASE i <= Len(Tag)
      BY <1>1, <1>6, <2>3, <3>1
    <3>2. CASE i > Len(Tag)
      <4>1. i - Len(Tag) \in 1 .. Len(m) /\ Len(Tag) + (i - Len(Tag)) = i
        BY <1>1, <2>3, <3>2
      <4>2. x[Len(Tag) + (i - Len(Tag))] = y[Len(Tag) + (i - Len(Tag))]
        BY <2>3, <4>1
      <4> QED
        BY <4>1, <4>2
    <3> QED
      BY <1>1, <2>3, <3>1, <3>2
  <2>6. Codec!checksum(x) # Codec!checksum(y)
    BY <2>4, <2>5, ChecksumDiffers
  <2> QED
    BY <2>1, <2>2, <2>6
<1> QED
  BY <1>3, <1>4, <1>6, <1>7

(* The frame that is damaged.                                              *)
LEMMA DamagedBytes ==
    \E h \in Seq(0 .. 255), x \in Seq(0 .. 255), c \in Seq(0 .. 255) :
        /\ h = HostToNetwork(Len(Tag) + Len(Shortest) + 4, 4) /\ Len(h) = 4
        /\ x = Tag \o Shortest /\ Len(x) = Len(Tag) + Len(Shortest)
        /\ c = Codec!checksum(x) /\ Len(c) = 4
        /\ Codec!fillEmptyBuffer(Tag, Shortest) = h \o (x \o c)
<1>1. Shortest \in Seq(0 .. 255) /\ Tag \in Seq(0 .. 255) /\ Len(Shortest) \in Nat /\ Len(Tag) \in Nat
  BY MessageFacts, ShortestFacts
<1>2. Len(Tag) + Len(Shortest) + 4 \in Int
  BY <1>1
<1>3. PICK h \in Seq(0 .. 255) : h = HostToNetwork(Len(Tag) + Len(Shortest) + 4, 4) /\ Len(h) = 4
  BY <1>2, NetworkBytes
<1>4. PICK x \in Seq(0 .. 255) : x = Tag \o Shortest /\ IsJoin(x, Tag, Shortest)
  BY <1>1, JoinFacts, ZenonT(60)
<1>5. PICK c \in Seq(0 .. 255) : c = Codec!checksum(x) /\ Len(c) = 4
  BY ChecksumFacts
<1>6. Codec!fillEmptyBuffer(Tag, Shortest) = h \o (x \o c)
  BY <1>1, <1>3, <1>4, <1>5, FilledFacts, ZenonT(60) DEF Sealed
<1> QED
  BY <1>3, <1>4, <1>5, <1>6, ZenonT(60) DEF IsJoin

(* What a frame becomes when a byte is changed, the first of its tag or    *)
(* the n-th of its checksum.                                               *)
TagChanged(h, t, m, c, v) ==
    Changed(h \o ((t \o m) \o c), Len(h) + 1, v) = h \o ((Changed(t, 1, v) \o m) \o c)

SumChanged(h, x, c, n, v) ==
    Changed(h \o (x \o c), Len(h) + (Len(x) + n), v) = h \o (x \o Changed(c, n, v))

(* A damaged tag is one part damaged.                                      *)
LEMMA FirstChanged ==
    ASSUME NEW S, NEW h \in Seq(S), NEW t \in Seq(S), NEW m \in Seq(S), NEW c \in Seq(S), NEW v \in S,
           Len(t) > 0
    PROVE  TagChanged(h, t, m, c, v)
<1>1. PICK x \in Seq(S) : x = t \o m /\ IsJoin(x, t, m)
  BY JoinFacts
<1>2. PICK y \in Seq(S) : y = x \o c /\ IsJoin(y, x, c)
  BY JoinFacts
<1>3. 1 \in 1 .. Len(t) /\ 1 \in 1 .. Len(x) /\ 1 \in 1 .. Len(y)
  BY <1>1, <1>2 DEF IsJoin
<1>4. ChangesPart(t, m, v) /\ ChangesPart(x, c, v) /\ ChangesPart(h, y, v)
  BY ChangeJoined
<1>5. Changed(x, 1, v) = Changed(t, 1, v) \o m
  BY <1>1, <1>3, <1>4 DEF ChangesPart
<1>6. Changed(y, 1, v) = Changed(x, 1, v) \o c
  BY <1>2, <1>3, <1>4 DEF ChangesPart
<1>7. Changed(h \o y, Len(h) + 1, v) = h \o Changed(y, 1, v)
  BY <1>3, <1>4 DEF ChangesPart
<1> QED
  BY <1>1, <1>2, <1>5, <1>6, <1>7 DEF TagChanged

(* And so is a damaged checksum.                                           *)
LEMMA LastChanged ==
    ASSUME NEW S, NEW h \in Seq(S), NEW x \in Seq(S), NEW c \in Seq(S), NEW v \in S, NEW n \in 1 .. Len(c)
    PROVE  SumChanged(h, x, c, n, v)
<1>1. PICK y \in Seq(S) : y = x \o c /\ IsJoin(y, x, c)
  BY JoinFacts
<1>2. PICK l \in 1 .. Len(y) : l = Len(x) + n
  BY <1>1 DEF IsJoin
<1>3. ChangesPart(x, c, v) /\ ChangesPart(h, y, v)
  BY ChangeJoined
<1>4. Changed(x \o c, Len(x) + n, v) = x \o Changed(c, n, v)
  BY <1>3 DEF ChangesPart
<1>5. Changed(h \o y, Len(h) + l, v) = h \o Changed(y, l, v)
  BY <1>3 DEF ChangesPart
<1> QED
  BY <1>1, <1>2, <1>4, <1>5 DEF SumChanged

(* Damaged frames.                                                         *)
LEMMA DamagedShape == ASSUME NEW f \in Codec!Damaged PROVE Shape(f) /\ f.message \notin Refused
<1> DEFINE m == Shortest
           frame == Codec!fillEmptyBuffer(Tag, m)
<1>1. /\ m \in Seq(0 .. 255) /\ m \notin Refused /\ Len(Tag) + Len(m) + 4 <= kMaxMessageLen
      /\ Len(m) \in Nat /\ Tag \in Seq(0 .. 255) /\ Len(Tag) \in Nat /\ Len(Tag) > 0
  BY MessageFacts, ShortestFacts
<1>2. \/ \E i \in {5, Len(frame)} : f = Codec!Frame("kCheckSumError", m, [frame EXCEPT ![i] = (@ + 1) % 256])
      \/ f = Codec!Frame("kUnknownMessageType", m, Codec!fillEmptyBuffer(OtherTag, m))
      \/ \E n \in Codec!BadLengths :
           f = Codec!Frame("kInvalidLength", m, HostToNetwork(n, 4) \o SubSeq(frame, 5, Len(frame)))
  BY SameInts, SMT DEF Codec!Damaged, Shortest, OtherTag
<1>3. PICK h \in Seq(0 .. 255), x \in Seq(0 .. 255), c \in Seq(0 .. 255) :
        /\ h = HostToNetwork(Len(Tag) + Len(m) + 4, 4) /\ Len(h) = 4
        /\ x = Tag \o m /\ Len(x) = Len(Tag) + Len(m)
        /\ c = Codec!checksum(x) /\ Len(c) = 4
        /\ frame = h \o (x \o c)
  BY DamagedBytes
<1>4. PICK y \in Seq(0 .. 255) : y = x \o c /\ IsJoin(y, x, c)
  BY JoinFacts, ZenonT(60)
<1>5. PICK z \in Seq(0 .. 255) : z = h \o y /\ IsJoin(z, h, y)
  BY JoinFacts, ZenonT(60)
<1>6. /\ frame = z /\ Len(y) = Len(Tag) + Len(m) + 4 /\ Len(z) = 4 + Len(y)
      /\ \A p \in 1 .. Len(y) : z[4 + p] = y[p]
  BY <1>3, <1>4, <1>5, ZenonT(60) DEF IsJoin
<1> HIDE DEF frame, m
<1>7. f.message = m
  BY <1>2 DEF Codec!Frame
<1>8. ASSUME NEW i \in {5, Len(frame)}, f = Codec!Frame("kCheckSumError", m, [frame EXCEPT ![i] = (@ + 1) % 256])
      PROVE  Shape(f)
  <2>1. f.error = "kCheckSumError" /\ f.bytes = [z EXCEPT ![i] = (@ + 1) % 256]
    BY <1>6, <1>8 DEF Codec!Frame
  <2>2. i \in 1 .. Len(z)
    BY <1>1, <1>6
  <2>3. PICK v \in 0 .. 255 : v = (z[i] + 1) % 256 /\ v # z[i]
    <3>1. z[i] \in 0 .. 255
      BY <2>2, ElementsOf, SMTT(40)
    <3>2. (z[i] + 1) % 256 \in 0 .. 255 /\ (z[i] + 1) % 256 # z[i]
      BY <3>1, OtherByte
    <3> QED
      BY <3>2
  <2>4. f.bytes = Changed(z, i, v)
    BY <2>1, <2>3, SMT DEF Changed
  <2>5. CASE i = 5
    <3>1. 1 \in 1 .. Len(y) /\ 1 \in 1 .. Len(x) /\ 1 \in 1 .. Len(Tag)
      BY <1>1, <1>3, <1>6
    <3>2. 5 = Len(h) + 1
      <4>1. Len(h) = 4
        BY <1>3
      <4> QED
        BY ONLY <4>1
    <3>3. Changed(h \o ((Tag \o m) \o c), 5, v) = h \o ((Changed(Tag, 1, v) \o m) \o c)
      <4>1. TagChanged(h, Tag, m, c, v)
        BY <1>1, FirstChanged, ZenonT(60)
      <4> QED
        BY <3>2, <4>1 DEF TagChanged
    <3>4. z = h \o ((Tag \o m) \o c)
      BY <1>3, <1>4, <1>5
    <3>5. v = (Tag[1] + 1) % 256
      <4>1. z[4 + 1] = y[1]
        BY <1>6, <3>1
      <4>2. y[1] = x[1]
        BY <1>4, <3>1 DEF IsJoin
      <4>3. PICK w \in Seq(0 .. 255) : w = Tag \o m /\ IsJoin(w, Tag, m)
        BY <1>1, JoinFacts, ZenonT(60)
      <4>4. x[1] = Tag[1]
        BY <1>3, <3>1, <4>3 DEF IsJoin
      <4>5. 4 + 1 = 5
        OBVIOUS
      <4> QED
        BY <2>3, <2>5, <4>1, <4>2, <4>4, <4>5
    <3>6. f.bytes = h \o ((OtherTag \o m) \o c)
      <4>1. Changed(Tag, 1, v) = OtherTag
        BY <3>5, OtherTagFacts
      <4> QED
        BY <2>4, <2>5, <3>3, <3>4, <4>1
    <3>7. f.error = Outcome(OtherTag, m, c)
      BY <1>1, <1>3, <2>1, OtherTagFacts DEF Outcome
    <3>8. f.bytes = HostToNetwork(Len(Tag) + Len(m) + 4, 4) \o ((OtherTag \o m) \o c) /\ Len(c) = 4
      BY <1>3, <3>6
    <3>9. OtherTag \in Seq(0 .. 255) /\ Len(OtherTag) = Len(Tag)
      BY OtherTagFacts
    <3> QED
      <4>1. IsFrame(f, OtherTag, m, c)
        BY <1>1, <1>7, <3>7, <3>8, <3>9 DEF IsFrame
      <4> QED
        BY <1>1, <3>9, <4>1, ShapeOf
  <2>6. CASE i = Len(frame)
    <3>1. /\ Len(x) \in Nat /\ Len(y) \in 1 .. Len(y) /\ Len(y) = Len(x) + 4
          /\ i = Len(h) + (Len(x) + 4) /\ i = 4 + Len(y) /\ 4 \in 1 .. Len(c)
      <4>0. Len(x) \in Nat
        BY ElementsOf
      <4>1. Len(y) = Len(x) + 4 /\ Len(frame) = 4 + Len(y)
        BY <1>1, <1>3, <1>6
      <4>2. Len(y) \in 1 .. Len(y)
        BY <4>0, <4>1
      <4>3. i = Len(h) + (Len(x) + 4) /\ i = 4 + Len(y)
        BY <1>3, <2>6, <4>0, <4>1
      <4>4. 4 \in 1 .. Len(c)
        BY <1>3
      <4> QED
        BY <4>0, <4>1, <4>2, <4>3, <4>4
    <3>2. Changed(h \o (x \o c), i, v) = h \o (x \o Changed(c, 4, v))
      <4>1. SumChanged(h, x, c, 4, v)
        BY <3>1, LastChanged, ZenonT(60)
      <4> QED
        BY <3>1, <4>1 DEF SumChanged
    <3>3. z = h \o (x \o c)
      BY <1>4, <1>5
    <3>4. PICK d \in Seq(0 .. 255) : IsChange(d, c, 4, v)
      BY <3>1, ChangeFacts, ZenonT(60)
    <3>5. d # c /\ Len(d) = 4 /\ d = Changed(c, 4, v)
      <4>1. z[4 + Len(y)] = y[Len(y)]
        BY <1>6, <3>1
      <4>2. y[Len(x) + 4] = c[4]
        BY <1>4, <3>1 DEF IsJoin
      <4>3. v # c[4]
        BY <2>3, <3>1, <4>1, <4>2
      <4> QED
        BY <1>3, <3>1, <3>4, <4>3 DEF IsChange
    <3>6. f.bytes = h \o ((Tag \o m) \o d)
      BY <1>3, <2>4, <3>2, <3>3, <3>5
    <3>7. f.error = Outcome(Tag, m, d)
      BY <1>3, <2>1, <3>5 DEF Outcome
    <3>8. f.bytes = HostToNetwork(Len(Tag) + Len(m) + 4, 4) \o ((Tag \o m) \o d) /\ Len(d) = 4
      BY <1>3, <3>5, <3>6
    <3> QED
      <4>1. IsFrame(f, Tag, m, d)
        BY <1>1, <1>7, <3>7, <3>8 DEF IsFrame
      <4> QED
        BY <1>1, <4>1, ShapeOf
  <2> QED
    BY <2>5, <2>6
<1>9. ASSUME f = Codec!Frame("kUnknownMessageType", m, Codec!fillEmptyBuffer(OtherTag, m)) PROVE Shape(f)
  <2>1. f.error = "kUnknownMessageType" /\ f.bytes = Codec!fillEmptyBuffer(OtherTag, m)
    BY <1>9 DEF Codec!Frame
  <2>2. PICK d \in Seq(0 .. 255) : d = Codec!checksum(OtherTag \o m) /\ Len(d) = 4
    <3>1. OtherTag \o m \in Seq(0 .. 255)
      BY <1>1, ConcatFacts, OtherTagFacts
    <3> QED
      BY <3>1, ChecksumFacts, ZenonT(60)
  <2>3. f.bytes = HostToNetwork(Len(OtherTag) + Len(m) + 4, 4) \o Sealed(OtherTag, m)
    <3>1. OtherTag \in Seq(0 .. 255)
      BY OtherTagFacts
    <3> QED
      BY <1>1, <2>1, <3>1, FilledFacts
  <2>4. f.bytes = HostToNetwork(Len(Tag) + Len(m) + 4, 4) \o ((OtherTag \o m) \o d)
    BY <2>2, <2>3, OtherTagFacts DEF Sealed
  <2>5. f.error = Outcome(OtherTag, m, d)
    BY <2>1, <2>2, OtherTagFacts DEF Outcome
  <2>6. OtherTag \in Seq(0 .. 255) /\ Len(OtherTag) = Len(Tag)
    BY OtherTagFacts
  <2> QED
    <3>1. IsFrame(f, OtherTag, m, d)
      BY <1>1, <1>7, <2>2, <2>4, <2>5, <2>6 DEF IsFrame
    <3> QED
      BY <1>1, <2>6, <3>1, ShapeOf
<1>10. ASSUME NEW n \in Codec!BadLengths,
              f = Codec!Frame("kInvalidLength", m, HostToNetwork(n, 4) \o SubSeq(frame, 5, Len(frame)))
       PROVE  Shape(f)
  <2>1. f.error = "kInvalidLength" /\ f.bytes = HostToNetwork(n, 4) \o SubSeq(frame, 5, Len(frame))
    BY <1>10 DEF Codec!Frame
  <2>2. SubSeq(frame, 5, Len(frame)) = y
    <3>1. SubSeq(h \o y, Len(h) + 1, Len(h) + Len(y)) = y
      BY CutJoined
    <3> QED
      BY <1>3, <1>5, <1>6, <3>1, SMTT(40)
  <2>3. n \in Int32 /\ (n > kMaxMessageLen \/ n < Len(Tag) + 4)
    BY BadLengthFacts
  <2>4. PICK w \in Seq(0 .. 255) : w = HostToNetwork(n, 4) \o y /\ IsPrefixed(w, n, y)
    BY <2>3, LengthFacts, ZenonT(60)
  <2>5. f.bytes = w /\ LengthOf(f) = n /\ Len(w) >= Len(Tag) + 8
    <3>1. f.bytes = w
      BY <2>1, <2>2, <2>4
    <3>2. LengthOf(f) = n
      BY <2>4, <3>1 DEF LengthOf, IsPrefixed
    <3>3. Len(w) = 4 + Len(y)
      BY <2>4 DEF IsPrefixed
    <3> QED
      BY <1>1, <1>6, <3>1, <3>2, <3>3
  <2> QED
    BY <1>1, <1>7, <2>1, <2>3, <2>4, <2>5 DEF Shape
<1> QED
  BY <1>1, <1>2, <1>7, <1>8, <1>9, <1>10

(* The first elements of y are those of x.                                *)
Begins(x, y) == Len(x) <= Len(y) /\ \A p \in 1 .. Len(x) : y[p] = x[p]

(* What is joined first stays in front.                                    *)
LEMMA SumGrows ==
    ASSUME NEW S, NEW n \in Nat, NEW s \in [1 .. n -> Seq(S)], NEW f, IsSum(f, s, n, S)
    PROVE  \A i \in 0 .. n : Begins(f[i], f[n])
<1> DEFINE Within(i, m) == /\ Len(f[i]) <= Len(f[m])
                           /\ \A p \in 1 .. Len(f[i]) : f[m][p] = f[i][p]
           T == {m \in Nat : m <= n => \A i \in 0 .. m : Within(i, m)}
<1>0. \A i \in 0 .. n : f[i] \in Seq(S) /\ Len(f[i]) \in Nat
  BY DEF IsSum
<1>1. 0 \in T
  BY <1>0
<1>2. ASSUME NEW m \in Nat, m \in T PROVE m + 1 \in T
  <2> SUFFICES ASSUME m + 1 <= n, NEW i \in 0 .. m + 1 PROVE Within(i, m + 1)
    OBVIOUS
  <2>1. f[m + 1] = f[m] \o s[m + 1] /\ f[m] \in Seq(S) /\ s[m + 1] \in Seq(S)
    <3>1. m + 1 \in 1 .. n /\ (m + 1) - 1 = m
      OBVIOUS
    <3>2. f[m + 1] = f[(m + 1) - 1] \o s[m + 1]
      BY <3>1 DEF IsSum
    <3> QED
      BY <1>0, <3>1, <3>2
  <2>2. Within(m, m + 1)
    <3> DEFINE a == f[m]
               b == s[m + 1]
    <3>1. a \in Seq(S) /\ b \in Seq(S) /\ f[m + 1] = a \o b
      BY <2>1
    <3>2. Len(a) <= Len(f[m + 1]) /\ \A p \in 1 .. Len(a) : f[m + 1][p] = a[p]
      <4> HIDE DEF a, b
      <4> QED
        BY <3>1, ConcatFacts
    <3> QED
      BY <3>2
  <2>3. CASE i = m + 1
    BY <1>0, <2>3
  <2>4. CASE i # m + 1
    <3>1. i \in 0 .. m /\ i \in 0 .. n /\ m \in 0 .. n /\ m + 1 \in 0 .. n
      BY <2>4
    <3>2. Within(i, m)
      BY <1>2, <3>1
    <3>3. Len(f[i]) \in Nat /\ Len(f[m]) \in Nat /\ Len(f[m + 1]) \in Nat
      BY <1>0, <3>1
    <3>4. ASSUME NEW p \in 1 .. Len(f[i]) PROVE f[m + 1][p] = f[i][p]
      <4>1. p \in 1 .. Len(f[m])
        BY <3>2, <3>3
      <4> QED
        BY <2>2, <3>2, <4>1
    <3> QED
      BY <2>2, <3>2, <3>3, <3>4
  <2> QED
    BY <2>3, <2>4
<1> HIDE DEF T
<1>3. Nat \subseteq T
  BY <1>1, <1>2, Induction
<1> QED
  BY <1>3 DEF T, Begins

-----------------------------------------------------------------------------
(* The stream, and where its frames end.                                   *)

Layout(e) ==
    /\ Len(frames) \in Nat /\ DOMAIN frames = 1 .. Len(frames)
    /\ \A i \in 1 .. Len(frames) : Shape(frames[i])
    /\ e \in [0 .. Len(frames) -> Nat] /\ e[0] = 0
    /\ \A i \in 1 .. Len(frames) : e[i] = e[i - 1] + Len(frames[i].bytes)
    /\ Codec!Stream \in Seq(0 .. 255) /\ Len(Codec!Stream) = e[Len(frames)]
    /\ \A i \in 1 .. Len(frames) : \A p \in 1 .. Len(frames[i].bytes) :
         Codec!Stream[e[i - 1] + p] = frames[i].bytes[p]
    /\ \A i \in 0 .. Len(frames) : Codec!Ahead(i) = e[i]

(* The frames of a peer are understood.                                    *)
LEMMA ScriptFacts ==
    ASSUME NEW s \in Codec!Scripts
    PROVE  Len(s) \in Nat /\ DOMAIN s = 1 .. Len(s) /\ \A i \in 1 .. Len(s) : Shape(s[i])
<1>1. PICK n \in 1 .. MaxFrames : s \in [1 .. n -> Codec!Good \cup Codec!Damaged]
  BY DEF Codec!Scripts
<1>2. n \in Nat
  <2>1. MaxFrames \in Nat
    BY CodecAssumption, SMT
  <2> QED
    BY <2>1
<1>3. Len(s) = n /\ DOMAIN s = 1 .. n
  BY <1>1, <1>2
<1>4. \A i \in 1 .. n : s[i] \in Codec!Good \/ s[i] \in Codec!Damaged
  BY <1>1
<1> QED
  BY <1>2, <1>3, <1>4, GoodShape, DamagedShape

(* Where they end in the stream.                                           *)
LEMMA LayoutExists ==
    ASSUME Len(frames) \in Nat, DOMAIN frames = 1 .. Len(frames),
           \A i \in 1 .. Len(frames) : Shape(frames[i])
    PROVE  \E e : Layout(e)
<1>1. PICK n \in Nat : n = Len(frames)
  OBVIOUS
<1> DEFINE S == 0 .. 255
           s == [i \in 1 .. n |-> frames[i].bytes]
<1>2. s \in [1 .. n -> Seq(S)] /\ \A i \in 1 .. n : s[i] = frames[i].bytes /\ s[i] \in Seq(S)
  BY <1>1 DEF Shape
<1>3. Codec!Stream = Codec!FlattenSeq(s)
  BY <1>1 DEF Codec!Stream
<1>4. \A i \in 1 .. n : Shape(frames[i])
  BY <1>1
<1>5. DOMAIN frames = 1 .. n
  BY <1>1
<1> HIDE DEF S
<1>6. \A i \in 0 .. n : Codec!Ahead(i) = Len(Codec!FlattenSeq([j \in 1 .. i |-> s[j]]))
  <2> SUFFICES ASSUME NEW i \in 0 .. n
               PROVE  Codec!Ahead(i) = Len(Codec!FlattenSeq([j \in 1 .. i |-> s[j]]))
    OBVIOUS
  <2>1. [j \in 1 .. i |-> frames[j].bytes] = [j \in 1 .. i |-> s[j]]
    BY <1>1
  <2> HIDE DEF s
  <2> QED
    BY <2>1 DEF Codec!Ahead
<1> HIDE DEF s
<1>7. PICK f : IsSum(f, s, n, S)
  BY <1>2, SumExists
<1>8. /\ f \in [0 .. n -> Seq(S)] /\ f[0] = <<>> /\ \A i \in 1 .. n : f[i] = f[i - 1] \o s[i]
      /\ \A i \in 0 .. n : f[i] \in Seq(S)
  BY <1>7 DEF IsSum
<1>9. Codec!Stream = f[n]
  BY <1>2, <1>3, <1>7, Flattened
<1>10. \A i \in 0 .. n : /\ Len(f[i]) <= Len(f[n])
                         /\ \A p \in 1 .. Len(f[i]) : f[n][p] = f[i][p]
  <2>1. \A i \in 0 .. n : Begins(f[i], f[n])
    BY <1>2, <1>7, SumGrows
  <2> QED
    BY <2>1 DEF Begins
<1>11. \A i \in 0 .. n : Codec!Ahead(i) = Len(f[i])
  <2> SUFFICES ASSUME NEW i \in 0 .. n PROVE Codec!Ahead(i) = Len(f[i])
    OBVIOUS
  <2> DEFINE u == [j \in 1 .. i |-> s[j]]
             g == [j \in 0 .. i |-> f[j]]
  <2>1. i \in Nat /\ u \in [1 .. i -> Seq(S)] /\ g[i] = f[i]
    BY <1>2
  <2>2. IsSum(g, u, i, S)
    <3>1. g \in [0 .. i -> Seq(S)] /\ g[0] = <<>>
      BY <1>8
    <3>2. ASSUME NEW k \in 1 .. i PROVE g[k] = g[k - 1] \o u[k]
      <4>1. k \in 1 .. n /\ k \in 0 .. i /\ k - 1 \in 0 .. i
        OBVIOUS
      <4>2. f[k] = f[k - 1] \o s[k]
        BY <1>8, <4>1
      <4> QED
        BY <4>1, <4>2
    <3> HIDE DEF g, u
    <3> QED
      BY <3>1, <3>2 DEF IsSum
  <2> HIDE DEF g
  <2>3. Codec!FlattenSeq(u) = g[i]
    <3> HIDE DEF u
    <3> QED
      BY <2>1, <2>2, Flattened
  <2> QED
    BY <1>6, <2>1, <2>3
<1> DEFINE e == [i \in 0 .. n |-> Len(f[i])]
<1>12. e \in [0 .. n -> Nat] /\ e[0] = 0 /\ \A i \in 0 .. n : e[i] = Len(f[i])
  BY <1>8
<1> HIDE DEF e
<1>13. ASSUME NEW i \in 1 .. n
       PROVE  /\ e[i] = e[i - 1] + Len(frames[i].bytes)
              /\ \A p \in 1 .. Len(frames[i].bytes) : Codec!Stream[e[i - 1] + p] = frames[i].bytes[p]
  <2>1. i \in 0 .. n /\ i - 1 \in 0 .. n
    OBVIOUS
  <2>2. PICK a \in Seq(S) : a = f[i - 1]
    BY <1>8, <2>1
  <2>3. PICK b \in Seq(S) : b = s[i] /\ b = frames[i].bytes
    BY <1>2
  <2>4. PICK x \in Seq(S) : x = a \o b /\ IsJoin(x, a, b)
    BY JoinFacts
  <2>5. f[i] = x
    BY <1>8, <2>2, <2>3, <2>4
  <2>6. e[i] = Len(x) /\ e[i - 1] = Len(a)
    BY <1>12, <2>1, <2>2, <2>5
  <2>7. ASSUME NEW p \in 1 .. Len(b) PROVE Codec!Stream[Len(a) + p] = b[p]
    <3>1. Len(a) + p \in 1 .. Len(x) /\ x[Len(a) + p] = b[p]
      BY <2>4 DEF IsJoin
    <3> QED
      BY <1>9, <1>10, <2>1, <2>5, <3>1
  <2>8. Len(x) = Len(a) + Len(b)
    BY <2>4 DEF IsJoin
  <2> QED
    BY <2>3, <2>6, <2>7, <2>8
<1>14. Codec!Stream \in Seq(0 .. 255) /\ Len(Codec!Stream) = e[n]
  BY <1>8, <1>9, <1>12 DEF S
<1>15. \A i \in 0 .. n : Codec!Ahead(i) = e[i]
  BY <1>11, <1>12
<1>16. Layout(e)
  BY <1>1, <1>4, <1>5, <1>12, <1>13, <1>14, <1>15 DEF Layout
<1> QED
  BY <1>16, SMTT(40)

(* No frame is empty.                                                      *)
LEMMA LayoutGrows ==
    ASSUME NEW e, Layout(e)
    PROVE  \A i, j \in 0 .. Len(frames) : i < j => e[i] < e[j]
<1>1. PICK n \in Nat : n = Len(frames)
  BY DEF Layout
<1>2. ASSUME NEW k \in 1 .. n PROVE e[k - 1] < e[k] /\ e[k - 1] \in Nat /\ e[k] \in Nat
  <2>1. e[k] = e[k - 1] + Len(frames[k].bytes) /\ e[k - 1] \in Nat /\ e[k] \in Nat
    BY <1>1, SMTT(40) DEF Layout
  <2>2. Shape(frames[k])
    BY <1>1 DEF Layout
  <2>3. Len(frames[k].bytes) \in Nat /\ Len(frames[k].bytes) > 0
    BY <2>2, MessageFacts DEF Shape
  <2> QED
    BY <2>1, <2>3
<1>3. \A i \in 0 .. n : e[i] \in Nat
  BY <1>1 DEF Layout
<1> DEFINE T == {j \in Nat : j <= n => \A i \in 0 .. n : i < j => e[i] < e[j]}
<1>4. 0 \in T
  OBVIOUS
<1>5. ASSUME NEW j \in Nat, j \in T PROVE j + 1 \in T
  <2> SUFFICES ASSUME j + 1 <= n, NEW i \in 0 .. n, i < j + 1 PROVE e[i] < e[j + 1]
    OBVIOUS
  <2>1. j + 1 \in 1 .. n /\ (j + 1) - 1 = j /\ j \in 0 .. n
    OBVIOUS
  <2>2. e[j] < e[j + 1] /\ e[j] \in Nat /\ e[j + 1] \in Nat /\ e[i] \in Nat
    BY <1>2, <1>3, <2>1
  <2>3. CASE i = j
    BY <2>2, <2>3
  <2>4. CASE i < j
    <3>1. e[i] < e[j]
      BY <1>5, <2>1, <2>4
    <3> QED
      BY <2>2, <3>1
  <2> QED
    BY <2>3, <2>4
<1> HIDE DEF T
<1>6. Nat \subseteq T
  BY <1>4, <1>5, Induction
<1>7. \A j \in 0 .. n : \A i \in 0 .. n : i < j => e[i] < e[j]
  BY <1>6 DEF T
<1> QED
  BY <1>1, <1>7, SMTT(40)

(* The buffer holds what was received behind the first n frames.           *)
Window(e, n) ==
    /\ n \in 0 .. Len(frames) /\ received \in Nat /\ received <= Len(Codec!Stream)
    /\ e[n] <= received /\ input \in Seq(0 .. 255) /\ Len(input) = received - e[n]
    /\ \A p \in 1 .. Len(input) : input[p] = Codec!Stream[e[n] + p]

(* The application has got the first n frames, and none is refused.        *)
HasGot(n) ==
    /\ delivered = Codec!FlattenSeq([i \in 1 .. n |-> Codec!Given(frames[i])])
    /\ \A i \in 1 .. n : i \notin Codec!Bad

(* It has been told of the next one if that was refused.                   *)
Told(n) ==
    \/ errorCode = "kNoError" /\ state = "connected"
    \/ /\ n < Len(frames) /\ n + 1 \in Codec!Bad
       /\ errorCode = frames[n + 1].error /\ state = "disconnecting"

(* Outside onMessage() no complete frame waits that was not refused.       *)
Settled(e, n) ==
    codecPc = "poll" /\ n < Len(frames) /\ e[n + 1] <= received => errorCode # "kNoError"

AtFrames(e, n) == Layout(e) /\ Window(e, n) /\ HasGot(n) /\ Told(n) /\ Settled(e, n)

CodecInv == codecPc \in {"poll", "onmessage"} /\ \E e, n : AtFrames(e, n)

(* Behind the last frame there is nothing.                                 *)
LEMMA WindowFacts ==
    ASSUME NEW e, NEW n, Layout(e), Window(e, n)
    PROVE  /\ Len(frames) \in Nat /\ n \in Nat /\ n <= Len(frames) /\ e[n] \in Nat
           /\ n < Len(frames) =>
                /\ n + 1 \in 1 .. Len(frames) /\ Shape(frames[n + 1]) /\ e[n + 1] \in Nat
                /\ e[n + 1] = e[n] + Len(frames[n + 1].bytes)
           /\ Len(input) \in Nat /\ (n = Len(frames) => Len(input) = 0)
<1>1. Len(frames) \in Nat /\ n \in 0 .. Len(frames) /\ e[n] \in Nat
  BY DEF Layout, Window
<1>2. ASSUME n < Len(frames)
      PROVE  /\ n + 1 \in 1 .. Len(frames) /\ Shape(frames[n + 1]) /\ e[n + 1] \in Nat
             /\ e[n + 1] = e[n] + Len(frames[n + 1].bytes)
  <2>1. n + 1 \in 1 .. Len(frames) /\ (n + 1) - 1 = n /\ n + 1 \in 0 .. Len(frames)
    BY <1>1, <1>2
  <2>2. e[n + 1] = e[(n + 1) - 1] + Len(frames[n + 1].bytes)
    BY <2>1 DEF Layout
  <2> QED
    BY <2>1, <2>2 DEF Layout
<1>3. Len(input) = received - e[n] /\ received <= Len(Codec!Stream) /\ Len(input) \in Nat /\ received \in Nat
  BY DEF Window
<1>4. n = Len(frames) => Len(input) = 0
  <2>1. Len(Codec!Stream) = e[Len(frames)]
    BY DEF Layout
  <2> QED
    BY <1>1, <1>3, <2>1
<1> QED
  BY <1>1, <1>2, <1>3, <1>4

(* The buffer and the next frame begin alike.                              *)
LEMMA FrontFacts ==
    ASSUME NEW e, NEW n, Layout(e), Window(e, n), n < Len(frames),
           NEW k \in Nat, k <= Len(input), k <= Len(frames[n + 1].bytes)
    PROVE  \A p \in 1 .. k : input[p] = frames[n + 1].bytes[p]
<1>1. /\ n \in Nat /\ n + 1 \in 1 .. Len(frames) /\ Len(input) \in Nat /\ (n + 1) - 1 = n
      /\ Shape(frames[n + 1])
  BY WindowFacts
<1>2. Len(frames[n + 1].bytes) \in Nat
  BY <1>1 DEF Shape
<1>3. ASSUME NEW p \in 1 .. k PROVE input[p] = frames[n + 1].bytes[p]
  <2>1. p \in 1 .. Len(input) /\ p \in 1 .. Len(frames[n + 1].bytes)
    BY <1>1, <1>2
  <2>2. input[p] = Codec!Stream[e[n] + p]
    BY <2>1 DEF Window
  <2>3. Codec!Stream[e[(n + 1) - 1] + p] = frames[n + 1].bytes[p]
    BY <1>1, <2>1 DEF Layout
  <2> QED
    BY <1>1, <2>2, <2>3
<1> QED
  BY <1>3

(* Two sequences that begin alike.                                         *)
LEMMA SameCut ==
    ASSUME NEW S, NEW x \in Seq(S), NEW y \in Seq(S), NEW m \in Nat, NEW n \in Nat,
           m + n <= Len(x), m + n <= Len(y), \A p \in 1 .. m + n : x[p] = y[p]
    PROVE  SubSeq(x, m + 1, m + n) = SubSeq(y, m + 1, m + n)
<1>1. /\ SubSeq(x, m + 1, m + n) \in Seq(S) /\ Len(SubSeq(x, m + 1, m + n)) = n
      /\ \A i \in 1 .. n : SubSeq(x, m + 1, m + n)[i] = x[m + i]
  BY CutFacts, SMTT(40)
<1>2. /\ SubSeq(y, m + 1, m + n) \in Seq(S) /\ Len(SubSeq(y, m + 1, m + n)) = n
      /\ \A i \in 1 .. n : SubSeq(y, m + 1, m + n)[i] = y[m + i]
  BY CutFacts
<1>3. \A i \in 1 .. n : x[m + i] = y[m + i]
  OBVIOUS
<1> DEFINE u == SubSeq(x, m + 1, m + n)
           v == SubSeq(y, m + 1, m + n)
<1>4. u \in Seq(S) /\ v \in Seq(S) /\ Len(u) = Len(v) /\ \A i \in 1 .. Len(u) : u[i] = v[i]
  BY <1>1, <1>2, <1>3
<1> HIDE DEF u, v
<1>5. u = v
  BY <1>4, SeqEqual
<1> QED
  BY <1>5 DEF u, v

(* What onMessage() finds at the front of its buffer.                      *)
LEMMA FoundFacts ==
    ASSUME NEW e, NEW n, Layout(e), Window(e, n), Codec!HasMinimum
    PROVE  /\ n < Len(frames) /\ Codec!Length = LengthOf(frames[n + 1])
           /\ ~ Codec!BadLength => /\ Codec!Length = Len(frames[n + 1].bytes) - 4
                                   /\ Codec!IsComplete <=> e[n + 1] <= received
                                   /\ Codec!IsComplete => Codec!Body = BodyOf(frames[n + 1])
<1> DEFINE bytes == frames[n + 1].bytes
<1>1. Len(input) >= Len(Tag) + 8 /\ Len(Tag) \in Nat
  BY MessageFacts DEF Codec!HasMinimum, Codec!kMinMessageLen, Codec!kHeaderLen, Codec!kChecksumLen
<1>2. /\ n \in Nat /\ n < Len(frames) /\ Shape(frames[n + 1]) /\ Len(input) \in Nat
      /\ e[n] \in Nat /\ e[n + 1] = e[n] + Len(bytes)
  BY <1>1, WindowFacts
<1>3. bytes \in Seq(0 .. 255) /\ Len(bytes) \in Nat /\ Len(bytes) >= Len(Tag) + 8
  BY <1>2 DEF Shape
<1>4. input \in Seq(0 .. 255) /\ Len(input) = received - e[n] /\ received \in Nat
  BY DEF Window
<1>5. Codec!Length = LengthOf(frames[n + 1])
  <2>1. 4 \in Nat /\ 4 <= Len(input) /\ 4 <= Len(bytes)
    BY <1>1, <1>2, <1>3
  <2>2. \A p \in 1 .. 4 : input[p] = bytes[p]
    BY <1>2, <2>1, FrontFacts
  <2>3. SubSeq(input, 0 + 1, 0 + 4) = SubSeq(bytes, 0 + 1, 0 + 4)
    <3>1. 0 \in Nat /\ 0 + 4 = 4 /\ 0 + 4 <= Len(input) /\ 0 + 4 <= Len(bytes)
      BY <2>1
    <3> QED
      BY <1>3, <1>4, <2>1, <2>2, <3>1, SameCut
  <2>4. 0 + 1 = 1 /\ 0 + 4 = 4
    OBVIOUS
  <2> QED
    BY <2>3, <2>4 DEF Codec!Length, Codec!kHeaderLen, LengthOf
<1>6. ASSUME ~ Codec!BadLength
      PROVE  /\ Codec!Length = Len(bytes) - 4
             /\ Codec!IsComplete <=> e[n + 1] <= received
             /\ Codec!IsComplete => Codec!Body = BodyOf(frames[n + 1])
  <2>1. ~ (LengthOf(frames[n + 1]) > kMaxMessageLen \/ LengthOf(frames[n + 1]) < Len(Tag) + 4)
    BY <1>5, <1>6 DEF Codec!BadLength, Codec!kMinMessageLen, Codec!kChecksumLen
  <2>2. Codec!Length = Len(bytes) - 4
    BY <1>2, <1>5, <2>1 DEF Shape
  <2>3. Codec!IsComplete <=> Len(input) >= Len(bytes)
    <3>1. 4 + (Len(bytes) - 4) = Len(bytes)
      BY <1>3
    <3> QED
      BY <2>2, <3>1 DEF Codec!IsComplete, Codec!kHeaderLen
  <2>4. Len(input) >= Len(bytes) <=> e[n + 1] <= received
    BY <1>2, <1>3, <1>4
  <2>5. ASSUME Len(input) >= Len(bytes) PROVE Codec!Body = BodyOf(frames[n + 1])
    <3>1. PICK k \in Nat : k = Len(bytes) - 4 /\ 4 + k = Len(bytes)
      <4>1. Len(bytes) - 4 \in Nat /\ 4 + (Len(bytes) - 4) = Len(bytes)
        BY <1>1, <1>3
      <4> QED
        BY <4>1
    <3>2. \A p \in 1 .. Len(bytes) : input[p] = bytes[p]
      BY <1>2, <1>3, <2>5, FrontFacts, SMTT(40)
    <3>3. SubSeq(input, 4 + 1, 4 + k) = SubSeq(bytes, 4 + 1, 4 + k)
      <4>1. 4 \in Nat /\ 4 + k <= Len(input) /\ 4 + k <= Len(bytes) /\ \A p \in 1 .. 4 + k : input[p] = bytes[p]
        BY <1>2, <1>3, <2>5, <3>1, <3>2
      <4> QED
        BY <1>3, <1>4, <4>1, SameCut
    <3>4. 4 + 1 = 5
      OBVIOUS
    <3> QED
      BY <2>2, <3>1, <3>3, <3>4 DEF Codec!Body, Codec!kHeaderLen, BodyOf
  <2> QED
    BY <2>2, <2>3, <2>4, <2>5
<1> QED
  BY <1>2, <1>5, <1>6

(* y is the part of s behind its first m elements, n of them.              *)
IsCut(y, s, m, n) ==
    y = SubSeq(s, m + 1, m + n) /\ Len(y) = n /\ \A i \in 1 .. n : y[i] = s[m + i]

(* Such a part, by a name of its own.                                      *)
LEMMA CutExists ==
    ASSUME NEW S, NEW s \in Seq(S), NEW m \in Nat, NEW n \in Nat, m + n <= Len(s)
    PROVE  \E y \in Seq(S) : IsCut(y, s, m, n)
<1>1. SubSeq(s, m + 1, m + n) \in Seq(S) /\ IsCut(SubSeq(s, m + 1, m + n), s, m, n)
  BY CutFacts DEF IsCut
<1> QED
  BY <1>1

(* The frames of a connection stay.                                        *)
LEMMA SameFrames ==
    ASSUME NEW e, Layout(e), frames' = frames
    PROVE  Layout(e)' /\ Codec!Stream' = Codec!Stream /\ Codec!Bad' = Codec!Bad
<1>1. Codec!Stream' = Codec!Stream /\ Codec!Bad' = Codec!Bad
  BY DEF Codec!Stream, Codec!Bad
<1>2. \A i \in 0 .. Len(frames) : Codec!Ahead(i)' = Codec!Ahead(i)
  BY DEF Codec!Ahead
<1> QED
  BY <1>1, <1>2 DEF Layout

(* A frame is one that is refused, or it is taken.                         *)
LEMMA NextFrame ==
    ASSUME NEW e, NEW n, Layout(e), Window(e, n), n < Len(frames),
           NEW f, f = frames[n + 1]
    PROVE  /\ LengthOf(f) > kMaxMessageLen \/ LengthOf(f) < Len(Tag) + 4
                => f.error = "kInvalidLength" /\ n + 1 \in Codec!Bad
           /\ ~ (LengthOf(f) > kMaxMessageLen \/ LengthOf(f) < Len(Tag) + 4)
                => /\ Codec!PayloadOf(BodyOf(f)) = f.message /\ Codec!parse(BodyOf(f)) = f.error
                   /\ n + 1 \in Codec!Bad <=> f.error # "kNoError" /\ f.message \notin Refused
<1>1. Shape(f) /\ n + 1 \in DOMAIN frames
  <2>1. Shape(frames[n + 1]) /\ n + 1 \in 1 .. Len(frames)
    BY WindowFacts
  <2> QED
    BY <2>1 DEF Layout
<1>2. n + 1 \in Codec!Bad <=> f.error # "kNoError" /\ f.message \notin Refused
  BY <1>1 DEF Codec!Bad
<1>3. ASSUME LengthOf(f) > kMaxMessageLen \/ LengthOf(f) < Len(Tag) + 4
      PROVE  f.error = "kInvalidLength" /\ f.message \notin Refused
  <2>1. SUFFICES ASSUME LengthOf(f) = Len(f.bytes) - 4, LengthOf(f) <= kMaxMessageLen PROVE FALSE
    BY <1>1 DEF Shape
  <2>2. Len(f.bytes) \in Nat /\ Len(f.bytes) >= Len(Tag) + 8
    BY <1>1 DEF Shape
  <2>3. Len(Tag) \in Nat /\ kMaxMessageLen \in Nat
    BY MessageFacts
  <2> QED
    BY <1>3, <2>1, <2>2, <2>3
<1>4. ASSUME ~ (LengthOf(f) > kMaxMessageLen \/ LengthOf(f) < Len(Tag) + 4)
      PROVE  Codec!PayloadOf(BodyOf(f)) = f.message /\ Codec!parse(BodyOf(f)) = f.error
  BY <1>1, <1>4 DEF Shape
<1> QED
  BY <1>2, <1>3, <1>4

(* BadLength, in these words.                                              *)
LEMMA BadLengthIs ==
    ASSUME NEW e, NEW n, Layout(e), Window(e, n), Codec!HasMinimum, NEW f, f = frames[n + 1]
    PROVE  Codec!BadLength <=> LengthOf(f) > kMaxMessageLen \/ LengthOf(f) < Len(Tag) + 4
<1>1. Codec!Length = LengthOf(f)
  BY FoundFacts
<1> QED
  BY <1>1 DEF Codec!BadLength, Codec!kMinMessageLen, Codec!kChecksumLen

(* A complete frame is long enough to be looked at.                        *)
LEMMA EnoughRead ==
    ASSUME NEW e, NEW n, Layout(e), Window(e, n), n < Len(frames), e[n + 1] <= received
    PROVE  Codec!HasMinimum
<1>1. /\ e[n] \in Nat /\ e[n + 1] \in Nat /\ e[n + 1] = e[n] + Len(frames[n + 1].bytes)
      /\ Shape(frames[n + 1])
  BY WindowFacts
<1>2. Len(frames[n + 1].bytes) \in Nat /\ Len(frames[n + 1].bytes) >= Len(Tag) + 8 /\ Len(Tag) \in Nat
  BY <1>1, MessageFacts DEF Shape
<1>3. Len(input) = received - e[n] /\ received \in Nat
  BY DEF Window
<1> QED
  BY <1>1, <1>2, <1>3, SMTT(40) DEF Codec!HasMinimum, Codec!kMinMessageLen, Codec!kHeaderLen, Codec!kChecksumLen

-----------------------------------------------------------------------------
(* At first.                                                               *)
LEMMA CodecInitInv == Codec!Init => CodecInv
<1> SUFFICES ASSUME Codec!Init PROVE CodecInv
  OBVIOUS
<1>1. /\ frames \in Codec!Scripts /\ received = 0 /\ input = <<>> /\ state = "connected"
      /\ codecPc = "poll" /\ delivered = <<>> /\ errorCode = "kNoError"
  BY DEF Codec!Init
<1>2. Len(frames) \in Nat /\ DOMAIN frames = 1 .. Len(frames) /\ \A i \in 1 .. Len(frames) : Shape(frames[i])
  BY <1>1, ScriptFacts
<1>3. PICK e : Layout(e)
  BY <1>2, LayoutExists
<1>4. e[0] = 0 /\ Len(Codec!Stream) \in Nat
  BY <1>3 DEF Layout
<1>5. Window(e, 0)
  BY <1>1, <1>2, <1>4 DEF Window
<1>6. HasGot(0)
  <2>1. [i \in 1 .. 0 |-> Codec!Given(frames[i])] = <<>>
    OBVIOUS
  <2>2. Codec!FlattenSeq([i \in 1 .. 0 |-> Codec!Given(frames[i])]) = <<>>
    BY <2>1, FlatEmpty
  <2> QED
    BY <1>1, <2>2 DEF HasGot
<1>7. Told(0)
  BY <1>1 DEF Told
<1>8. Settled(e, 0)
  <2>1. ASSUME 0 < Len(frames), e[0 + 1] <= received PROVE FALSE
    <3>1. /\ e[0] \in Nat /\ e[0 + 1] = e[0] + Len(frames[0 + 1].bytes) /\ Shape(frames[0 + 1])
      BY <1>3, <1>5, <2>1, WindowFacts
    <3>2. Len(frames[0 + 1].bytes) \in Nat /\ Len(frames[0 + 1].bytes) > 0
      BY <3>1, MessageFacts DEF Shape
    <3> QED
      BY <1>1, <1>4, <2>1, <3>1, <3>2
  <2> QED
    BY <2>1 DEF Settled
<1> QED
  BY <1>1, <1>3, <1>5, <1>6, <1>7, <1>8 DEF CodecInv, AtFrames

(* A segment arrives.                                                      *)
LEMMA ArrivesInv ==
    ASSUME NEW e, NEW n, AtFrames(e, n), NEW k \in Nat, Codec!Arrives(k)
    PROVE  AtFrames(e, n)' /\ codecPc' = "onmessage"
<1>1. Layout(e) /\ Window(e, n) /\ HasGot(n) /\ Told(n)
  BY DEF AtFrames
<1>2. /\ received + k <= Len(Codec!Stream) /\ input' = input \o SubSeq(Codec!Stream, received + 1, received + k)
      /\ received' = received + k /\ codecPc' = "onmessage"
      /\ frames' = frames /\ state' = state /\ delivered' = delivered /\ errorCode' = errorCode
  BY DEF Codec!Arrives
<1>3. Layout(e)' /\ Codec!Stream' = Codec!Stream /\ Codec!Bad' = Codec!Bad
  BY <1>1, <1>2, SameFrames
<1>4. HasGot(n)' /\ Told(n)'
  BY <1>1, <1>2, <1>3 DEF HasGot, Told
<1>5. Settled(e, n)'
  BY <1>2 DEF Settled
<1>6. Window(e, n)'
  <2>1. /\ n \in 0 .. Len(frames) /\ received \in Nat /\ e[n] <= received
        /\ input \in Seq(0 .. 255) /\ Len(input) = received - e[n]
        /\ \A p \in 1 .. Len(input) : input[p] = Codec!Stream[e[n] + p]
    BY <1>1 DEF Window
  <2>2. e[n] \in Nat /\ Codec!Stream \in Seq(0 .. 255) /\ Len(input) \in Nat
    BY <1>1, WindowFacts DEF Layout
  <2>0. received \in Nat /\ e[n] <= received /\ Len(input) = received - e[n]
    BY <2>1
  <2>3. PICK x \in Seq(0 .. 255) :
          /\ x = SubSeq(Codec!Stream, received + 1, received + k) /\ Len(x) = k
          /\ \A i \in 1 .. k : x[i] = Codec!Stream[received + i]
    <3>1. PICK y \in Seq(0 .. 255) : IsCut(y, Codec!Stream, received, k)
      <4>1. received \in Nat /\ received + k <= Len(Codec!Stream) /\ Codec!Stream \in Seq(0 .. 255)
        BY <1>2, <2>0, <2>2
      <4> QED
        BY <4>1, CutExists
    <3> QED
      BY <3>1 DEF IsCut
  <2>4. PICK y \in Seq(0 .. 255) : y = input \o x /\ IsJoin(y, input, x)
    BY <2>1, JoinFacts, ZenonT(60)
  <2>5. /\ Len(y) = Len(input) + k
        /\ \A p \in 1 .. Len(input) : y[p] = input[p]
        /\ \A p \in 1 .. k : y[Len(input) + p] = x[p]
    BY <2>3, <2>4 DEF IsJoin
  <2>6. ASSUME NEW p \in 1 .. Len(y) PROVE y[p] = Codec!Stream[e[n] + p]
    <3>1. CASE p <= Len(input)
      BY <2>1, <2>2, <2>5, <3>1
    <3>2. CASE p > Len(input)
      <4>1. PICK q \in 1 .. k : p = Len(input) + q
        <5>1. p - Len(input) \in 1 .. k /\ p = Len(input) + (p - Len(input))
          BY <2>2, <2>5, <3>2
        <5> QED
          BY <5>1
      <4>2. y[p] = Codec!Stream[received + q]
        BY <2>3, <2>5, <4>1
      <4>3. received + q = e[n] + p
        <5>1. p \in Nat /\ q \in Nat
          BY <2>2, <4>1
        <5> QED
          BY ONLY <2>0, <2>2, <4>1, <5>1, SMTT(40)
      <4> QED
        BY <4>2, <4>3
    <3> QED
      BY <2>2, <2>5, <3>1, <3>2
  <2>7. input' = y
    BY <1>2, <2>3, <2>4
  <2>8. received' \in Nat /\ received' <= Len(Codec!Stream) /\ e[n] <= received' /\ Len(y) = received' - e[n]
    <3>1. received' = received + k /\ received + k <= Len(Codec!Stream) /\ Len(y) = Len(input) + k
      BY <1>2, <2>5
    <3> QED
      BY <2>0, <2>2, <3>1
  <2> QED
    BY <1>2, <1>3, <2>1, <2>6, <2>7, <2>8 DEF Window
<1> QED
  BY <1>2, <1>3, <1>4, <1>5, <1>6 DEF AtFrames

(* The next frame is refused.                                              *)
LEMMA FailsInv ==
    ASSUME NEW e, NEW n, AtFrames(e, n), n < Len(frames), n + 1 \in Codec!Bad,
           Codec!Fails(frames[n + 1].error)
    PROVE  AtFrames(e, n)' /\ codecPc' = "poll"
<1>1. Layout(e) /\ Window(e, n) /\ HasGot(n)
  BY DEF AtFrames
<1>2. /\ errorCode' = frames[n + 1].error /\ state' = "disconnecting" /\ codecPc' = "poll"
      /\ frames' = frames /\ received' = received /\ input' = input /\ delivered' = delivered
  BY DEF Codec!Fails
<1>3. Layout(e)' /\ Codec!Stream' = Codec!Stream /\ Codec!Bad' = Codec!Bad
  BY <1>1, <1>2, SameFrames
<1>4. HasGot(n)' /\ Window(e, n)'
  BY <1>1, <1>2, <1>3 DEF HasGot, Window
<1>5. Told(n)'
  BY <1>2, <1>3 DEF Told
<1>6. frames[n + 1].error # "kNoError"
  BY DEF Codec!Bad
<1>7. Settled(e, n)'
  BY <1>2, <1>6 DEF Settled
<1> QED
  BY <1>2, <1>3, <1>4, <1>5, <1>7 DEF AtFrames

(* One more frame is given.                                                *)
LEMMA GivenGrows ==
    ASSUME NEW e, Layout(e), NEW n \in Nat, n < Len(frames)
    PROVE  \E S : /\ Codec!FlattenSeq([i \in 1 .. n |-> Codec!Given(frames[i])]) \in Seq(S)
                  /\ frames[n + 1].message \in S
                  /\ Codec!FlattenSeq([i \in 1 .. n + 1 |-> Codec!Given(frames[i])]) =
                       Codec!FlattenSeq([i \in 1 .. n |-> Codec!Given(frames[i])]) \o Codec!Given(frames[n + 1])
<1>1. PICK l \in Nat : l = Len(frames)
  BY DEF Layout
<1> DEFINE S == {frames[i].message : i \in 1 .. l}
           g == [i \in 1 .. l |-> Codec!Given(frames[i])]
           s == [i \in 1 .. n |-> Codec!Given(frames[i])]
           x == Codec!Given(frames[n + 1])
           u == [i \in 1 .. n + 1 |-> Codec!Given(frames[i])]
<1>2. ASSUME NEW i \in 1 .. l PROVE Codec!Given(frames[i]) \in Seq(S)
  <2>1. frames[i].message \in S
    OBVIOUS
  <2>2. PICK m \in S : m = frames[i].message
    BY <2>1
  <2> HIDE DEF S
  <2>3. <<>> \in Seq(S) /\ <<m>> \in Seq(S)
    OBVIOUS
  <2> QED
    BY <2>2, <2>3 DEF Codec!Given
<1>3. n + 1 \in 1 .. l /\ \A i \in 1 .. n + 1 : i \in 1 .. l
  BY <1>1
<1>4. frames[n + 1].message \in S
  BY <1>3
<1>5. \A i \in 1 .. n + 1 : Codec!Given(frames[i]) \in Seq(S)
  BY <1>2, <1>3
<1> HIDE DEF S
<1>6. s \in Seq(Seq(S)) /\ Len(s) = n /\ x \in Seq(S)
  <2>1. s \in [1 .. n -> Seq(S)]
    BY <1>5
  <2>2. x \in Seq(S)
    BY <1>5
  <2> HIDE DEF s, x
  <2> QED
    BY <2>1, <2>2
<1>7. \A i \in 1 .. n : s[i] = Codec!Given(frames[i])
  OBVIOUS
<1>8. Append(s, x) = u
  <2>1. u \in [1 .. n + 1 -> Seq(S)]
    BY <1>5
  <2>2. u \in Seq(Seq(S)) /\ Len(u) = n + 1
    <3> HIDE DEF u
    <3> QED
      BY <2>1
  <2>3. \A i \in 1 .. n + 1 : u[i] = Codec!Given(frames[i])
    OBVIOUS
  <2>4. x = Codec!Given(frames[n + 1])
    OBVIOUS
  <2> HIDE DEF s, u, x
  <2>5. PICK w \in Seq(Seq(S)) : /\ w = Append(s, x) /\ Len(w) = n + 1 /\ w[n + 1] = x
                                 /\ \A i \in 1 .. n : w[i] = s[i]
    <3>1. /\ Append(s, x) \in Seq(Seq(S)) /\ Len(Append(s, x)) = n + 1 /\ Append(s, x)[n + 1] = x
          /\ \A i \in 1 .. n : Append(s, x)[i] = s[i]
      BY <1>6
    <3> QED
      BY <3>1
  <2>6. \A i \in 1 .. Len(w) : w[i] = u[i]
    <3>1. ASSUME NEW i \in 1 .. n + 1 PROVE w[i] = u[i]
      <4>1. CASE i = n + 1
        BY <2>3, <2>4, <2>5, <4>1
      <4>2. CASE i # n + 1
        <5>1. i \in 1 .. n
          BY <4>2
        <5> QED
          BY <1>7, <2>3, <2>5, <5>1
      <4> QED
        BY <4>1, <4>2
    <3> QED
      BY <2>5, <3>1
  <2>7. w = u
    BY <2>2, <2>5, <2>6, SeqEqual
  <2> QED
    BY <2>5, <2>7
<1>9. Codec!FlattenSeq(s) \in Seq(S) /\ Codec!FlattenSeq(Append(s, x)) = Codec!FlattenSeq(s) \o x
  <2> HIDE DEF s, x
  <2> QED
    BY <1>6, FlatAppend
<1> QED
  BY <1>4, <1>8, <1>9

(* A frame is taken out of the buffer.                                     *)
LEMMA TakesInv ==
    ASSUME NEW e, NEW n, AtFrames(e, n), codecPc = "onmessage", n < Len(frames), e[n + 1] <= received,
           Codec!Length = Len(frames[n + 1].bytes) - 4, n + 1 \notin Codec!Bad, Codec!RetrieveFrame,
           delivered' = IF frames[n + 1].message \in Refused THEN delivered
                        ELSE Append(delivered, frames[n + 1].message)
    PROVE  AtFrames(e, n + 1)' /\ codecPc' = "onmessage"
<1>1. Layout(e) /\ Window(e, n) /\ HasGot(n) /\ Told(n)
  BY DEF AtFrames
<1>2. /\ input' = SubSeq(input, 4 + Codec!Length + 1, Len(input))
      /\ frames' = frames /\ received' = received /\ state' = state /\ codecPc' = codecPc /\ errorCode' = errorCode
  BY DEF Codec!RetrieveFrame, Codec!kHeaderLen
<1>3. Layout(e)' /\ Codec!Stream' = Codec!Stream /\ Codec!Bad' = Codec!Bad
  BY <1>1, <1>2, SameFrames
<1>4. /\ n \in Nat /\ n + 1 \in 1 .. Len(frames) /\ e[n] \in Nat /\ e[n + 1] \in Nat /\ Len(frames) \in Nat
      /\ e[n + 1] = e[n] + Len(frames[n + 1].bytes) /\ Shape(frames[n + 1]) /\ Len(input) \in Nat
  BY <1>1, WindowFacts
<1>5. Told(n + 1)' /\ Settled(e, n + 1)'
  BY <1>1, <1>2, <1>3 DEF Told, Settled
<1>6. HasGot(n + 1)'
  <2>1. PICK S : /\ Codec!FlattenSeq([i \in 1 .. n |-> Codec!Given(frames[i])]) \in Seq(S)
                 /\ frames[n + 1].message \in S
                 /\ Codec!FlattenSeq([i \in 1 .. n + 1 |-> Codec!Given(frames[i])]) =
                      Codec!FlattenSeq([i \in 1 .. n |-> Codec!Given(frames[i])]) \o Codec!Given(frames[n + 1])
    BY <1>1, <1>4, GivenGrows
  <2>2. PICK d \in Seq(S) : /\ d = delivered
                            /\ d = Codec!FlattenSeq([i \in 1 .. n |-> Codec!Given(frames[i])])
    BY <1>1, <2>1 DEF HasGot
  <2>3. PICK m \in S : m = frames[n + 1].message
    BY <2>1
  <2>4. Append(d, m) = d \o <<m>> /\ d \o <<>> = d
    BY AppendIsConcat
  <2>5. delivered' = d \o Codec!Given(frames[n + 1])
    BY <2>2, <2>3, <2>4 DEF Codec!Given
  <2>6. delivered' = Codec!FlattenSeq([i \in 1 .. n + 1 |-> Codec!Given(frames[i])])
    BY <2>1, <2>2, <2>5
  <2>7. \A i \in 1 .. n + 1 : i \notin Codec!Bad
    <3>1. \A i \in 1 .. n + 1 : i \in 1 .. n \/ i = n + 1
      BY <1>4
    <3> QED
      BY <1>1, <3>1 DEF HasGot
  <2> QED
    BY <1>2, <1>3, <2>6, <2>7 DEF HasGot
<1>7. Window(e, n + 1)'
  <2>1. /\ received \in Nat /\ received <= Len(Codec!Stream)
        /\ input \in Seq(0 .. 255) /\ Len(input) = received - e[n]
    BY <1>1 DEF Window
  <2>2. \A p \in 1 .. Len(input) : input[p] = Codec!Stream[e[n] + p]
    BY <1>1 DEF Window
  <2>3. PICK k \in Nat : k = Len(frames[n + 1].bytes) /\ 4 + Codec!Length + 1 = k + 1
    <3>1. Len(frames[n + 1].bytes) \in Nat
      BY <1>4, SMTT(40) DEF Shape
    <3>2. 4 + (Len(frames[n + 1].bytes) - 4) + 1 = Len(frames[n + 1].bytes) + 1
      BY <3>1
    <3> QED
      BY <3>1, <3>2
  <2>4. PICK l \in Nat : l = Len(input) - k /\ k + l = Len(input) /\ l = received - e[n + 1]
    <3>1. Len(input) - k \in Nat /\ k + (Len(input) - k) = Len(input) /\ Len(input) - k = received - e[n + 1]
      <4>1. PICK a \in Nat : a = e[n]
        BY <1>4
      <4>2. PICK r \in Nat : r = received
        BY <2>1
      <4>3. e[n + 1] = a + k /\ Len(input) = r - a /\ a + k <= r
        BY <1>4, <2>1, <2>3, <4>1, <4>2
      <4>4. Len(input) - k = r - (a + k) /\ r - (a + k) \in Nat /\ k + (Len(input) - k) = Len(input)
        BY <4>3
      <4> QED
        BY <4>2, <4>3, <4>4
    <3> QED
      BY <3>1, Zenon
  <2>5. PICK y \in Seq(0 .. 255) : IsCut(y, input, k, l)
    <3>1. k + l <= Len(input)
      BY <1>4, <2>4, SMTT(40)
    <3> QED
      BY <2>1, <3>1, CutExists
  <2>6. y = input' /\ Len(y) = l
    BY <1>2, <2>3, <2>4, <2>5, Zenon DEF IsCut
  <2>7. ASSUME NEW p \in 1 .. l PROVE y[p] = Codec!Stream[e[n + 1] + p]
    <3>1. k + p \in 1 .. Len(input) /\ e[n] + (k + p) = e[n + 1] + p
      <4>1. PICK a \in Nat : a = e[n]
        BY <1>4
      <4>2. e[n + 1] = a + k
        BY <1>4, <2>3, <4>1
      <4>3. k + p \in 1 .. Len(input)
        BY <2>4
      <4>4. a + (k + p) = (a + k) + p
        OBVIOUS
      <4> QED
        BY <4>1, <4>2, <4>3, <4>4
    <3>2. y[p] = input[k + p]
      BY <2>5 DEF IsCut
    <3>3. input[k + p] = Codec!Stream[e[n] + (k + p)]
      BY <2>2, <3>1
    <3> QED
      BY <3>1, <3>2, <3>3
  <2>8. n + 1 \in 0 .. Len(frames)
    BY <1>4
  <2> QED
    BY <1>2, <1>3, <2>1, <2>4, <2>6, <2>7, <2>8 DEF Window
<1> QED
  BY <1>2, <1>3, <1>5, <1>6, <1>7 DEF AtFrames

(* One round of the loop of onMessage().                                   *)
LEMMA OnMessageInv ==
    ASSUME NEW e, NEW n, AtFrames(e, n), Codec!OnMessage
    PROVE  codecPc' \in {"poll", "onmessage"} /\ \E k : AtFrames(e, k)'
<1> DEFINE f == frames[n + 1]
<1>1. Layout(e) /\ Window(e, n) /\ HasGot(n) /\ Told(n)
  BY DEF AtFrames
<1>2. CASE Codec!LengthFails
  <2>1. Codec!HasMinimum /\ Codec!BadLength /\ Codec!Fails("kInvalidLength")
    BY <1>2 DEF Codec!LengthFails
  <2>2. n < Len(frames)
    BY <1>1, <2>1, FoundFacts
  <2>3. f.error = "kInvalidLength" /\ n + 1 \in Codec!Bad
    BY <1>1, <2>1, <2>2, BadLengthIs, NextFrame
  <2>4. Codec!Fails(frames[n + 1].error)
    BY <2>1, <2>3
  <2> QED
    BY <2>2, <2>3, <2>4, FailsInv
<1>3. ASSUME Codec!AtFrame
      PROVE  /\ codecPc = "onmessage" /\ n < Len(frames) /\ e[n + 1] <= received
             /\ Codec!Length = Len(f.bytes) - 4
             /\ Codec!PayloadOf(Codec!Body) = f.message /\ Codec!parse(Codec!Body) = f.error
             /\ n + 1 \in Codec!Bad <=> f.error # "kNoError" /\ f.message \notin Refused
  <2>1. codecPc = "onmessage" /\ Codec!HasMinimum /\ ~ Codec!BadLength /\ Codec!IsComplete
    BY <1>3 DEF Codec!AtFrame
  <2>2. n < Len(frames) /\ Codec!Length = Len(f.bytes) - 4 /\ e[n + 1] <= received /\ Codec!Body = BodyOf(f)
    BY <1>1, <2>1, FoundFacts
  <2>3. ~ (LengthOf(f) > kMaxMessageLen \/ LengthOf(f) < Len(Tag) + 4)
    BY <1>1, <2>1, BadLengthIs
  <2>4. /\ Codec!PayloadOf(BodyOf(f)) = f.message /\ Codec!parse(BodyOf(f)) = f.error
        /\ n + 1 \in Codec!Bad <=> f.error # "kNoError" /\ f.message \notin Refused
    BY <1>1, <2>2, <2>3, NextFrame
  <2> QED
    BY <2>1, <2>2, <2>4
<1>4. CASE Codec!ParseFails
  <2>1. /\ Codec!AtFrame /\ ~ Codec!RawRefuses(Codec!Body) /\ Codec!parse(Codec!Body) # "kNoError"
        /\ Codec!Fails(Codec!parse(Codec!Body))
    BY <1>4 DEF Codec!ParseFails
  <2>2. n + 1 \in Codec!Bad /\ n < Len(frames) /\ Codec!Fails(frames[n + 1].error)
    BY <1>3, <2>1 DEF Codec!RawRefuses
  <2> QED
    BY <2>2, FailsInv
<1>5. CASE Codec!RawSkips
  <2>1. Codec!AtFrame /\ Codec!RawRefuses(Codec!Body) /\ Codec!RetrieveFrame /\ delivered' = delivered
    BY <1>5 DEF Codec!RawSkips
  <2>2. f.message \in Refused /\ n + 1 \notin Codec!Bad
    BY <1>3, <2>1 DEF Codec!RawRefuses
  <2>3. delivered' = IF f.message \in Refused THEN delivered ELSE Append(delivered, f.message)
    BY <2>1, <2>2
  <2> QED
    BY <1>3, <2>1, <2>2, <2>3, TakesInv
<1>6. CASE Codec!Delivers
  <2>1. /\ Codec!AtFrame /\ ~ Codec!RawRefuses(Codec!Body) /\ Codec!parse(Codec!Body) = "kNoError"
        /\ Codec!RetrieveFrame /\ delivered' = Append(delivered, Codec!PayloadOf(Codec!Body))
    BY <1>6 DEF Codec!Delivers
  <2>2. f.message \notin Refused /\ n + 1 \notin Codec!Bad
    BY <1>3, <2>1 DEF Codec!RawRefuses
  <2>3. delivered' = IF f.message \in Refused THEN delivered ELSE Append(delivered, f.message)
    BY <1>3, <2>1, <2>2
  <2> QED
    BY <1>3, <2>1, <2>2, <2>3, TakesInv
<1>7. CASE Codec!Returns
  <2>1. /\ Codec!HasMinimum => ~ Codec!BadLength /\ ~ Codec!IsComplete
        /\ codecPc' = "poll" /\ frames' = frames /\ received' = received /\ input' = input
        /\ state' = state /\ delivered' = delivered /\ errorCode' = errorCode
    BY <1>7 DEF Codec!Returns
  <2>2. Layout(e)' /\ Codec!Stream' = Codec!Stream /\ Codec!Bad' = Codec!Bad
    BY <1>1, <2>1, SameFrames
  <2>3. HasGot(n)' /\ Window(e, n)' /\ Told(n)'
    BY <1>1, <2>1, <2>2 DEF HasGot, Window, Told
  <2>4. ~ (n < Len(frames) /\ e[n + 1] <= received)
    <3>1. ASSUME n < Len(frames), e[n + 1] <= received PROVE FALSE
      <4>1. Codec!HasMinimum
        BY <1>1, <3>1, EnoughRead
      <4>2. ~ Codec!BadLength /\ ~ Codec!IsComplete
        BY <2>1, <4>1
      <4>3. Codec!IsComplete <=> e[n + 1] <= received
        BY <1>1, <4>1, <4>2, FoundFacts
      <4> QED
        BY <3>1, <4>2, <4>3
    <3> QED
      BY <3>1
  <2>5. Settled(e, n)'
    BY <2>1, <2>4 DEF Settled
  <2>6. AtFrames(e, n)'
    BY <2>2, <2>3, <2>5 DEF AtFrames
  <2> QED
    BY <2>1, <2>6
<1> QED
  BY <1>2, <1>4, <1>5, <1>6, <1>7 DEF Codec!OnMessage

(* A step of the codec or of another part.                                 *)
LEMMA CodecNextInv == CodecInv /\ [Codec!Next]_codecVars => CodecInv'
<1> SUFFICES ASSUME CodecInv, [Codec!Next]_codecVars PROVE CodecInv'
  OBVIOUS
<1>1. PICK e, n : AtFrames(e, n)
  BY DEF CodecInv
<1>2. CASE Codec!OnMessage
  BY <1>1, <1>2, OnMessageInv DEF CodecInv
<1>3. CASE \E k \in 1 .. Len(Codec!Stream) : Codec!Arrives(k)
  <2>1. PICK k \in 1 .. Len(Codec!Stream) : Codec!Arrives(k)
    BY <1>3
  <2>2. Len(Codec!Stream) \in Nat
    BY <1>1 DEF AtFrames, Layout
  <2>3. k \in Nat
    BY <2>2
  <2>4. AtFrames(e, n)' /\ codecPc' = "onmessage"
    BY <1>1, <2>1, <2>3, ArrivesInv
  <2> QED
    BY <2>4 DEF CodecInv
<1>4. CASE UNCHANGED codecVars
  <2>1. /\ frames' = frames /\ received' = received /\ input' = input /\ state' = state
        /\ codecPc' = codecPc /\ delivered' = delivered /\ errorCode' = errorCode
    BY <1>4 DEF codecVars
  <2>2. Layout(e) /\ Window(e, n) /\ HasGot(n) /\ Told(n) /\ Settled(e, n)
    BY <1>1 DEF AtFrames
  <2>3. Layout(e)' /\ Codec!Stream' = Codec!Stream /\ Codec!Bad' = Codec!Bad
    BY <2>1, <2>2, SameFrames
  <2>4. HasGot(n)' /\ Window(e, n)' /\ Told(n)' /\ Settled(e, n)'
    BY <2>1, <2>2, <2>3 DEF HasGot, Window, Told, Settled
  <2>5. AtFrames(e, n)'
    BY <2>3, <2>4 DEF AtFrames
  <2> QED
    BY <2>1, <2>5 DEF CodecInv
<1> QED
  BY <1>2, <1>3, <1>4 DEF Codec!Next

(* The codec counts as everybody does.                                     *)
LEMMA SameCount == ASSUME NEW S PROVE Codec!Cardinality(S) = Cardinality(S)
  BY DEF Codec!Cardinality, Cardinality

(* As many frames are readable as have been taken, or more.                *)
LEMMA ReadableFacts ==
    ASSUME NEW e, NEW n, AtFrames(e, n)
    PROVE  /\ Codec!Readable \in Nat /\ n <= Codec!Readable
           /\ codecPc = "poll" => Codec!Readable = n
<1>1. Layout(e) /\ Window(e, n) /\ HasGot(n) /\ Told(n) /\ Settled(e, n)
  BY DEF AtFrames
<1>2. PICK l \in Nat : l = Len(frames) /\ n \in 0 .. l /\ n \in Nat
  BY <1>1, WindowFacts
<1>3. /\ \A i \in 0 .. l : e[i] \in Nat /\ Codec!Ahead(i) = e[i]
      /\ DOMAIN frames = 1 .. l
  BY <1>1, <1>2 DEF Layout
<1>4. \A i, j \in 0 .. l : i < j => e[i] < e[j]
  BY <1>1, <1>2, LayoutGrows
<1>5. e[n] <= received /\ received \in Nat
  BY <1>1 DEF Window
<1>6. \A i \in 1 .. n : i \notin Codec!Bad
  BY <1>1 DEF HasGot
<1>7. Codec!Bad \subseteq 1 .. l
  BY <1>3 DEF Codec!Bad
<1> DEFINE R == {i \in 1 .. l : e[i] <= received /\ \A j \in Codec!Bad : i < j}
<1>8. Codec!Readable = Cardinality(R)
  <2>1. R = {i \in DOMAIN frames : Codec!Ahead(i) <= received /\ \A j \in Codec!Bad : i < j}
    BY <1>3
  <2> HIDE DEF R
  <2> QED
    BY <2>1, SameCount DEF Codec!Readable
<1>9. 1 .. n \subseteq R
  <2> SUFFICES ASSUME NEW i \in 1 .. n PROVE i \in R
    OBVIOUS
  <2>1. i \in 1 .. l /\ i \in 0 .. l /\ n \in 0 .. l
    BY <1>2
  <2>2. e[i] <= received
    <3>1. CASE i = n
      BY <1>5, <3>1
    <3>2. CASE i < n
      <4>1. e[i] < e[n] /\ e[i] \in Nat /\ e[n] \in Nat
        BY <1>3, <1>4, <2>1, <3>2
      <4> QED
        BY <1>5, <4>1
    <3> QED
      BY <1>2, <3>1, <3>2
  <2>3. ASSUME NEW j \in Codec!Bad PROVE i < j
    BY <1>2, <1>6, <1>7
  <2> QED
    BY <2>1, <2>2, <2>3
<1>10. IsFiniteSet(R) /\ IsFiniteSet(1 .. n) /\ Cardinality(1 .. n) = n
  <2>1. IsFiniteSet(1 .. l) /\ R \subseteq 1 .. l
    BY FS_Interval
  <2>2. IsFiniteSet(1 .. n) /\ Cardinality(1 .. n) = IF 1 > n THEN 0 ELSE n - 1 + 1
    BY <1>2, FS_Interval
  <2> HIDE DEF R
  <2> QED
    <3>1. IsFiniteSet(R)
      BY <2>1, FS_Subset
    <3>2. n = 0 \/ (~ (1 > n) /\ n - 1 + 1 = n)
      BY <1>2
    <3>3. n = 0 => 1 > n
      OBVIOUS
    <3> QED
      BY <2>2, <3>1, <3>2, <3>3
<1>11. Cardinality(R) \in Nat /\ n <= Cardinality(R)
  <2> HIDE DEF R
  <2> QED
    BY <1>9, <1>10, FS_Subset, FS_CardinalityType
<1>12. ASSUME codecPc = "poll" PROVE R \subseteq 1 .. n
  <2> SUFFICES ASSUME NEW i \in R, i \notin 1 .. n PROVE FALSE
    OBVIOUS
  <2>1. i \in 1 .. l /\ n < i /\ n < l /\ n + 1 \in 0 .. l /\ i \in 0 .. l /\ e[i] <= received
    BY <1>2
  <2>2. e[n + 1] <= received
    <3>1. CASE i = n + 1
      BY <2>1, <3>1
    <3>2. CASE n + 1 < i
      <4>1. e[n + 1] < e[i] /\ e[n + 1] \in Nat /\ e[i] \in Nat
        BY <1>3, <1>4, <2>1, <3>2
      <4> QED
        BY <1>5, <2>1, <4>1
    <3> QED
      BY <1>2, <2>1, <3>1, <3>2
  <2>3. errorCode # "kNoError"
    BY <1>1, <1>2, <1>12, <2>1, <2>2 DEF Settled
  <2>4. n + 1 \in Codec!Bad
    BY <1>1, <2>3 DEF Told
  <2>5. i < n + 1
    BY <2>4
  <2> QED
    BY <1>2, <2>1, <2>5
<1>13. ASSUME codecPc = "poll" PROVE Cardinality(R) = n
  <2>1. R = 1 .. n
    <3> HIDE DEF R
    <3> QED
      BY <1>9, <1>12, <1>13
  <2> HIDE DEF R
  <2> QED
    BY <1>10, <2>1
<1> QED
  BY <1>8, <1>11, <1>13

(* The frames taken are the first n.                                       *)
LEMMA TakenFacts ==
    ASSUME NEW e, NEW n, AtFrames(e, n)
    PROVE  Codec!Taken = n /\ Codec!Ahead(n) = received - Len(input)
<1>1. Layout(e) /\ Window(e, n)
  BY DEF AtFrames
<1>2. PICK l \in Nat : l = Len(frames) /\ n \in 0 .. l /\ n \in Nat
  BY <1>1, WindowFacts
<1>3. \A i \in 0 .. l : e[i] \in Nat /\ Codec!Ahead(i) = e[i]
  BY <1>1, <1>2 DEF Layout
<1>4. \A i, j \in 0 .. l : i < j => e[i] < e[j]
  BY <1>1, <1>2, LayoutGrows
<1>5. received - Len(input) = e[n]
  <2>1. Len(input) = received - e[n] /\ received \in Nat /\ e[n] \in Nat
    BY <1>1, <1>2, <1>3 DEF Window
  <2> QED
    BY <2>1
<1>6. ASSUME NEW i \in 0 .. l, Codec!Ahead(i) = e[n] PROVE i = n
  <2>1. e[i] = e[n] /\ e[i] \in Nat
    BY <1>3, <1>6
  <2>2. ~ (e[i] < e[n]) /\ ~ (e[n] < e[i])
    BY <2>1
  <2>3. ~ (i < n) /\ ~ (n < i)
    BY <1>2, <1>4, <2>2
  <2> QED
    BY <1>2, <2>3
<1>7. Codec!Taken = CHOOSE i \in 0 .. l : Codec!Ahead(i) = e[n]
  BY <1>2, <1>5 DEF Codec!Taken
<1>8. Codec!Ahead(n) = e[n]
  BY <1>2, <1>3
<1>9. (CHOOSE i \in 0 .. l : Codec!Ahead(i) = e[n]) = n
  BY <1>2, <1>6, <1>8
<1> QED
  BY <1>5, <1>7, <1>8, <1>9

(* What the invariant says of the codec.                                   *)
LEMMA CodecInvDelivers == CodecInv => Codec!CodecDelivers
<1> SUFFICES ASSUME CodecInv PROVE Codec!CodecDelivers
  OBVIOUS
<1>1. PICK e, n : AtFrames(e, n)
  BY DEF CodecInv
<1>2. Layout(e) /\ Window(e, n) /\ HasGot(n) /\ Told(n) /\ Settled(e, n)
  BY <1>1 DEF AtFrames
<1>3. Codec!Taken = n /\ Codec!Ahead(n) = received - Len(input)
  BY <1>1, TakenFacts
<1>4. Codec!Readable \in Nat /\ n <= Codec!Readable /\ (codecPc = "poll" => Codec!Readable = n)
  BY <1>1, ReadableFacts
<1>5. n \in Nat /\ n <= Len(frames) /\ Len(frames) \in Nat
  BY <1>2, WindowFacts
<1>6. Codec!MessagesWhole
  <2>1. n \in 0 .. Codec!Readable
    BY <1>4, <1>5
  <2>2. delivered = Codec!FlattenSeq([i \in 1 .. Codec!Taken |-> Codec!Given(frames[i])])
    BY <1>2, <1>3 DEF HasGot
  <2> QED
    BY <1>3, <2>1, <2>2 DEF Codec!MessagesWhole
<1>7. Codec!NothingWaits
  <2> SUFFICES ASSUME codecPc = "poll"
               PROVE  /\ Codec!Taken = Codec!Readable
                      /\ errorCode # "kNoError" <=> state = "disconnecting"
                      /\ Codec!Taken < Len(frames) /\ Codec!Ahead(Codec!Taken + 1) <= received
                           => errorCode = frames[Codec!Taken + 1].error
    BY DEF Codec!NothingWaits
  <2>1. Codec!Taken = Codec!Readable
    BY <1>3, <1>4
  <2>2. errorCode # "kNoError" <=> state = "disconnecting"
    <3>1. n + 1 \in Codec!Bad => frames[n + 1].error # "kNoError"
      BY DEF Codec!Bad
    <3> QED
      BY <1>2, <3>1 DEF Told
  <2>3. ASSUME n < Len(frames), Codec!Ahead(n + 1) <= received PROVE errorCode = frames[n + 1].error
    <3>1. n + 1 \in 0 .. Len(frames)
      BY <1>5, <2>3
    <3>2. Codec!Ahead(n + 1) = e[n + 1]
      BY <1>2, <3>1 DEF Layout
    <3>3. errorCode # "kNoError"
      BY <1>2, <2>3, <3>2 DEF Settled
    <3> QED
      BY <1>2, <3>3 DEF Told
  <2> QED
    BY <1>3, <2>1, <2>2, <2>3
<1> QED
  BY <1>6, <1>7 DEF Codec!CodecDelivers

(* ProtobufCodecLite's onMessage() takes whole frames and only them out of *)
(* the stream however it was cut, hands over the messages once each and in *)
(* order, stops at the first frame that is damaged or does not parse and   *)
(* says why, for every tag, limit, set of messages and number of frames.   *)
THEOREM CodecSafe == StreamsSpec => []CodecDelivers
<1>1. StreamsInit => CodecInv
  BY CodecInitInv DEF StreamsInit
<1>2. CodecInv /\ [StreamsNext]_<<vars, codecVars, rpcVars, httpVars, part>> => CodecInv'
  <2> SUFFICES ASSUME CodecInv, [StreamsNext]_<<vars, codecVars, rpcVars, httpVars, part>> PROVE CodecInv'
    OBVIOUS
  <2>1. [Codec!Next]_codecVars
    BY DEF StreamsNext
  <2> QED
    BY <2>1, CodecNextInv
<1>3. CodecInv => CodecDelivers
  BY CodecInvDelivers DEF CodecDelivers
<1> QED
  BY <1>1, <1>2, <1>3, PTL DEF StreamsSpec
=============================================================================
