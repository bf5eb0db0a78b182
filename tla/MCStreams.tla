------------------------------ MODULE MCStreams ------------------------------
(***************************************************************************)
(* What muduo/net builds on a byte stream: the buffer, the protobuf codec, *)
(* the RPC channel and the HTTP server.  They are checked one by one: a    *)
(* behaviour chooses one of them, `part', and only that one moves.         *)
(***************************************************************************)
EXTENDS BufferUse

CONSTANTS Tag, kMaxMessageLen, Messages, Unparsable, Refused, MaxFrames

\* The room in front holds the length of a frame, lengths have 32 bits, and
\* some messages of the peer are neither refused nor too long.
ASSUME CodecAssumption ==
  /\ kCheapPrepend >= 4 /\ kMaxMessageLen \in Nat /\ kMaxMessageLen < 2147483647
  /\ Tag \in Seq(0..255) /\ Tag # <<>>
  /\ \A m \in Messages : m \in Seq(0..255) /\ Len(Tag) + Len(m) + 4 <= kMaxMessageLen
  /\ Messages \ Refused # {} /\ MaxFrames \in Nat

VARIABLES frames, received, input, state, codecPc, delivered, errorCode

CONSTANTS Callers, MaxCalls
ASSUME CallsAssumption == MaxCalls \in Nat
VARIABLES id_, caller, outstandings_, requests, responses, kept, up, channel, fate, dangling

CONSTANT Visits
VARIABLES visit, arrived, inbuf, context, open, httpPc, handed, answers

VARIABLE part

Codec == INSTANCE ProtobufCodec
Rpc == INSTANCE RpcChannel
Http == INSTANCE MuduoHttp

codecVars == <<frames, received, input, state, codecPc, delivered, errorCode>>
rpcVars == <<id_, caller, outstandings_, requests, responses, kept, up, channel, fate, dangling>>
httpVars == <<visit, arrived, inbuf, context, open, httpPc, handed, answers>>

\* What stands in the variables of a part that does not move.
AnyScript == CHOOSE s \in Codec!Scripts : TRUE
AnyVisit == CHOOSE v \in Visits : TRUE

StreamsInit ==
  /\ part \in {"buffer", "codec", "rpc", "http"}
  /\ IF part = "codec" THEN TRUE ELSE frames = AnyScript
  /\ IF part = "http" THEN TRUE ELSE visit = AnyVisit
  /\ Init /\ Codec!Init /\ Rpc!Init /\ Http!Init

StreamsNext ==
  \/ part = "buffer" /\ Next /\ UNCHANGED <<part, codecVars, rpcVars, httpVars>>
  \/ part = "codec" /\ Codec!Next /\ UNCHANGED <<part, vars, rpcVars, httpVars>>
  \/ part = "rpc" /\ Rpc!Next /\ UNCHANGED <<part, vars, codecVars, httpVars>>
  \/ part = "http" /\ Http!Next /\ UNCHANGED <<part, vars, codecVars, rpcVars>>

\* Loop threads handle what arrives, callers go through CallMethod(), and
\* services run the closures they keep.  Nobody is bound to make a call.
StreamsFairness ==
  /\ WF_codecVars(part = "codec" /\ Codec!OnMessage)
  /\ WF_rpcVars(part = "rpc" /\ Rpc!OnRequest)
  /\ WF_rpcVars(part = "rpc" /\ Rpc!OnResponse)
  /\ WF_rpcVars(part = "rpc" /\ \E request \in kept : Rpc!RunsKept(request))
  /\ \A t \in Callers : WF_rpcVars(part = "rpc" /\ Rpc!CallerStep(t))
  /\ WF_httpVars(part = "http" /\ Http!OnMessage)

StreamsSpec ==
  StreamsInit /\ [][StreamsNext]_<<vars, codecVars, rpcVars, httpVars, part>> /\ StreamsFairness

-----------------------------------------------------------------------------
\* BufferServes is in BufferUse, the others repeat those of their modules.

\* ProtobufCodecLite delivers the frames of the stream whole, in order and as
\* soon as they are complete.
CodecDelivers == part = "codec" => Codec!CodecDelivers

\* Every call of an RpcChannel gets its own answer, once, and none is forgotten.
CallsKept == Rpc!CallsKept

\* HttpServer hands over requests whole and in order, serves a client that
\* waits, and closes when it is asked to.
RequestsServed == Http!RequestsServed

\* Loops over a buffer end, and calls are answered.
StreamsServed == Codec!OnMessageReturns /\ Http!ParseReturns /\ Rpc!CallsAnswered

-----------------------------------------------------------------------------
TheTag == <<82>>

\* Serialized messages: empty ones, bytes with the highest bit, one that does
\* not parse and one whose frames rawCb_ refuses.
TheMessages == {<<>>, <<200, 1>>, <<250, 250, 250>>, <<9>>, <<7>>}
TheUnparsable == {<<9>>}
TheRefused == {<<7>>}

\* For the definition of the visits.
Req == INSTANCE MuduoHttp WITH Visits <- {}

\* Two requests, good ones first or refused ones.
Get == Req!Sent("GET", <<"/">>, <<"?", "q">>, "HTTP/1.1",
                <<<<"Host", <<"SP", "a", "SP", "b", "SP">>>>, <<"Host", <<>>>>>>)
Old == Req!Sent("POST", <<"/">>, <<>>, "HTTP/1.0", <<<<"Connection", <<"SP", "Keep-Alive">>>>>>)
Close == Req!Sent("HEAD", <<"/">>, <<>>, "HTTP/1.1", <<<<"Connection", <<"close", "SP">>>>>>)
Older == Req!Sent("PUT", <<"/">>, <<>>, "HTTP/1.0", <<>>)
NoMethod == [Older EXCEPT !.method = "FETCH"]
NoVersion == [Older EXCEPT !.version = "HTTP/2.0"]

TheVisits ==
  {Req!Visit(<<first, second>>, waits) :
     first \in {Get, Old}, second \in {Get, Old, Close, Older, NoMethod, NoVersion}, waits \in BOOLEAN}
  \cup {Req!Visit(<<first, second>>, FALSE) :
          first \in {NoMethod, NoVersion, Close, Older}, second \in {Get, Older}}
=============================================================================
