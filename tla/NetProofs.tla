----------------------------- MODULE NetProofs ------------------------------
(***************************************************************************)
(* Proofs about the parts of muduo/net around the loop.  TcpServer over    *)
(* several loops: the loops agree on the connections, the Acceptor keeps   *)
(* its spare descriptor, and the pool's loops are used in turn.  The       *)
(* pollers: channels_, the channels' indices, and the kernel's table or    *)
(* pollfds_ agree after any updates and removals.  TcpClient and its       *)
(* Connector: one way to a connection at a time, and no socket lost.       *)
(***************************************************************************)
EXTENDS MCNet, FiniteSetTheorems, SequenceTheorems, TLAPS

-----------------------------------------------------------------------------
(***************************************************************************)
(* The server.                                                             *)
(***************************************************************************)
States == {"none", "waiting", "refused", "kConnecting", "kConnected", "kDisconnected", "destroyed"}
Ops == {"connectEstablished", "removeConnectionInLoop", "connectDestroyed"}
AllLoops == IoLoops \union {"base"}
Functors == [op : Ops, c : Conns]

ServerType ==
    /\ loops \in Seq(IoLoops) /\ next \in Nat
    /\ backlog \in Seq(Conns) /\ accepting \in {"no", "accept", "open"}
    /\ conn \in [Conns -> [state : States, loop : AllLoops]]
    /\ connections \in SUBSET Conns
    /\ pending \in [AllLoops -> Seq(Functors)]
    /\ served \in [AllLoops -> Nat]

(* The backlog holds the waiting clients, each once; the client that is to *)
(* be refused is still in it when its turn comes.                          *)
BacklogInv ==
    /\ \A i \in 1 .. Len(backlog) :
          /\ conn[backlog[i]].state = "waiting"
          /\ \A j \in 1 .. Len(backlog) : backlog[j] = backlog[i] => j = i
    /\ accepting = "accept" => backlog # <<>>

(* A functor f in the queue of loop l finds its connection, in conn and    *)
(* connections_, as it needs it.                                           *)
Fits(f, l, con, known) ==
    /\ f.op = "connectEstablished" =>
          con[f.c].state = "kConnecting" /\ con[f.c].loop = l /\ f.c \in known
    /\ f.op = "removeConnectionInLoop" =>
          con[f.c].state = "kDisconnected" /\ l = "base" /\ f.c \in known
    /\ f.op = "connectDestroyed" =>
          con[f.c].state = "kDisconnected" /\ con[f.c].loop = l /\ f.c \notin known

(* The functors in the queue of loop l.                                    *)
In(p, l) == {p[l][i] : i \in 1 .. Len(p[l])}

(* No two functors are about the same connection.                          *)
OneFunctor(p) ==
    \A l, m \in AllLoops : \A i \in 1 .. Len(p[l]), j \in 1 .. Len(p[m]) :
        p[l][i].c = p[m][j].c => l = m /\ i = j

(* Connection c is in connections_ while it needs to be.                   *)
Listed(c, con, known, p) ==
    /\ con[c].state \in {"kConnecting", "kConnected"} => c \in known
    /\ c \in known /\ con[c].state = "kDisconnected" => \E f \in In(p, "base") : f.c = c

(* Each connection is on one way through the loops.                        *)
OneWay ==
    /\ ~ broken
    /\ \A l \in AllLoops : \A f \in In(pending, l) : Fits(f, l, conn, connections)
    /\ OneFunctor(pending)
    /\ \A c \in Conns : Listed(c, conn, connections, pending)

InUse == {c \in Conns : conn[c].state \notin {"none", "waiting", "refused", "destroyed"}}

(* idleFd_ is open but for the way through EMFILE, where its descriptor is *)
(* left for the client to be refused.                                      *)
SpareInv ==
    /\ accepting = "no" => idleFd /\ Cardinality(InUse) + 1 <= FdLimit
    /\ accepting # "no" => ~ idleFd /\ Cardinality(InUse) < FdLimit

(* The loops before next_ have had one connection more than the others.    *)
TurnInv ==
    /\ listenning => started \/ IoLoops = {}
    /\ ~ listenning => backlog = <<>> /\ next = 0 /\ served = [l \in AllLoops |-> 0]
    /\ loops # <<>> => next < Len(loops)
    /\ \A i, j \in 1 .. Len(loops) : loops[i] = loops[j] => i = j
    /\ \E v \in Nat : \A i \in 1 .. Len(loops) : served[loops[i]] = IF i <= next THEN v + 1 ELSE v

ServerInv == ServerType /\ BacklogInv /\ OneWay /\ SpareInv /\ TurnInv
-----------------------------------------------------------------------------
(* The queues of the loops: what Append and Tail do to one of them.        *)
Appended(p, q, l, f) == q = [p EXCEPT ![l] = Append(@, f)]
Popped(p, q, l) == q = [p EXCEPT ![l] = Tail(@)]

(* A functor is added behind the others, which are not about the same      *)
(* connection.                                                             *)
LEMMA AppendedFunctor ==
    ASSUME NEW p \in [AllLoops -> Seq(Functors)], NEW l \in AllLoops, NEW f \in Functors,
           NEW q, Appended(p, q, l, f),
           OneFunctor(p), \A m \in AllLoops : \A g \in In(p, m) : g.c # f.c
    PROVE  /\ q \in [AllLoops -> Seq(Functors)]
           /\ \A m \in AllLoops : In(q, m) = IF m = l THEN In(p, m) \union {f} ELSE In(p, m)
           /\ OneFunctor(q)
<1>1. p[l] \in Seq(Functors) /\ \A m \in AllLoops : Len(p[m]) \in Nat
  BY LenProperties
<1>2. /\ Append(p[l], f) \in Seq(Functors) /\ Len(Append(p[l], f)) = Len(p[l]) + 1
      /\ \A i \in 1 .. Len(p[l]) : Append(p[l], f)[i] = p[l][i]
      /\ Append(p[l], f)[Len(p[l]) + 1] = f
  BY <1>1, AppendProperties
<1>3. q[l] = Append(p[l], f) /\ \A m \in AllLoops \ {l} : q[m] = p[m]
  BY DEF Appended
<1>4. q \in [AllLoops -> Seq(Functors)]
  BY <1>2 DEF Appended
<1>5. \A m \in AllLoops \ {l} : In(q, m) = In(p, m)
  BY <1>3 DEF In
<1>6. In(q, l) = In(p, l) \union {f}
  <2>1. ASSUME NEW i \in 1 .. Len(q[l]) PROVE q[l][i] \in In(p, l) \union {f}
    BY <1>1, <1>2, <1>3 DEF In
  <2>2. ASSUME NEW i \in 1 .. Len(p[l]) PROVE p[l][i] \in In(q, l)
    BY <1>1, <1>2, <1>3 DEF In
  <2>3. f \in In(q, l)
    BY <1>1, <1>2, <1>3 DEF In
  <2> QED
    BY <2>1, <2>2, <2>3 DEF In
<1>7. OneFunctor(q)
  <2> SUFFICES ASSUME NEW m \in AllLoops, NEW n \in AllLoops,
                      NEW i \in 1 .. Len(q[m]), NEW j \in 1 .. Len(q[n]), q[m][i].c = q[n][j].c
               PROVE  m = n /\ i = j
    BY DEF OneFunctor
  <2>1. ASSUME NEW v \in AllLoops, NEW h \in 1 .. Len(q[v])
        PROVE  \/ h \in 1 .. Len(p[v]) /\ q[v][h] = p[v][h]
               \/ v = l /\ h = Len(p[l]) + 1 /\ q[v][h] = f
    <3>1. CASE v = l
      BY <1>1, <1>2, <1>3, <3>1
    <3>2. CASE v # l
      BY <1>3, <3>2
    <3> QED
      BY <3>1, <3>2
  <2>2. \A v \in AllLoops : \A h \in 1 .. Len(p[v]) : p[v][h].c # f.c
    BY DEF In
  <2>3. CASE i \in 1 .. Len(p[m]) /\ q[m][i] = p[m][i] /\ j \in 1 .. Len(p[n]) /\ q[n][j] = p[n][j]
    BY <2>3 DEF OneFunctor
  <2>4. CASE q[m][i] = f
    <3>1. q[n][j] # p[n][j] \/ j \notin 1 .. Len(p[n])
      BY <2>2, <2>4
    <3>2. i \notin 1 .. Len(p[m]) \/ q[m][i] # p[m][i]
      BY <2>2, <2>4
    <3> QED
      BY <2>1, <3>1, <3>2
  <2>5. CASE q[n][j] = f
    <3>1. q[n][j] # p[n][j] \/ j \notin 1 .. Len(p[n])
      BY <2>2, <2>5
    <3>2. i \notin 1 .. Len(p[m]) \/ q[m][i] # p[m][i]
      BY <2>2, <2>5
    <3> QED
      BY <2>1, <3>1, <3>2
  <2> QED
    BY <2>1, <2>3, <2>4, <2>5
<1> QED
  BY <1>4, <1>5, <1>6, <1>7

(* The first functor is taken away, and no other is about its connection.  *)
LEMMA PoppedFunctor ==
    ASSUME NEW p \in [AllLoops -> Seq(Functors)], NEW l \in AllLoops, p[l] # <<>>,
           NEW q, Popped(p, q, l), OneFunctor(p)
    PROVE  /\ q \in [AllLoops -> Seq(Functors)]
           /\ Head(p[l]) \in Functors /\ Head(p[l]) \in In(p, l)
           /\ \A m \in AllLoops \ {l} : In(q, m) = In(p, m)
           /\ In(p, l) = In(q, l) \union {Head(p[l])}
           /\ OneFunctor(q) /\ \A m \in AllLoops : \A g \in In(q, m) : g.c # Head(p[l]).c
<1>1. p[l] \in Seq(Functors) /\ Len(p[l]) \in Nat /\ Len(p[l]) # 0
  BY LenProperties, EmptySeq
<1>2. /\ Head(p[l]) = p[l][1] /\ Head(p[l]) \in Functors
      /\ Tail(p[l]) \in Seq(Functors) /\ Len(Tail(p[l])) = Len(p[l]) - 1
      /\ \A i \in 1 .. Len(Tail(p[l])) : Tail(p[l])[i] = p[l][i + 1]
  BY <1>1, HeadTailProperties
<1>3. q[l] = Tail(p[l]) /\ \A m \in AllLoops \ {l} : q[m] = p[m]
  BY DEF Popped
<1>4. q \in [AllLoops -> Seq(Functors)]
  BY <1>2 DEF Popped
<1>5. \A i \in 1 .. Len(q[l]) : q[l][i] = p[l][i + 1] /\ i + 1 \in 2 .. Len(p[l])
  BY <1>1, <1>2, <1>3
<1>6. In(p, l) = In(q, l) \union {Head(p[l])}
  <2>1. ASSUME NEW i \in 1 .. Len(p[l]) PROVE p[l][i] \in In(q, l) \union {Head(p[l])}
    <3>1. CASE i = 1
      BY <1>2, <3>1
    <3>2. CASE i # 1
      <4>1. i - 1 \in 1 .. Len(q[l]) /\ (i - 1) + 1 = i
        BY <1>1, <1>2, <1>3, <3>2
      <4> QED
        BY <1>5, <4>1 DEF In
    <3> QED
      BY <3>1, <3>2
  <2>2. ASSUME NEW i \in 1 .. Len(q[l]) PROVE q[l][i] \in In(p, l)
    BY <1>1, <1>5, SMTT(40) DEF In
  <2>3. Head(p[l]) \in In(p, l)
    BY <1>1, <1>2 DEF In
  <2> QED
    BY <2>1, <2>2, <2>3 DEF In
<1>7. \A m \in AllLoops \ {l} : In(q, m) = In(p, m)
  BY <1>3 DEF In
<1>8. OneFunctor(q)
  <2> SUFFICES ASSUME NEW m \in AllLoops, NEW n \in AllLoops,
                      NEW i \in 1 .. Len(q[m]), NEW j \in 1 .. Len(q[n]), q[m][i].c = q[n][j].c
               PROVE  m = n /\ i = j
    BY DEF OneFunctor
  <2>1. ASSUME NEW v \in AllLoops, NEW h \in 1 .. Len(q[v])
        PROVE  IF v = l THEN q[v][h] = p[v][h + 1] /\ h + 1 \in 1 .. Len(p[v])
               ELSE q[v][h] = p[v][h] /\ h \in 1 .. Len(p[v])
    <3>1. CASE v = l
      BY <1>1, <1>5, <3>1
    <3>2. CASE v # l
      BY <1>3, <3>2
    <3> QED
      BY <3>1, <3>2
  <2> DEFINE a == IF m = l THEN i + 1 ELSE i
             b == IF n = l THEN j + 1 ELSE j
  <2>2. a \in 1 .. Len(p[m]) /\ b \in 1 .. Len(p[n]) /\ p[m][a].c = p[n][b].c
    BY <2>1
  <2>3. m = n /\ a = b
    BY <2>2 DEF OneFunctor
  <2> QED
    BY <2>3
<1>9. ASSUME NEW m \in AllLoops, NEW g \in In(q, m) PROVE g.c # Head(p[l]).c
  <2>1. PICK i \in 1 .. Len(q[m]) : g = q[m][i]
    BY DEF In
  <2>2. 1 \in 1 .. Len(p[l])
    BY <1>1
  <2>3. CASE m = l
    <3>1. i + 1 \in 1 .. Len(p[l]) /\ g = p[l][i + 1] /\ i + 1 # 1
      BY <1>1, <1>5, <2>1, <2>3
    <3> QED
      BY <1>2, <2>2, <3>1 DEF OneFunctor
  <2>4. CASE m # l
    BY <1>2, <1>3, <2>1, <2>2, <2>4 DEF OneFunctor
  <2> QED
    BY <2>3, <2>4
<1> QED
  BY <1>2, <1>4, <1>6, <1>7, <1>8, <1>9

(* Functors are about connections.                                         *)
LEMMA FunctorType ==
    ASSUME NEW p \in [AllLoops -> Seq(Functors)], NEW l \in AllLoops, NEW f \in In(p, l)
    PROVE  f \in Functors /\ f.op \in Ops /\ f.c \in Conns
<1>1. PICK i \in 1 .. Len(p[l]) : f = p[l][i]
  BY DEF In
<1>2. p[l] \in Seq(Functors)
  OBVIOUS
<1>3. f \in Functors
  BY <1>1, <1>2, ElementOfSeq
<1> QED
  BY <1>3 DEF Functors

(* A connection that is new or established has no functor in any queue.    *)
LEMMA NoFunctor ==
    ASSUME ServerType, OneWay, NEW c \in Conns, conn[c].state \notin {"kConnecting", "kDisconnected"},
           NEW l \in AllLoops, NEW f \in In(pending, l)
    PROVE  f.c # c
<1>1. f.op \in Ops /\ Fits(f, l, conn, connections)
  BY FunctorType DEF ServerType, OneWay
<1> QED
  BY <1>1 DEF Fits, Ops

(* A connection changes its state.                                         *)
LEMMA StateChange ==
    ASSUME ServerType, NEW c \in Conns, NEW s \in States, conn' = [conn EXCEPT ![c].state = s]
    PROVE  /\ conn' \in [Conns -> [state : States, loop : AllLoops]]
           /\ \A d \in Conns : /\ conn'[d].loop = conn[d].loop
                               /\ conn'[d].state = IF d = c THEN s ELSE conn[d].state
BY DEF ServerType

(* Server counts with its own copy of FiniteSets.                          *)
LEMMA SameCount ==
    ASSUME NEW S PROVE Server!Cardinality(S) = Cardinality(S)
BY DEF Server!Cardinality, Cardinality

(* The descriptors in use can be counted.                                  *)
LEMMA InUseCount == IsFiniteSet(InUse) /\ Cardinality(InUse) \in Nat
<1>1. InUse \subseteq Conns
  BY DEF InUse
<1> QED
  BY <1>1, ServerAssumption, FS_Subset, FS_CardinalityType

(* What accept() finds: whether a descriptor is left.                      *)
LEMMA FdsLeftMeans ==
    Server!FdsLeft <=> Cardinality(InUse) + (IF idleFd THEN 1 ELSE 0) < FdLimit
<1>1. Server!InUse = InUse
  BY DEF Server!InUse, InUse
<1> QED
  BY <1>1, SameCount DEF Server!FdsLeft

(* The pool and the listening socket are new, nobody has connected.        *)
LEMMA ServerInit ==
    ASSUME Server!Init PROVE ServerInv
<1> USE ServerAssumption DEF Server!Init, Server!AllLoops, Server!Base, Server!None, AllLoops
<1>1. ServerType
  BY EmptySeq DEF ServerType, States
<1>2. BacklogInv
  BY DEF BacklogInv
<1>3. OneWay
  <2>1. \A c \in Conns : conn[c].state = "none" /\ c \notin connections
    OBVIOUS
  <2>2. \A l \in AllLoops : Len(pending[l]) = 0 /\ In(pending, l) = {}
    BY EmptySeq DEF In
  <2> QED
    BY <2>1, <2>2 DEF OneWay, OneFunctor, Listed
<1>4. SpareInv
  <2>1. InUse = {}
    BY DEF InUse
  <2> QED
    BY <2>1, FS_EmptySet DEF SpareInv
<1>5. TurnInv
  <2>1. 0 \in Nat /\ Len(loops) = 0
    BY EmptySeq
  <2> QED
    BY <2>1 DEF TurnInv
<1> QED
  BY <1>1, <1>2, <1>3, <1>4, <1>5 DEF ServerInv

(* A step that touches neither a connection nor a functor keeps the ways   *)
(* of the connections.                                                     *)
LEMMA OneWayIdle ==
    ASSUME OneWay, UNCHANGED <<conn, connections, pending, broken>> PROVE OneWay'
BY DEF OneWay

(* start(): a loop joins the pool before anybody is accepted.              *)
LEMMA StartPoolKeeps ==
    ASSUME ServerInv, NEW l \in IoLoops, Server!StartPool(l) PROVE ServerInv'
<1>0. ServerType /\ BacklogInv /\ OneWay /\ SpareInv /\ TurnInv
  BY DEF ServerInv
<1>1. /\ ~ started /\ \A i \in 1 .. Len(loops) : loops[i] # l
      /\ loops' = Append(loops, l)
      /\ UNCHANGED <<listenning, next, idleFd, accepting, backlog, conn, connections, pending,
                     served, broken>>
  BY DEF Server!StartPool
<1>2. /\ loops' \in Seq(IoLoops) /\ Len(loops') = Len(loops) + 1 /\ loops'[Len(loops) + 1] = l
      /\ Len(loops) \in Nat /\ \A i \in 1 .. Len(loops) : loops'[i] = loops[i]
  BY <1>0, <1>1, AppendProperties, LenProperties DEF ServerType
<1>3. ServerType'
  BY <1>0, <1>1, <1>2 DEF ServerType
<1>4. BacklogInv'
  BY <1>0, <1>1 DEF BacklogInv
<1>5. OneWay'
  BY <1>0, <1>1, OneWayIdle
<1>6. SpareInv'
  BY <1>0, <1>1 DEF SpareInv, InUse
<1>7. TurnInv'
  <2>1. ~ listenning /\ backlog = <<>> /\ next = 0 /\ served = [m \in AllLoops |-> 0]
    BY <1>0, <1>1 DEF TurnInv
  <2>2. \A i, j \in 1 .. Len(loops') : loops'[i] = loops'[j] => i = j
    <3> SUFFICES ASSUME NEW i \in 1 .. Len(loops'), NEW j \in 1 .. Len(loops'), loops'[i] = loops'[j]
                 PROVE  i = j
      OBVIOUS
    <3> QED
      BY <1>0, <1>1, <1>2 DEF TurnInv
  <2>3. \A i \in 1 .. Len(loops') : loops'[i] \in AllLoops
    BY <1>2 DEF AllLoops
  <2>4. \A i \in 1 .. Len(loops') : served'[loops'[i]] = IF i <= next' THEN 0 + 1 ELSE 0
    BY <1>1, <2>1, <2>3
  <2>5. \E v \in Nat : \A i \in 1 .. Len(loops') : served'[loops'[i]] = IF i <= next' THEN v + 1 ELSE v
    BY <2>4
  <2>6. next' < Len(loops')
    BY <1>1, <1>2, <2>1
  <2> QED
    BY <1>1, <2>1, <2>2, <2>5, <2>6 DEF TurnInv
<1> QED
  BY <1>3, <1>4, <1>5, <1>6, <1>7 DEF ServerInv

(* listen(), once the pool is complete.                                    *)
LEMMA ListenKeeps ==
    ASSUME ServerInv, Server!Listen PROVE ServerInv'
<1>0. ServerType /\ BacklogInv /\ OneWay /\ SpareInv /\ TurnInv
  BY DEF ServerInv
<1>1. /\ (started \/ IoLoops = {}) /\ listenning'
      /\ UNCHANGED <<loops, started, next, idleFd, accepting, backlog, conn, connections, pending,
                     served, broken>>
  BY DEF Server!Listen
<1>2. ServerType' /\ BacklogInv'
  BY <1>0, <1>1 DEF ServerType, BacklogInv
<1>3. OneWay'
  BY <1>0, <1>1, OneWayIdle
<1>4. SpareInv'
  BY <1>0, <1>1 DEF SpareInv, InUse
<1>5. TurnInv'
  BY <1>0, <1>1 DEF TurnInv, Server!Listen
<1> QED
  BY <1>2, <1>3, <1>4, <1>5 DEF ServerInv

(* A client that connects waits behind the others.                         *)
LEMMA ConnectsKeeps ==
    ASSUME ServerInv, NEW c \in Conns, Server!Connects(c) PROVE ServerInv'
<1>0. ServerType /\ BacklogInv /\ OneWay /\ SpareInv /\ TurnInv
  BY DEF ServerInv
<1>1. /\ listenning /\ conn[c].state = "none"
      /\ backlog' = Append(backlog, c) /\ conn' = [conn EXCEPT ![c].state = "waiting"]
      /\ UNCHANGED <<loops, started, listenning, next, idleFd, accepting, connections, pending,
                     served, broken>>
  BY DEF Server!Connects
<1>2. /\ conn' \in [Conns -> [state : States, loop : AllLoops]]
      /\ \A d \in Conns : /\ conn'[d].loop = conn[d].loop
                          /\ conn'[d].state = IF d = c THEN "waiting" ELSE conn[d].state
  BY <1>0, <1>1, StateChange DEF States
<1>3. /\ backlog' \in Seq(Conns) /\ Len(backlog') = Len(backlog) + 1 /\ backlog'[Len(backlog) + 1] = c
      /\ Len(backlog) \in Nat /\ \A i \in 1 .. Len(backlog) : backlog'[i] = backlog[i] /\ backlog[i] \in Conns
  BY <1>0, <1>1, AppendProperties, LenProperties DEF ServerType
<1>4. ServerType'
  BY <1>0, <1>1, <1>2, <1>3 DEF ServerType
<1>5. BacklogInv'
  <2>1. ASSUME NEW i \in 1 .. Len(backlog'), NEW j \in 1 .. Len(backlog')
        PROVE  conn'[backlog'[i]].state = "waiting" /\ (backlog'[j] = backlog'[i] => j = i)
    BY <1>0, <1>1, <1>2, <1>3 DEF BacklogInv
  <2>2. backlog' # <<>>
    BY <1>3, EmptySeq
  <2> QED
    BY <2>1, <2>2 DEF BacklogInv
<1>6. OneWay'
  <2>1. ASSUME NEW l \in AllLoops, NEW f \in In(pending, l) PROVE Fits(f, l, conn', connections)
    <3>1. f.op \in Ops /\ f.c \in Conns /\ f.c # c /\ Fits(f, l, conn, connections)
      BY <1>0, <1>1, FunctorType, NoFunctor DEF ServerType, OneWay
    <3> QED
      BY <1>2, <3>1 DEF Fits
  <2>2. ASSUME NEW d \in Conns PROVE Listed(d, conn', connections, pending)
    BY <1>0, <1>1, <1>2 DEF OneWay, Listed
  <2> QED
    BY <1>0, <1>1, <2>1, <2>2 DEF OneWay
<1>7. SpareInv'
  <2>1. InUse' = InUse
    BY <1>1, <1>2 DEF InUse
  <2> QED
    BY <1>0, <1>1, <2>1 DEF SpareInv
<1>8. TurnInv'
  BY <1>0, <1>1 DEF TurnInv
<1> QED
  BY <1>4, <1>5, <1>6, <1>7, <1>8 DEF ServerInv

(* newConnection(): the next loop gets the connection, and its queue the   *)
(* functor that establishes it.                                            *)
LEMMA AcceptKeeps ==
    ASSUME ServerInv, Server!Accept PROVE ServerInv'
<1> USE ServerAssumption
<1> DEFINE c == Head(backlog)
           l == Server!getNextLoop
           s == IF l = "base" THEN "kConnected" ELSE "kConnecting"
           f == [op |-> "connectEstablished", c |-> c]
<1>0. ServerType /\ BacklogInv /\ OneWay /\ SpareInv /\ TurnInv
  BY DEF ServerInv
<1>1. /\ backlog # <<>> /\ accepting = "no" /\ Server!FdsLeft
      /\ backlog' = Tail(backlog)
      /\ next' = IF loops = <<>> THEN next ELSE Server!NextIndex
      /\ conn' = [conn EXCEPT ![c] = [state |-> s, loop |-> l]]
      /\ connections' = connections \union {c}
      /\ pending' = IF l = "base" THEN pending ELSE [pending EXCEPT ![l] = Append(@, f)]
      /\ served' = [served EXCEPT ![l] = @ + 1]
      /\ UNCHANGED <<loops, started, listenning, idleFd, accepting, broken>>
  BY DEF Server!Accept, Server!Base, Server!Queue
<1>2. /\ c = backlog[1] /\ c \in Conns /\ 1 \in 1 .. Len(backlog) /\ Len(backlog) \in Nat
      /\ backlog' \in Seq(Conns) /\ Len(backlog') = Len(backlog) - 1
      /\ \A i \in 1 .. Len(backlog') : backlog'[i] = backlog[i + 1] /\ i + 1 \in 1 .. Len(backlog)
                                       /\ backlog[i + 1] \in Conns
  <2>1. Len(backlog) \in Nat /\ Len(backlog) # 0 /\ backlog \in Seq(Conns)
    BY <1>0, <1>1, LenProperties, EmptySeq DEF ServerType
  <2> QED
    BY <1>1, <2>1, HeadTailProperties, ElementOfSeq
<1>3. Len(loops) \in Nat /\ loops \in Seq(IoLoops) /\ next \in Nat
  BY <1>0, LenProperties DEF ServerType
<1>4. l \in AllLoops /\ (l = "base" <=> loops = <<>>) /\ (loops # <<>> => l = loops[next + 1] /\ next + 1 \in 1 .. Len(loops))
  <2>1. CASE loops = <<>>
    BY <2>1 DEF Server!getNextLoop, Server!Base, AllLoops
  <2>2. CASE loops # <<>>
    <3>1. next + 1 \in 1 .. Len(loops)
      BY <1>0, <1>3, <2>2 DEF TurnInv
    <3>2. loops[next + 1] \in IoLoops
      BY <1>3, <3>1, ElementOfSeq
    <3> QED
      BY <2>2, <3>1, <3>2 DEF Server!getNextLoop, AllLoops
  <2> QED
    BY <2>1, <2>2
<1>5. conn[c].state = "waiting"
  BY <1>0, <1>2 DEF BacklogInv
<1>6. s \in {"kConnected", "kConnecting"} /\ (s = "kConnecting" <=> l # "base") /\ f \in Functors
  BY <1>2 DEF Functors, Ops
<1>7. l # "base" => Appended(pending, pending', l, f)
  BY <1>1 DEF Appended
<1>f. f.op = "connectEstablished" /\ f.c = c
  OBVIOUS
<1> HIDE DEF c, l, s, f
<1>8. /\ conn' \in [Conns -> [state : States, loop : AllLoops]]
      /\ \A d \in Conns : /\ conn'[d].state = IF d = c THEN s ELSE conn[d].state
                          /\ conn'[d].loop = IF d = c THEN l ELSE conn[d].loop
  BY <1>0, <1>1, <1>2, <1>4, <1>6 DEF ServerType, States
<1>9. /\ pending' \in [AllLoops -> Seq(Functors)] /\ OneFunctor(pending')
      /\ \A m \in AllLoops : In(pending', m) = IF m = l /\ l # "base" THEN In(pending, m) \union {f}
                                               ELSE In(pending, m)
  <2>1. CASE l = "base"
    BY <1>0, <1>1, <2>1 DEF ServerType, OneWay
  <2>2. CASE l # "base"
    <3>1. pending \in [AllLoops -> Seq(Functors)] /\ OneFunctor(pending)
      BY <1>0 DEF ServerType, OneWay
    <3>2. \A m \in AllLoops : \A g \in In(pending, m) : g.c # f.c
      BY <1>0, <1>2, <1>5, <1>f, NoFunctor
    <3> QED
      BY <1>4, <1>6, <1>7, <2>2, <3>1, <3>2, AppendedFunctor
  <2> QED
    BY <2>1, <2>2
<1>10. ServerType'
  <2>1. served' \in [AllLoops -> Nat]
    <3>1. served' = [served EXCEPT ![l] = @ + 1]
      BY <1>1
    <3>2. served \in [AllLoops -> Nat]
      BY <1>0 DEF ServerType
    <3>3. served[l] + 1 \in Nat
      BY <1>4, <3>2
    <3> QED
      BY <3>1, <3>2, <3>3
  <2>2. next' \in Nat
    BY <1>1, <1>3 DEF Server!NextIndex
  <2> QED
    BY <1>0, <1>1, <1>2, <1>8, <1>9, <2>1, <2>2 DEF ServerType
<1>11. BacklogInv'
  <2>1. ASSUME NEW i \in 1 .. Len(backlog'), NEW j \in 1 .. Len(backlog')
        PROVE  conn'[backlog'[i]].state = "waiting" /\ (backlog'[j] = backlog'[i] => j = i)
    <3>1. backlog[i + 1] # c
      BY <1>0, <1>2 DEF BacklogInv
    <3>2. conn[backlog[i + 1]].state = "waiting"
      BY <1>0, <1>2 DEF BacklogInv
    <3>3. backlog[j + 1] = backlog[i + 1] => j + 1 = i + 1
      BY <1>0, <1>2 DEF BacklogInv
    <3> QED
      BY <1>2, <1>8, <3>1, <3>2, <3>3
  <2> QED
    BY <1>1, <2>1 DEF BacklogInv
<1>12. OneWay'
  <2>1. ASSUME NEW m \in AllLoops, NEW g \in In(pending', m) PROVE Fits(g, m, conn', connections')
    <3>1. CASE g \in In(pending, m)
      <4>1. g.op \in Ops /\ g.c \in Conns /\ g.c # c /\ Fits(g, m, conn, connections)
        BY <1>0, <1>2, <1>5, <3>1, FunctorType, NoFunctor DEF ServerType, OneWay
      <4> QED
        BY <1>1, <1>8, <4>1 DEF Fits
    <3>2. CASE g \notin In(pending, m)
      <4>1. m = l /\ l # "base" /\ g = f
        BY <1>9, <3>2
      <4> QED
        BY <1>1, <1>2, <1>6, <1>8, <1>f, <4>1 DEF Fits
    <3> QED
      BY <3>1, <3>2
  <2>2. ASSUME NEW d \in Conns PROVE Listed(d, conn', connections', pending')
    <3>1. "base" \in AllLoops
      BY DEF AllLoops
    <3>2. CASE d = c
      BY <1>1, <1>6, <1>8, <3>2 DEF Listed
    <3>3. CASE d # c
      BY <1>0, <1>1, <1>8, <1>9, <3>1, <3>3 DEF OneWay, Listed
    <3> QED
      BY <3>2, <3>3
  <2> QED
    BY <1>0, <1>1, <1>9, <2>1, <2>2 DEF OneWay
<1>13. SpareInv'
  <2>1. InUse' = InUse \union {c}
    BY <1>2, <1>6, <1>8 DEF InUse
  <2>2. Cardinality(InUse') <= Cardinality(InUse) + 1 /\ Cardinality(InUse) \in Nat /\ Cardinality(InUse') \in Nat
    <3>1. /\ IsFiniteSet(InUse \union {c})
          /\ Cardinality(InUse \union {c}) = IF c \in InUse THEN Cardinality(InUse) ELSE Cardinality(InUse) + 1
      BY InUseCount, FS_AddElement
    <3>2. Cardinality(InUse \union {c}) \in Nat
      BY <3>1, FS_CardinalityType
    <3> QED
      BY <2>1, <3>1, <3>2, InUseCount
  <2>3. idleFd /\ Cardinality(InUse) + 1 < FdLimit
    BY <1>0, <1>1, FdsLeftMeans DEF SpareInv
  <2> QED
    BY <1>1, <2>2, <2>3 DEF SpareInv
<1>14. TurnInv'
  <2>1. PICK v \in Nat : \A i \in 1 .. Len(loops) : served[loops[i]] = IF i <= next THEN v + 1 ELSE v
    BY <1>0 DEF TurnInv
  <2>2. listenning
    BY <1>0, <1>1 DEF TurnInv
  <2>3. CASE loops = <<>>
    <3>1. \A i \in 1 .. Len(loops') : served'[loops'[i]] = IF i <= next' THEN v + 1 ELSE v
      BY <1>1, <2>3, EmptySeq
    <3> QED
      BY <1>0, <1>1, <2>2, <2>3, <3>1, EmptySeq DEF TurnInv
  <2>4. CASE loops # <<>>
    <3>1. l = loops[next + 1] /\ next + 1 \in 1 .. Len(loops) /\ next < Len(loops)
      BY <1>0, <1>4, <2>4 DEF TurnInv
    <3>2. \A i \in 1 .. Len(loops) : loops[i] \in AllLoops /\ (loops[i] = l => i = next + 1)
      BY <1>0, <1>3, <3>1, ElementOfSeq DEF TurnInv, AllLoops
    <3>3. \A i \in 1 .. Len(loops) : served'[loops[i]] = IF i <= next + 1 THEN v + 1 ELSE v
      <4> TAKE i \in 1 .. Len(loops)
      <4>1. CASE i = next + 1
        BY <1>0, <1>1, <1>3, <2>1, <3>1, <3>2, <4>1 DEF ServerType
      <4>2. CASE i # next + 1
        <5>1. served'[loops[i]] = served[loops[i]]
          BY <1>0, <1>1, <3>2, <4>2 DEF ServerType
        <5> QED
          BY <1>3, <2>1, <4>2, <5>1
      <4> QED
        BY <4>1, <4>2
    <3>4. next' < Len(loops) /\ \E n \in Nat : \A i \in 1 .. Len(loops) : served'[loops[i]] = IF i <= next' THEN n + 1 ELSE n
      <4>1. CASE next + 1 >= Len(loops)
        <5>1. next' = 0 /\ next + 1 = Len(loops)
          BY <1>1, <1>3, <2>4, <3>1, <4>1 DEF Server!NextIndex
        <5>2. v + 1 \in Nat /\ \A i \in 1 .. Len(loops) : served'[loops[i]] = IF i <= next' THEN (v + 1) + 1 ELSE v + 1
          BY <1>3, <3>3, <5>1
        <5> QED
          BY <1>3, <5>1, <5>2
      <4>2. CASE ~ (next + 1 >= Len(loops))
        <5>1. next' = next + 1
          BY <1>1, <2>4, <4>2 DEF Server!NextIndex
        <5> QED
          <6>1. \A i \in 1 .. Len(loops) : served'[loops[i]] = IF i <= next' THEN v + 1 ELSE v
            BY <3>3, <5>1
          <6>2. next' < Len(loops)
            BY <1>3, <4>2, <5>1
          <6> QED
            BY <6>1, <6>2
      <4> QED
        BY <4>1, <4>2
    <3> QED
      BY <1>0, <1>1, <2>2, <3>4 DEF TurnInv
  <2> QED
    BY <2>3, <2>4
<1> QED
  BY <1>10, <1>11, <1>12, <1>13, <1>14 DEF ServerInv

(* EMFILE: idleFd_ is closed, and its descriptor is free from then on.     *)
LEMMA AcceptFailsKeeps ==
    ASSUME ServerInv, Server!AcceptFails PROVE ServerInv'
<1> USE ServerAssumption
<1>0. ServerType /\ BacklogInv /\ OneWay /\ SpareInv /\ TurnInv
  BY DEF ServerInv
<1>1. /\ backlog # <<>> /\ accepting = "no" /\ ~ idleFd' /\ accepting' = "accept"
      /\ UNCHANGED <<loops, started, listenning, next, backlog, conn, connections, pending, served,
                     broken>>
  BY DEF Server!AcceptFails
<1>2. ServerType' /\ BacklogInv' /\ TurnInv'
  BY <1>0, <1>1 DEF ServerType, BacklogInv, TurnInv
<1>3. OneWay'
  BY <1>0, <1>1, OneWayIdle
<1>4. SpareInv'
  <2>1. InUse' = InUse /\ Cardinality(InUse) \in Nat
    BY <1>1, InUseCount DEF InUse
  <2>2. Cardinality(InUse) + 1 <= FdLimit
    BY <1>0, <1>1 DEF SpareInv
  <2> QED
    BY <1>1, <2>1, <2>2 DEF SpareInv
<1> QED
  BY <1>2, <1>3, <1>4 DEF ServerInv

(* The client is accepted with that descriptor and closed.                 *)
LEMMA AcceptToRefuseKeeps ==
    ASSUME ServerInv, Server!AcceptToRefuse PROVE ServerInv'
<1> USE ServerAssumption
<1> DEFINE c == Head(backlog)
<1>0. ServerType /\ BacklogInv /\ OneWay /\ SpareInv /\ TurnInv
  BY DEF ServerInv
<1>1. Server!FdsLeft
  BY <1>0, InUseCount, FdsLeftMeans DEF SpareInv, Server!AcceptToRefuse
<1>2. /\ accepting = "accept" /\ accepting' = "open"
      /\ backlog' = Tail(backlog) /\ conn' = [conn EXCEPT ![c].state = "refused"]
      /\ UNCHANGED <<loops, started, listenning, next, idleFd, connections, pending, served, broken>>
  BY <1>1 DEF Server!AcceptToRefuse
<1>3. /\ c = backlog[1] /\ c \in Conns /\ 1 \in 1 .. Len(backlog) /\ Len(backlog) \in Nat
      /\ backlog' \in Seq(Conns) /\ Len(backlog') = Len(backlog) - 1
      /\ \A i \in 1 .. Len(backlog') : backlog'[i] = backlog[i + 1] /\ i + 1 \in 1 .. Len(backlog)
                                       /\ backlog[i + 1] \in Conns
  <2>1. Len(backlog) \in Nat /\ Len(backlog) # 0 /\ backlog \in Seq(Conns) /\ backlog # <<>>
    BY <1>0, <1>2, LenProperties, EmptySeq DEF ServerType, BacklogInv
  <2> QED
    BY <1>2, <2>1, HeadTailProperties, ElementOfSeq
<1>4. conn[c].state = "waiting"
  BY <1>0, <1>3 DEF BacklogInv
<1> HIDE DEF c
<1>5. /\ conn' \in [Conns -> [state : States, loop : AllLoops]]
      /\ \A d \in Conns : /\ conn'[d].loop = conn[d].loop
                          /\ conn'[d].state = IF d = c THEN "refused" ELSE conn[d].state
  BY <1>0, <1>2, <1>3, StateChange DEF States
<1>6. ServerType'
  BY <1>0, <1>2, <1>3, <1>5 DEF ServerType
<1>7. BacklogInv'
  <2>1. ASSUME NEW i \in 1 .. Len(backlog'), NEW j \in 1 .. Len(backlog')
        PROVE  conn'[backlog'[i]].state = "waiting" /\ (backlog'[j] = backlog'[i] => j = i)
    <3>1. backlog[i + 1] # c /\ conn[backlog[i + 1]].state = "waiting"
      BY <1>0, <1>3 DEF BacklogInv
    <3>2. backlog[j + 1] = backlog[i + 1] => j + 1 = i + 1
      BY <1>0, <1>3 DEF BacklogInv
    <3> QED
      BY <1>3, <1>5, <3>1, <3>2
  <2> QED
    BY <1>2, <2>1 DEF BacklogInv
<1>8. OneWay'
  <2>1. ASSUME NEW l \in AllLoops, NEW f \in In(pending, l) PROVE Fits(f, l, conn', connections)
    <3>1. f.op \in Ops /\ f.c \in Conns /\ f.c # c /\ Fits(f, l, conn, connections)
      BY <1>0, <1>3, <1>4, FunctorType, NoFunctor DEF ServerType, OneWay
    <3> QED
      BY <1>5, <3>1 DEF Fits
  <2>2. ASSUME NEW d \in Conns PROVE Listed(d, conn', connections, pending)
    BY <1>0, <1>2, <1>5 DEF OneWay, Listed
  <2> QED
    BY <1>0, <1>2, <2>1, <2>2 DEF OneWay
<1>9. SpareInv'
  <2>1. InUse' = InUse
    BY <1>4, <1>5 DEF InUse
  <2> QED
    BY <1>0, <1>2, <2>1 DEF SpareInv
<1>10. TurnInv'
  <2>1. listenning
    BY <1>0, <1>2 DEF TurnInv, BacklogInv
  <2> QED
    BY <1>0, <1>2, <2>1 DEF TurnInv
<1> QED
  BY <1>6, <1>7, <1>8, <1>9, <1>10 DEF ServerInv

(* Its descriptor is there for idleFd_ again: only the base loop, which is *)
(* busy here, takes descriptors.                                           *)
LEMMA ReopenKeeps ==
    ASSUME ServerInv, Server!ReopenIdleFd PROVE ServerInv'
<1> USE ServerAssumption
<1>0. ServerType /\ BacklogInv /\ OneWay /\ SpareInv /\ TurnInv
  BY DEF ServerInv
<1>1. /\ accepting = "open" /\ accepting' = "no" /\ idleFd' = Server!FdsLeft
      /\ UNCHANGED <<loops, started, listenning, next, backlog, conn, connections, pending, served,
                     broken>>
  BY DEF Server!ReopenIdleFd
<1>2. ServerType' /\ BacklogInv' /\ TurnInv'
  BY <1>0, <1>1 DEF ServerType, BacklogInv, TurnInv
<1>3. OneWay'
  BY <1>0, <1>1, OneWayIdle
<1>4. SpareInv'
  <2>1. InUse' = InUse /\ Cardinality(InUse) \in Nat
    BY <1>1, InUseCount DEF InUse
  <2>2. ~ idleFd /\ Cardinality(InUse) < FdLimit
    BY <1>0, <1>1 DEF SpareInv
  <2>3. idleFd'
    BY <1>1, <2>1, <2>2, FdsLeftMeans
  <2> QED
    BY <1>1, <2>1, <2>2, <2>3 DEF SpareInv
<1> QED
  BY <1>2, <1>3, <1>4 DEF ServerInv

(* A connection c that closes or moves on in its loop: the rest of the     *)
(* server does not notice.                                                 *)
LEMMA OthersKeep ==
    ASSUME ServerInv, NEW c \in Conns, NEW s \in States,
           conn[c].state \in {"kConnecting", "kConnected", "kDisconnected"},
           s \in {"kConnected", "kDisconnected", "destroyed"},
           \A d \in Conns : conn'[d].state = IF d = c THEN s ELSE conn[d].state,
           UNCHANGED <<loops, started, listenning, next, idleFd, accepting, backlog, served>>
    PROVE  BacklogInv' /\ SpareInv' /\ TurnInv'
<1> USE ServerAssumption
<1>0. ServerType /\ BacklogInv /\ SpareInv /\ TurnInv
  BY DEF ServerInv
<1>1. BacklogInv'
  <2>1. \A i \in 1 .. Len(backlog) : backlog[i] \in Conns
    BY <1>0, ElementOfSeq DEF ServerType
  <2> QED
    BY <1>0, <2>1 DEF BacklogInv
<1>2. SpareInv'
  <2>1. InUse' = IF s = "destroyed" THEN InUse \ {c} ELSE InUse
    BY DEF InUse
  <2>2. Cardinality(InUse') <= Cardinality(InUse) /\ Cardinality(InUse') \in Nat
    <3>1. InUse' \in SUBSET InUse
      BY <2>1
    <3>2. IsFiniteSet(InUse') /\ Cardinality(InUse') <= Cardinality(InUse)
      BY <3>1, InUseCount, FS_Subset
    <3> QED
      BY <3>2, FS_CardinalityType
  <2> QED
    BY <1>0, <2>2, InUseCount DEF SpareInv
<1>3. TurnInv'
  BY <1>0 DEF TurnInv
<1> QED
  BY <1>1, <1>2, <1>3

(* handleClose(): on the base loop the connection is removed at once, from *)
(* another loop by a functor in the base loop.                             *)
LEMMA ClosesKeeps ==
    ASSUME ServerInv, NEW c \in Conns, Server!Closes(c) PROVE ServerInv'
<1> USE ServerAssumption
<1> DEFINE l == conn[c].loop
           f == [op |-> IF l = "base" THEN "connectDestroyed" ELSE "removeConnectionInLoop", c |-> c]
<1>0. ServerType /\ BacklogInv /\ OneWay /\ SpareInv /\ TurnInv
  BY DEF ServerInv
<1>1. /\ conn[c].state = "kConnected" /\ conn' = [conn EXCEPT ![c].state = "kDisconnected"]
      /\ UNCHANGED <<loops, started, listenning, next, idleFd, accepting, backlog, served>>
  BY DEF Server!Closes
<1>2. /\ connections' = IF l = "base" THEN connections \ {c} ELSE connections
      /\ Appended(pending, pending', "base", f)
      /\ broken' => broken \/ (l = "base" /\ c \notin connections)
  <2>1. CASE l = "base"
    BY <2>1 DEF Server!Closes, Server!Base, Server!Removed, Appended
  <2>2. CASE l # "base"
    BY <1>0, <2>2 DEF Server!Closes, Server!Base, Server!Queue, Appended, OneWay
  <2> QED
    BY <2>1, <2>2
<1>3. /\ f \in Functors /\ f.c = c
      /\ f.op = IF l = "base" THEN "connectDestroyed" ELSE "removeConnectionInLoop"
  BY DEF Functors, Ops
<1>4. /\ conn' \in [Conns -> [state : States, loop : AllLoops]]
      /\ \A d \in Conns : /\ conn'[d].loop = conn[d].loop
                          /\ conn'[d].state = IF d = c THEN "kDisconnected" ELSE conn[d].state
  BY <1>0, <1>1, StateChange DEF States
<1> HIDE DEF f
<1>5. "base" \in AllLoops /\ c \in connections /\ \A m \in AllLoops : \A g \in In(pending, m) : g.c # c
  BY <1>0, <1>1, NoFunctor DEF AllLoops, OneWay, Listed
<1>6. /\ pending' \in [AllLoops -> Seq(Functors)] /\ OneFunctor(pending')
      /\ \A m \in AllLoops : In(pending', m) = IF m = "base" THEN In(pending, m) \union {f} ELSE In(pending, m)
  <2>1. pending \in [AllLoops -> Seq(Functors)] /\ OneFunctor(pending)
    BY <1>0 DEF ServerType, OneWay
  <2>2. Appended(pending, pending', "base", f) /\ \A m \in AllLoops : \A g \in In(pending, m) : g.c # f.c
    BY <1>2, <1>3, <1>5
  <2> QED
    BY <1>3, <1>5, <2>1, <2>2, AppendedFunctor
<1>7. ServerType'
  BY <1>0, <1>1, <1>2, <1>4, <1>6 DEF ServerType
<1>8. OneWay'
  <2>1. ASSUME NEW m \in AllLoops, NEW g \in In(pending', m) PROVE Fits(g, m, conn', connections')
    <3>1. CASE g \in In(pending, m)
      <4>1. g.op \in Ops /\ g.c \in Conns /\ g.c # c /\ Fits(g, m, conn, connections)
        BY <1>0, <1>5, <3>1, FunctorType DEF ServerType, OneWay
      <4> QED
        BY <1>2, <1>4, <4>1 DEF Fits
    <3>2. CASE g \notin In(pending, m)
      <4>1. m = "base" /\ g = f
        BY <1>6, <3>2
      <4> QED
        BY <1>2, <1>3, <1>4, <1>5, <4>1 DEF Fits
    <3> QED
      BY <3>1, <3>2
  <2>2. ASSUME NEW d \in Conns PROVE Listed(d, conn', connections', pending')
    <3>1. CASE d = c
      BY <1>2, <1>3, <1>4, <1>5, <1>6, <3>1 DEF Listed
    <3>2. CASE d # c
      BY <1>0, <1>2, <1>4, <1>5, <1>6, <3>2 DEF OneWay, Listed
    <3> QED
      BY <3>1, <3>2
  <2> QED
    BY <1>0, <1>2, <1>5, <1>6, <2>1, <2>2 DEF OneWay
<1>9. BacklogInv' /\ SpareInv' /\ TurnInv'
  BY <1>1, <1>4, OthersKeep DEF States
<1> QED
  BY <1>7, <1>8, <1>9 DEF ServerInv

(* connectEstablished() in the connection's loop.                          *)
LEMMA EstablishedKeeps ==
    ASSUME ServerInv, NEW l \in AllLoops, pending[l] # <<>>, Head(pending[l]).op = "connectEstablished",
           Popped(pending, pending', l), connections' = connections,
           conn' = [conn EXCEPT ![Head(pending[l]).c].state = "kConnected"],
           broken' => broken \/ conn[Head(pending[l]).c].state # "kConnecting" \/ conn[Head(pending[l]).c].loop # l,
           UNCHANGED <<loops, started, listenning, next, idleFd, accepting, backlog, served>>
    PROVE  ServerInv'
<1> DEFINE f == Head(pending[l])
<1>0. ServerType /\ BacklogInv /\ OneWay /\ SpareInv /\ TurnInv
  BY DEF ServerInv
<1>1. /\ pending' \in [AllLoops -> Seq(Functors)] /\ OneFunctor(pending')
      /\ f \in Functors /\ f \in In(pending, l)
      /\ \A m \in AllLoops \ {l} : In(pending', m) = In(pending, m)
      /\ In(pending, l) = In(pending', l) \union {f}
      /\ \A m \in AllLoops : \A g \in In(pending', m) : g.c # f.c
  <2>1. pending \in [AllLoops -> Seq(Functors)] /\ OneFunctor(pending)
    BY <1>0 DEF ServerType, OneWay
  <2> QED
    BY <2>1, PoppedFunctor
<1>2. f.c \in Conns /\ f.op = "connectEstablished" /\ conn' = [conn EXCEPT ![f.c].state = "kConnected"]
  BY <1>1 DEF Functors
<1>3. f.c \in Conns /\ conn[f.c].state = "kConnecting" /\ conn[f.c].loop = l /\ f.c \in connections
  BY <1>0, <1>1, <1>2 DEF OneWay, Fits
<1>4. ~ broken'
  BY <1>0, <1>3, SMTT(40) DEF OneWay
<1> HIDE DEF f
<1>5. /\ conn' \in [Conns -> [state : States, loop : AllLoops]]
      /\ \A d \in Conns : /\ conn'[d].loop = conn[d].loop
                          /\ conn'[d].state = IF d = f.c THEN "kConnected" ELSE conn[d].state
  BY <1>0, <1>2, StateChange DEF States
<1>6. ServerType'
  BY <1>0, <1>1, <1>5 DEF ServerType
<1>7. OneWay'
  <2>1. ASSUME NEW m \in AllLoops, NEW g \in In(pending', m) PROVE Fits(g, m, conn', connections)
    <3>1. g \in In(pending, m)
      BY <1>1
    <3>2. g.op \in Ops /\ g.c \in Conns /\ Fits(g, m, conn, connections) /\ g.c # f.c
      BY <1>0, <1>1, <3>1, FunctorType DEF ServerType, OneWay
    <3> QED
      BY <1>5, <3>2 DEF Fits
  <2>2. ASSUME NEW d \in Conns PROVE Listed(d, conn', connections, pending')
    <3>1. Listed(d, conn, connections, pending) /\ "base" \in AllLoops
      BY <1>0 DEF OneWay, AllLoops
    <3>2. CASE d = f.c
      BY <1>3, <1>5, <3>2 DEF Listed
    <3>3. CASE d # f.c
      BY <1>1, <1>5, <3>1, <3>3 DEF Listed
    <3> QED
      BY <3>2, <3>3
  <2> QED
    BY <1>1, <1>4, <2>1, <2>2 DEF OneWay
<1>8. BacklogInv' /\ SpareInv' /\ TurnInv'
  BY <1>3, <1>5, OthersKeep DEF States
<1> QED
  BY <1>6, <1>7, <1>8 DEF ServerInv

(* connectDestroyed() in the connection's loop.                            *)
LEMMA DestroyedKeeps ==
    ASSUME ServerInv, NEW l \in AllLoops, pending[l] # <<>>, Head(pending[l]).op = "connectDestroyed",
           Popped(pending, pending', l), connections' = connections,
           conn' = [conn EXCEPT ![Head(pending[l]).c].state = "destroyed"],
           broken' => broken \/ conn[Head(pending[l]).c].state # "kDisconnected" \/ conn[Head(pending[l]).c].loop # l,
           UNCHANGED <<loops, started, listenning, next, idleFd, accepting, backlog, served>>
    PROVE  ServerInv'
<1> DEFINE f == Head(pending[l])
<1>0. ServerType /\ BacklogInv /\ OneWay /\ SpareInv /\ TurnInv
  BY DEF ServerInv
<1>1. /\ pending' \in [AllLoops -> Seq(Functors)] /\ OneFunctor(pending')
      /\ f \in Functors /\ f \in In(pending, l)
      /\ \A m \in AllLoops \ {l} : In(pending', m) = In(pending, m)
      /\ In(pending, l) = In(pending', l) \union {f}
      /\ \A m \in AllLoops : \A g \in In(pending', m) : g.c # f.c
  <2>1. pending \in [AllLoops -> Seq(Functors)] /\ OneFunctor(pending)
    BY <1>0 DEF ServerType, OneWay
  <2> QED
    BY <2>1, PoppedFunctor
<1>2. f.c \in Conns /\ f.op = "connectDestroyed" /\ conn' = [conn EXCEPT ![f.c].state = "destroyed"]
  BY <1>1 DEF Functors
<1>3. f.c \in Conns /\ conn[f.c].state = "kDisconnected" /\ conn[f.c].loop = l /\ f.c \notin connections
  BY <1>0, <1>1, <1>2 DEF OneWay, Fits
<1>4. ~ broken'
  BY <1>0, <1>3, SMTT(40) DEF OneWay
<1> HIDE DEF f
<1>5. /\ conn' \in [Conns -> [state : States, loop : AllLoops]]
      /\ \A d \in Conns : /\ conn'[d].loop = conn[d].loop
                          /\ conn'[d].state = IF d = f.c THEN "destroyed" ELSE conn[d].state
  BY <1>0, <1>2, StateChange DEF States
<1>6. ServerType'
  BY <1>0, <1>1, <1>5 DEF ServerType
<1>7. OneWay'
  <2>1. ASSUME NEW m \in AllLoops, NEW g \in In(pending', m) PROVE Fits(g, m, conn', connections)
    <3>1. g \in In(pending, m)
      BY <1>1
    <3>2. g.op \in Ops /\ g.c \in Conns /\ Fits(g, m, conn, connections) /\ g.c # f.c
      BY <1>0, <1>1, <3>1, FunctorType DEF ServerType, OneWay
    <3> QED
      BY <1>5, <3>2 DEF Fits
  <2>2. ASSUME NEW d \in Conns PROVE Listed(d, conn', connections, pending')
    <3>1. Listed(d, conn, connections, pending) /\ "base" \in AllLoops
      BY <1>0 DEF OneWay, AllLoops
    <3>2. CASE d = f.c
      BY <1>3, <1>5, <3>2 DEF Listed
    <3>3. CASE d # f.c
      BY <1>1, <1>5, <3>1, <3>3 DEF Listed
    <3> QED
      BY <3>2, <3>3
  <2> QED
    BY <1>1, <1>4, <2>1, <2>2 DEF OneWay
<1>8. BacklogInv' /\ SpareInv' /\ TurnInv'
  BY <1>3, <1>5, OthersKeep DEF States
<1> QED
  BY <1>6, <1>7, <1>8 DEF ServerInv

(* removeConnectionInLoop() in the base loop passes the connection on to   *)
(* its own loop.                                                           *)
LEMMA RemoveKeeps ==
    ASSUME ServerInv, NEW l \in AllLoops, pending[l] # <<>>, Head(pending[l]).op = "removeConnectionInLoop",
           NEW rest, Popped(pending, rest, l),
           Appended(rest, pending', conn[Head(pending[l]).c].loop,
                    [op |-> "connectDestroyed", c |-> Head(pending[l]).c]),
           connections' = connections \ {Head(pending[l]).c}, conn' = conn,
           broken' => broken \/ Head(pending[l]).c \notin connections,
           UNCHANGED <<loops, started, listenning, next, idleFd, accepting, backlog, served>>
    PROVE  ServerInv'
<1> DEFINE f == Head(pending[l])
           g == [op |-> "connectDestroyed", c |-> f.c]
           own == conn[f.c].loop
<1>0. ServerType /\ BacklogInv /\ OneWay /\ SpareInv /\ TurnInv
  BY DEF ServerInv
<1>1. /\ rest \in [AllLoops -> Seq(Functors)] /\ OneFunctor(rest)
      /\ f \in Functors /\ f \in In(pending, l)
      /\ \A m \in AllLoops \ {l} : In(rest, m) = In(pending, m)
      /\ In(pending, l) = In(rest, l) \union {f}
      /\ \A m \in AllLoops : \A h \in In(rest, m) : h.c # f.c
  <2>1. pending \in [AllLoops -> Seq(Functors)] /\ OneFunctor(pending)
    BY <1>0 DEF ServerType, OneWay
  <2> QED
    BY <2>1, PoppedFunctor
<1>2. f.c \in Conns /\ f.op = "removeConnectionInLoop" /\ connections' = connections \ {f.c}
  BY <1>1 DEF Functors
<1>3. f.c \in Conns /\ conn[f.c].state = "kDisconnected" /\ f.c \in connections /\ own \in AllLoops
  BY <1>0, <1>1, <1>2 DEF OneWay, Fits, ServerType
<1>4. ~ broken'
  BY <1>0, <1>3 DEF OneWay
<1>5. g \in Functors /\ g.c = f.c /\ g.op = "connectDestroyed" /\ Appended(rest, pending', own, g)
  BY <1>2 DEF Functors, Ops
<1> HIDE DEF f, g
<1>6. /\ pending' \in [AllLoops -> Seq(Functors)] /\ OneFunctor(pending')
      /\ \A m \in AllLoops : In(pending', m) = IF m = own THEN In(rest, m) \union {g} ELSE In(rest, m)
  <2>1. \A m \in AllLoops : \A h \in In(rest, m) : h.c # g.c
    BY <1>1, <1>5
  <2> HIDE DEF own
  <2> QED
    BY <1>1, <1>3, <1>5, <2>1, AppendedFunctor
<1>7. ServerType'
  BY <1>0, <1>2, <1>6 DEF ServerType
<1>8. OneWay'
  <2>1. ASSUME NEW m \in AllLoops, NEW h \in In(pending', m) PROVE Fits(h, m, conn, connections')
    <3>1. CASE h \in In(rest, m)
      <4>1. h \in In(pending, m) /\ h.c # f.c
        BY <1>1, <3>1
      <4>2. h.op \in Ops /\ h.c \in Conns /\ Fits(h, m, conn, connections)
        BY <1>0, <4>1, FunctorType DEF ServerType, OneWay
      <4> QED
        BY <1>2, <4>1, <4>2 DEF Fits
    <3>2. CASE h \notin In(rest, m)
      <4>1. m = own /\ h = g
        BY <1>6, <3>2
      <4> QED
        BY <1>2, <1>3, <1>5, <4>1 DEF Fits
    <3> QED
      BY <3>1, <3>2
  <2>2. ASSUME NEW d \in Conns PROVE Listed(d, conn, connections', pending')
    <3>1. Listed(d, conn, connections, pending) /\ "base" \in AllLoops
      BY <1>0 DEF OneWay, AllLoops
    <3>2. CASE d = f.c
      BY <1>2, <1>3, <3>2 DEF Listed
    <3>3. CASE d # f.c
      BY <1>1, <1>2, <1>6, <3>1, <3>3 DEF Listed
    <3> QED
      BY <3>2, <3>3
  <2> QED
    BY <1>4, <1>6, <2>1, <2>2 DEF OneWay
<1>9. BacklogInv' /\ SpareInv' /\ TurnInv'
  BY <1>0, ZenonT(60) DEF BacklogInv, SpareInv, InUse, TurnInv
<1> QED
  BY <1>7, <1>8, <1>9 DEF ServerInv

(* A loop runs a functor, and finds the connection as it should be.        *)
LEMMA RunFunctorKeeps ==
    ASSUME ServerInv, NEW l \in AllLoops, Server!RunFunctor(l) PROVE ServerInv'
<1> USE ServerAssumption
<1> DEFINE f == Head(pending[l])
           rest == [pending EXCEPT ![l] = Tail(@)]
<1>0. ServerType /\ BacklogInv /\ OneWay /\ SpareInv /\ TurnInv
  BY DEF ServerInv
<1>1. /\ pending[l] # <<>>
      /\ UNCHANGED <<loops, started, listenning, next, idleFd, accepting, backlog, served>>
  BY DEF Server!RunFunctor
<1>2. Popped(pending, rest, l)
  BY DEF Popped
<1>3. CASE f.op = "connectEstablished"
  <2>1. /\ broken' => broken \/ conn[f.c].state # "kConnecting" \/ conn[f.c].loop # l
        /\ conn' = [conn EXCEPT ![f.c].state = "kConnected"]
        /\ pending' = rest /\ connections' = connections
    BY <1>3 DEF Server!RunFunctor
  <2> QED
    BY <1>0, <1>1, <1>2, <1>3, <2>1, EstablishedKeeps
<1>4. CASE f.op = "removeConnectionInLoop"
  <2>1. /\ broken' => broken \/ f.c \notin connections
        /\ connections' = connections \ {f.c}
        /\ pending' = [rest EXCEPT ![conn[f.c].loop] = Append(@, [op |-> "connectDestroyed", c |-> f.c])]
        /\ conn' = conn
    BY <1>4 DEF Server!RunFunctor, Server!RemoveConnectionInLoop, Server!Removed
  <2> QED
    BY <1>0, <1>1, <1>2, <1>4, <2>1, RemoveKeeps DEF Appended
<1>5. CASE f.op = "connectDestroyed"
  <2>1. /\ broken' => broken \/ conn[f.c].state # "kDisconnected" \/ conn[f.c].loop # l
        /\ conn' = [conn EXCEPT ![f.c].state = "destroyed"]
        /\ pending' = rest /\ connections' = connections
    BY <1>5 DEF Server!RunFunctor
  <2> QED
    BY <1>0, <1>1, <1>2, <1>5, <2>1, DestroyedKeeps
<1>6. f.op \in Ops
  <2>1. pending[l] \in Seq(Functors)
    BY <1>0 DEF ServerType
  <2>2. Head(pending[l]) \in Functors
    BY <1>1, <2>1, HeadTailProperties
  <2> QED
    BY <2>2 DEF Functors
<1> QED
  BY <1>3, <1>4, <1>5, <1>6 DEF Ops

(* Every step of the server keeps the invariant.                           *)
LEMMA ServerStep ==
    ASSUME ServerInv, Server!Next PROVE ServerInv'
<1>1. ASSUME NEW l \in IoLoops, Server!StartPool(l) PROVE ServerInv'
  BY <1>1, StartPoolKeeps
<1>2. ASSUME NEW c \in Conns, Server!Connects(c) \/ Server!Closes(c) PROVE ServerInv'
  BY <1>2, ConnectsKeeps, ClosesKeeps
<1>3. ASSUME NEW l \in AllLoops, Server!RunFunctor(l) PROVE ServerInv'
  BY <1>3, RunFunctorKeeps
<1>4. CASE Server!Listen \/ Server!BaseStep
  BY <1>4, ListenKeeps, AcceptKeeps, AcceptFailsKeeps, AcceptToRefuseKeeps, ReopenKeeps DEF Server!BaseStep
<1>5. Server!AllLoops = AllLoops
  BY DEF Server!AllLoops, Server!Base, AllLoops
<1> QED
  BY <1>1, <1>2, <1>3, <1>4, <1>5 DEF Server!Next

(* The invariant says that the server is consistent.                       *)
LEMMA ServerServes ==
    ASSUME ServerInv PROVE Server!ServerConsistent
<1> USE ServerAssumption
<1>0. ServerType /\ OneWay /\ SpareInv /\ TurnInv
  BY DEF ServerInv
<1>1. Server!LoopsAgree
  BY <1>0 DEF OneWay, Listed, In, Server!LoopsAgree, Server!Base
<1>2. Server!SpareFd
  <2>1. Server!InUse = InUse
    BY DEF Server!InUse, InUse
  <2>2. Cardinality(InUse) \in Nat /\ Server!Cardinality(Server!InUse) = Cardinality(InUse)
    BY <2>1, SameCount, InUseCount
  <2> QED
    BY <1>0, <2>2 DEF SpareInv, Server!SpareFd
<1>3. Server!Balanced
  <2>1. PICK v \in Nat : \A i \in 1 .. Len(loops) : served[loops[i]] = IF i <= next THEN v + 1 ELSE v
    BY <1>0 DEF TurnInv
  <2> QED
    BY <2>1 DEF Server!Balanced
<1> QED
  BY <1>1, <1>2, <1>3 DEF Server!ServerConsistent

(* Whatever the numbers of loops, clients and descriptors: a connection is *)
(* established, removed and destroyed once each, in that order and in the  *)
(* right loops; the Acceptor has its spare descriptor whenever its loop    *)
(* polls; and no loop of the pool gets two connections more than another.  *)
THEOREM ServerSafe == NetSpec => []ServerConsistent
<1>1. NetInit => ServerInv
  BY ServerInit DEF NetInit
<1>2. ServerInv /\ [NetNext]_vars => ServerInv'
  <2> SUFFICES ASSUME ServerInv, [NetNext]_vars PROVE ServerInv'
    OBVIOUS
  <2>1. CASE Server!Next
    BY <2>1, ServerStep
  <2>2. CASE UNCHANGED serverVars
    BY <2>2 DEF serverVars, ServerInv, ServerType, BacklogInv, OneWay, SpareInv, InUse, TurnInv
  <2> QED
    BY <2>1, <2>2 DEF NetNext, vars
<1>3. ServerInv => ServerConsistent
  BY ServerServes DEF ServerConsistent
<1> QED
  BY <1>1, <1>2, <1>3, PTL DEF NetSpec
-----------------------------------------------------------------------------
(***************************************************************************)
(* The pollers.                                                            *)
(***************************************************************************)
ChannelRecord == [events : SUBSET Events, index : Int, added : BOOLEAN]
EpollEntry == [c : Channels, events : SUBSET Events]
PollEntry == [fd : Int, events : SUBSET Events]

PollerType ==
    /\ kind \in {"epoll", "poll"}
    /\ DOMAIN chan \subseteq Channels /\ chan \in [DOMAIN chan -> ChannelRecord]
    /\ DOMAIN channels \subseteq Nat /\ channels \in [DOMAIN channels -> Channels]
    /\ epoll \in [DOMAIN epoll -> EpollEntry]
    /\ pollfds \in Seq(PollEntry)

(* A descriptor has one channel, and channels_ knows those that are added. *)
ChannelsInv ==
    /\ ~ wrong
    /\ IsFiniteSet(DOMAIN channels)
    /\ \A c, d \in DOMAIN chan : c[1] = d[1] => c = d
    /\ \A d \in DOMAIN channels :
          channels[d] \in DOMAIN chan /\ channels[d][1] = d /\ chan[channels[d]].added
    /\ \A c \in DOMAIN chan : chan[c].added => c[1] \in DOMAIN channels /\ channels[c[1]] = c

(* The index of a channel of an EPollPoller tells whether the kernel has   *)
(* it, and then the kernel has what it asks for.                           *)
EpollInv ==
    /\ \A c \in DOMAIN chan :
          /\ chan[c].index \in {-1, 1, 2}
          /\ chan[c].added <=> chan[c].index # -1
          /\ chan[c].index # 1 => chan[c].events = {}
          /\ chan[c].index = 1 =>
                c[1] \in DOMAIN epoll /\ epoll[c[1]] = [c |-> c, events |-> chan[c].events]
    /\ \A d \in DOMAIN epoll :
          epoll[d].c \in DOMAIN chan /\ epoll[d].c[1] = d /\ chan[epoll[d].c].index = 1

(* Place i of pollfds_ is that of channel c, and has what c asks for.      *)
Owns(c, i, ch, fds) ==
    /\ ch[c].added /\ ch[c].index + 1 = i
    /\ fds[i].fd \in {c[1], -c[1] - 1} /\ fds[i].events = ch[c].events

(* The indices of a PollPoller's channels are their places in pollfds_.    *)
PollInv ==
    /\ Cardinality(DOMAIN channels) = Len(pollfds)
    /\ \A c \in DOMAIN chan : chan[c].added =>
          chan[c].index + 1 \in 1 .. Len(pollfds) /\ Owns(c, chan[c].index + 1, chan, pollfds)
    /\ \A c, d \in DOMAIN chan :
          chan[c].added /\ chan[d].added /\ chan[c].index = chan[d].index => c = d
    /\ \A i \in 1 .. Len(pollfds) : \E c \in DOMAIN chan : Owns(c, i, chan, pollfds)

PollerInv == PollerType /\ ChannelsInv /\ (kind = "epoll" => EpollInv) /\ (kind = "poll" => PollInv)
-----------------------------------------------------------------------------
(* Poller counts with its own copy of FiniteSets.                          *)
LEMMA SameNumber ==
    ASSUME NEW S PROVE Polls!Cardinality(S) = Cardinality(S)
BY DEF Polls!Cardinality, Cardinality

(* The pollers start without channels.                                     *)
LEMMA PollerInit ==
    ASSUME Polls!Init PROVE PollerInv
<1> USE DEF Polls!Init
<1>1. DOMAIN chan = {} /\ DOMAIN channels = {} /\ DOMAIN epoll = {} /\ Len(pollfds) = 0
  BY EmptySeq
<1>2. PollerType
  BY <1>1, EmptySeq DEF PollerType
<1>3. ChannelsInv
  BY <1>1, FS_EmptySet DEF ChannelsInv
<1>4. EpollInv
  BY <1>1 DEF EpollInv
<1>5. PollInv
  BY <1>1, FS_EmptySet DEF PollInv
<1> QED
  BY <1>2, <1>3, <1>4, <1>5 DEF PollerInv

(* A descriptor gets a channel if it has none.                             *)
LEMMA CreateKeeps ==
    ASSUME PollerInv, NEW c \in Channels, Polls!Create(c) PROVE PollerInv'
<1>0. PollerType /\ ChannelsInv /\ (kind = "epoll" => EpollInv) /\ (kind = "poll" => PollInv)
  BY DEF PollerInv
<1>1. /\ \A d \in DOMAIN chan : d[1] # c[1]
      /\ chan' = Polls!Put(chan, c, [events |-> {}, index |-> -1, added |-> FALSE])
      /\ UNCHANGED <<kind, channels, epoll, pollfds, wrong>>
  BY DEF Polls!Create, Polls!fd, Polls!NewChannel
<1>2. /\ DOMAIN chan' = DOMAIN chan \union {c} /\ c \notin DOMAIN chan
      /\ chan'[c] = [events |-> {}, index |-> -1, added |-> FALSE]
      /\ \A d \in DOMAIN chan : chan'[d] = chan[d]
      /\ chan' \in [DOMAIN chan' -> ChannelRecord]
  BY <1>0, <1>1 DEF Polls!Put, PollerType, ChannelRecord
<1>3. PollerType'
  BY <1>0, <1>1, <1>2 DEF PollerType
<1>4. ChannelsInv'
  BY <1>0, <1>1, <1>2 DEF ChannelsInv
<1>5. kind = "epoll" => EpollInv'
  BY <1>0, <1>1, <1>2 DEF EpollInv
<1>6. kind = "poll" => PollInv'
  BY <1>0, <1>1, <1>2 DEF PollInv, Owns
<1> QED
  BY <1>1, <1>3, <1>4, <1>5, <1>6 DEF PollerInv

(* A channel that is destroyed is in no table.                             *)
LEMMA DestroyKeeps ==
    ASSUME PollerInv, NEW c \in Channels, Polls!Destroy(c) PROVE PollerInv'
<1>0. PollerType /\ ChannelsInv /\ (kind = "epoll" => EpollInv) /\ (kind = "poll" => PollInv)
  BY DEF PollerInv
<1>1. /\ c \in DOMAIN chan /\ ~ chan[c].added
      /\ chan' = Polls!Restrict(chan, DOMAIN chan \ {c})
      /\ wrong' => wrong \/ Polls!Known(c)
      /\ UNCHANGED <<kind, channels, epoll, pollfds>>
  BY DEF Polls!Destroy
<1>2. /\ DOMAIN chan' = DOMAIN chan \ {c}
      /\ \A d \in DOMAIN chan' : chan'[d] = chan[d]
      /\ chan' \in [DOMAIN chan' -> ChannelRecord]
  BY <1>0, <1>1 DEF Polls!Restrict, PollerType
<1>3. ~ Polls!Known(c)
  BY <1>0, <1>1 DEF Polls!Known, Polls!fd, ChannelsInv
<1>4. PollerType'
  BY <1>0, <1>1, <1>2 DEF PollerType
<1>5. ChannelsInv'
  BY <1>0, <1>1, <1>2, <1>3 DEF ChannelsInv
<1>6. kind = "epoll" => EpollInv'
  <2> SUFFICES ASSUME kind = "epoll" PROVE EpollInv'
    OBVIOUS
  <2>1. EpollInv
    BY <1>0
  <2>2. chan[c].index # 1
    <3>1. chan[c].added <=> chan[c].index # -1
      BY <1>1, <2>1 DEF EpollInv
    <3> QED
      BY <1>1, <3>1
  <2>3. ASSUME NEW d \in DOMAIN epoll
        PROVE  epoll[d].c \in DOMAIN chan' /\ epoll[d].c[1] = d /\ chan'[epoll[d].c].index = 1
    <3>1. epoll[d].c \in DOMAIN chan /\ epoll[d].c[1] = d /\ chan[epoll[d].c].index = 1
      BY <2>1 DEF EpollInv
    <3> QED
      BY <1>2, <2>2, <3>1
  <2>4. ASSUME NEW d \in DOMAIN chan'
        PROVE  /\ chan'[d].index \in {-1, 1, 2}
               /\ chan'[d].added <=> chan'[d].index # -1
               /\ chan'[d].index # 1 => chan'[d].events = {}
               /\ chan'[d].index = 1 =>
                     d[1] \in DOMAIN epoll /\ epoll[d[1]] = [c |-> d, events |-> chan'[d].events]
    BY <1>2, <2>1 DEF EpollInv
  <2> QED
    BY <1>1, <2>3, <2>4 DEF EpollInv
<1>7. kind = "poll" => PollInv'
  <2> SUFFICES ASSUME kind = "poll" PROVE PollInv'
    OBVIOUS
  <2>1. \A d \in DOMAIN chan', v \in 1 .. Len(pollfds) : Owns(d, v, chan', pollfds) <=> Owns(d, v, chan, pollfds)
    BY <1>2 DEF Owns
  <2>2. ASSUME NEW v \in 1 .. Len(pollfds) PROVE \E d \in DOMAIN chan' : Owns(d, v, chan', pollfds)
    <3>1. PICK d \in DOMAIN chan : Owns(d, v, chan, pollfds)
      BY <1>0 DEF PollInv
    <3>2. d # c
      BY <1>1, <3>1 DEF Owns
    <3> QED
      BY <1>2, <2>1, <3>1, <3>2
  <2> QED
    BY <1>0, <1>1, <1>2, <2>1, <2>2, ZenonT(60) DEF PollInv
<1> QED
  BY <1>1, <1>4, <1>5, <1>6, <1>7 DEF PollerInv

(* What a channel can ask for.                                             *)
LEMMA AsksType ==
    ASSUME PollerType, NEW c \in DOMAIN chan, NEW ev \in Polls!Asks(c) PROVE ev \in SUBSET Events
BY DEF PollerType, ChannelRecord, Polls!Asks

(* Channel c becomes r, and the others stay.                               *)
Becomes(c, r, ch) == ch = [chan EXCEPT ![c] = r]

LEMMA BecomesFacts ==
    ASSUME PollerType, NEW c \in DOMAIN chan, NEW r \in ChannelRecord, NEW ch, Becomes(c, r, ch)
    PROVE  /\ DOMAIN ch = DOMAIN chan /\ ch \in [DOMAIN ch -> ChannelRecord]
           /\ \A d \in DOMAIN chan : ch[d] = IF d = c THEN r ELSE chan[d]
BY DEF PollerType, Becomes

(* EPollPoller::updateChannel().                                           *)
LEMMA EpollUpdateKeeps ==
    ASSUME PollerInv, kind = "epoll", NEW c \in DOMAIN chan, NEW ev \in SUBSET Events,
           Polls!EpollUpdate(c, ev), UNCHANGED <<kind, pollfds>>
    PROVE  PollerInv'
<1> USE ChannelsAssumption
<1> DEFINE i == chan[c].index
           gone == i = 1 /\ ev = {}
           r == [events |-> ev, added |-> TRUE, index |-> IF gone THEN 2 ELSE 1]
<1>0. PollerType /\ ChannelsInv /\ EpollInv
  BY DEF PollerInv
<1>1. c \in Channels /\ c[1] \in Nat
  BY <1>0 DEF PollerType
<1>2. i \in {-1, 1, 2} /\ (chan[c].added <=> i # -1)
  BY <1>0 DEF EpollInv
<1>3. /\ chan' = [chan EXCEPT ![c] = r]
      /\ epoll' = IF gone THEN Polls!Restrict(epoll, DOMAIN epoll \ {c[1]})
                  ELSE Polls!Put(epoll, c[1], [c |-> c, events |-> ev])
      /\ channels' = IF i = 1 THEN channels ELSE Polls!Put(channels, c[1], c)
  BY <1>2 DEF Polls!EpollUpdate, Polls!fd, Polls!kAdded, Polls!kNew, Polls!kDeleted, Polls!Entry
<1>4. r \in ChannelRecord /\ r.events = ev /\ r.added /\ r.index = IF gone THEN 2 ELSE 1
  BY DEF ChannelRecord
<1>5. ~ wrong'
  <2>1. wrong' => \/ wrong
                  \/ i = 1 /\ (~ Polls!Known(c) \/ c[1] \notin DOMAIN epoll)
                  \/ i # 1 /\ c[1] \in DOMAIN epoll
                  \/ i = -1 /\ c[1] \in DOMAIN channels
                  \/ i \notin {1, -1} /\ ~ Polls!Known(c)
    BY <1>2 DEF Polls!EpollUpdate, Polls!kAdded, Polls!kNew, Polls!fd
  <2>2. i # -1 => chan[c].added /\ Polls!Known(c)
    BY <1>0, <1>2 DEF Polls!Known, Polls!fd, ChannelsInv
  <2>3. i = 1 <=> c[1] \in DOMAIN epoll
    <3>1. i = 1 => c[1] \in DOMAIN epoll
      BY <1>0 DEF EpollInv
    <3>2. c[1] \in DOMAIN epoll => epoll[c[1]].c = c /\ i = 1
      BY <1>0 DEF ChannelsInv, EpollInv
    <3> QED
      BY <3>1, <3>2
  <2>4. c[1] \in DOMAIN channels => chan[c].added
    BY <1>0 DEF ChannelsInv
  <2> QED
    BY <1>0, <1>2, <2>1, <2>2, <2>3, <2>4 DEF ChannelsInv
<1> HIDE DEF r
<1>6. /\ DOMAIN chan' = DOMAIN chan /\ chan' \in [DOMAIN chan' -> ChannelRecord]
      /\ \A d \in DOMAIN chan : chan'[d] = IF d = c THEN r ELSE chan[d]
  BY <1>0, <1>3, <1>4, BecomesFacts DEF Becomes
<1>7. /\ DOMAIN channels' = DOMAIN channels \union {c[1]} /\ channels'[c[1]] = c
      /\ \A d \in DOMAIN channels \ {c[1]} : channels'[d] = channels[d]
      /\ channels' \in [DOMAIN channels' -> Channels]
  <2>1. CASE i = 1
    <3>1. chan[c].added
      BY <1>2, <2>1
    <3>2. c[1] \in DOMAIN channels /\ channels[c[1]] = c
      BY <1>0, <3>1 DEF ChannelsInv
    <3> QED
      BY <1>0, <1>3, <2>1, <3>2 DEF PollerType
  <2>2. CASE i # 1
    BY <1>0, <1>1, <1>3, <2>2 DEF Polls!Put, PollerType
  <2> QED
    BY <2>1, <2>2
<1>8. /\ DOMAIN epoll' = IF gone THEN DOMAIN epoll \ {c[1]} ELSE DOMAIN epoll \union {c[1]}
      /\ \A d \in DOMAIN epoll \ {c[1]} : epoll'[d] = epoll[d]
      /\ ~ gone => epoll'[c[1]] = [c |-> c, events |-> ev]
      /\ epoll' \in [DOMAIN epoll' -> EpollEntry]
  <2>1. CASE gone
    BY <1>0, <1>3, <2>1 DEF Polls!Restrict, PollerType
  <2>2. CASE ~ gone
    BY <1>0, <1>1, <1>3, <2>2 DEF Polls!Put, PollerType, EpollEntry
  <2> QED
    BY <2>1, <2>2
<1>9. PollerType'
  BY <1>0, <1>1, <1>6, <1>7, <1>8 DEF PollerType
<1>10. ChannelsInv'
  <2>1. IsFiniteSet(DOMAIN channels')
    BY <1>0, <1>7, FS_AddElement, SMTT(40) DEF ChannelsInv
  <2>2. ASSUME NEW d \in DOMAIN channels'
        PROVE  channels'[d] \in DOMAIN chan' /\ channels'[d][1] = d /\ chan'[channels'[d]].added
    BY <1>0, <1>4, <1>6, <1>7 DEF ChannelsInv
  <2>3. ASSUME NEW d \in DOMAIN chan', chan'[d].added
        PROVE  d[1] \in DOMAIN channels' /\ channels'[d[1]] = d
    BY <1>0, <1>6, <1>7, <2>3 DEF ChannelsInv
  <2> QED
    BY <1>0, <1>5, <1>6, <2>1, <2>2, <2>3 DEF ChannelsInv
<1>11. EpollInv'
  <2>1. ASSUME NEW d \in DOMAIN chan'
        PROVE  /\ chan'[d].index \in {-1, 1, 2}
               /\ chan'[d].added <=> chan'[d].index # -1
               /\ chan'[d].index # 1 => chan'[d].events = {}
               /\ chan'[d].index = 1 =>
                     d[1] \in DOMAIN epoll' /\ epoll'[d[1]] = [c |-> d, events |-> chan'[d].events]
    <3>1. CASE d = c
      BY <1>4, <1>6, <1>8, <3>1
    <3>2. CASE d # c
      <4>1. d[1] # c[1] /\ chan'[d] = chan[d] /\ d \in DOMAIN chan
        BY <1>0, <1>6, <3>2 DEF ChannelsInv
      <4> QED
        BY <1>0, <1>8, <4>1 DEF EpollInv
    <3> QED
      BY <3>1, <3>2
  <2>2. ASSUME NEW d \in DOMAIN epoll'
        PROVE  epoll'[d].c \in DOMAIN chan' /\ epoll'[d].c[1] = d /\ chan'[epoll'[d].c].index = 1
    <3>1. CASE d = c[1]
      <4>1. ~ gone
        BY <1>8, <3>1
      <4> QED
        BY <1>4, <1>6, <1>8, <3>1, <4>1
    <3>2. CASE d # c[1]
      <4>1. d \in DOMAIN epoll /\ epoll'[d] = epoll[d]
        BY <1>8, <3>2
      <4>2. epoll[d].c \in DOMAIN chan /\ epoll[d].c[1] = d /\ chan[epoll[d].c].index = 1
        BY <1>0, <4>1 DEF EpollInv
      <4> QED
        BY <1>6, <3>2, <4>1, <4>2
    <3> QED
      BY <3>1, <3>2
  <2> QED
    BY <2>1, <2>2 DEF EpollInv
<1> QED
  BY <1>9, <1>10, <1>11 DEF PollerInv

(* EPollPoller::removeChannel(), of an added channel that asks for nothing.*)
LEMMA EpollRemoveKeeps ==
    ASSUME PollerInv, kind = "epoll", NEW c \in DOMAIN chan, chan[c].added, chan[c].events = {},
           channels' = Polls!Restrict(channels, DOMAIN channels \ {c[1]}),
           Polls!EpollRemove(c), UNCHANGED <<kind, pollfds>>
    PROVE  PollerInv'
<1> USE ChannelsAssumption
<1> DEFINE r == [events |-> chan[c].events, index |-> -1, added |-> FALSE]
<1>0. PollerType /\ ChannelsInv /\ EpollInv
  BY DEF PollerInv
<1>1. chan[c] \in ChannelRecord
  BY <1>0 DEF PollerType
<1>2. r \in ChannelRecord /\ r.events = {} /\ ~ r.added /\ r.index = -1
  BY <1>1 DEF ChannelRecord
<1>3. /\ chan' = [chan EXCEPT ![c] = r]
      /\ epoll' = IF chan[c].index = 1 THEN Polls!Restrict(epoll, DOMAIN epoll \ {c[1]}) ELSE epoll
  BY DEF Polls!EpollRemove, Polls!EpollRemoves, Polls!kNew, Polls!kAdded, Polls!fd
<1>4. ~ wrong'
  <2>1. Polls!Known(c) /\ chan[c].index \in {1, 2}
    BY <1>0 DEF Polls!Known, Polls!fd, ChannelsInv, EpollInv
  <2> QED
    BY <1>0, <2>1 DEF Polls!EpollRemove, Polls!kAdded, Polls!kDeleted, ChannelsInv
<1> HIDE DEF r
<1>5. /\ DOMAIN chan' = DOMAIN chan /\ chan' \in [DOMAIN chan' -> ChannelRecord]
      /\ \A d \in DOMAIN chan : chan'[d] = IF d = c THEN r ELSE chan[d]
  BY <1>0, <1>2, <1>3, BecomesFacts DEF Becomes
<1>6. /\ DOMAIN channels' = DOMAIN channels \ {c[1]}
      /\ \A d \in DOMAIN channels' : channels'[d] = channels[d]
      /\ channels' \in [DOMAIN channels' -> Channels]
  BY <1>0 DEF Polls!Restrict, PollerType
<1>7. /\ DOMAIN epoll' = DOMAIN epoll \ {c[1]}
      /\ \A d \in DOMAIN epoll' : epoll'[d] = epoll[d]
      /\ epoll' \in [DOMAIN epoll' -> EpollEntry]
  <2>1. CASE chan[c].index = 1
    BY <1>0, <1>3, <2>1 DEF Polls!Restrict, PollerType
  <2>2. CASE chan[c].index # 1
    <3>1. c[1] \notin DOMAIN epoll
      BY <1>0, <2>2 DEF ChannelsInv, EpollInv
    <3> QED
      BY <1>0, <1>3, <2>2, <3>1 DEF PollerType
  <2> QED
    BY <2>1, <2>2
<1>8. PollerType'
  BY <1>0, <1>5, <1>6, <1>7 DEF PollerType
<1>9. ChannelsInv'
  <2>1. IsFiniteSet(DOMAIN channels')
    BY <1>0, <1>6, FS_RemoveElement DEF ChannelsInv
  <2>2. ASSUME NEW d \in DOMAIN channels'
        PROVE  channels'[d] \in DOMAIN chan' /\ channels'[d][1] = d /\ chan'[channels'[d]].added
    <3>1. d \in DOMAIN channels /\ channels'[d] = channels[d] /\ d # c[1]
      BY <1>6
    <3>2. channels[d] \in DOMAIN chan /\ channels[d][1] = d /\ chan[channels[d]].added
      BY <1>0, <3>1 DEF ChannelsInv
    <3>3. channels[d] # c
      BY <3>1, <3>2
    <3> QED
      BY <1>5, <3>1, <3>2, <3>3
  <2>3. ASSUME NEW d \in DOMAIN chan', chan'[d].added
        PROVE  d[1] \in DOMAIN channels' /\ channels'[d[1]] = d
    BY <1>0, <1>2, <1>5, <1>6, <2>3, ZenonT(60) DEF ChannelsInv
  <2> QED
    BY <1>0, <1>4, <1>5, <2>1, <2>2, <2>3 DEF ChannelsInv
<1>10. EpollInv'
  <2>1. ASSUME NEW d \in DOMAIN chan'
        PROVE  /\ chan'[d].index \in {-1, 1, 2}
               /\ chan'[d].added <=> chan'[d].index # -1
               /\ chan'[d].index # 1 => chan'[d].events = {}
               /\ chan'[d].index = 1 =>
                     d[1] \in DOMAIN epoll' /\ epoll'[d[1]] = [c |-> d, events |-> chan'[d].events]
    <3>1. CASE d = c
      BY <1>2, <1>5, <3>1
    <3>2. CASE d # c
      <4>1. d[1] # c[1] /\ chan'[d] = chan[d] /\ d \in DOMAIN chan
        BY <1>0, <1>5, <3>2 DEF ChannelsInv
      <4> QED
        BY <1>0, <1>7, <4>1 DEF EpollInv
    <3> QED
      BY <3>1, <3>2
  <2>2. ASSUME NEW d \in DOMAIN epoll'
        PROVE  epoll'[d].c \in DOMAIN chan' /\ epoll'[d].c[1] = d /\ chan'[epoll'[d].c].index = 1
    <3>1. d \in DOMAIN epoll /\ epoll'[d] = epoll[d] /\ d # c[1]
      BY <1>7
    <3>2. epoll[d].c \in DOMAIN chan /\ epoll[d].c[1] = d /\ chan[epoll[d].c].index = 1
      BY <1>0, <3>1 DEF EpollInv
    <3> QED
      BY <1>5, <3>1, <3>2
  <2> QED
    BY <2>1, <2>2 DEF EpollInv
<1> QED
  BY <1>8, <1>9, <1>10 DEF PollerInv
-----------------------------------------------------------------------------
(* An entry of pollfds_ is replaced.                                       *)
Replaced(s, t, i, e) == t = [s EXCEPT ![i] = e]

LEMMA ReplacedFacts ==
    ASSUME NEW s \in Seq(PollEntry), NEW i \in 1 .. Len(s), NEW e \in PollEntry, NEW t, Replaced(s, t, i, e)
    PROVE  /\ t \in Seq(PollEntry) /\ Len(t) = Len(s)
           /\ \A j \in 1 .. Len(s) : t[j] = IF j = i THEN e ELSE s[j]
BY ExceptSeq DEF Replaced

(* PollPoller::updateChannel() of a new channel: it gets the last place.   *)
LEMMA PollAddKeeps ==
    ASSUME PollerInv, kind = "poll", NEW c \in DOMAIN chan, chan[c].index < 0, NEW ev \in SUBSET Events,
           Polls!PollUpdate(c, ev), UNCHANGED <<kind, epoll>>
    PROVE  PollerInv'
<1> USE ChannelsAssumption
<1> DEFINE n == Len(pollfds)
           r == [events |-> ev, added |-> TRUE, index |-> n]
           e == [fd |-> c[1], events |-> ev]
<1>0. PollerType /\ ChannelsInv /\ PollInv
  BY DEF PollerInv
<1>1. c \in Channels /\ c[1] \in Nat /\ n \in Nat
  BY <1>0, LenProperties DEF PollerType
<1>2. /\ wrong' => wrong \/ c[1] \in DOMAIN channels
      /\ pollfds' = Append(pollfds, e)
      /\ channels' = Polls!Put(channels, c[1], c)
      /\ Becomes(c, r, chan')
  BY DEF Polls!PollUpdate, Polls!fd, Becomes
<1>3. /\ r \in ChannelRecord /\ r.events = ev /\ r.added /\ r.index = n
      /\ e \in PollEntry /\ e.fd = c[1] /\ e.events = ev
  BY <1>1 DEF ChannelRecord, PollEntry
<1> HIDE DEF r, e
<1>4. ~ chan[c].added /\ c[1] \notin DOMAIN channels
  <2>1. chan[c].index \in Int
    BY <1>0 DEF PollerType, ChannelRecord
  <2>2. ~ chan[c].added
    BY <1>0, <1>1, <2>1 DEF PollInv
  <2> QED
    BY <1>0, <2>2 DEF ChannelsInv
<1>5. /\ DOMAIN chan' = DOMAIN chan /\ chan' \in [DOMAIN chan' -> ChannelRecord]
      /\ \A d \in DOMAIN chan : chan'[d] = IF d = c THEN r ELSE chan[d]
  BY <1>0, <1>2, <1>3, BecomesFacts
<1>6. /\ DOMAIN channels' = DOMAIN channels \union {c[1]} /\ channels'[c[1]] = c
      /\ \A d \in DOMAIN channels : channels'[d] = channels[d]
      /\ channels' \in [DOMAIN channels' -> Channels]
  BY <1>0, <1>1, <1>2, <1>4 DEF Polls!Put, PollerType
<1>7. /\ pollfds' \in Seq(PollEntry) /\ Len(pollfds') = n + 1 /\ pollfds'[n + 1] = e
      /\ \A i \in 1 .. n : pollfds'[i] = pollfds[i]
  BY <1>0, <1>2, <1>3, AppendProperties DEF PollerType
<1>8. PollerType'
  BY <1>0, <1>1, <1>5, <1>6, <1>7 DEF PollerType
<1>9. ChannelsInv'
  <2>1. IsFiniteSet(DOMAIN channels')
    BY <1>0, <1>6, FS_AddElement DEF ChannelsInv
  <2>2. ASSUME NEW d \in DOMAIN channels'
        PROVE  channels'[d] \in DOMAIN chan' /\ channels'[d][1] = d /\ chan'[channels'[d]].added
    BY <1>0, <1>3, <1>5, <1>6 DEF ChannelsInv
  <2>3. ASSUME NEW d \in DOMAIN chan', chan'[d].added
        PROVE  d[1] \in DOMAIN channels' /\ channels'[d[1]] = d
    BY <1>0, <1>5, <1>6, <2>3 DEF ChannelsInv
  <2> QED
    BY <1>0, <1>2, <1>4, <1>5, <2>1, <2>2, <2>3 DEF ChannelsInv
<1>10. PollInv'
  <2>1. Cardinality(DOMAIN channels') = Len(pollfds')
    <3>1. Cardinality(DOMAIN channels \union {c[1]}) = Cardinality(DOMAIN channels) + 1
      BY <1>0, <1>4, FS_AddElement DEF ChannelsInv
    <3> QED
      BY <1>0, <1>6, <1>7, <3>1 DEF PollInv
  <2>2. Owns(c, n + 1, chan', pollfds') /\ chan'[c].index + 1 = n + 1
    BY <1>1, <1>3, <1>5, <1>7 DEF Owns
  <2>3. ASSUME NEW d \in DOMAIN chan, NEW i \in 1 .. n, Owns(d, i, chan, pollfds)
        PROVE  d # c /\ Owns(d, i, chan', pollfds')
    BY <1>4, <1>5, <1>7, <2>3 DEF Owns
  <2>4. ASSUME NEW d \in DOMAIN chan', chan'[d].added
        PROVE  /\ chan'[d].index + 1 \in 1 .. Len(pollfds') /\ Owns(d, chan'[d].index + 1, chan', pollfds')
               /\ chan'[d].index = n => d = c
    <3>1. CASE d = c
      BY <1>1, <1>7, <2>2, <3>1
    <3>2. CASE d # c
      <4>1. chan'[d] = chan[d] /\ d \in DOMAIN chan
        BY <1>5, <3>2
      <4>2. chan[d].index + 1 \in 1 .. n /\ Owns(d, chan[d].index + 1, chan, pollfds) /\ chan[d].index \in Int
        BY <1>0, <2>4, <4>1 DEF PollInv, PollerType, ChannelRecord
      <4> QED
        BY <1>1, <1>7, <2>3, <4>1, <4>2
    <3> QED
      BY <3>1, <3>2
  <2>5. ASSUME NEW d \in DOMAIN chan', NEW x \in DOMAIN chan',
               chan'[d].added /\ chan'[x].added /\ chan'[d].index = chan'[x].index
        PROVE  d = x
    <3>1. CASE d = c \/ x = c
      BY <1>3, <1>5, <2>4, <2>5, <3>1
    <3>2. CASE d # c /\ x # c
      BY <1>0, <1>5, <2>5, <3>2 DEF PollInv
    <3> QED
      BY <3>1, <3>2
  <2>6. ASSUME NEW i \in 1 .. Len(pollfds') PROVE \E d \in DOMAIN chan' : Owns(d, i, chan', pollfds')
    <3>1. CASE i = n + 1
      BY <1>5, <2>2, <3>1
    <3>2. CASE i # n + 1
      <4>1. i \in 1 .. n
        BY <1>1, <1>7, <3>2
      <4>2. PICK d \in DOMAIN chan : Owns(d, i, chan, pollfds)
        BY <1>0, <4>1 DEF PollInv
      <4> QED
        BY <1>5, <2>3, <4>1, <4>2
    <3> QED
      BY <3>1, <3>2
  <2> QED
    BY <2>1, <2>4, <2>5, <2>6 DEF PollInv
<1> QED
  BY <1>8, <1>9, <1>10 DEF PollerInv

(* PollPoller::updateChannel() of a channel that has a place.              *)
LEMMA PollChangeKeeps ==
    ASSUME PollerInv, kind = "poll", NEW c \in DOMAIN chan, chan[c].added, NEW ev \in SUBSET Events,
           Polls!PollUpdate(c, ev), UNCHANGED <<kind, epoll>>
    PROVE  PollerInv'
<1> USE ChannelsAssumption
<1> DEFINE p == chan[c].index + 1
           n == Len(pollfds)
           e == [fd |-> IF ev = {} THEN -c[1] - 1 ELSE pollfds[p].fd, events |-> ev]
<1>0. PollerType /\ ChannelsInv /\ PollInv
  BY DEF PollerInv
<1>1. c \in Channels /\ c[1] \in Nat /\ n \in Nat /\ chan[c].index \in Int
  BY <1>0, LenProperties DEF PollerType, ChannelRecord
<1>2. p \in 1 .. n /\ Owns(c, p, chan, pollfds) /\ chan[c].index >= 0
  BY <1>0, <1>1 DEF PollInv
<1>3. pollfds[p].fd \in {c[1], -c[1] - 1}
  BY <1>2 DEF Owns
<1>4. /\ e \in PollEntry /\ e.events = ev /\ e.fd \in {c[1], -c[1] - 1}
  BY <1>1, <1>3 DEF PollEntry
<1>5. /\ Replaced(pollfds, pollfds', p, e) /\ channels' = channels
      /\ chan' = [chan EXCEPT ![c].events = ev]
      /\ wrong' => wrong \/ ~ Polls!Known(c) \/ ~ Polls!InRange(c) \/ pollfds[p].fd \notin {c[1], -c[1] - 1}
  <2>1. ~ (chan[c].index < 0)
    BY <1>1, <1>2
  <2>2. /\ wrong' = (wrong \/ ~ Polls!Known(c) \/ ~ Polls!InRange(c)
                           \/ pollfds[p].fd \notin {c[1], -c[1] - 1})
        /\ pollfds' = [pollfds EXCEPT ![p] = e]
        /\ chan' = [chan EXCEPT ![c].events = ev]
        /\ channels' = channels
    BY <2>1, Zenon DEF Polls!PollUpdate, Polls!Place, Polls!fd
  <2> QED
    BY <2>2 DEF Replaced
<1>6. ~ wrong'
  <2>1. Polls!Known(c)
    BY <1>0 DEF ChannelsInv, Polls!Known, Polls!fd
  <2>2. Polls!InRange(c)
    BY <1>2 DEF Polls!InRange, Polls!Place
  <2> QED
    BY <1>0, <1>3, <1>5, <2>1, <2>2 DEF ChannelsInv
<1>7. /\ DOMAIN chan' = DOMAIN chan /\ chan' \in [DOMAIN chan' -> ChannelRecord]
      /\ \A d \in DOMAIN chan : /\ chan'[d].added = chan[d].added /\ chan'[d].index = chan[d].index
                                /\ chan'[d].events = IF d = c THEN ev ELSE chan[d].events
  BY <1>0, <1>5 DEF PollerType, ChannelRecord
<1> HIDE DEF e
<1>8. /\ pollfds' \in Seq(PollEntry) /\ Len(pollfds') = n
      /\ \A i \in 1 .. n : pollfds'[i] = IF i = p THEN e ELSE pollfds[i]
  <2>1. pollfds \in Seq(PollEntry) /\ p \in 1 .. Len(pollfds)
    BY <1>0, <1>2 DEF PollerType
  <2> HIDE DEF p
  <2> QED
    BY <1>4, <1>5, <2>1, ReplacedFacts
<1>9. PollerType'
  BY <1>0, <1>5, <1>7, <1>8 DEF PollerType
<1>10. ChannelsInv'
  BY <1>0, <1>5, <1>6, <1>7 DEF ChannelsInv
<1>11. PollInv'
  <2>1. ASSUME NEW d \in DOMAIN chan, NEW i \in 1 .. n, Owns(d, i, chan, pollfds)
        PROVE  Owns(d, i, chan', pollfds')
    <3>1. CASE d = c
      BY <1>4, <1>7, <1>8, <2>1, <3>1 DEF Owns
    <3>2. CASE d # c
      <4>1. i # p
        BY <1>0, <1>1, <1>2, <2>1, <3>2, SMTT(40) DEF Owns, PollInv, PollerType, ChannelRecord
      <4> QED
        BY <1>7, <1>8, <2>1, <3>2, <4>1 DEF Owns
    <3> QED
      BY <3>1, <3>2
  <2>2. ASSUME NEW d \in DOMAIN chan', chan'[d].added
        PROVE  chan'[d].index + 1 \in 1 .. n /\ Owns(d, chan'[d].index + 1, chan', pollfds')
    BY <1>0, <1>7, <2>1, <2>2 DEF PollInv
  <2>3. ASSUME NEW i \in 1 .. n PROVE \E d \in DOMAIN chan' : Owns(d, i, chan', pollfds')
    BY <1>0, <1>7, <2>1 DEF PollInv
  <2>4. Cardinality(DOMAIN channels') = Len(pollfds')
    BY <1>0, <1>5, <1>8 DEF PollInv
  <2>5. \A d, x \in DOMAIN chan' : chan'[d].added /\ chan'[x].added /\ chan'[d].index = chan'[x].index => d = x
    BY <1>0, <1>7 DEF PollInv
  <2> QED
    BY <1>8, <2>2, <2>3, <2>4, <2>5 DEF PollInv
<1> QED
  BY <1>9, <1>10, <1>11 DEF PollerInv

(* PollPoller::removeChannel(): the last entry moves to the place that     *)
(* becomes free, and its channel learns of it.                             *)
LEMMA PollRemoveKeeps ==
    ASSUME PollerInv, kind = "poll", NEW c \in DOMAIN chan, chan[c].added, chan[c].events = {},
           Polls!Removable(c), channels' = Polls!Restrict(channels, DOMAIN channels \ {c[1]}),
           Polls!PollRemove(c), UNCHANGED kind
    PROVE  PollerInv'
<1> USE ChannelsAssumption
<1> DEFINE p == chan[c].index + 1
           n == Len(pollfds)
           moved == IF p = n THEN chan ELSE Polls!Moved(c, pollfds[n].fd)
           mid == [pollfds EXCEPT ![p] = pollfds[n]]
<1>0. PollerType /\ ChannelsInv /\ PollInv
  BY DEF PollerInv
<1>1. c \in Channels /\ c[1] \in Nat /\ n \in Nat /\ chan[c].index \in Int
  BY <1>0, LenProperties DEF PollerType, ChannelRecord
<1>2. p \in 1 .. n /\ Owns(c, p, chan, pollfds) /\ n \in 1 .. n /\ n >= 1
  BY <1>0, <1>1 DEF PollInv
<1>3. PICK e \in DOMAIN chan : Owns(e, n, chan, pollfds)
  BY <1>0, <1>2 DEF PollInv
<1>4. /\ chan[e].added /\ chan[e].index + 1 = n /\ e[1] \in Nat /\ chan[e].index \in Int
      /\ pollfds[n].fd \in {e[1], -e[1] - 1}
      /\ e[1] \in DOMAIN channels /\ channels[e[1]] = e
      /\ e = c <=> p = n
  <2>1. /\ chan[e].added /\ chan[e].index + 1 = n /\ pollfds[n].fd \in {e[1], -e[1] - 1}
    BY <1>3 DEF Owns
  <2>2. e[1] \in Nat /\ chan[e].index \in Int
    BY <1>0 DEF PollerType, ChannelRecord
  <2>3. e[1] \in DOMAIN channels /\ channels[e[1]] = e
    BY <1>0, <2>1 DEF ChannelsInv
  <2>4. chan[e].index = chan[c].index => e = c
    BY <1>0, <2>1 DEF PollInv
  <2> QED
    BY <1>1, <2>1, <2>2, <2>3, <2>4
<1>5. channels[IF pollfds[n].fd < 0 THEN -pollfds[n].fd - 1 ELSE pollfds[n].fd] = e
  <2>1. (IF pollfds[n].fd < 0 THEN -pollfds[n].fd - 1 ELSE pollfds[n].fd) = e[1]
    BY <1>4
  <2> QED
    BY <1>4, <2>1
<1>6. /\ wrong' = (wrong \/ ~ Polls!Known(c) \/ ~ Polls!InRange(c) \/ pollfds[p].fd # -c[1] - 1
                         \/ pollfds[p].events # chan[c].events)
      /\ pollfds' = SubSeq(mid, 1, n - 1)
      /\ chan' = [moved EXCEPT ![c].added = FALSE]
      /\ epoll' = epoll
  BY Zenon DEF Polls!PollRemove, Polls!Place, Polls!fd
<1>7. ~ wrong'
  <2>1. Polls!Known(c)
    BY <1>0 DEF ChannelsInv, Polls!Known, Polls!fd
  <2>2. Polls!InRange(c)
    BY <1>2 DEF Polls!InRange, Polls!Place
  <2>3. pollfds[p].fd < 0
    BY DEF Polls!Removable, Polls!Place
  <2>4. pollfds[p].fd = -c[1] - 1 /\ pollfds[p].events = chan[c].events
    BY <1>1, <1>2, <2>3 DEF Owns
  <2> QED
    BY <1>0, <1>6, <2>1, <2>2, <2>4 DEF ChannelsInv
<1>8. moved = IF p = n THEN chan ELSE [chan EXCEPT ![e].index = chan[c].index]
  BY <1>5 DEF Polls!Moved
<1>9. /\ DOMAIN moved = DOMAIN chan /\ moved \in [DOMAIN chan -> ChannelRecord]
      /\ \A d \in DOMAIN chan : /\ moved[d].added = chan[d].added /\ moved[d].events = chan[d].events
                                /\ moved[d].index = IF d = e THEN chan[c].index ELSE chan[d].index
  <2>1. CASE p = n
    BY <1>0, <1>4, <1>8, <2>1 DEF PollerType
  <2>2. CASE p # n
    <3>1. moved = [chan EXCEPT ![e].index = chan[c].index]
      BY <1>8, <2>2
    <3> HIDE DEF moved
    <3> QED
      BY <1>0, <1>1, <3>1 DEF PollerType, ChannelRecord
  <2> QED
    BY <2>1, <2>2
<1> HIDE DEF moved
<1>10. /\ DOMAIN chan' = DOMAIN chan /\ chan' \in [DOMAIN chan' -> ChannelRecord]
       /\ \A d \in DOMAIN chan : /\ chan'[d].added = (d # c /\ chan[d].added)
                                 /\ chan'[d].events = chan[d].events
                                 /\ chan'[d].index = IF d = e THEN chan[c].index ELSE chan[d].index
  <2>1. /\ DOMAIN chan' = DOMAIN chan
        /\ \A d \in DOMAIN chan : chan'[d] = IF d = c THEN [moved[c] EXCEPT !.added = FALSE] ELSE moved[d]
    BY <1>6, <1>9
  <2>2. /\ [moved[c] EXCEPT !.added = FALSE] \in ChannelRecord
        /\ [moved[c] EXCEPT !.added = FALSE].added = FALSE
        /\ [moved[c] EXCEPT !.added = FALSE].events = moved[c].events
        /\ [moved[c] EXCEPT !.added = FALSE].index = moved[c].index
    BY <1>9 DEF ChannelRecord
  <2>3. chan' \in [DOMAIN chan' -> ChannelRecord]
    BY <1>6, <1>9, <2>1, <2>2
  <2>4. \A d \in DOMAIN chan : chan[d].added \in BOOLEAN
    BY <1>0 DEF PollerType, ChannelRecord
  <2>5. ASSUME NEW d \in DOMAIN chan
        PROVE  /\ chan'[d].added = (d # c /\ chan[d].added)
               /\ chan'[d].events = chan[d].events
               /\ chan'[d].index = IF d = e THEN chan[c].index ELSE chan[d].index
    <3>1. CASE d = c
      BY <1>9, <2>1, <2>2, <3>1
    <3>2. CASE d # c
      BY <1>9, <2>1, <2>4, <3>2
    <3> QED
      BY <3>1, <3>2
  <2> QED
    BY <2>1, <2>3, <2>5
<1>11. /\ DOMAIN channels' = DOMAIN channels \ {c[1]}
       /\ \A d \in DOMAIN channels' : channels'[d] = channels[d]
       /\ channels' \in [DOMAIN channels' -> Channels]
  BY <1>0 DEF Polls!Restrict, PollerType
<1>12. /\ pollfds' \in Seq(PollEntry) /\ Len(pollfds') = n - 1
       /\ \A i \in 1 .. n - 1 : pollfds'[i] = IF i = p THEN pollfds[n] ELSE pollfds[i]
  <2>1. pollfds \in Seq(PollEntry) /\ p \in 1 .. Len(pollfds) /\ pollfds[n] \in PollEntry
    BY <1>0, <1>2, ElementOfSeq DEF PollerType
  <2>2. Replaced(pollfds, mid, p, pollfds[n])
    BY DEF Replaced
  <2> HIDE DEF p, mid
  <2>3. /\ mid \in Seq(PollEntry) /\ Len(mid) = n
        /\ \A i \in 1 .. n : mid[i] = IF i = p THEN pollfds[n] ELSE pollfds[i]
    BY <2>1, <2>2, ReplacedFacts
  <2>4. /\ SubSeq(mid, 1, n - 1) \in Seq(PollEntry) /\ Len(SubSeq(mid, 1, n - 1)) = n - 1
        /\ \A i \in 1 .. n - 1 : SubSeq(mid, 1, n - 1)[i] = mid[i]
    BY <1>1, <1>2, <2>3
  <2> QED
    BY <1>1, <1>2, <1>6, <2>3, <2>4
<1> HIDE DEF mid
<1>13. PollerType'
  BY <1>0, <1>6, <1>10, <1>11, <1>12 DEF PollerType
<1>14. ChannelsInv'
  <2>1. IsFiniteSet(DOMAIN channels')
    BY <1>0, <1>11, FS_RemoveElement DEF ChannelsInv
  <2>2. ASSUME NEW d \in DOMAIN channels'
        PROVE  channels'[d] \in DOMAIN chan' /\ channels'[d][1] = d /\ chan'[channels'[d]].added
    <3>1. d \in DOMAIN channels /\ channels'[d] = channels[d] /\ d # c[1]
      BY <1>11
    <3>2. channels[d] \in DOMAIN chan /\ channels[d][1] = d /\ chan[channels[d]].added
      BY <1>0, <3>1 DEF ChannelsInv
    <3> QED
      BY <1>10, <3>1, <3>2
  <2>3. ASSUME NEW d \in DOMAIN chan', chan'[d].added
        PROVE  d[1] \in DOMAIN channels' /\ channels'[d[1]] = d
    <3>1. d \in DOMAIN chan /\ chan[d].added /\ d # c
      BY <1>10, <2>3
    <3> QED
      BY <1>0, <1>11, <3>1 DEF ChannelsInv
  <2> QED
    BY <1>0, <1>7, <1>10, <2>1, <2>2, <2>3 DEF ChannelsInv
<1>15. PollInv'
  <2>1. Cardinality(DOMAIN channels') = Len(pollfds')
    <3>1. c[1] \in DOMAIN channels
      BY <1>0 DEF ChannelsInv
    <3>2. Cardinality(DOMAIN channels \ {c[1]}) = Cardinality(DOMAIN channels) - 1
      BY <1>0, <3>1, FS_RemoveElement DEF ChannelsInv
    <3> QED
      BY <1>0, <1>11, <1>12, <3>2 DEF PollInv
  <2>2. ASSUME NEW d \in DOMAIN chan, d # c, chan[d].added
        PROVE  /\ chan'[d].index + 1 \in 1 .. n - 1
               /\ chan'[d].index + 1 = (IF d = e THEN p ELSE chan[d].index + 1)
               /\ Owns(d, chan'[d].index + 1, chan', pollfds')
               /\ d # e => chan[d].index + 1 # p
    <3>1. chan[d].index + 1 \in 1 .. n /\ Owns(d, chan[d].index + 1, chan, pollfds) /\ chan[d].index \in Int
      BY <1>0, <2>2 DEF PollInv, PollerType, ChannelRecord
    <3>2. chan[d].index # chan[c].index /\ (d # e => chan[d].index # chan[e].index)
      BY <1>0, <1>4, <2>2 DEF PollInv
    <3>3. CASE d = e
      <4>1. p # n /\ chan'[d].index + 1 = p /\ p \in 1 .. n - 1
        BY <1>1, <1>2, <1>4, <1>10, <2>2, <3>3
      <4>2. pollfds'[p] = pollfds[n]
        BY <1>12, <4>1
      <4>3. Owns(d, p, chan', pollfds')
        BY <1>3, <1>10, <2>2, <3>3, <4>1, <4>2 DEF Owns
      <4> QED
        BY <3>3, <4>1, <4>3
    <3>4. CASE d # e
      <4>1. chan[d].index + 1 \in 1 .. n - 1 /\ chan[d].index + 1 # p /\ chan'[d].index = chan[d].index
        BY <1>1, <1>4, <1>10, <3>1, <3>2, <3>4, SMTT(40)
      <4>2. pollfds'[chan[d].index + 1] = pollfds[chan[d].index + 1]
        BY <1>12, <4>1
      <4>3. Owns(d, chan[d].index + 1, chan', pollfds')
        BY <1>10, <2>2, <3>1, <4>1, <4>2 DEF Owns
      <4> QED
        BY <3>4, <4>1, <4>3
    <3> QED
      BY <3>3, <3>4
  <2>3. ASSUME NEW d \in DOMAIN chan', chan'[d].added
        PROVE  chan'[d].index + 1 \in 1 .. n - 1 /\ Owns(d, chan'[d].index + 1, chan', pollfds')
    BY <1>10, <2>2, <2>3
  <2>4. ASSUME NEW d \in DOMAIN chan', NEW x \in DOMAIN chan',
               chan'[d].added /\ chan'[x].added /\ chan'[d].index = chan'[x].index
        PROVE  d = x
    <3>1. d \in DOMAIN chan /\ x \in DOMAIN chan /\ d # c /\ x # c /\ chan[d].added /\ chan[x].added
      BY <1>10, <2>4
    <3>2. /\ chan'[d].index = IF d = e THEN chan[c].index ELSE chan[d].index
          /\ chan'[x].index = IF x = e THEN chan[c].index ELSE chan[x].index
      BY <1>10, <3>1
    <3>3. /\ chan[d].index # chan[c].index /\ chan[x].index # chan[c].index
          /\ chan[d].index = chan[x].index => d = x
      BY <1>0, <3>1 DEF PollInv
    <3> QED
      BY <2>4, <3>2, <3>3
  <2>5. ASSUME NEW i \in 1 .. n - 1 PROVE \E d \in DOMAIN chan' : Owns(d, i, chan', pollfds')
    <3>1. CASE i = p
      <4>1. e # c /\ chan'[e].index + 1 = i
        BY <1>1, <1>4, <1>10, <3>1
      <4> QED
        BY <1>4, <1>10, <2>2, <4>1
    <3>2. CASE i # p
      <4>1. i \in 1 .. n /\ i # n
        BY <1>1
      <4>2. PICK d \in DOMAIN chan : Owns(d, i, chan, pollfds)
        BY <1>0, <4>1 DEF PollInv
      <4>3. d # c /\ d # e /\ chan[d].added /\ chan[d].index + 1 = i
        BY <1>4, <3>2, <4>1, <4>2 DEF Owns
      <4>4. chan'[d].index + 1 = i /\ Owns(d, i, chan', pollfds')
        BY <2>2, <4>3
      <4> QED
        BY <1>10, <4>4
    <3> QED
      BY <3>1, <3>2
  <2> QED
    BY <1>12, <2>1, <2>3, <2>4, <2>5 DEF PollInv
<1> QED
  BY <1>13, <1>14, <1>15 DEF PollerInv
-----------------------------------------------------------------------------
(* Every step of the pollers keeps the invariant.                          *)
LEMMA PollerStep ==
    ASSUME PollerInv, [Polls!Next]_pollerVars PROVE PollerInv'
<1>0. PollerType
  BY DEF PollerInv
<1>1. CASE UNCHANGED pollerVars
  BY <1>1 DEF pollerVars, PollerInv, PollerType, ChannelsInv, EpollInv, PollInv, Owns
<1>2. ASSUME NEW c \in Channels, Polls!Create(c) PROVE PollerInv'
  BY <1>2, CreateKeeps
<1>3. ASSUME NEW c \in Channels, Polls!Destroy(c) PROVE PollerInv'
  BY <1>3, DestroyKeeps
<1>4. ASSUME NEW c \in DOMAIN chan, Polls!Usable(c), NEW ev \in Polls!Asks(c), Polls!Update(c, ev)
      PROVE  PollerInv'
  <2>1. ev \in SUBSET Events
    BY <1>0, AsksType
  <2>2. CASE kind = "epoll"
    <3>1. Polls!EpollUpdate(c, ev) /\ UNCHANGED <<kind, pollfds>>
      BY <1>4, <2>2 DEF Polls!Update
    <3> QED
      BY <2>1, <2>2, <3>1, EpollUpdateKeeps
  <2>3. CASE kind = "poll"
    <3>1. Polls!PollUpdate(c, ev) /\ UNCHANGED <<kind, epoll>>
      BY <1>4, <2>3 DEF Polls!Update
    <3>2. chan[c].added \/ chan[c].index < 0
      BY <1>4, <2>3 DEF Polls!Usable
    <3> QED
      BY <2>1, <2>3, <3>1, <3>2, PollAddKeeps, PollChangeKeeps
  <2> QED
    BY <1>0, <2>2, <2>3 DEF PollerType
<1>5. ASSUME NEW c \in DOMAIN chan, Polls!Removable(c), Polls!Remove(c) PROVE PollerInv'
  <2>1. /\ chan[c].added /\ chan[c].events = {}
        /\ channels' = Polls!Restrict(channels, DOMAIN channels \ {c[1]}) /\ UNCHANGED kind
    BY <1>5 DEF Polls!Remove, Polls!fd
  <2>2. CASE kind = "epoll"
    <3>1. Polls!EpollRemove(c) /\ UNCHANGED <<kind, pollfds>>
      BY <1>5, <2>2 DEF Polls!Remove
    <3> QED
      BY <2>1, <2>2, <3>1, EpollRemoveKeeps
  <2>3. CASE kind = "poll"
    <3>1. Polls!PollRemove(c)
      BY <1>5, <2>3 DEF Polls!Remove
    <3> QED
      BY <1>5, <2>1, <2>3, <3>1, PollRemoveKeeps
  <2> QED
    BY <1>0, <2>2, <2>3 DEF PollerType
<1> QED
  BY <1>1, <1>2, <1>3, <1>4, <1>5 DEF Polls!Next

(* The invariant gives the pollers' books, and events for those who ask.   *)
LEMMA PollerServes ==
    ASSUME PollerInv PROVE Polls!PollersAgree
<1> USE ChannelsAssumption
<1>0. /\ PollerType /\ ChannelsInv /\ (kind = "epoll" => EpollInv) /\ (kind = "poll" => PollInv)
      /\ kind \in {"epoll", "poll"}
  BY DEF PollerInv, PollerType
<1>1. kind = "epoll" => \A d \in DOMAIN epoll :
          Polls!Known(epoll[d].c) /\ epoll[d].c[1] = d /\ chan[epoll[d].c].index = 1
  <2> SUFFICES ASSUME kind = "epoll", NEW d \in DOMAIN epoll
               PROVE  Polls!Known(epoll[d].c) /\ epoll[d].c[1] = d /\ chan[epoll[d].c].index = 1
    OBVIOUS
  <2>1. epoll[d].c \in DOMAIN chan /\ epoll[d].c[1] = d /\ chan[epoll[d].c].index = 1
    BY <1>0 DEF EpollInv
  <2>2. chan[epoll[d].c].added
    <3>1. chan[epoll[d].c].added <=> chan[epoll[d].c].index # -1
      BY <1>0, <2>1 DEF EpollInv
    <3> QED
      BY <2>1, <3>1
  <2> QED
    BY <1>0, <2>1, <2>2 DEF ChannelsInv, Polls!Known, Polls!fd
<1>2. kind = "poll" => /\ Cardinality(DOMAIN channels) = Len(pollfds)
                       /\ \A d \in DOMAIN channels : pollfds[chan[channels[d]].index + 1].fd \in {d, -d - 1}
  BY <1>0 DEF ChannelsInv, PollInv, Owns
<1>3. Polls!BooksAgree
  BY <1>0, <1>1, <1>2, SameNumber DEF Polls!BooksAgree, ChannelsInv, Polls!fd, Polls!kAdded, Polls!Place
<1>4. ASSUME NEW c \in DOMAIN chan, kind = "epoll" PROVE Polls!Watched(c) = chan[c].events
  <2>1. EpollInv
    BY <1>0, <1>4
  <2>2. Polls!Watched(c) = IF c[1] \in DOMAIN epoll /\ epoll[c[1]].c = c THEN epoll[c[1]].events ELSE {}
    BY <1>4 DEF Polls!Watched, Polls!fd
  <2>3. CASE chan[c].index = 1
    <3>1. c[1] \in DOMAIN epoll /\ epoll[c[1]] = [c |-> c, events |-> chan[c].events]
      BY <2>1, <2>3 DEF EpollInv
    <3> QED
      BY <2>2, <3>1
  <2>4. CASE chan[c].index # 1
    <3>1. chan[c].events = {}
      BY <2>1, <2>4 DEF EpollInv
    <3>2. c[1] \in DOMAIN epoll => chan[epoll[c[1]].c].index = 1
      BY <2>1 DEF EpollInv
    <3> QED
      BY <2>2, <2>4, <3>1, <3>2
  <2> QED
    BY <2>3, <2>4
<1>5. ASSUME NEW c \in DOMAIN chan, kind = "poll" PROVE Polls!Watched(c) \subseteq chan[c].events
  <2> DEFINE seen == {i \in 1 .. Len(pollfds) : pollfds[i].fd = c[1]}
  <2>1. Polls!Watched(c) = IF Polls!Known(c) THEN UNION {pollfds[i].events : i \in seen} ELSE {}
    BY <1>5 DEF Polls!Watched, Polls!fd
  <2>2. ASSUME NEW i \in seen PROVE pollfds[i].events = chan[c].events
    <3>1. PICK d \in DOMAIN chan : Owns(d, i, chan, pollfds)
      BY <1>0, <1>5 DEF PollInv
    <3>2. d[1] \in Nat /\ c[1] \in Nat /\ pollfds[i].fd = c[1]
      BY <1>0 DEF PollerType
    <3>3. d[1] = c[1]
      BY <3>1, <3>2 DEF Owns
    <3>4. d = c
      BY <1>0, <3>3 DEF ChannelsInv
    <3> QED
      BY <3>1, <3>4 DEF Owns
  <2> HIDE DEF seen
  <2> QED
    BY <2>1, <2>2
<1>6. Polls!EventsAsAsked
  BY <1>0, <1>4, <1>5 DEF Polls!EventsAsAsked
<1> QED
  BY <1>3, <1>6 DEF Polls!PollersAgree

(* Whatever the descriptors and events: after any sequence of updates and  *)
(* removals the books of an EPollPoller and of a PollPoller agree with the *)
(* channels that live, no assert of theirs fails, and a channel gets no    *)
(* event it did not ask for.                                               *)
THEOREM PollersSafe == NetSpec => []PollersAgree
<1>1. NetInit => PollerInv
  BY PollerInit DEF NetInit
<1>2. PollerInv /\ [NetNext]_vars => PollerInv'
  <2> SUFFICES ASSUME PollerInv, [NetNext]_vars PROVE PollerInv'
    OBVIOUS
  <2>1. [Polls!Next]_pollerVars
    BY DEF NetNext, vars
  <2> QED
    BY <2>1, PollerStep
<1>3. PollerInv => PollersAgree
  BY PollerServes DEF PollersAgree
<1> QED
  BY <1>1, <1>2, <1>3, PTL DEF NetSpec
-----------------------------------------------------------------------------
(***************************************************************************)
(* The client.                                                             *)
(***************************************************************************)
ClientFunctors == {"startInLoop", "stopInLoop", "resetChannel", "connectDestroyed"}
ConnectorRecord ==
    [connect : BOOLEAN, state : {"kDisconnected", "kConnecting", "kConnected"}, delay : Nat,
     channel : {"none", "watching", "removed"}, functors : Seq(ClientFunctors), timers : Nat,
     sockets : Int, failed : BOOLEAN]

(* How often f is in the queue q.                                          *)
HowOften(q, f) == Cardinality({i \in 1 .. Len(q) : q[i] = f})

ClientType ==
    /\ k \in ConnectorRecord
    /\ connection \in {"none", "up", "shut"} /\ restarting \in BOOLEAN
    /\ connects \in Nat /\ failures \in [inRow : Nat, all : Nat]

(* The ways to a connection, and what goes with each of them.              *)
Watched(c) == IF c.channel = "watching" THEN 1 ELSE 0
InUseOrLost == IF connection # "none" \/ restarting THEN 1 ELSE 0
Ways == HowOften(k.functors, "startInLoop") + k.timers + Watched(k) + InUseOrLost

(* A connector is connecting exactly while its channel watches a socket, a *)
(* channel that was removed has its reset queued, and an attempt that is   *)
(* still to be made finds the connector idle.                              *)
ConnectorInv ==
    /\ ~ k.failed
    /\ k.state = "kConnecting" <=> k.channel = "watching"
    /\ HowOften(k.functors, "resetChannel") = IF k.channel = "removed" THEN 1 ELSE 0
    /\ k.timers > 0 => k.state = "kDisconnected"
    /\ HowOften(k.functors, "startInLoop") > 0 => k.state = "kDisconnected" /\ k.channel = "none"
    /\ restarting => k.channel = "none" /\ connection = "none"

SocketsInv ==
    k.sockets = Watched(k) + (IF connection # "none" THEN 1 ELSE 0)
                + HowOften(k.functors, "connectDestroyed")

(* Before connect() nothing has happened.                                  *)
CalledInv ==
    /\ connects <= 1
    /\ connects = 0 => k = Client!NewConnector /\ connection = "none" /\ ~ restarting


(* With stop() in the loop thread: connect_ is not set again before        *)
(* stopInLoop() runs.                                                      *)
StopInv ==
    ~ StopAnywhere =>
        /\ HowOften(k.functors, "stopInLoop") > 0 => ~ k.connect /\ ~ restarting
        /\ Client!Backoff

ClientInv == ClientType /\ ConnectorInv /\ Ways <= 1 /\ SocketsInv /\ CalledInv /\ StopInv
-----------------------------------------------------------------------------
(* Counting functors: Client counts with its own copy of FiniteSets.       *)
LEMMA QueuedMeans ==
    ASSUME NEW f PROVE Client!Queued(f) = HowOften(k.functors, f)
BY DEF Client!Queued, HowOften, Client!Cardinality, Cardinality

LEMMA CountType ==
    ASSUME NEW q \in Seq(ClientFunctors), NEW f
    PROVE  IsFiniteSet({i \in 1 .. Len(q) : q[i] = f}) /\ HowOften(q, f) \in Nat
<1>1. IsFiniteSet(1 .. Len(q))
  BY FS_Interval, LenProperties
<1>2. {i \in 1 .. Len(q) : q[i] = f} \subseteq 1 .. Len(q)
  OBVIOUS
<1> QED
  BY <1>1, <1>2, FS_Subset, FS_CardinalityType DEF HowOften

LEMMA CountEmpty ==
    ASSUME NEW f PROVE HowOften(<<>>, f) = 0
<1>1. {i \in 1 .. Len(<<>>) : <<>>[i] = f} = {}
  OBVIOUS
<1> QED
  BY <1>1, FS_EmptySet DEF HowOften

LEMMA CountAppend ==
    ASSUME NEW q \in Seq(ClientFunctors), NEW e \in ClientFunctors
    PROVE  /\ Append(q, e) \in Seq(ClientFunctors)
           /\ \A f : HowOften(Append(q, e), f) = HowOften(q, f) + (IF f = e THEN 1 ELSE 0)
<1> DEFINE r == Append(q, e)
<1>1. /\ r \in Seq(ClientFunctors) /\ Len(r) = Len(q) + 1 /\ Len(q) \in Nat
      /\ \A i \in 1 .. Len(q) : r[i] = q[i]
      /\ r[Len(q) + 1] = e
  BY AppendProperties, LenProperties
<1> HIDE DEF r
<1>2. ASSUME NEW f PROVE HowOften(r, f) = HowOften(q, f) + (IF f = e THEN 1 ELSE 0)
  <2> DEFINE Q == {i \in 1 .. Len(q) : q[i] = f}
             R == {i \in 1 .. Len(r) : r[i] = f}
  <2>1. R = IF f = e THEN Q \union {Len(q) + 1} ELSE Q
    BY <1>1
  <2>2. IsFiniteSet(Q) /\ Cardinality(Q) \in Nat
    BY CountType DEF HowOften
  <2>6. Len(q) + 1 \notin Q
    BY <1>1
  <2> HIDE DEF Q, R
  <2>3. Cardinality(R) = Cardinality(Q) + (IF f = e THEN 1 ELSE 0)
    <3>1. Cardinality(Q \union {Len(q) + 1}) = Cardinality(Q) + 1
      BY <2>2, <2>6, FS_AddElement
    <3> QED
      BY <2>1, <2>2, <3>1
  <2> QED
    BY <2>3 DEF Q, R, HowOften
<1> QED
  BY <1>1, <1>2 DEF r

LEMMA CountTail ==
    ASSUME NEW q \in Seq(ClientFunctors), q # <<>>
    PROVE  /\ Head(q) \in ClientFunctors /\ Tail(q) \in Seq(ClientFunctors)
           /\ \A f : HowOften(q, f) = HowOften(Tail(q), f) + (IF f = Head(q) THEN 1 ELSE 0)
<1> DEFINE r == Tail(q)
<1>1. /\ r \in Seq(ClientFunctors) /\ Len(r) = Len(q) - 1 /\ Len(q) \in Nat \ {0}
      /\ Head(q) = q[1] /\ Head(q) \in ClientFunctors
      /\ \A i \in 1 .. Len(r) : r[i] = q[i + 1]
  BY HeadTailProperties, LenProperties, EmptySeq
<1> HIDE DEF r
<1>2. ASSUME NEW f PROVE HowOften(q, f) = HowOften(r, f) + (IF f = Head(q) THEN 1 ELSE 0)
  <2> DEFINE Q == {i \in 1 .. Len(q) : q[i] = f}
             R == {i \in 1 .. Len(r) : r[i] = f}
             g == [i \in R |-> i + 1]
  <2>1. IsFiniteSet(Q) /\ IsFiniteSet(R) /\ Cardinality(Q) \in Nat
    BY <1>1, CountType DEF HowOften
  <2>2. g \in Bijection(R, Q \ {1})
    <3>1. \A i \in R : i \in Nat /\ i + 1 \in Q \ {1}
      BY <1>1
    <3>2. \A j \in Q \ {1} : j - 1 \in R /\ g[j - 1] = j
      BY <1>1
    <3>3. \A i, j \in R : g[i] = g[j] => i = j
      BY <1>1
    <3> HIDE DEF R, Q
    <3>4. \A i \in R : g[i] = i + 1
      OBVIOUS
    <3>5. g \in [R -> Q \ {1}]
      BY <3>1
    <3>6. g \in Injection(R, Q \ {1})
      BY <3>3, <3>5 DEF Injection, IsInjective
    <3>7. g \in Surjection(R, Q \ {1})
      BY <3>2, <3>5 DEF Surjection
    <3> QED
      BY <3>6, <3>7 DEF Bijection
  <2>3. 1 \in Q <=> f = Head(q)
    BY <1>1
  <2> HIDE DEF Q, R, g
  <2>4. Cardinality(Q \ {1}) = Cardinality(R)
    BY <2>1, <2>2, FS_Bijection DEF ExistsBijection
  <2>5. Cardinality(Q) = Cardinality(R) + (IF f = Head(q) THEN 1 ELSE 0)
    <3>1. Cardinality(Q \ {1}) = IF 1 \in Q THEN Cardinality(Q) - 1 ELSE Cardinality(Q)
      BY <2>1, FS_RemoveElement
    <3> QED
      BY <2>1, <2>3, <2>4, <3>1
  <2> QED
    BY <2>5 DEF Q, R, HowOften
<1> QED
  BY <1>1, <1>2 DEF r
-----------------------------------------------------------------------------
(* What the connector's functions make of its state.                       *)
Idle(c) == c.state = "kDisconnected" /\ c.channel = "none"

(* An assert that holds changes nothing.                                   *)
LEMMA AssertPasses ==
    ASSUME NEW c \in ConnectorRecord, NEW test, test
    PROVE  Client!Asserts(c, test) = c
<1>1. (c.failed \/ ~ test) = c.failed
  BY DEF ConnectorRecord
<1>2. Client!Asserts(c, test) = [c EXCEPT !.failed = c.failed]
  BY <1>1 DEF Client!Asserts
<1>3. [c EXCEPT !.failed = c.failed] = c
  BY DEF ConnectorRecord
<1> QED
  BY <1>2, <1>3

LEMMA DoubledType ==
    ASSUME NEW delay \in Nat PROVE Client!Doubled(delay) \in Nat
BY DEF Client!Doubled, Client!kMaxRetryDelayMs

(* retry() closes the socket and sets a timer if it is still to connect.   *)
LEMMA Retrying ==
    ASSUME NEW c \in ConnectorRecord
    PROVE  LET d == Client!retry(c) IN
           /\ d \in ConnectorRecord
           /\ d.failed = c.failed /\ d.connect = c.connect /\ d.functors = c.functors
           /\ d.channel = c.channel /\ d.state = "kDisconnected" /\ d.sockets = c.sockets - 1
           /\ IF c.connect THEN d.timers = c.timers + 1 /\ d.delay = Client!Doubled(c.delay)
                           ELSE d.timers = c.timers /\ d.delay = c.delay
<1> DEFINE e == [c EXCEPT !.sockets = @ - 1, !.state = "kDisconnected"]
<1>0. c.sockets - 1 \in Int
  BY DEF ConnectorRecord
<1>1. /\ e \in ConnectorRecord
      /\ e.failed = c.failed /\ e.connect = c.connect /\ e.functors = c.functors
      /\ e.channel = c.channel /\ e.state = "kDisconnected" /\ e.sockets = c.sockets - 1
      /\ e.timers = c.timers /\ e.delay = c.delay
  BY <1>0 DEF ConnectorRecord
<1>2. Client!retry(c) = IF c.connect THEN [e EXCEPT !.timers = @ + 1, !.delay = Client!Doubled(@)] ELSE e
  BY DEF Client!retry, Client!Retries, Client!Closed
<1>3. Client!Doubled(e.delay) \in Nat /\ e.timers + 1 \in Nat
  BY <1>1, DoubledType DEF ConnectorRecord
<1> HIDE DEF e
<1>4. CASE c.connect
  <2> DEFINE d == [e EXCEPT !.timers = @ + 1, !.delay = Client!Doubled(@)]
  <2>1. /\ d \in ConnectorRecord
        /\ d.failed = e.failed /\ d.connect = e.connect /\ d.functors = e.functors
        /\ d.channel = e.channel /\ d.state = e.state /\ d.sockets = e.sockets
        /\ d.timers = e.timers + 1 /\ d.delay = Client!Doubled(e.delay)
    BY <1>1, <1>3 DEF ConnectorRecord
  <2> QED
    BY <1>1, <1>2, <1>4, <2>1
<1>5. CASE ~ c.connect
  BY <1>1, <1>2, <1>5
<1> QED
  BY <1>4, <1>5

(* startInLoop() on an idle connector leaves it as it is, begins an        *)
(* attempt, or fails at once and leaves it to a timer.                     *)
Starts(c, d, result) ==
    /\ d \in ConnectorRecord
    /\ d.failed = c.failed /\ d.functors = c.functors /\ d.connect = c.connect
    /\ IF ~ c.connect \/ result = "hopeless" THEN d = c
       ELSE IF result = "started"
       THEN /\ d.channel = "watching" /\ d.state = "kConnecting"
            /\ d.sockets = c.sockets + 1 /\ d.timers = c.timers /\ d.delay = c.delay
       ELSE /\ Idle(d) /\ d.sockets = c.sockets /\ d.timers = c.timers + 1
            /\ d.delay = Client!Doubled(c.delay)

LEMMA Starting ==
    ASSUME NEW c \in ConnectorRecord, Idle(c), NEW result \in Client!Results
    PROVE  Starts(c, Client!startInLoop(c, result), result)
<1>1. Client!startInLoop(c, result) = IF c.connect THEN Client!connect(c, result) ELSE c
  <2>1. Client!Asserts(c, c.state = "kDisconnected") = c
    BY AssertPasses DEF Idle
  <2> QED
    BY <2>1 DEF Client!startInLoop
<1>2. CASE ~ c.connect
  BY <1>1, <1>2 DEF Starts
<1>3. CASE c.connect /\ result = "hopeless"
  BY <1>1, <1>3 DEF Starts, Client!connect
<1> DEFINE o == [c EXCEPT !.sockets = @ + 1]
<1>8. c.sockets + 1 \in Int
  BY DEF ConnectorRecord
<1>4. /\ o \in ConnectorRecord
      /\ o.failed = c.failed /\ o.connect = c.connect /\ o.functors = c.functors
      /\ o.channel = c.channel /\ o.state = c.state /\ o.sockets = c.sockets + 1
      /\ o.timers = c.timers /\ o.delay = c.delay
  BY <1>8 DEF ConnectorRecord
<1>5. /\ result = "started" => Client!connect(c, result) = Client!connecting(o)
      /\ result = "again" => Client!connect(c, result) = Client!retry(o)
  BY DEF Client!connect
<1> HIDE DEF o
<1>6. CASE c.connect /\ result = "started"
  <2>1. Client!Asserts(o, o.channel = "none") = o
    BY <1>4, AssertPasses DEF Idle
  <2>2. Client!connecting(o) = [o EXCEPT !.state = "kConnecting", !.channel = "watching"]
    BY <2>1 DEF Client!connecting
  <2> DEFINE d == [o EXCEPT !.state = "kConnecting", !.channel = "watching"]
  <2>3. /\ d \in ConnectorRecord
        /\ d.failed = o.failed /\ d.connect = o.connect /\ d.functors = o.functors
        /\ d.channel = "watching" /\ d.state = "kConnecting" /\ d.sockets = o.sockets
        /\ d.timers = o.timers /\ d.delay = o.delay
    BY <1>4 DEF ConnectorRecord
  <2>4. Client!startInLoop(c, result) = d
    BY <1>1, <1>5, <1>6, <2>2
  <2> HIDE DEF d
  <2>5. Starts(c, d, result)
    BY <1>4, <1>6, <2>3 DEF Starts
  <2> QED
    BY <2>4, <2>5
<1>7. CASE c.connect /\ result = "again"
  <2> DEFINE d == Client!retry(o)
  <2>1. /\ d \in ConnectorRecord
        /\ d.failed = o.failed /\ d.connect = o.connect /\ d.functors = o.functors
        /\ d.channel = o.channel /\ d.state = "kDisconnected" /\ d.sockets = o.sockets - 1
        /\ d.timers = o.timers + 1 /\ d.delay = Client!Doubled(o.delay)
    BY <1>4, <1>7, Retrying
  <2>2. o.sockets - 1 = c.sockets
    BY <1>4 DEF ConnectorRecord
  <2> HIDE DEF d
  <2>3. Starts(c, d, result)
    BY <1>4, <1>7, <2>1, <2>2 DEF Starts, Idle
  <2> QED
    BY <1>1, <1>5, <1>7, <2>3 DEF d
<1> QED
  BY <1>2, <1>3, <1>6, <1>7 DEF Client!Results

(* An attempt is given up: the socket is closed, the channel to be reset,  *)
(* and a timer is to try again if the connector is still to connect.       *)
GivesUp(c, d) ==
    /\ d \in ConnectorRecord
    /\ d.failed = c.failed /\ d.connect = c.connect
    /\ d.functors = Append(c.functors, "resetChannel")
    /\ d.channel = "removed" /\ d.state = "kDisconnected" /\ d.sockets = c.sockets - 1
    /\ IF c.connect THEN d.timers = c.timers + 1 /\ d.delay = Client!Doubled(c.delay)
                    ELSE d.timers = c.timers /\ d.delay = c.delay

LEMMA Removing ==
    ASSUME NEW c \in ConnectorRecord
    PROVE  LET r == Client!removeAndResetChannel(c) IN
           /\ r \in ConnectorRecord
           /\ r.failed = c.failed /\ r.connect = c.connect
           /\ r.functors = Append(c.functors, "resetChannel")
           /\ r.channel = "removed" /\ r.state = c.state /\ r.sockets = c.sockets
           /\ r.timers = c.timers /\ r.delay = c.delay
<1>1. Append(c.functors, "resetChannel") \in Seq(ClientFunctors)
  BY CountAppend DEF ConnectorRecord, ClientFunctors
<1> QED
  BY <1>1 DEF ConnectorRecord, Client!removeAndResetChannel, Client!queueInLoop

LEMMA GivingUp ==
    ASSUME NEW c \in ConnectorRecord, c.state = "kConnecting"
    PROVE  GivesUp(c, Client!stopInLoop(c)) /\ GivesUp(c, Client!handleError(c))
<1> DEFINE e == [c EXCEPT !.state = "kDisconnected"]
           r == Client!removeAndResetChannel(e)
           q == Client!removeAndResetChannel(c)
<1>1. /\ e \in ConnectorRecord
      /\ e.failed = c.failed /\ e.connect = c.connect /\ e.functors = c.functors
      /\ e.channel = c.channel /\ e.state = "kDisconnected" /\ e.sockets = c.sockets
      /\ e.timers = c.timers /\ e.delay = c.delay
  BY DEF ConnectorRecord
<1>2. Client!stopInLoop(c) = Client!retry(r) /\ Client!handleError(c) = Client!retry(q)
  BY DEF Client!stopInLoop, Client!handleError
<1> HIDE DEF e
<1>3. GivesUp(c, Client!retry(r))
  <2>1. /\ r \in ConnectorRecord
        /\ r.failed = c.failed /\ r.connect = c.connect
        /\ r.functors = Append(c.functors, "resetChannel")
        /\ r.channel = "removed" /\ r.sockets = c.sockets
        /\ r.timers = c.timers /\ r.delay = c.delay
    BY <1>1, Removing
  <2> HIDE DEF r
  <2> QED
    BY <2>1, Retrying DEF GivesUp
<1>4. GivesUp(c, Client!retry(q))
  <2>1. /\ q \in ConnectorRecord
        /\ q.failed = c.failed /\ q.connect = c.connect
        /\ q.functors = Append(c.functors, "resetChannel")
        /\ q.channel = "removed" /\ q.sockets = c.sockets
        /\ q.timers = c.timers /\ q.delay = c.delay
    BY Removing
  <2> HIDE DEF q
  <2> QED
    BY <2>1, Retrying DEF GivesUp
<1> QED
  BY <1>2, <1>3, <1>4

(* handleWrite() gives the attempt up or has a connection.                 *)
Connected(c, d) ==
    /\ d \in ConnectorRecord
    /\ d.failed = c.failed /\ d.connect = c.connect
    /\ d.functors = Append(c.functors, "resetChannel")
    /\ d.channel = "removed" /\ d.state = "kConnected"
    /\ d.sockets = IF c.connect THEN c.sockets ELSE c.sockets - 1
    /\ d.timers = c.timers /\ d.delay = c.delay

LEMMA Writing ==
    ASSUME NEW c \in ConnectorRecord, c.state = "kConnecting", NEW outcome
    PROVE  LET d == Client!handleWrite(c, outcome) IN
           IF outcome # "connected" THEN GivesUp(c, d) ELSE Connected(c, d)
<1> DEFINE r == Client!removeAndResetChannel(c)
<1>1. /\ r \in ConnectorRecord
      /\ r.failed = c.failed /\ r.connect = c.connect
      /\ r.functors = Append(c.functors, "resetChannel")
      /\ r.channel = "removed" /\ r.state = c.state /\ r.sockets = c.sockets
      /\ r.timers = c.timers /\ r.delay = c.delay
  BY Removing
<1>2. Client!handleWrite(c, outcome)
        = IF outcome # "connected" THEN Client!retry(r)
          ELSE IF r.connect THEN [r EXCEPT !.state = "kConnected"]
          ELSE Client!Unwanted([r EXCEPT !.state = "kConnected"])
  BY <1>1 DEF Client!handleWrite, Client!StillConnecting, Client!Wanted
<1> HIDE DEF r
<1>3. CASE outcome # "connected"
  BY <1>1, <1>2, <1>3, Retrying DEF GivesUp
<1>4. CASE outcome = "connected"
  <2> DEFINE s == [r EXCEPT !.state = "kConnected"]
             u == [s EXCEPT !.sockets = @ - 1]
  <2>1. /\ s \in ConnectorRecord
        /\ s.failed = r.failed /\ s.connect = r.connect /\ s.functors = r.functors
        /\ s.channel = r.channel /\ s.state = "kConnected" /\ s.sockets = r.sockets
        /\ s.timers = r.timers /\ s.delay = r.delay
    BY <1>1 DEF ConnectorRecord
  <2>2. Client!Unwanted(s) = u
    BY DEF Client!Unwanted
  <2> HIDE DEF s
  <2>5. s.sockets - 1 \in Int
    BY <2>1 DEF ConnectorRecord
  <2>3. /\ u \in ConnectorRecord
        /\ u.failed = s.failed /\ u.connect = s.connect /\ u.functors = s.functors
        /\ u.channel = s.channel /\ u.state = s.state /\ u.sockets = s.sockets - 1
        /\ u.timers = s.timers /\ u.delay = s.delay
    BY <2>1, <2>5 DEF ConnectorRecord
  <2> HIDE DEF u
  <2>4. Connected(c, IF r.connect THEN s ELSE u)
    <3>1. CASE r.connect
      BY <1>1, <2>1, <3>1 DEF Connected
    <3>2. CASE ~ r.connect
      BY <1>1, <2>1, <2>3, <3>2 DEF Connected
    <3> QED
      BY <3>1, <3>2
  <2> QED
    BY <1>2, <1>4, <2>2, <2>4 DEF s
<1> QED
  BY <1>3, <1>4
-----------------------------------------------------------------------------
(* The delay after n failures; one more doubles it.                        *)
DelayFor(n) == IF n < 6 THEN <<500, 1000, 2000, 4000, 8000, 16000>>[n + 1] ELSE 30000

LEMMA BackoffMeans == Client!Backoff <=> k.delay = DelayFor(failures.inRow)
BY DEF Client!Backoff, Client!DelayAfter, Client!kMaxRetryDelayMs, DelayFor

LEMMA DelayDoubles ==
    ASSUME NEW n \in Nat PROVE Client!Doubled(DelayFor(n)) = DelayFor(n + 1)
<1> USE DEF Client!Doubled, Client!kMaxRetryDelayMs, DelayFor
<1>1. CASE n > 5
  BY <1>1
<1>2. CASE n \in 0 .. 5
  <2>1. n = 0 \/ n = 1 \/ n = 2 \/ n = 3 \/ n = 4 \/ n = 5
    BY <1>2
  <2> QED
    BY <2>1
<1> QED
  BY <1>1, <1>2

(* The counts of all functors of a connector.                              *)
LEMMA CountsOf ==
    ASSUME NEW c \in ConnectorRecord
    PROVE  \A f : HowOften(c.functors, f) \in Nat
<1>1. c.functors \in Seq(ClientFunctors)
  BY DEF ConnectorRecord
<1> QED
  BY <1>1, CountType

ClientParts == ConnectorInv /\ Ways <= 1 /\ SocketsInv

(* An attempt that is begun or put off, when there is no other way to a    *)
(* connection.                                                             *)
LEMMA StartKeeps ==
    ASSUME NEW c \in ConnectorRecord, Idle(c), ~ c.failed, NEW result \in Client!Results,
           Starts(c, k', result), c.timers = 0,
           HowOften(c.functors, "startInLoop") = 0, HowOften(c.functors, "resetChannel") = 0,
           c.sockets = HowOften(c.functors, "connectDestroyed"),
           connection' = "none", restarting' = FALSE
    PROVE  ClientParts'
<1>1. \A f : HowOften(k'.functors, f) = HowOften(c.functors, f)
  BY DEF Starts
<1>2. HowOften(c.functors, "connectDestroyed") \in Nat
  BY CountsOf
<1>3. ~ k'.failed
  BY DEF Starts
<1>4. CASE ~ c.connect \/ result = "hopeless"
  <2>1. k' = c
    BY <1>4 DEF Starts
  <2> QED
    BY <1>1, <1>2, <1>3, <2>1 DEF ClientParts, ConnectorInv, Idle, Ways, Watched, InUseOrLost, SocketsInv
<1>5. CASE c.connect /\ result = "started"
  <2>1. /\ k'.channel = "watching" /\ k'.state = "kConnecting"
        /\ k'.sockets = c.sockets + 1 /\ k'.timers = 0
    BY <1>5 DEF Starts
  <2> QED
    BY <1>1, <1>2, <1>3, <2>1 DEF ClientParts, ConnectorInv, Idle, Ways, Watched, InUseOrLost, SocketsInv
<1>6. CASE c.connect /\ result = "again"
  <2>1. Idle(k') /\ k'.sockets = c.sockets /\ k'.timers = 1
    BY <1>6 DEF Starts
  <2> QED
    BY <1>1, <1>2, <1>3, <2>1 DEF ClientParts, ConnectorInv, Idle, Ways, Watched, InUseOrLost, SocketsInv
<1> QED
  BY <1>4, <1>5, <1>6 DEF Client!Results

(* A connector c that differs from k in stopInLoop() only.                 *)
Like(c) ==
    /\ c \in ConnectorRecord
    /\ \A f \in ClientFunctors \ {"stopInLoop"} : HowOften(c.functors, f) = HowOften(k.functors, f)
    /\ c.failed = k.failed /\ c.state = k.state /\ c.channel = k.channel
    /\ c.timers = k.timers /\ c.sockets = k.sockets

(* An attempt that is given up, and one that succeeds.                     *)
LEMMA GiveUpKeeps ==
    ASSUME ClientType, ClientParts, k.channel = "watching", NEW c, Like(c), GivesUp(c, k'),
           connection' = connection, restarting' = restarting
    PROVE  ClientParts'
<1>1. /\ \A f \in ClientFunctors \ {"stopInLoop"} :
           HowOften(k'.functors, f) = HowOften(k.functors, f) + (IF f = "resetChannel" THEN 1 ELSE 0)
      /\ \A f : HowOften(k.functors, f) \in Nat
  <2>1. c.functors \in Seq(ClientFunctors) /\ "resetChannel" \in ClientFunctors
    BY DEF Like, ConnectorRecord, ClientFunctors
  <2>2. \A f : HowOften(Append(c.functors, "resetChannel"), f)
                = HowOften(c.functors, f) + (IF f = "resetChannel" THEN 1 ELSE 0)
    BY <2>1, CountAppend
  <2> QED
    BY <2>2, CountsOf DEF Like, GivesUp, ClientType
<1>2. /\ HowOften(k'.functors, "startInLoop") = HowOften(k.functors, "startInLoop")
      /\ HowOften(k'.functors, "resetChannel") = HowOften(k.functors, "resetChannel") + 1
      /\ HowOften(k'.functors, "connectDestroyed") = HowOften(k.functors, "connectDestroyed")
  BY <1>1 DEF ClientFunctors
<1>3. /\ ~ k'.failed /\ k'.channel = "removed" /\ k'.state = "kDisconnected"
      /\ k'.sockets = k.sockets - 1
      /\ k'.timers \in {k.timers, k.timers + 1}
  BY DEF Like, GivesUp, ClientParts, ConnectorInv
<1>4. /\ k.timers \in Nat /\ k.sockets \in Int
      /\ HowOften(k.functors, "startInLoop") = 0 /\ k.timers = 0 /\ connection = "none" /\ ~ restarting
      /\ HowOften(k.functors, "resetChannel") = 0
  BY <1>1 DEF ClientType, ConnectorRecord, ClientParts, ConnectorInv, Ways, Watched, InUseOrLost
<1> QED
  BY <1>1, <1>2, <1>3, <1>4 DEF ClientParts, ConnectorInv, Ways, Watched, InUseOrLost, SocketsInv

LEMMA ConnectKeeps ==
    ASSUME ClientType, ClientParts, k.channel = "watching", Connected(k, k'),
           connection' = IF k.connect THEN "up" ELSE connection, restarting' = restarting
    PROVE  ClientParts'
<1>1. /\ \A f : HowOften(k'.functors, f)
                  = HowOften(k.functors, f) + (IF f = "resetChannel" THEN 1 ELSE 0)
      /\ \A f : HowOften(k.functors, f) \in Nat
  <2>1. k.functors \in Seq(ClientFunctors) /\ "resetChannel" \in ClientFunctors
    BY DEF ClientType, ConnectorRecord, ClientFunctors
  <2>2. \A f : HowOften(Append(k.functors, "resetChannel"), f)
                = HowOften(k.functors, f) + (IF f = "resetChannel" THEN 1 ELSE 0)
    BY <2>1, CountAppend
  <2>3. \A f : HowOften(k.functors, f) \in Nat
    BY CountsOf DEF ClientType
  <2> QED
    BY <2>2, <2>3 DEF Connected
<1>2. /\ HowOften(k'.functors, "startInLoop") = HowOften(k.functors, "startInLoop")
      /\ HowOften(k'.functors, "resetChannel") = HowOften(k.functors, "resetChannel") + 1
      /\ HowOften(k'.functors, "connectDestroyed") = HowOften(k.functors, "connectDestroyed")
  BY <1>1
<1>3. /\ ~ k'.failed /\ k'.channel = "removed" /\ k'.state = "kConnected"
      /\ k'.sockets = (IF k.connect THEN k.sockets ELSE k.sockets - 1)
      /\ k'.timers = k.timers
  BY DEF Connected, ClientParts, ConnectorInv
<1>4. /\ k.timers \in Nat /\ k.sockets \in Int
      /\ HowOften(k.functors, "startInLoop") = 0 /\ k.timers = 0 /\ connection = "none" /\ ~ restarting
      /\ HowOften(k.functors, "resetChannel") = 0
  BY <1>1 DEF ClientType, ConnectorRecord, ClientParts, ConnectorInv, Ways, Watched, InUseOrLost
<1> QED
  BY <1>1, <1>2, <1>3, <1>4 DEF ClientParts, ConnectorInv, Ways, Watched, InUseOrLost, SocketsInv
-----------------------------------------------------------------------------
(* The actions.  With one call of connect() at most.                       *)
Once == MaxConnects <= 1

(* What startInLoop() leaves of the failures and the delay.                *)
LEMMA StartsInLoopKeeps ==
    ASSUME ClientType, NEW c \in ConnectorRecord, Idle(c), ~ c.failed, NEW result \in Client!Results,
           Client!StartsInLoop(c, result), c.timers = 0,
           HowOften(c.functors, "startInLoop") = 0, HowOften(c.functors, "resetChannel") = 0,
           c.sockets = HowOften(c.functors, "connectDestroyed"),
           connection' = "none", restarting' = FALSE
    PROVE  /\ k' \in ConnectorRecord /\ failures' \in [inRow : Nat, all : Nat]
           /\ k'.functors = c.functors /\ k'.connect = c.connect
           /\ ClientParts'
           /\ c.delay = DelayFor(failures.inRow) => k'.delay = DelayFor(failures'.inRow)
<1>1. Starts(c, k', result)
  BY Starting DEF Client!StartsInLoop
<1>2. ClientParts'
  BY <1>1, StartKeeps
<1>3. failures' = IF c.connect /\ result = "again"
                  THEN [inRow |-> failures.inRow + 1, all |-> failures.all + 1] ELSE failures
  BY <1>1 DEF Client!StartsInLoop, Client!Count, Starts
<1>4. failures.inRow \in Nat /\ failures.all \in Nat
  BY DEF ClientType
<1>5. c.delay = DelayFor(failures.inRow) => k'.delay = DelayFor(failures'.inRow)
  <2>1. CASE c.connect /\ result = "again"
    <3>1. k'.delay = Client!Doubled(c.delay) /\ failures'.inRow = failures.inRow + 1
      BY <1>1, <1>3, <2>1 DEF Starts
    <3> QED
      BY <1>4, <3>1, DelayDoubles
  <2>2. CASE ~ (c.connect /\ result = "again")
    <3>1. k'.delay = c.delay /\ failures' = failures
      BY <1>1, <1>3, <2>2 DEF Starts, Client!Results
    <3> QED
      BY <3>1
  <2> QED
    BY <2>1, <2>2
<1> QED
  BY <1>1, <1>2, <1>3, <1>4, <1>5 DEF Starts, ClientType

LEMMA ConnectHereKeeps ==
    ASSUME ClientInv, Once, NEW result \in Client!Results, Client!ConnectHere(result) PROVE ClientInv'
<1> DEFINE c == [k EXCEPT !.connect = TRUE]
<1>0. ClientType /\ ConnectorInv /\ CalledInv /\ StopInv
  BY DEF ClientInv
<1>1. connects = 0 /\ k = Client!NewConnector /\ connection = "none" /\ ~ restarting
  BY <1>0, ClientAssumption DEF Client!ConnectHere, Once, CalledInv, ClientType
<1>2. /\ c \in ConnectorRecord /\ Idle(c) /\ ~ c.failed /\ c.timers = 0 /\ c.sockets = 0
      /\ c.functors = <<>> /\ c.delay = k.delay
  <2>1. /\ k.state = "kDisconnected" /\ k.channel = "none" /\ k.failed = FALSE /\ k.timers = 0
        /\ k.sockets = 0 /\ k.functors = <<>>
    BY <1>1 DEF Client!NewConnector
  <2> QED
    BY <1>0, <2>1 DEF ClientType, ConnectorRecord, Idle
<1>3. \A f : HowOften(c.functors, f) = 0
  BY <1>2, CountEmpty
<1>4. /\ Client!StartsInLoop(c, result) /\ connects' = 1 /\ connection' = "none" /\ restarting' = FALSE
  BY <1>0, <1>1 DEF Client!ConnectHere, ClientType
<1> HIDE DEF c
<1>5. /\ k' \in ConnectorRecord /\ failures' \in [inRow : Nat, all : Nat]
      /\ k'.functors = c.functors
      /\ ClientParts'
      /\ c.delay = DelayFor(failures.inRow) => k'.delay = DelayFor(failures'.inRow)
  BY <1>0, <1>2, <1>3, <1>4, StartsInLoopKeeps
<1>6. StopInv'
  <2>1. HowOften(k'.functors, "stopInLoop") = 0
    BY <1>3, <1>5
  <2>2. ~ StopAnywhere => k'.delay = DelayFor(failures'.inRow)
    BY <1>0, <1>2, <1>5, BackoffMeans DEF StopInv
  <2>3. Client!Backoff' <=> k'.delay = DelayFor(failures'.inRow)
    BY DEF Client!Backoff, Client!DelayAfter, Client!kMaxRetryDelayMs, DelayFor
  <2> QED
    BY <2>1, <2>2, <2>3 DEF StopInv
<1>7. ClientType'
  BY <1>4, <1>5 DEF ClientType
<1>8. CalledInv'
  BY <1>4 DEF CalledInv
<1> QED
  BY <1>5, <1>6, <1>7, <1>8 DEF ClientInv, ClientParts

LEMMA QueueKeeps ==
    ASSUME NEW c \in ConnectorRecord, NEW f \in ClientFunctors
    PROVE  LET d == Client!queueInLoop(c, f) IN
           /\ d \in ConnectorRecord
           /\ d.failed = c.failed /\ d.connect = c.connect /\ d.state = c.state /\ d.channel = c.channel
           /\ d.timers = c.timers /\ d.sockets = c.sockets /\ d.delay = c.delay
           /\ \A g : HowOften(d.functors, g) = HowOften(c.functors, g) + (IF g = f THEN 1 ELSE 0)
<1>1. c.functors \in Seq(ClientFunctors)
  BY DEF ConnectorRecord
<1>2. /\ Append(c.functors, f) \in Seq(ClientFunctors)
      /\ \A g : HowOften(Append(c.functors, f), g) = HowOften(c.functors, g) + (IF g = f THEN 1 ELSE 0)
  BY <1>1, CountAppend
<1> DEFINE d == [c EXCEPT !.functors = Append(@, f)]
<1>3. /\ d \in ConnectorRecord
      /\ d.failed = c.failed /\ d.connect = c.connect /\ d.state = c.state /\ d.channel = c.channel
      /\ d.timers = c.timers /\ d.sockets = c.sockets /\ d.delay = c.delay
      /\ d.functors = Append(c.functors, f)
  BY <1>2 DEF ConnectorRecord
<1>4. Client!queueInLoop(c, f) = d
  BY DEF Client!queueInLoop
<1> HIDE DEF d
<1> QED
  BY <1>2, <1>3, <1>4

LEMMA ConnectElsewhereKeeps ==
    ASSUME ClientInv, Once, Client!ConnectElsewhere PROVE ClientInv'
<1> DEFINE c == [k EXCEPT !.connect = TRUE]
<1>0. ClientType /\ ConnectorInv /\ CalledInv /\ StopInv
  BY DEF ClientInv
<1>1. connects = 0 /\ k = Client!NewConnector /\ connection = "none" /\ ~ restarting
  BY <1>0, ClientAssumption DEF Client!ConnectElsewhere, Once, CalledInv, ClientType
<1>2. /\ c \in ConnectorRecord /\ Idle(c) /\ ~ c.failed /\ c.timers = 0 /\ c.sockets = 0
      /\ c.functors = <<>> /\ c.delay = k.delay
  <2>1. /\ k.state = "kDisconnected" /\ k.channel = "none" /\ k.failed = FALSE /\ k.timers = 0
        /\ k.sockets = 0 /\ k.functors = <<>>
    BY <1>1 DEF Client!NewConnector
  <2> QED
    BY <1>0, <2>1 DEF ClientType, ConnectorRecord, Idle
<1>3. \A f : HowOften(c.functors, f) = 0
  BY <1>2, CountEmpty
<1>4. /\ k' = Client!queueInLoop(c, "startInLoop") /\ connects' = 1 /\ connection' = "none"
      /\ restarting' = restarting /\ failures' = failures
  BY <1>0, <1>1 DEF Client!ConnectElsewhere, ClientType
<1> HIDE DEF c
<1>5. /\ k' \in ConnectorRecord
      /\ ~ k'.failed /\ k'.state = "kDisconnected" /\ k'.channel = "none"
      /\ k'.timers = 0 /\ k'.sockets = 0 /\ k'.delay = k.delay
      /\ \A g : HowOften(k'.functors, g) = IF g = "startInLoop" THEN 1 ELSE 0
  <2>1. "startInLoop" \in ClientFunctors
    BY DEF ClientFunctors
  <2>2. /\ k' \in ConnectorRecord
        /\ k'.failed = c.failed /\ k'.state = c.state /\ k'.channel = c.channel
        /\ k'.timers = c.timers /\ k'.sockets = c.sockets /\ k'.delay = c.delay
        /\ \A g : HowOften(k'.functors, g) = HowOften(c.functors, g) + (IF g = "startInLoop" THEN 1 ELSE 0)
    BY <1>2, <1>4, <2>1, QueueKeeps
  <2>3. \A g : HowOften(k'.functors, g) = IF g = "startInLoop" THEN 1 ELSE 0
    BY <1>3, <2>2
  <2> QED
    BY <1>2, <2>2, <2>3 DEF Idle
<1>6. /\ HowOften(k'.functors, "startInLoop") = 1 /\ HowOften(k'.functors, "resetChannel") = 0
      /\ HowOften(k'.functors, "connectDestroyed") = 0 /\ HowOften(k'.functors, "stopInLoop") = 0
  BY <1>5
<1>7. ConnectorInv' /\ (Ways <= 1)' /\ SocketsInv'
  BY <1>1, <1>4, <1>5, <1>6 DEF ConnectorInv, Ways, Watched, InUseOrLost, SocketsInv
<1>8. StopInv'
  <2>1. ~ StopAnywhere => k'.delay = DelayFor(failures'.inRow)
    BY <1>0, <1>4, <1>5, BackoffMeans DEF StopInv
  <2>2. Client!Backoff' <=> k'.delay = DelayFor(failures'.inRow)
    BY DEF Client!Backoff, Client!DelayAfter, Client!kMaxRetryDelayMs, DelayFor
  <2> QED
    BY <1>6, <2>1, <2>2 DEF StopInv
<1> QED
  BY <1>0, <1>4, <1>5, <1>7, <1>8 DEF ClientInv, ClientType, CalledInv

LEMMA DisconnectKeeps ==
    ASSUME ClientInv, Client!Disconnect PROVE ClientInv'
BY DEF Client!Disconnect, ClientInv, ClientType, ConnectorInv, Ways, InUseOrLost, Watched, SocketsInv,
   CalledInv, StopInv, Client!Backoff

LEMMA StopKeeps ==
    ASSUME ClientInv, Client!Stop PROVE ClientInv'
<1> DEFINE c == [k EXCEPT !.connect = FALSE]
<1>0. ClientType /\ ConnectorInv /\ Ways <= 1 /\ SocketsInv /\ CalledInv /\ StopInv
  BY DEF ClientInv
<1>1. /\ c \in ConnectorRecord /\ c.connect = FALSE
      /\ c.failed = k.failed /\ c.state = k.state /\ c.channel = k.channel
      /\ c.timers = k.timers /\ c.sockets = k.sockets /\ c.delay = k.delay /\ c.functors = k.functors
  BY <1>0 DEF ClientType, ConnectorRecord
<1>2. /\ k' = Client!queueInLoop(c, "stopInLoop") /\ connects' = connects /\ connection' = connection
      /\ restarting' = restarting /\ failures' = failures /\ connects > 0
      /\ ~ StopAnywhere => ~ restarting
  BY DEF Client!Stop
<1> HIDE DEF c
<1>3. /\ k' \in ConnectorRecord
      /\ k'.failed = k.failed /\ k'.state = k.state /\ k'.channel = k.channel /\ ~ k'.connect
      /\ k'.timers = k.timers /\ k'.sockets = k.sockets /\ k'.delay = k.delay
      /\ \A g : HowOften(k'.functors, g) = HowOften(k.functors, g) + (IF g = "stopInLoop" THEN 1 ELSE 0)
  BY <1>1, <1>2, QueueKeeps DEF ClientFunctors
<1>4. /\ HowOften(k'.functors, "startInLoop") = HowOften(k.functors, "startInLoop")
      /\ HowOften(k'.functors, "resetChannel") = HowOften(k.functors, "resetChannel")
      /\ HowOften(k'.functors, "connectDestroyed") = HowOften(k.functors, "connectDestroyed")
  <2>1. \A g : HowOften(k.functors, g) \in Nat
    BY <1>0, CountsOf DEF ClientType
  <2> QED
    BY <1>3, <2>1
<1>5. ConnectorInv' /\ (Ways <= 1)' /\ SocketsInv'
  BY <1>0, <1>2, <1>3, <1>4 DEF ConnectorInv, Ways, Watched, InUseOrLost, SocketsInv
<1>6. StopInv'
  BY <1>0, <1>2, <1>3 DEF StopInv, Client!Backoff
<1> QED
  BY <1>0, <1>2, <1>3, <1>5, <1>6 DEF ClientInv, ClientType, CalledInv

(* A functor is taken out of the queue.                                    *)
LEMMA Popping ==
    ASSUME ClientType, k.functors # <<>>
    PROVE  LET c == [k EXCEPT !.functors = Tail(@)] IN
           /\ c \in ConnectorRecord
           /\ c.failed = k.failed /\ c.connect = k.connect /\ c.state = k.state /\ c.channel = k.channel
           /\ c.timers = k.timers /\ c.sockets = k.sockets /\ c.delay = k.delay
           /\ Head(k.functors) \in ClientFunctors
           /\ \A f : HowOften(k.functors, f)
                       = HowOften(c.functors, f) + (IF f = Head(k.functors) THEN 1 ELSE 0)
           /\ \A f : HowOften(c.functors, f) \in Nat
<1>1. k \in ConnectorRecord /\ k.functors \in Seq(ClientFunctors)
  BY DEF ClientType, ConnectorRecord
<1>2. /\ Head(k.functors) \in ClientFunctors /\ Tail(k.functors) \in Seq(ClientFunctors)
      /\ \A f : HowOften(k.functors, f)
                  = HowOften(Tail(k.functors), f) + (IF f = Head(k.functors) THEN 1 ELSE 0)
  BY <1>1, CountTail
<1> DEFINE c == [k EXCEPT !.functors = Tail(@)]
<1>3. /\ c \in ConnectorRecord
      /\ c.failed = k.failed /\ c.connect = k.connect /\ c.state = k.state /\ c.channel = k.channel
      /\ c.timers = k.timers /\ c.sockets = k.sockets /\ c.delay = k.delay
      /\ c.functors = Tail(k.functors)
  BY <1>1, <1>2 DEF ConnectorRecord
<1> HIDE DEF c
<1>4. \A f : HowOften(c.functors, f) \in Nat
  BY <1>3, CountsOf
<1> QED
  BY <1>2, <1>3, <1>4 DEF c

LEMMA ClientFunctorKeeps ==
    ASSUME ClientInv, NEW result \in Client!Results, Client!RunFunctor(result) PROVE ClientInv'
<1> DEFINE c == [k EXCEPT !.functors = Tail(@)]
           f == Head(k.functors)
<1>0. ClientType /\ ConnectorInv /\ Ways <= 1 /\ SocketsInv /\ CalledInv /\ StopInv
  BY DEF ClientInv
<1>1. /\ k.functors # <<>> /\ ~ restarting
      /\ connection' = connection /\ restarting' = restarting /\ connects' = connects
  BY DEF Client!RunFunctor
<1>2. /\ c \in ConnectorRecord
      /\ c.failed = k.failed /\ c.connect = k.connect /\ c.state = k.state /\ c.channel = k.channel
      /\ c.timers = k.timers /\ c.sockets = k.sockets /\ c.delay = k.delay
      /\ f \in ClientFunctors
      /\ \A g : HowOften(k.functors, g) = HowOften(c.functors, g) + (IF g = f THEN 1 ELSE 0)
      /\ \A g : HowOften(c.functors, g) \in Nat
  BY <1>0, <1>1, Popping
<1>3. /\ f = "startInLoop" => Client!StartsInLoop(c, result)
      /\ f # "startInLoop" => failures' = failures
      /\ f = "stopInLoop" => k' = Client!stopInLoop(c)
      /\ f = "resetChannel" => k' = Client!resetChannel(c)
      /\ f = "connectDestroyed" => k' = [c EXCEPT !.sockets = @ - 1]
  BY DEF Client!RunFunctor
<1>4. connects' > 0
  <2>1. connects # 0
    <3>1. Client!NewConnector.functors = <<>>
      BY DEF Client!NewConnector
    <3> QED
      BY <1>0, <1>1, <3>1 DEF CalledInv
  <2> QED
    BY <1>0, <1>1, <2>1 DEF ClientType
<1> HIDE DEF c, f
<1>5. /\ HowOften(k.functors, "startInLoop")
           = HowOften(c.functors, "startInLoop") + (IF f = "startInLoop" THEN 1 ELSE 0)
      /\ HowOften(k.functors, "resetChannel")
           = HowOften(c.functors, "resetChannel") + (IF f = "resetChannel" THEN 1 ELSE 0)
      /\ HowOften(k.functors, "connectDestroyed")
           = HowOften(c.functors, "connectDestroyed") + (IF f = "connectDestroyed" THEN 1 ELSE 0)
      /\ HowOften(k.functors, "stopInLoop")
           = HowOften(c.functors, "stopInLoop") + (IF f = "stopInLoop" THEN 1 ELSE 0)
      /\ HowOften(c.functors, "startInLoop") \in Nat /\ HowOften(c.functors, "resetChannel") \in Nat
      /\ HowOften(c.functors, "connectDestroyed") \in Nat /\ HowOften(c.functors, "stopInLoop") \in Nat
  BY <1>2
<1> DEFINE Done == /\ k' \in ConnectorRecord /\ failures' \in [inRow : Nat, all : Nat]
                   /\ ConnectorInv' /\ (Ways <= 1)' /\ SocketsInv'
                   /\ HowOften(k'.functors, "stopInLoop") = HowOften(c.functors, "stopInLoop")
                   /\ k'.connect = k.connect
                   /\ ~ StopAnywhere => k'.delay = DelayFor(failures'.inRow)
<1>6. /\ ~ StopAnywhere => k.delay = DelayFor(failures.inRow)
      /\ failures \in [inRow : Nat, all : Nat] /\ k.timers \in Nat /\ k.sockets \in Int
  BY <1>0, BackoffMeans DEF StopInv, ClientType, ConnectorRecord
<1>7. ASSUME f = "startInLoop" PROVE Done
  <2>1. /\ HowOften(c.functors, "startInLoop") = 0 /\ c.timers = 0 /\ connection = "none"
        /\ k.channel = "none" /\ k.state = "kDisconnected" /\ HowOften(c.functors, "resetChannel") = 0
    BY <1>0, <1>2, <1>5, <1>6, <1>7 DEF ConnectorInv, Ways, Watched, InUseOrLost
  <2>2. Idle(c) /\ ~ c.failed /\ c.sockets = HowOften(c.functors, "connectDestroyed")
    BY <1>0, <1>2, <1>5, <1>7, <2>1 DEF Idle, ConnectorInv, SocketsInv, Watched
  <2>3. connection' = "none" /\ restarting' = FALSE
    BY <1>0, <1>1, <2>1 DEF ClientType
  <2>4. /\ k' \in ConnectorRecord /\ failures' \in [inRow : Nat, all : Nat]
        /\ k'.functors = c.functors /\ k'.connect = c.connect
        /\ ClientParts'
        /\ c.delay = DelayFor(failures.inRow) => k'.delay = DelayFor(failures'.inRow)
    BY <1>0, <1>2, <1>3, <1>7, <2>1, <2>2, <2>3, StartsInLoopKeeps
  <2> QED
    BY <1>2, <1>6, <2>4 DEF ClientParts
<1>8. ASSUME f = "stopInLoop" /\ k.channel = "watching" PROVE Done
  <2>1. GivesUp(c, k')
    BY <1>0, <1>2, <1>3, <1>8, GivingUp DEF ConnectorInv
  <2>2. Like(c)
    BY <1>2, <1>5, <1>8 DEF Like, ClientFunctors
  <2>3. ClientParts'
    BY <1>0, <1>1, <1>8, <2>1, <2>2, GiveUpKeeps DEF ClientParts
  <2>4. HowOften(k'.functors, "stopInLoop") = HowOften(c.functors, "stopInLoop")
    <3>1. c.functors \in Seq(ClientFunctors) /\ "resetChannel" \in ClientFunctors
      BY <1>2 DEF ConnectorRecord, ClientFunctors
    <3>2. HowOften(Append(c.functors, "resetChannel"), "stopInLoop") = HowOften(c.functors, "stopInLoop") + 0
      BY <3>1, CountAppend
    <3> QED
      BY <1>5, <2>1, <3>2 DEF GivesUp
  <2>5. ~ StopAnywhere => k'.delay = DelayFor(failures'.inRow)
    <3>1. ~ StopAnywhere => ~ k.connect
      BY <1>0, <1>5, <1>8 DEF StopInv
    <3> QED
      BY <1>2, <1>3, <1>6, <1>8, <2>1, <3>1 DEF GivesUp
  <2> QED
    BY <1>2, <1>3, <1>6, <1>8, <2>1, <2>3, <2>4, <2>5 DEF GivesUp, ClientParts
<1>9. ASSUME f = "stopInLoop" /\ k.channel # "watching" PROVE Done
  <2>1. k' = c
    BY <1>0, <1>2, <1>3, <1>9 DEF Client!stopInLoop, ConnectorInv
  <2>2. ConnectorInv' /\ (Ways <= 1)' /\ SocketsInv'
    BY <1>0, <1>1, <1>2, <1>5, <1>9, <2>1 DEF ConnectorInv, Ways, Watched, InUseOrLost, SocketsInv
  <2> QED
    BY <1>2, <1>3, <1>6, <1>9, <2>1, <2>2
<1>10. ASSUME f = "resetChannel" PROVE Done
  <2> DEFINE d == [c EXCEPT !.channel = "none"]
  <2>1. k' = d
    BY <1>3, <1>10 DEF Client!resetChannel
  <2>2. /\ d \in ConnectorRecord
        /\ d.failed = c.failed /\ d.connect = c.connect /\ d.state = c.state /\ d.channel = "none"
        /\ d.timers = c.timers /\ d.sockets = c.sockets /\ d.delay = c.delay /\ d.functors = c.functors
    BY <1>2 DEF ConnectorRecord
  <2>3. k.channel = "removed" /\ HowOften(c.functors, "resetChannel") = 0
    BY <1>0, <1>5, <1>10 DEF ConnectorInv
  <2> HIDE DEF d
  <2>4. ConnectorInv' /\ (Ways <= 1)' /\ SocketsInv'
    BY <1>0, <1>1, <1>2, <1>5, <1>10, <2>1, <2>2, <2>3
    DEF ConnectorInv, Ways, Watched, InUseOrLost, SocketsInv
  <2> QED
    BY <1>2, <1>3, <1>6, <1>10, <2>1, <2>2, <2>4
<1>11. ASSUME f = "connectDestroyed" PROVE Done
  <2> DEFINE d == [c EXCEPT !.sockets = @ - 1]
  <2>1. k' = d
    BY <1>3, <1>11
  <2>5. c.sockets - 1 \in Int
    BY <1>2 DEF ConnectorRecord
  <2>2. /\ d \in ConnectorRecord
        /\ d.failed = c.failed /\ d.connect = c.connect /\ d.state = c.state /\ d.channel = c.channel
        /\ d.timers = c.timers /\ d.sockets = c.sockets - 1 /\ d.delay = c.delay /\ d.functors = c.functors
    BY <1>2, <2>5 DEF ConnectorRecord
  <2> HIDE DEF d
  <2>4. ConnectorInv' /\ (Ways <= 1)' /\ SocketsInv'
    BY <1>0, <1>1, <1>2, <1>5, <1>6, <1>11, <2>1, <2>2, SMTT(40)
    DEF ConnectorInv, Ways, Watched, InUseOrLost, SocketsInv
  <2> QED
    BY <1>2, <1>3, <1>6, <1>11, <2>1, <2>2, <2>4
<1>12. Done
  BY <1>2, <1>7, <1>8, <1>9, <1>10, <1>11 DEF ClientFunctors
<1>13. StopInv'
  <2>1. Client!Backoff' <=> k'.delay = DelayFor(failures'.inRow)
    BY DEF Client!Backoff, Client!DelayAfter, Client!kMaxRetryDelayMs, DelayFor
  <2> QED
    BY <1>0, <1>1, <1>5, <1>12, <2>1 DEF StopInv
<1>14. ClientType' /\ CalledInv'
  BY <1>0, <1>1, <1>4, <1>12 DEF ClientType, CalledInv
<1> QED
  BY <1>12, <1>13, <1>14 DEF ClientInv

LEMMA RetryTimerKeeps ==
    ASSUME ClientInv, NEW result \in Client!Results, Client!RetryTimer(result) PROVE ClientInv'
<1> DEFINE c == [k EXCEPT !.timers = @ - 1]
<1>0. ClientType /\ ConnectorInv /\ Ways <= 1 /\ SocketsInv /\ CalledInv /\ StopInv
  BY DEF ClientInv
<1>1. /\ k.timers > 0 /\ k.functors = <<>> /\ Client!StartsInLoop(c, result) /\ ~ restarting
      /\ connection' = connection /\ restarting' = restarting /\ connects' = connects
  BY DEF Client!RetryTimer
<1>2. k.timers - 1 \in Nat
  BY <1>0, <1>1 DEF ClientType, ConnectorRecord
<1>3. /\ c \in ConnectorRecord
      /\ c.failed = k.failed /\ c.connect = k.connect /\ c.state = k.state /\ c.channel = k.channel
      /\ c.timers = k.timers - 1 /\ c.sockets = k.sockets /\ c.delay = k.delay /\ c.functors = <<>>
  BY <1>0, <1>1, <1>2 DEF ClientType, ConnectorRecord
<1> HIDE DEF c
<1>4. \A f : HowOften(k.functors, f) = 0 /\ HowOften(c.functors, f) = 0
  BY <1>1, <1>3, CountEmpty
<1>5. /\ Idle(c) /\ ~ c.failed /\ c.timers = 0
      /\ c.sockets = HowOften(c.functors, "connectDestroyed")
      /\ connection = "none"
  <2>1. HowOften(k.functors, "startInLoop") = 0 /\ HowOften(k.functors, "resetChannel") = 0
        /\ HowOften(k.functors, "connectDestroyed") = 0 /\ HowOften(c.functors, "connectDestroyed") = 0
    BY <1>4
  <2>2. k.timers = 1 /\ connection = "none" /\ k.channel # "watching"
    <3>1. k.timers \in Nat
      BY <1>0 DEF ClientType, ConnectorRecord
    <3> QED
      BY <1>0, <1>1, <2>1, <3>1 DEF Ways, Watched, InUseOrLost
  <2>3. k.channel # "removed"
    BY <1>0, <2>1 DEF ConnectorInv
  <2>4. k.state = "kDisconnected" /\ k.channel = "none"
    BY <1>0, <1>1, <2>2, <2>3 DEF ConnectorInv, ClientType, ConnectorRecord
  <2> QED
    BY <1>0, <1>3, <2>1, <2>2, <2>4 DEF Idle, ConnectorInv, SocketsInv, Watched
<1>6. connection' = "none" /\ restarting' = FALSE
  BY <1>0, <1>1, <1>5 DEF ClientType
<1>7. /\ k' \in ConnectorRecord /\ failures' \in [inRow : Nat, all : Nat]
      /\ k'.functors = c.functors /\ k'.connect = c.connect
      /\ ClientParts'
      /\ c.delay = DelayFor(failures.inRow) => k'.delay = DelayFor(failures'.inRow)
  <2>1. HowOften(c.functors, "startInLoop") = 0 /\ HowOften(c.functors, "resetChannel") = 0
    BY <1>4
  <2> QED
    BY <1>0, <1>1, <1>3, <1>5, <1>6, <2>1, StartsInLoopKeeps
<1>8. StopInv'
  <2>1. HowOften(k'.functors, "stopInLoop") = 0
    BY <1>4, <1>7
  <2>2. ~ StopAnywhere => k'.delay = DelayFor(failures'.inRow)
    BY <1>0, <1>3, <1>7, BackoffMeans DEF StopInv
  <2>3. Client!Backoff' <=> k'.delay = DelayFor(failures'.inRow)
    BY DEF Client!Backoff, Client!DelayAfter, Client!kMaxRetryDelayMs, DelayFor
  <2> QED
    BY <2>1, <2>2, <2>3 DEF StopInv
<1>9. ClientType'
  BY <1>0, <1>1, <1>7 DEF ClientType
<1>10. CalledInv'
  <2>1. Client!NewConnector.timers = 0
    BY DEF Client!NewConnector
  <2> QED
    BY <1>0, <1>1, <2>1 DEF CalledInv
<1> QED
  BY <1>7, <1>8, <1>9, <1>10 DEF ClientInv, ClientParts

(* connecting, the client has been called.                                 *)
LEMMA WatchingMeans ==
    ASSUME ClientInv, k.channel = "watching"
    PROVE  /\ k.state = "kConnecting" /\ connects = 1 /\ ~ restarting
           /\ HowOften(k.functors, "stopInLoop") \in Nat
<1>1. Client!NewConnector.channel = "none"
  BY DEF Client!NewConnector
<1> QED
  BY <1>1, CountsOf DEF ClientInv, ConnectorInv, CalledInv, ClientType

(* An attempt ends with a failure or a connection: c is what it makes of   *)
(* the connector.                                                          *)
LEMMA AttemptEnds ==
    ASSUME ClientInv, k.channel = "watching", NEW fails \in BOOLEAN,
           IF fails THEN GivesUp(k, k') ELSE Connected(k, k'), Client!Count(fails),
           connection' = IF ~ fails /\ k.connect THEN "up" ELSE connection,
           restarting' = restarting, connects' = connects
    PROVE  ClientInv'
<1>0. ClientType /\ ConnectorInv /\ Ways <= 1 /\ SocketsInv /\ CalledInv /\ StopInv
  BY DEF ClientInv
<1>1. connects = 1 /\ ~ restarting
  BY WatchingMeans
<1>2. k \in ConnectorRecord /\ ClientParts
  BY <1>0 DEF ClientType, ClientParts
<1>3. k' \in ConnectorRecord /\ k'.connect = k.connect
      /\ k'.functors = Append(k.functors, "resetChannel")
  BY DEF GivesUp, Connected
<1>4. ClientParts'
  <2>1. CASE fails
    <3>1. Like(k)
      BY <1>2 DEF Like
    <3> QED
      BY <1>0, <1>2, <2>1, <3>1, GiveUpKeeps
  <2>2. CASE ~ fails
    BY <1>0, <1>2, <2>2, ConnectKeeps
  <2> QED
    BY <2>1, <2>2
<1>5. HowOften(k'.functors, "stopInLoop") = HowOften(k.functors, "stopInLoop")
  <2>1. k.functors \in Seq(ClientFunctors) /\ "resetChannel" \in ClientFunctors
    BY <1>2 DEF ConnectorRecord, ClientFunctors
  <2>2. HowOften(Append(k.functors, "resetChannel"), "stopInLoop") = HowOften(k.functors, "stopInLoop") + 0
    BY <2>1, CountAppend
  <2>3. HowOften(k.functors, "stopInLoop") \in Nat
    BY WatchingMeans
  <2> QED
    BY <1>3, <2>2, <2>3
<1>6. failures \in [inRow : Nat, all : Nat]
  BY <1>0 DEF ClientType
<1>7. /\ failures' \in [inRow : Nat, all : Nat]
      /\ ~ StopAnywhere => k'.delay = DelayFor(failures'.inRow)
  <2>1. ~ StopAnywhere => k.delay = DelayFor(failures.inRow)
    BY <1>0, BackoffMeans DEF StopInv
  <2>2. CASE fails /\ k.connect
    <3>1. failures' = [inRow |-> failures.inRow + 1, all |-> failures.all + 1]
      BY <1>3, <2>2 DEF Client!Count
    <3>2. failures.inRow \in Nat /\ failures.all \in Nat
      BY <1>6
    <3>3. k'.delay = Client!Doubled(k.delay)
      BY <2>2 DEF GivesUp
    <3> QED
      BY <2>1, <3>1, <3>2, <3>3, DelayDoubles
  <2>3. CASE fails /\ ~ k.connect
    <3>1. failures' = [inRow |-> failures.inRow + 0, all |-> failures.all + 1]
      BY <1>3, <2>3 DEF Client!Count
    <3>2. failures.inRow \in Nat /\ failures.all \in Nat
      BY <1>6
    <3>3. k'.delay = k.delay
      BY <2>3 DEF GivesUp
    <3> QED
      BY <2>1, <3>1, <3>2, <3>3
  <2>4. CASE ~ fails
    <3>1. failures' = failures /\ k'.delay = k.delay
      BY <2>4 DEF Client!Count, Connected
    <3> QED
      BY <1>6, <2>1, <3>1
  <2> QED
    BY <2>2, <2>3, <2>4
<1>8. StopInv'
  <2>1. Client!Backoff' <=> k'.delay = DelayFor(failures'.inRow)
    BY DEF Client!Backoff, Client!DelayAfter, Client!kMaxRetryDelayMs, DelayFor
  <2> QED
    BY <1>0, <1>3, <1>5, <1>7, <2>1 DEF StopInv
<1>9. ClientType' /\ CalledInv'
  BY <1>0, <1>1, <1>3, <1>7 DEF ClientType, CalledInv
<1> QED
  BY <1>4, <1>8, <1>9 DEF ClientInv, ClientParts

LEMMA SocketReadyKeeps ==
    ASSUME ClientInv, NEW error \in BOOLEAN, NEW outcome \in Client!Outcomes,
           Client!SocketReady(error, outcome)
    PROVE  ClientInv'
<1> DEFINE fails == error \/ outcome # "connected"
<1>1. /\ k.channel = "watching" /\ Client!Count(fails)
      /\ k' = Client!handleWrite(IF error THEN Client!handleError(k) ELSE k, outcome)
      /\ connection' = IF k'.state = "kConnected" /\ k.connect THEN "up" ELSE connection
      /\ restarting' = restarting /\ connects' = connects
  BY DEF Client!SocketReady, Client!Wanted
<1>2. k \in ConnectorRecord /\ k.state = "kConnecting"
  BY <1>1, WatchingMeans DEF ClientInv, ClientType
<1>3. IF fails THEN GivesUp(k, k') ELSE Connected(k, k')
  <2>1. CASE error
    <3> DEFINE e == Client!handleError(k)
    <3>1. GivesUp(k, e)
      BY <1>2, GivingUp
    <3> HIDE DEF e
    <3>2. Client!handleWrite(e, outcome) = e
      <4>1. e.state = "kDisconnected" /\ e \in ConnectorRecord
        BY <3>1 DEF GivesUp
      <4>2. Client!handleWrite(e, outcome) = Client!Asserts(e, e.state = "kDisconnected")
        BY <4>1 DEF Client!handleWrite, Client!StillConnecting
      <4> QED
        BY <4>1, <4>2, AssertPasses
    <3> QED
      BY <1>1, <2>1, <3>1, <3>2 DEF e
  <2>2. CASE ~ error
    <3>1. k' = Client!handleWrite(k, outcome)
      BY <1>1, <2>2
    <3> QED
      BY <1>2, <2>2, <3>1, Writing
  <2> QED
    BY <2>1, <2>2
<1>4. connection' = IF ~ fails /\ k.connect THEN "up" ELSE connection
  BY <1>1, <1>3 DEF GivesUp, Connected
<1>5. fails \in BOOLEAN
  OBVIOUS
<1> HIDE DEF fails
<1> QED
  BY <1>1, <1>3, <1>4, <1>5, AttemptEnds

LEMMA SocketErrorKeeps ==
    ASSUME ClientInv, Client!SocketError PROVE ClientInv'
<1>1. /\ k.channel = "watching" /\ Client!Count(TRUE) /\ k' = Client!handleError(k)
      /\ connection' = connection /\ restarting' = restarting /\ connects' = connects
  BY DEF Client!SocketError
<1>2. k \in ConnectorRecord /\ k.state = "kConnecting"
  BY <1>1, WatchingMeans DEF ClientInv, ClientType
<1>3. GivesUp(k, k')
  BY <1>1, <1>2, GivingUp
<1> QED
  BY <1>1, <1>3, AttemptEnds

LEMMA RemoveConnectionKeeps ==
    ASSUME ClientInv, Client!RemoveConnection PROVE ClientInv'
<1>0. ClientType /\ ConnectorInv /\ Ways <= 1 /\ SocketsInv /\ CalledInv /\ StopInv
  BY DEF ClientInv
<1>1. /\ connection # "none" /\ k.functors = <<>> /\ ~ restarting
      /\ connection' = "none" /\ k' = Client!queueInLoop(k, "connectDestroyed")
      /\ restarting' \in BOOLEAN /\ connects' = connects /\ failures' = failures
  BY DEF Client!RemoveConnection
<1>2. /\ k' \in ConnectorRecord
      /\ k'.failed = k.failed /\ k'.state = k.state /\ k'.channel = k.channel /\ k'.connect = k.connect
      /\ k'.timers = k.timers /\ k'.sockets = k.sockets /\ k'.delay = k.delay
      /\ \A g : HowOften(k'.functors, g)
                  = HowOften(k.functors, g) + (IF g = "connectDestroyed" THEN 1 ELSE 0)
  BY <1>0, <1>1, QueueKeeps DEF ClientFunctors, ClientType
<1>3. /\ HowOften(k.functors, "startInLoop") = 0 /\ HowOften(k.functors, "resetChannel") = 0
      /\ HowOften(k.functors, "connectDestroyed") = 0 /\ HowOften(k.functors, "stopInLoop") = 0
      /\ HowOften(k'.functors, "startInLoop") = 0 /\ HowOften(k'.functors, "resetChannel") = 0
      /\ HowOften(k'.functors, "connectDestroyed") = 1 /\ HowOften(k'.functors, "stopInLoop") = 0
  <2>1. \A f : HowOften(k.functors, f) = 0
    BY <1>1, CountEmpty
  <2> QED
    BY <1>2, <2>1
<1>4. k.timers = 0 /\ k.channel = "none" /\ k.sockets = 1
  <2>1. k.timers \in Nat /\ k.channel \in {"none", "watching", "removed"}
    BY <1>0 DEF ClientType, ConnectorRecord
  <2> QED
    BY <1>0, <1>1, <1>3, <2>1 DEF Ways, Watched, InUseOrLost, ConnectorInv, SocketsInv
<1>5. ConnectorInv' /\ (Ways <= 1)' /\ SocketsInv'
  BY <1>0, <1>1, <1>2, <1>3, <1>4 DEF ConnectorInv, Ways, Watched, InUseOrLost, SocketsInv
<1>6. StopInv'
  BY <1>0, <1>1, <1>2, <1>3 DEF StopInv, Client!Backoff
<1>7. ClientType' /\ CalledInv'
  BY <1>0, <1>1, <1>2 DEF ClientType, CalledInv
<1> QED
  BY <1>5, <1>6, <1>7 DEF ClientInv

LEMMA RestartKeeps ==
    ASSUME ClientInv, NEW result \in Client!Results, Client!Restart(result) PROVE ClientInv'
<1> DEFINE c == [k EXCEPT !.state = "kDisconnected", !.delay = 500, !.connect = TRUE]
           n == IF result = "again" THEN 1 ELSE 0
<1>0. ClientType /\ ConnectorInv /\ Ways <= 1 /\ SocketsInv /\ CalledInv /\ StopInv
  BY DEF ClientInv
<1>1. /\ restarting /\ restarting' = FALSE /\ k' = Client!startInLoop(c, result)
      /\ failures' = [inRow |-> n, all |-> failures.all + n]
      /\ connection' = connection /\ connects' = connects
  BY DEF Client!Restart, Client!restart, Client!kInitRetryDelayMs
<1>2. /\ c \in ConnectorRecord
      /\ c.failed = k.failed /\ c.connect = TRUE /\ c.state = "kDisconnected" /\ c.channel = k.channel
      /\ c.timers = k.timers /\ c.sockets = k.sockets /\ c.delay = 500 /\ c.functors = k.functors
  <2>1. k \in ConnectorRecord
    BY <1>0 DEF ClientType
  <2>2. c \in ConnectorRecord
    <3> DEFINE d == [k EXCEPT !.state = "kDisconnected", !.delay = 500]
    <3>1. d \in ConnectorRecord
      <4>1. PICK x \in Nat : x = 500
        OBVIOUS
      <4>2. [k EXCEPT !.state = "kDisconnected", !.delay = x] \in ConnectorRecord
        BY <2>1 DEF ConnectorRecord
      <4> QED
        BY <4>1, <4>2
    <3>2. c = [d EXCEPT !.connect = TRUE]
      BY <2>1 DEF ConnectorRecord
    <3> HIDE DEF c, d
    <3> QED
      BY <3>1, <3>2 DEF ConnectorRecord
  <2>3. c.connect = TRUE /\ c.state = "kDisconnected" /\ c.delay = 500
    BY <2>1 DEF ConnectorRecord
  <2>4. /\ c.failed = k.failed /\ c.channel = k.channel /\ c.timers = k.timers
        /\ c.sockets = k.sockets /\ c.functors = k.functors
    BY <2>1 DEF ConnectorRecord
  <2> QED
    BY <2>2, <2>3, <2>4
<1> HIDE DEF c
<1>3. \A f : HowOften(k.functors, f) \in Nat
  BY <1>0, CountsOf DEF ClientType
<1>4. k.timers = 0 /\ HowOften(k.functors, "startInLoop") = 0 /\ k.channel = "none" /\ connection = "none"
      /\ HowOften(k.functors, "resetChannel") = 0
  <2>1. k.timers \in Nat /\ HowOften(k.functors, "startInLoop") \in Nat
    BY <1>0, <1>3 DEF ClientType, ConnectorRecord
  <2> QED
    BY <1>0, <1>1, <2>1 DEF ConnectorInv, Ways, Watched, InUseOrLost
<1>5. Idle(c) /\ ~ c.failed /\ c.sockets = HowOften(c.functors, "connectDestroyed")
  <2>1. HowOften(k.functors, "connectDestroyed") \in Nat
    BY <1>3
  <2> QED
    BY <1>0, <1>2, <1>4, <2>1 DEF Idle, ConnectorInv, SocketsInv, Watched
<1>6. Starts(c, k', result)
  BY <1>1, <1>2, <1>5, Starting
<1>7. ClientParts'
  <2>1. /\ c.timers = 0 /\ connection' = "none"
        /\ HowOften(c.functors, "startInLoop") = 0 /\ HowOften(c.functors, "resetChannel") = 0
    BY <1>1, <1>2, <1>4
  <2> QED
    BY <1>1, <1>2, <1>5, <1>6, <2>1, StartKeeps
<1>8. k'.delay = DelayFor(n)
  <2>1. CASE result = "again"
    BY <1>2, <1>6, <2>1 DEF Starts, Client!Doubled, Client!kMaxRetryDelayMs, DelayFor
  <2>2. CASE result # "again"
    BY <1>2, <1>6, <2>2 DEF Starts, Client!Results, DelayFor
  <2> QED
    BY <2>1, <2>2
<1>9. failures' \in [inRow : Nat, all : Nat] /\ failures'.inRow = n
  <2>1. failures.all \in Nat /\ n \in Nat /\ failures.all + n \in Nat
    BY <1>0 DEF ClientType
  <2> QED
    BY <1>1, <2>1
<1> HIDE DEF n
<1>10. StopInv'
  <2>1. Client!Backoff' <=> k'.delay = DelayFor(failures'.inRow)
    BY DEF Client!Backoff, Client!DelayAfter, Client!kMaxRetryDelayMs, DelayFor
  <2>2. k'.functors = k.functors
    BY <1>2, <1>6 DEF Starts
  <2>3. ~ StopAnywhere => ~ (HowOften(k'.functors, "stopInLoop") > 0)
    BY <1>0, <1>1, <2>2 DEF StopInv
  <2> QED
    BY <1>8, <1>9, <2>1, <2>3 DEF StopInv
<1>11. ClientType' /\ CalledInv'
  BY <1>0, <1>1, <1>6, <1>9 DEF ClientType, CalledInv, Starts
<1> QED
  BY <1>7, <1>10, <1>11 DEF ClientInv, ClientParts

LEMMA ClientBegins ==
    ASSUME Client!Init PROVE ClientInv
<1>1. /\ k = Client!NewConnector /\ connection = "none" /\ restarting = FALSE /\ connects = 0
      /\ failures = [inRow |-> 0, all |-> 0]
  BY DEF Client!Init
<1>2. /\ k \in ConnectorRecord
      /\ k.state = "kDisconnected" /\ k.channel = "none" /\ ~ k.failed /\ k.timers = 0
      /\ k.sockets = 0 /\ k.functors = <<>> /\ k.delay = 500
  BY <1>1, EmptySeq DEF Client!NewConnector, Client!kInitRetryDelayMs, ConnectorRecord
<1>3. /\ HowOften(k.functors, "startInLoop") = 0 /\ HowOften(k.functors, "resetChannel") = 0
      /\ HowOften(k.functors, "connectDestroyed") = 0 /\ HowOften(k.functors, "stopInLoop") = 0
  BY <1>2, CountEmpty
<1>4. ConnectorInv /\ Ways <= 1 /\ SocketsInv
  BY <1>1, <1>2, <1>3 DEF ConnectorInv, Ways, Watched, InUseOrLost, SocketsInv
<1>5. StopInv
  <2>1. failures.inRow = 0
    BY <1>1
  <2>2. Client!Backoff
    BY <1>2, <2>1, BackoffMeans DEF DelayFor
  <2> QED
    BY <1>3, <2>2 DEF StopInv
<1> QED
  <2>1. ClientType
    BY <1>1, <1>2 DEF ClientType
  <2>2. CalledInv
    BY <1>1 DEF CalledInv
  <2> QED
    BY <1>4, <1>5, <2>1, <2>2 DEF ClientInv

LEMMA ClientStep ==
    ASSUME Once, ClientInv, Client!Next PROVE ClientInv'
<1>1. ASSUME NEW result \in Client!Results, Client!LoopStep(result) \/ Client!ConnectHere(result)
      PROVE  ClientInv'
  BY <1>1, ClientFunctorKeeps, RetryTimerKeeps, RestartKeeps, ConnectHereKeeps DEF Client!LoopStep
<1>2. ASSUME NEW error \in BOOLEAN, NEW outcome \in Client!Outcomes, Client!SocketReady(error, outcome)
      PROVE  ClientInv'
  BY <1>2, SocketReadyKeeps
<1>3. CASE Client!ConnectElsewhere \/ Client!Disconnect \/ Client!Stop
  BY <1>3, ConnectElsewhereKeeps, DisconnectKeeps, StopKeeps
<1>4. CASE Client!SocketError \/ Client!RemoveConnection
  BY <1>4, SocketErrorKeeps, RemoveConnectionKeeps
<1> QED
  BY <1>1, <1>2, <1>3, <1>4 DEF Client!Next

LEMMA ClientInvariant ==
    ASSUME Once PROVE NetSpec => []ClientInv
<1>1. NetInit => ClientInv
  BY ClientBegins DEF NetInit
<1>2. ClientInv /\ [NetNext]_vars => ClientInv'
  <2> SUFFICES ASSUME ClientInv, [NetNext]_vars PROVE ClientInv'
    OBVIOUS
  <2>1. CASE Client!Next
    BY <2>1, ClientStep
  <2>2. CASE UNCHANGED clientVars
    BY <2>2 DEF clientVars, ClientInv, ClientType, ConnectorInv, Ways, InUseOrLost, Watched, SocketsInv,
       CalledInv, StopInv, Client!Backoff
  <2> QED
    BY <2>1, <2>2 DEF NetNext, vars
<1> QED
  BY <1>1, <1>2, PTL DEF NetSpec

LEMMA ClientOrdered ==
    ASSUME ClientInv
    PROVE  Client!ConnectorAsserts /\ Client!SingleAttempt /\ Client!SocketsOwned
           /\ (~ StopAnywhere => Client!Backoff)
<1>1. /\ Client!Queued("startInLoop") = HowOften(k.functors, "startInLoop")
      /\ Client!Queued("connectDestroyed") = HowOften(k.functors, "connectDestroyed")
  BY QueuedMeans
<1> QED
  BY <1>1 DEF ClientInv, ConnectorInv, Ways, Watched, InUseOrLost, SocketsInv, StopInv,
     Client!ConnectorAsserts, Client!SingleAttempt, Client!SocketsOwned

(* With one call of connect(), whoever makes it, and with disconnect() and *)
(* stop() in any thread and however attempts fail: no assert of Connector  *)
(* fails, there is one way to a connection at a time, and no socket is     *)
(* lost.  A second connect() would fail startInLoop()'s assert.            *)
THEOREM ClientOwnsItsSockets ==
    ASSUME MaxConnects <= 1
    PROVE  NetSpec => [](Client!ConnectorAsserts /\ Client!SingleAttempt /\ Client!SocketsOwned)
<1>1. NetSpec => []ClientInv
  BY ClientInvariant DEF Once
<1>2. ClientInv => Client!ConnectorAsserts /\ Client!SingleAttempt /\ Client!SocketsOwned
  BY ClientOrdered
<1> QED
  BY <1>1, <1>2, PTL

(* With stop() in the loop thread the delay is besides that of the         *)
(* failures in a row, up to half a minute.  In another thread stop() may   *)
(* come between removeConnection()'s test of connect_ and restart(), which *)
(* sets it again: stopInLoop() then doubles the delay without a failure.   *)
THEOREM ClientSafe ==
    ASSUME MaxConnects <= 1, ~ StopAnywhere
    PROVE  NetSpec => []ClientConsistent
<1>1. NetSpec => []ClientInv
  BY ClientInvariant DEF Once
<1>2. ClientInv => ClientConsistent
  BY ClientOrdered DEF ClientConsistent, Client!ClientConsistent
<1> QED
  BY <1>1, <1>2, PTL
=============================================================================
