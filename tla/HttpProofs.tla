----------------------------- MODULE HttpProofs -----------------------------
(***************************************************************************)
(* Proofs about HttpHandler: where the parser is in the stream tells how   *)
(* many requests it has handed over, and it never gets past a malformed    *)
(* one.                                                                    *)
(***************************************************************************)
EXTENDS HttpHandler, SequenceTheorems, WellFoundedInduction, TLAPS

-----------------------------------------------------------------------------
(* Induction, by way of sets.                                              *)

(* A set of numbers has a least element, which Min finds.                  *)
LEMMA MinIsLeast ==
    ASSUME NEW T \in SUBSET Nat, T # {} PROVE Min(T) \in T /\ \A x \in T : Min(T) <= x
<1> DEFINE R == OpToRel(<, Nat)
<1>1. IsWellFoundedOn(R, Nat)
  BY NatLessThanWellFounded
<1>2. PICK x \in T : \A y \in T : ~ (<<y, x>> \in R)
  <2> HIDE DEF R
  <2> QED
    BY <1>1, WFMin
<1>3. \A y \in T : ~ (y < x)
  BY <1>2 DEF OpToRel
<1>4. x \in T /\ \A y \in T : x <= y
  BY <1>3
<1> QED
  BY <1>4 DEF Min

(* What holds at 0 and from each number to the next holds everywhere.      *)
LEMMA Induction ==
    ASSUME NEW T, 0 \in T, \A n \in Nat : n \in T => n + 1 \in T PROVE Nat \subseteq T
<1> SUFFICES ASSUME Nat \ T # {} PROVE FALSE
  OBVIOUS
<1>1. Min(Nat \ T) \in Nat \ T /\ \A x \in Nat \ T : Min(Nat \ T) <= x
  BY MinIsLeast
<1>2. Min(Nat \ T) # 0 /\ Min(Nat \ T) - 1 \in Nat
  BY <1>1
<1>3. Min(Nat \ T) - 1 \in T
  BY <1>1, <1>2
<1> QED
  BY <1>1, <1>2, <1>3

-----------------------------------------------------------------------------
(* Sequences.                                                              *)

(* The elements of b come behind those of a.                               *)
LEMMA ConcatFacts ==
    ASSUME NEW S, NEW a \in Seq(S), NEW b \in Seq(S)
    PROVE  /\ a \o b \in Seq(S) /\ Len(a \o b) = Len(a) + Len(b)
           /\ Len(a) \in Nat /\ Len(b) \in Nat
           /\ \A p \in 1 .. Len(a) : (a \o b)[p] = a[p]
           /\ \A p \in 1 .. Len(b) : (a \o b)[Len(a) + p] = b[p]
  OBVIOUS

(* Sums of the first parts of s.                                           *)
IsSum(f, s, n, S) ==
    /\ f \in [0 .. n -> Seq(S)]
    /\ f[0] = <<>>
    /\ \A i \in 1 .. n : f[i] = f[i - 1] \o s[i]

LEMMA SumExists ==
    ASSUME NEW S, NEW n \in Nat, NEW s \in [1 .. n -> Seq(S)] PROVE \E f : IsSum(f, s, n, S)
<1> DEFINE T == {m \in Nat : m <= n => \E f : IsSum(f, s, m, S)}
<1>1. 0 \in T
  <2>1. IsSum([i \in 0 .. 0 |-> <<>>], s, 0, S)
    BY DEF IsSum
  <2> QED
    BY <2>1
<1>2. ASSUME NEW m \in Nat, m \in T PROVE m + 1 \in T
  <2> SUFFICES ASSUME m + 1 <= n PROVE \E f : IsSum(f, s, m + 1, S)
    OBVIOUS
  <2>1. PICK f : IsSum(f, s, m, S)
    BY <1>2
  <2> DEFINE g == [i \in 0 .. m + 1 |-> IF i = m + 1 THEN f[m] \o s[m + 1] ELSE f[i]]
  <2>2. f[m] \in Seq(S) /\ s[m + 1] \in Seq(S)
    BY <2>1 DEF IsSum
  <2>3. f[m] \o s[m + 1] \in Seq(S)
    BY <2>2
  <2>4. g \in [0 .. m + 1 -> Seq(S)]
    BY <2>1, <2>3 DEF IsSum
  <2>5. g[0] = <<>>
    BY <2>1 DEF IsSum
  <2>6. ASSUME NEW i \in 1 .. m + 1 PROVE g[i] = g[i - 1] \o s[i]
    <3>1. CASE i = m + 1
      <4>1. i - 1 = m /\ i - 1 # m + 1 /\ i - 1 \in 0 .. m + 1
        BY <3>1
      <4>2. g[i - 1] = f[m]
        BY <4>1
      <4>3. m + 1 \in 0 .. m + 1
        OBVIOUS
      <4>4. g[m + 1] = f[m] \o s[m + 1]
        BY <4>3
      <4> QED
        BY <3>1, <4>2, <4>4
    <3>2. CASE i # m + 1
      <4>1. i \in 1 .. m /\ i - 1 \in 0 .. m + 1 /\ i - 1 # m + 1 /\ i \in 0 .. m + 1
        BY <3>2
      <4>2. f[i] = f[i - 1] \o s[i]
        BY <2>1, <4>1 DEF IsSum
      <4>3. g[i] = f[i] /\ g[i - 1] = f[i - 1]
        BY <3>2, <4>1
      <4> QED
        BY <4>2, <4>3
    <3> QED
      BY <3>1, <3>2
  <2> QED
    BY <2>4, <2>5, <2>6 DEF IsSum
<1> HIDE DEF T
<1>3. Nat \subseteq T
  BY <1>1, <1>2, Induction
<1> QED
  BY <1>3 DEF T

(* FlattenSeq() puts the parts of s one behind the other.                  *)
LEMMA Flattened ==
    ASSUME NEW S, NEW n \in Nat, NEW s \in [1 .. n -> Seq(S)], NEW f, IsSum(f, s, n, S)
    PROVE  FlattenSeq(s) = f[n]
<1>1. Len(s) = n /\ s \in Seq(Seq(S))
  OBVIOUS
<1>2. CASE n = 0
  BY <1>1, <1>2 DEF FlattenSeq, IsSum
<1>3. CASE n # 0
  <2> DEFINE G == CHOOSE g : g = [i \in 1 .. Len(s) |-> IF i = 1 THEN s[i] ELSE g[i - 1] \o s[i]]
             g0 == [i \in 1 .. n |-> f[i]]
  <2>1. FlattenSeq(s) = G[n]
    BY <1>1, <1>3 DEF FlattenSeq
  <2>2. g0 = [i \in 1 .. Len(s) |-> IF i = 1 THEN s[i] ELSE g0[i - 1] \o s[i]]
    <3>1. ASSUME NEW i \in 1 .. n PROVE f[i] = IF i = 1 THEN s[i] ELSE g0[i - 1] \o s[i]
      <4>1. f[i] = f[i - 1] \o s[i] /\ s[i] \in Seq(S) /\ f[0] = <<>>
        BY DEF IsSum
      <4>2. CASE i = 1
        BY <4>1, <4>2
      <4>3. CASE i # 1
        <5>1. i - 1 \in 1 .. n
          BY <4>3
        <5> QED
          BY <4>1, <4>3, <5>1, SMTT(40)
      <4> QED
        BY <4>2, <4>3
    <3> QED
      BY <1>1, <3>1
  <2>3. G = [i \in 1 .. Len(s) |-> IF i = 1 THEN s[i] ELSE G[i - 1] \o s[i]]
    <3> HIDE DEF g0
    <3> QED
      BY <2>2
  <2> HIDE DEF G
  <2> DEFINE T == {m \in Nat : m \in 1 .. n => G[m] = f[m]}
  <2>4. 0 \in T
    OBVIOUS
  <2>5. ASSUME NEW m \in Nat, m \in T PROVE m + 1 \in T
    <3> SUFFICES ASSUME m + 1 \in 1 .. n PROVE G[m + 1] = f[m + 1]
      OBVIOUS
    <3>0. (m + 1) - 1 = m
      OBVIOUS
    <3>1. f[m + 1] = f[m] \o s[m + 1] /\ s[m + 1] \in Seq(S) /\ f[0] = <<>>
      <4>1. f[m + 1] = f[(m + 1) - 1] \o s[m + 1]
        BY DEF IsSum
      <4> QED
        BY <3>0, <4>1 DEF IsSum
    <3>2. G[m + 1] = IF m + 1 = 1 THEN s[m + 1] ELSE G[m] \o s[m + 1]
      <4>1. G[m + 1] = IF m + 1 = 1 THEN s[m + 1] ELSE G[(m + 1) - 1] \o s[m + 1]
        BY <1>1, <2>3
      <4> QED
        BY <3>0, <4>1
    <3>3. CASE m = 0
      BY <3>1, <3>2, <3>3
    <3>4. CASE m # 0
      <4>1. m \in 1 .. n /\ m + 1 # 1
        BY <3>4
      <4>2. G[m] = f[m]
        BY <2>5, <4>1
      <4> QED
        BY <3>1, <3>2, <4>1, <4>2
    <3> QED
      BY <3>3, <3>4
  <2> HIDE DEF T
  <2>6. Nat \subseteq T
    BY <2>4, <2>5, Induction
  <2>7. G[n] = f[n]
    BY <1>3, <2>6 DEF T
  <2> QED
    BY <2>1, <2>7
<1> QED
  BY <1>2, <1>3

(* The first element that passes a test, here that of another kind.        *)
LEMMA FirstOther ==
    ASSUME NEW S, buf \in Seq(S), NEW kind
    PROVE  /\ Run(kind) \in 0 .. Len(buf)
           /\ Run(kind) = 0 => \A i \in 1 .. Len(buf) : buf[i].k = kind
           /\ \A i \in 1 .. Len(buf) : i < Run(kind) => buf[i].k = kind
<1> DEFINE I == {i \in 1 .. Len(buf) : buf[i].k # kind}
<1>1. Run(kind) = IF I # {} THEN Min(I) ELSE 0
  BY DEF Run, SelectInSeq
<1>2. I \in SUBSET Nat
  OBVIOUS
<1>3. CASE I = {}
  BY <1>1, <1>3
<1>4. CASE I # {}
  <2>1. Min(I) \in I /\ \A x \in I : Min(I) <= x
    <3> HIDE DEF I
    <3> QED
      BY <1>2, <1>4, MinIsLeast
  <2>2. Run(kind) = Min(I) /\ Min(I) \in 1 .. Len(buf)
    BY <1>1, <1>4, <2>1
  <2>3. ASSUME NEW i \in 1 .. Len(buf), i < Run(kind) PROVE buf[i].k = kind
    BY <2>1, <2>2, <2>3
  <2> QED
    BY <2>2, <2>3
<1> QED
  BY <1>3, <1>4

-----------------------------------------------------------------------------
(* The stream.                                                             *)

ByteKinds == Kinds \cup {"begin", "bad", "urlEnd", "fieldEnd", "valueEnd", "headersEnd",
                         "headersEndUpgrade", "complete"}
Byte == [k : ByteKinds, c : Char \cup {""}]

(* Bytes that neither end a request nor are refused.                       *)
Inner == [k : ByteKinds \ {"complete", "bad"}, c : Char \cup {""}]

LEMMA PartsInner ==
    /\ \A kind \in ByteKinds \ {"complete", "bad"} : Mark(kind) \in Seq(Inner)
    /\ \A kind \in Kinds : \A t \in String : Chars(kind, t) \in Seq(Inner)
<1>1. ASSUME NEW kind \in ByteKinds \ {"complete", "bad"} PROVE Mark(kind) \in Seq(Inner)
  <2> DEFINE b == [k |-> kind, c |-> ""]
  <2>1. b \in Inner
    BY DEF Inner
  <2>2. Mark(kind) = <<b>>
    BY DEF Mark
  <2> HIDE DEF b
  <2> QED
    BY <2>1, <2>2
<1>2. ASSUME NEW kind \in Kinds, NEW t \in String PROVE Chars(kind, t) \in Seq(Inner)
  <2>1. kind \in ByteKinds \ {"complete", "bad"}
    BY DEF Kinds, ByteKinds
  <2>2. DOMAIN t = 1 .. Len(t) /\ Len(t) \in Nat
    BY DEF String
  <2>3. ASSUME NEW i \in 1 .. Len(t) PROVE [k |-> kind, c |-> t[i]] \in Inner
    <3>1. t[i] \in Char
      BY DEF String
    <3> QED
      BY <2>1, <3>1 DEF Inner
  <2> QED
    BY <2>2, <2>3, IsASeq DEF Chars
<1> QED
  BY <1>1, <1>2

LEMMA HeadersInner ==
    ASSUME NEW h \in Seq((String \ {<<>>}) \X String)
    PROVE  FlattenSeq([i \in DOMAIN h |-> HeaderBytes(h[i])]) \in Seq(Inner)
<1> DEFINE s == [i \in 1 .. Len(h) |-> HeaderBytes(h[i])]
<1>1. DOMAIN h = 1 .. Len(h) /\ Len(h) \in Nat
  OBVIOUS
<1>2. ASSUME NEW i \in 1 .. Len(h) PROVE HeaderBytes(h[i]) \in Seq(Inner)
  <2>1. h[i][1] \in String /\ h[i][2] \in String
    OBVIOUS
  <2>2. "field" \in Kinds /\ "value" \in Kinds /\ {"fieldEnd", "valueEnd"} \subseteq ByteKinds \ {"complete", "bad"}
    BY DEF Kinds, ByteKinds
  <2>3. /\ Chars("field", h[i][1]) \in Seq(Inner) /\ Mark("fieldEnd") \in Seq(Inner)
        /\ Chars("value", h[i][2]) \in Seq(Inner) /\ Mark("valueEnd") \in Seq(Inner)
    BY <2>1, <2>2, PartsInner
  <2> QED
    BY <2>3 DEF HeaderBytes
<1>3. s \in [1 .. Len(h) -> Seq(Inner)]
  BY <1>2
<1> HIDE DEF s
<1>4. PICK f : IsSum(f, s, Len(h), Inner)
  BY <1>1, <1>3, SumExists
<1>5. FlattenSeq(s) = f[Len(h)]
  BY <1>1, <1>3, <1>4, Flattened
<1>6. FlattenSeq(s) \in Seq(Inner)
  BY <1>1, <1>4, <1>5 DEF IsSum
<1> QED
  BY <1>1, <1>6 DEF s

(* The byte a request ends with, as far as the parser gets into it.        *)
EndKind(r) == IF r.ok THEN "complete" ELSE "bad"

LEMMA RequestShape ==
    ASSUME NEW r \in ClientRequest
    PROVE  \E x \in Seq(Inner) : RequestBytes(r) = x \o Mark(EndKind(r))
<1> DEFINE hs == FlattenSeq([i \in DOMAIN r.headers |-> HeaderBytes(r.headers[i])])
           last == IF r.upgrade THEN "headersEndUpgrade" ELSE "headersEnd"
<1>1. /\ {"begin", "urlEnd", "headersEnd", "headersEndUpgrade"} \subseteq ByteKinds \ {"complete", "bad"}
      /\ {"url", "body"} \subseteq Kinds
  BY DEF ByteKinds, Kinds
<1>2. CASE ~ r.ok
  <2>1. Mark("begin") \in Seq(Inner)
    BY <1>1, PartsInner
  <2> QED
    BY <1>2, <2>1 DEF RequestBytes, EndKind
<1>3. CASE r.ok
  <2>1. r.url \in String /\ r.body \in String /\ r.headers \in Seq((String \ {<<>>}) \X String)
    BY DEF ClientRequest
  <2>2. hs \in Seq(Inner)
    BY <2>1, HeadersInner
  <2>3. /\ Mark("begin") \in Seq(Inner) /\ Chars("url", r.url) \in Seq(Inner)
        /\ Mark("urlEnd") \in Seq(Inner) /\ Chars("body", r.body) \in Seq(Inner)
        /\ Mark(last) \in Seq(Inner)
    BY <1>1, <2>1, PartsInner
  <2> DEFINE x == Mark("begin") \o Chars("url", r.url) \o Mark("urlEnd") \o hs \o Mark(last)
                    \o Chars("body", r.body)
  <2>4. RequestBytes(r) = x \o Mark("complete")
    BY <1>3 DEF RequestBytes
  <2>5. x \in Seq(Inner)
    <3> HIDE DEF hs, last
    <3> QED
      BY <2>2, <2>3
  <2> HIDE DEF x
  <2> QED
    BY <1>3, <2>4, <2>5 DEF EndKind
<1> QED
  BY <1>2, <1>3

(* The stream is in Seq(Byte), and e[i] is the position where request i    *)
(* ends: there is its last byte, and none that ends a request before.      *)
Layout(e, stream, reqs) ==
    /\ stream \in Seq(Byte) /\ reqs \in Seq(ClientRequest)
    /\ e \in [0 .. Len(reqs) -> Nat] /\ e[0] = 0 /\ e[Len(reqs)] = Len(stream)
    /\ \A i \in 1 .. Len(reqs) :
         /\ e[i - 1] < e[i] /\ e[i] <= Len(stream)
         /\ stream[e[i]].k = EndKind(reqs[i])
         /\ \A p \in 1 .. Len(stream) : e[i - 1] < p /\ p < e[i] => stream[p].k # "complete"

(* What is in a sum stays where it is.                                     *)
LEMMA SumGrows ==
    ASSUME NEW S, NEW n \in Nat, NEW s \in [1 .. n -> Seq(S)], NEW f, IsSum(f, s, n, S)
    PROVE  \A i \in 0 .. n : /\ Len(f[i]) <= Len(f[n])
                             /\ \A p \in 1 .. Len(f[i]) : f[n][p] = f[i][p]
<1> DEFINE Within(i, m) == /\ Len(f[i]) <= Len(f[m])
                           /\ \A p \in 1 .. Len(f[i]) : f[m][p] = f[i][p]
           T == {m \in Nat : m <= n => \A i \in 0 .. m : Within(i, m)}
<1>0. \A i \in 0 .. n : f[i] \in Seq(S) /\ Len(f[i]) \in Nat
  BY DEF IsSum
<1>1. 0 \in T
  BY <1>0
<1>2. ASSUME NEW m \in Nat, m \in T PROVE m + 1 \in T
  <2> SUFFICES ASSUME m + 1 <= n, NEW i \in 0 .. m + 1 PROVE Within(i, m + 1)
    OBVIOUS
  <2>1. f[m + 1] = f[m] \o s[m + 1] /\ f[m] \in Seq(S) /\ s[m + 1] \in Seq(S)
    <3>1. m + 1 \in 1 .. n /\ (m + 1) - 1 = m
      OBVIOUS
    <3>2. f[m + 1] = f[(m + 1) - 1] \o s[m + 1]
      BY <3>1 DEF IsSum
    <3> QED
      BY <1>0, <3>1, <3>2
  <2>2. Within(m, m + 1)
    <3> DEFINE a == f[m]
               b == s[m + 1]
    <3>1. a \in Seq(S) /\ b \in Seq(S) /\ f[m + 1] = a \o b
      BY <2>1
    <3>2. Len(a) <= Len(f[m + 1]) /\ \A p \in 1 .. Len(a) : f[m + 1][p] = a[p]
      <4> HIDE DEF a, b
      <4> QED
        BY <3>1, ConcatFacts
    <3> QED
      BY <3>2
  <2>3. CASE i = m + 1
    BY <1>0, <2>3
  <2>4. CASE i # m + 1
    <3>1. i \in 0 .. m /\ i \in 0 .. n /\ m \in 0 .. n /\ m + 1 \in 0 .. n
      BY <2>4
    <3>2. Within(i, m)
      BY <1>2, <3>1
    <3>3. Len(f[i]) \in Nat /\ Len(f[m]) \in Nat /\ Len(f[m + 1]) \in Nat
      BY <1>0, <3>1
    <3>4. ASSUME NEW p \in 1 .. Len(f[i]) PROVE f[m + 1][p] = f[i][p]
      <4>1. p \in 1 .. Len(f[m])
        BY <3>2, <3>3
      <4> QED
        BY <2>2, <3>2, <4>1
    <3> QED
      BY <2>2, <3>2, <3>3, <3>4
  <2> QED
    BY <2>3, <2>4
<1> HIDE DEF T
<1>3. Nat \subseteq T
  BY <1>1, <1>2, Induction
<1> QED
  BY <1>3 DEF T

LEMMA StreamLayout ==
    ASSUME NEW reqs \in Seq(ClientRequest)
    PROVE  \E e : Layout(e, FlattenSeq([i \in DOMAIN reqs |-> RequestBytes(reqs[i])]), reqs)
<1> DEFINE n == Len(reqs)
           s == [i \in 1 .. n |-> RequestBytes(reqs[i])]
           stream == FlattenSeq(s)
<1>1. n \in Nat /\ DOMAIN reqs = 1 .. n
  OBVIOUS
<1>2. ASSUME NEW i \in 1 .. n
      PROVE  \E x \in Seq(Byte) : /\ s[i] = x \o Mark(EndKind(reqs[i])) /\ s[i] \in Seq(Byte)
                                  /\ \A p \in 1 .. Len(x) : x[p].k # "complete"
  <2>0. reqs[i] \in ClientRequest
    OBVIOUS
  <2>1. PICK x \in Seq(Inner) : RequestBytes(reqs[i]) = x \o Mark(EndKind(reqs[i]))
    BY <2>0, RequestShape
  <2>2. Inner \subseteq Byte
    BY DEF Inner, Byte
  <2>3. x \in Seq(Byte)
    BY <2>2, SeqMonotonic
  <2>4. Mark(EndKind(reqs[i])) \in Seq(Byte)
    <3> DEFINE b == [k |-> EndKind(reqs[i]), c |-> ""]
    <3>1. b \in Byte
      BY DEF Byte, EndKind, ByteKinds
    <3>2. Mark(EndKind(reqs[i])) = <<b>>
      BY DEF Mark
    <3> HIDE DEF b
    <3> QED
      BY <3>1, <3>2
  <2>5. ASSUME NEW p \in 1 .. Len(x) PROVE x[p].k # "complete"
    <3>1. x[p] \in Inner
      OBVIOUS
    <3> QED
      BY <3>1 DEF Inner
  <2>6. s[i] \in Seq(Byte)
    <3>1. x \o Mark(EndKind(reqs[i])) \in Seq(Byte)
      BY <2>3, <2>4, ConcatFacts
    <3> QED
      BY <2>1, <3>1
  <2> QED
    BY <2>1, <2>3, <2>5, <2>6
<1>3. s \in [1 .. n -> Seq(Byte)]
  BY <1>2
<1> HIDE DEF s
<1>4. PICK f : IsSum(f, s, n, Byte)
  BY <1>1, <1>3, SumExists
<1>5. stream = f[n]
  BY <1>1, <1>3, <1>4, Flattened
<1>6. \A i \in 0 .. n : f[i] \in Seq(Byte) /\ Len(f[i]) \in Nat
  BY <1>4 DEF IsSum
<1>7. \A i \in 0 .. n : Len(f[i]) <= Len(stream) /\ \A p \in 1 .. Len(f[i]) : stream[p] = f[i][p]
  BY <1>1, <1>3, <1>4, <1>5, SumGrows, SMTT(40)
<1> DEFINE e == [i \in 0 .. n |-> Len(f[i])]
<1>8. stream \in Seq(Byte) /\ e \in [0 .. n -> Nat] /\ e[0] = 0 /\ e[n] = Len(stream)
  BY <1>1, <1>4, <1>5, <1>6 DEF IsSum
<1>9. ASSUME NEW i \in 1 .. n
      PROVE  /\ e[i - 1] < e[i] /\ e[i] <= Len(stream)
             /\ stream[e[i]].k = EndKind(reqs[i])
             /\ \A p \in 1 .. Len(stream) : e[i - 1] < p /\ p < e[i] => stream[p].k # "complete"
  <2>1. i \in 0 .. n /\ i - 1 \in 0 .. n
    BY <1>1
  <2>2. f[i] = f[i - 1] \o s[i]
    BY <1>4 DEF IsSum
  <2>3. PICK x \in Seq(Byte) : /\ s[i] = x \o Mark(EndKind(reqs[i])) /\ s[i] \in Seq(Byte)
                               /\ \A p \in 1 .. Len(x) : x[p].k # "complete"
    BY <1>2
  <2>4. e[i] = Len(f[i]) /\ e[i - 1] = Len(f[i - 1]) /\ e[i] \in Nat /\ e[i - 1] \in Nat
    BY <1>6, <2>1
  <2> HIDE DEF e
  <2> DEFINE b == [k |-> EndKind(reqs[i]), c |-> ""]
  <2>5. Mark(EndKind(reqs[i])) = <<b>> /\ b.k = EndKind(reqs[i])
    BY DEF Mark
  <2> HIDE DEF b
  <2>6. /\ Len(s[i]) = Len(x) + 1 /\ s[i][Len(x) + 1] = b /\ Len(x) \in Nat
        /\ \A p \in 1 .. Len(x) : s[i][p] = x[p]
    BY <2>3, <2>5
  <2>7. /\ Len(f[i]) = Len(f[i - 1]) + Len(s[i])
        /\ \A p \in 1 .. Len(s[i]) : f[i][Len(f[i - 1]) + p] = s[i][p]
    <3> DEFINE a == f[i - 1]
               y == s[i]
    <3>1. a \in Seq(Byte) /\ y \in Seq(Byte) /\ f[i] = a \o y
      BY <1>6, <2>1, <2>2, <2>3
    <3>2. Len(f[i]) = Len(a) + Len(y) /\ \A p \in 1 .. Len(y) : f[i][Len(a) + p] = y[p]
      <4> HIDE DEF a, y
      <4> QED
        BY <3>1, ConcatFacts
    <3> QED
      BY <3>2
  <2>8. PICK u \in Nat : u = e[i - 1] /\ u = Len(f[i - 1])
    BY <2>4
  <2>9. PICK v \in Nat : v = e[i] /\ v = Len(f[i])
    BY <2>4
  <2>10. PICK l \in Nat : l = Len(x)
    BY <2>6
  <2>11. Len(s[i]) = l + 1
    BY <2>6, <2>10
  <2>12. v = u + (l + 1)
    BY <2>7, <2>8, <2>9, <2>11
  <2>13. PICK w \in Nat : w = Len(stream) /\ v <= w
    <3>1. Len(f[i]) <= Len(stream)
      BY <1>7, <2>1
    <3>2. Len(stream) \in Nat
      BY <1>8
    <3> HIDE DEF stream
    <3> QED
      BY <2>9, <3>1, <3>2
  <2>14. stream[v].k = EndKind(reqs[i])
    <3>0. l + 1 \in 1 .. l + 1
      OBVIOUS
    <3>1. f[i][u + (l + 1)] = s[i][l + 1]
      BY <2>7, <2>8, <2>11, <3>0
    <3>2. f[i][v] = b
      BY <2>6, <2>10, <2>12, <3>1
    <3>3. v \in 1 .. v
      BY <2>12
    <3>4. stream[v] = f[i][v]
      BY <1>7, <2>1, <2>9, <3>3
    <3> QED
      BY <2>5, <3>2, <3>4
  <2>15. ASSUME NEW p \in 1 .. w, u < p, p < v PROVE stream[p].k # "complete"
    <3>1. PICK q \in Nat : p = u + q /\ q \in 1 .. l /\ q \in 1 .. l + 1 /\ p \in 1 .. v
      <4>1. p - u \in Nat /\ p = u + (p - u) /\ p - u \in 1 .. l /\ p - u \in 1 .. l + 1 /\ p \in 1 .. v
        BY <2>12, <2>15
      <4> QED
        BY <4>1
    <3>2. f[i][p] = s[i][q]
      BY <2>7, <2>8, <2>11, <3>1
    <3>3. s[i][q] = x[q] /\ x[q].k # "complete"
      BY <2>3, <2>6, <2>10, <3>1
    <3>4. stream[p] = f[i][p]
      BY <1>7, <2>1, <2>9, <3>1
    <3> QED
      BY <3>2, <3>3, <3>4
  <2>16. u < v
    BY <2>12
  <2> HIDE DEF stream
  <2> QED
    BY <2>8, <2>9, <2>13, <2>14, <2>15, <2>16
<1>10. FlattenSeq([i \in DOMAIN reqs |-> RequestBytes(reqs[i])]) = stream
  BY <1>1 DEF s
<1> HIDE DEF e, stream
<1>11. Layout(e, stream, reqs)
  BY <1>8, <1>9 DEF Layout
<1> QED
  BY <1>10, <1>11

-----------------------------------------------------------------------------
(* The parser in the stream.                                               *)

(* The requests handed over are well formed.                               *)
AllGood ==
    /\ Len(handed) <= Len(script)
    /\ \A i \in 1 .. Len(handed) : script[i].ok

(* How far the parser has come, and what it has before it.                 *)
Position == read - Len(buf)

(* The parser is behind the requests it has handed over and has not        *)
(* finished the next one.                                                  *)
InRequest(e) ==
    /\ \A i \in 1 .. Len(buf) : buf[i] = Stream[Position + i]
    /\ e[Len(handed)] <= Position
    /\ Len(handed) < Len(script) => Position < e[Len(handed) + 1]

(* The inductive invariant, with the ends of the requests as e.  After an  *)
(* error, or a failed assert of prepend(), nothing is parsed any more.     *)
ParserInv(e) ==
    /\ Layout(e, Stream, script)
    /\ \E H : handed \in Seq(H)
    /\ read \in 0 .. Len(Stream) /\ buf \in Seq(Byte) /\ Len(buf) <= read
    /\ pc = "poll" => buf = <<>>
    /\ AllGood
    /\ ~ errno /\ pc # "abort" => InRequest(e)
HandedInv == \E e : ParserInv(e)

LEMMA HandedInit ==
    ASSUME Init PROVE HandedInv
<1>1. script \in Seq(ClientRequest)
  BY ScriptsAssumption DEF Init
<1>2. PICK e : Layout(e, Stream, script)
  BY <1>1, StreamLayout DEF Stream
<1>3. handed = <<>> /\ buf = <<>> /\ read = 0
  BY DEF Init
<1>4. handed \in Seq({}) /\ Len(handed) = 0 /\ buf \in Seq(Byte) /\ Len(buf) = 0
  BY <1>3
<1>5. Len(Stream) \in Nat /\ Len(script) \in Nat /\ e[0] = 0
  BY <1>2 DEF Layout
<1>6. AllGood
  BY <1>4, <1>5 DEF AllGood
<1>7. InRequest(e)
  <2>1. Position = 0
    <3>1. read = 0 /\ Len(buf) = 0
      BY <1>3, <1>4
    <3>2. Position = 0 - 0
      BY <3>1 DEF Position
    <3> QED
      BY <3>2
  <2>2. Len(script) > 0 => e[0] < e[1]
    BY <1>2, <1>5 DEF Layout
  <2> QED
    BY <1>3, <1>4, <1>5, <2>1, <2>2 DEF InRequest
<1>8. read \in 0 .. Len(Stream) /\ Len(buf) <= read
  BY <1>3, <1>4, <1>5
<1> QED
  BY <1>2, <1>3, <1>4, <1>6, <1>7, <1>8 DEF HandedInv, ParserInv

(* A step of the parser that takes n bytes, none of which ends a request,  *)
(* or the last ones of the segment.                                        *)
LEMMA Advances ==
    ASSUME NEW e, ParserInv(e), NEW n \in Nat, n <= Len(buf), ~ errno, pc = "execute",
           \A i \in 1 .. n : buf[i].k \notin {"complete", "bad"},
           buf' = SubSeq(buf, n + 1, Len(buf)), UNCHANGED <<script, read, errno, pc, handed>>
    PROVE  ParserInv(e)'
<1> DEFINE h == Len(handed)
<1>1. /\ Layout(e, Stream, script) /\ read \in 0 .. Len(Stream) /\ buf \in Seq(Byte)
      /\ Len(buf) <= read /\ AllGood /\ InRequest(e)
  BY DEF ParserInv
<1>2. Stream' = Stream /\ Layout(e, Stream, script)'
  BY <1>1 DEF Stream, Layout
<1>3. Len(Stream) \in Nat /\ read \in Nat /\ Len(buf) \in Nat /\ h \in Nat /\ Len(script) \in Nat
  BY <1>1 DEF Layout, ParserInv
<1>4. /\ buf' \in Seq(Byte) /\ Len(buf') = Len(buf) - n
      /\ \A i \in 1 .. Len(buf) - n : buf'[i] = buf[n + i]
  BY <1>1, <1>3
<1> DEFINE p == Position
<1>5. p \in Nat /\ Position' = p + n /\ p + Len(buf) = read
  <2>1. PICK l \in Nat : l = Len(buf) /\ l <= read /\ n <= l
    BY <1>1, <1>3
  <2>2. p = read - l /\ Position' = read - (l - n)
    BY <1>4, <2>1 DEF Position
  <2>3. read - l \in Nat /\ read - (l - n) = (read - l) + n /\ (read - l) + l = read
    BY <1>3, <2>1
  <2> QED
    BY <2>1, <2>2, <2>3
<1>6. \A i \in 1 .. Len(buf) : buf[i] = Stream[p + i]
  BY <1>1 DEF InRequest
<1> HIDE DEF p
<1>7. ASSUME NEW i \in 1 .. Len(buf') PROVE buf'[i] = Stream[(p + n) + i]
  <2>1. n + i \in 1 .. Len(buf) /\ i \in 1 .. Len(buf) - n /\ p + (n + i) = (p + n) + i
    BY <1>3, <1>4, <1>5
  <2>2. buf'[i] = buf[n + i] /\ buf[n + i] = Stream[p + (n + i)]
    BY <1>4, <1>6, <2>1
  <2> QED
    BY <2>1, <2>2
<1>8. ASSUME h < Len(script) PROVE p + n < e[h + 1]
  <2>1. h + 1 \in 1 .. Len(script) /\ p < e[h + 1] /\ e[h + 1] \in Nat
    BY <1>1, <1>3, <1>8 DEF InRequest, Layout, p
  <2>2. Stream[e[h + 1]].k \in {"complete", "bad"}
    BY <1>1, <2>1 DEF Layout, EndKind
  <2>3. PICK end \in Nat : end = e[h + 1]
    BY <2>1
  <2> SUFFICES ASSUME end <= p + n PROVE FALSE
    BY <1>5, <2>3
  <2>4. PICK i \in Nat : end = p + i /\ i \in 1 .. n /\ i \in 1 .. Len(buf)
    <3>1. end - p \in Nat /\ end = p + (end - p) /\ end - p \in 1 .. n /\ end - p \in 1 .. Len(buf)
      <4>1. PICK l \in Nat : l = Len(buf) /\ n <= l
        BY <1>3
      <4>2. p < end /\ p \in Nat
        BY <1>5, <2>1, <2>3
      <4>3. end - p \in Nat /\ end = p + (end - p) /\ end - p \in 1 .. n /\ end - p \in 1 .. l
        BY <4>1, <4>2
      <4> QED
        BY <4>1, <4>3
    <3> QED
      BY <3>1
  <2>5. buf[i] = Stream[end]
    BY <1>6, <2>4
  <2> QED
    BY <2>2, <2>3, <2>4, <2>5
<1>9. e[h] <= p /\ e[h] \in Nat
  BY <1>1, <1>3 DEF InRequest, Layout, AllGood, p
<1>10. e[h] <= p + n
  <2>1. PICK start \in Nat : start = e[h]
    BY <1>9
  <2> QED
    BY <1>5, <1>9, <2>1
<1>11. InRequest(e)'
  BY <1>2, <1>5, <1>7, <1>8, <1>10 DEF InRequest
<1>12. AllGood'
  BY <1>1 DEF AllGood
<1>13. Len(buf') <= read
  BY <1>1, <1>3, <1>4
<1> QED
  BY <1>1, <1>2, <1>4, <1>11, <1>12, <1>13 DEF ParserInv

(* The chunk of a string, with its terminator or without.                  *)
LEMMA ChunkAdvances ==
    ASSUME NEW e, ParserInv(e), Parsing,
           NEW kind \in Kinds, NEW terminator \in {"urlEnd", "fieldEnd", "valueEnd", "none"},
           ConsumeChunk(kind, terminator), UNCHANGED <<script, read, errno, pc, handed>>
    PROVE  ParserInv(e)'
<1>1. buf \in Seq(Byte) /\ Len(buf) \in Nat /\ ~ errno /\ pc = "execute"
  BY DEF ParserInv, Parsing
<1>2. PICK r \in Nat : r = Run(kind)
  BY <1>1, FirstOther
<1>3. PICK l \in Nat : l = Len(buf)
  BY <1>1
<1>4. /\ r <= l
      /\ r = 0 => \A i \in 1 .. l : buf[i].k = kind
      /\ \A i \in 1 .. l : i < r => buf[i].k = kind
  BY <1>1, <1>2, <1>3, FirstOther
<1>5. kind \notin {"complete", "bad"} /\ terminator \notin {"complete", "bad"}
  BY DEF Kinds
<1>6. PICK n \in Nat : /\ n <= l /\ buf' = SubSeq(buf, n + 1, Len(buf))
                       /\ \A i \in 1 .. n : buf[i].k \notin {"complete", "bad"}
  <2> DEFINE t == r # 0 /\ buf[r].k = terminator
             c == IF r = 0 THEN l ELSE r - 1
             m == c + IF t THEN 1 ELSE 0
  <2>1. buf' = SubSeq(buf, m + 1, Len(buf))
    BY <1>2, <1>3 DEF ConsumeChunk, Consume, ChunkLength
  <2>2. CASE r = 0
    <3>1. m = l + 0
      BY <2>2
    <3>2. m = l
      BY <3>1
    <3> HIDE DEF m
    <3>3. buf' = SubSeq(buf, l + 1, Len(buf))
      BY <2>1, <3>2
    <3>4. \A i \in 1 .. l : buf[i].k \notin {"complete", "bad"}
      BY <1>4, <1>5, <2>2
    <3> QED
      BY <3>3, <3>4
  <2>3. CASE r # 0 /\ ~ t
    <3>1. m = (r - 1) + 0
      BY <2>3
    <3> HIDE DEF m, t
    <3>2. r <= l /\ r # 0
      BY <1>4, <2>3
    <3>3. m \in Nat /\ m <= l /\ m = r - 1
      BY <3>1, <3>2
    <3>4. ASSUME NEW i \in 1 .. m PROVE buf[i].k = kind
      <4>1. i \in 1 .. l /\ i < r
        BY <3>2, <3>3
      <4> QED
        BY <1>4, <4>1
    <3> QED
      BY <1>5, <2>1, <3>3, <3>4
  <2>4. CASE t
    <3>1. m = (r - 1) + 1 /\ r # 0
      BY <2>4
    <3>2. buf[r].k = terminator /\ r <= l
      <4>1. buf[r].k = terminator
        BY <2>4
      <4> QED
        BY <1>4, <4>1
    <3> HIDE DEF m, t
    <3>3. m \in Nat /\ m <= l /\ m = r
      BY <3>1, <3>2
    <3>4. ASSUME NEW i \in 1 .. m PROVE buf[i].k \in {kind, terminator}
      <4>1. i \in 1 .. l /\ (i < r \/ i = r)
        BY <3>2, <3>3
      <4> QED
        BY <1>4, <3>2, <4>1
    <3> QED
      BY <1>5, <2>1, <3>3, <3>4
  <2> QED
    BY <2>2, <2>3, <2>4
<1> QED
  BY <1>1, <1>3, <1>6, Advances

(* A single byte.                                                          *)
LEMMA ByteAdvances ==
    ASSUME NEW e, ParserInv(e), Parsing, buf[1].k \notin {"complete", "bad"},
           Consume(1), UNCHANGED <<script, read, errno, pc, handed>>
    PROVE  ParserInv(e)'
<1>1. buf \in Seq(Byte) /\ 1 <= Len(buf) /\ ~ errno /\ pc = "execute"
  BY DEF ParserInv, Parsing
<1>2. \A i \in 1 .. 1 : buf[i].k \notin {"complete", "bad"}
  OBVIOUS
<1>3. buf' = SubSeq(buf, 1 + 1, Len(buf))
  BY DEF Consume
<1> QED
  BY <1>1, <1>2, <1>3, Advances

(* A request is complete: it is the one behind those handed over, it is    *)
(* well formed, and what is left of the segment begins behind it.          *)
LEMMA CompleteKeeps ==
    ASSUME NEW e, ParserInv(e), OnMessageComplete PROVE ParserInv(e)'
<1> DEFINE h == Len(handed)
           p == Position
<1>1. /\ Layout(e, Stream, script) /\ read \in 0 .. Len(Stream) /\ buf \in Seq(Byte) /\ buf # <<>>
      /\ Len(buf) <= read /\ AllGood /\ InRequest(e) /\ buf[1].k = "complete" /\ pc = "execute"
  BY DEF ParserInv, OnMessageComplete, Sees, Parsing
<1>2. Stream' = Stream /\ Layout(e, Stream, script)' /\ UNCHANGED <<script, read, errno>>
  BY <1>1 DEF Stream, Layout, OnMessageComplete
<1>3. Len(Stream) \in Nat /\ read \in Nat /\ Len(buf) \in Nat /\ h \in Nat /\ Len(script) \in Nat
  BY <1>1 DEF Layout, ParserInv
<1>4. PICK l \in Nat : l = Len(buf) /\ l >= 1 /\ l <= read
  BY <1>1, <1>3
<1>5. p \in Nat /\ p + l = read /\ p + 1 <= read
  <2>1. p = read - l
    BY <1>4 DEF Position
  <2> HIDE DEF p
  <2> QED
    BY <1>3, <1>4, <2>1
<1>6. Stream[p + 1].k = "complete"
  <2>1. buf[1] = Stream[p + 1]
    BY <1>4 , <1>1 DEF InRequest
  <2> QED
    BY <1>1, <2>1
<1>7. e[h] <= p /\ e[h] \in Nat /\ h <= Len(script) /\ (h < Len(script) => p < e[h + 1])
  BY <1>1, <1>3 DEF InRequest, Layout, AllGood
<1> HIDE DEF p
<1>8. h < Len(script)
  <2> SUFFICES ASSUME h = Len(script) PROVE FALSE
    BY <1>3, <1>7
  <2>1. e[h] = Len(Stream)
    BY <1>1 DEF Layout
  <2>2. p + 1 <= Len(Stream)
    BY <1>1, <1>3, <1>5
  <2> QED
    BY <1>3, <1>5, <1>7, <2>1, <2>2
<1>9. h + 1 \in 1 .. Len(script) /\ (h + 1) - 1 = h
  BY <1>3, <1>8
<1>10. PICK end \in Nat : end = e[h + 1] /\ p < end /\ end <= Len(Stream)
  BY <1>1, <1>7, <1>8, <1>9, SMTT(40) DEF Layout
<1>11. end = p + 1
  <2> SUFFICES ASSUME p + 1 < end PROVE FALSE
    BY <1>5, <1>10
  <2>1. p + 1 \in 1 .. Len(Stream)
    BY <1>1, <1>3, <1>5
  <2>2. e[h] < p + 1
    <3>1. PICK start \in Nat : start = e[h]
      BY <1>7
    <3> QED
      BY <1>5, <1>7, <3>1
  <2>3. \A q \in 1 .. Len(Stream) : e[(h + 1) - 1] < q /\ q < e[h + 1] => Stream[q].k # "complete"
    BY <1>1, <1>9 DEF Layout
  <2> QED
    BY <1>6, <1>9, <1>10, <2>1, <2>2, <2>3
<1>12. script[h + 1].ok
  <2>1. Stream[end].k = EndKind(script[h + 1])
    BY <1>1, <1>9, <1>10 DEF Layout
  <2> QED
    BY <1>6, <1>11, <2>1 DEF EndKind
<1>13. (\E H : handed' \in Seq(H)) /\ Len(handed') = h + 1
  <2>1. PICK H : handed \in Seq(H)
    BY DEF ParserInv
  <2>2. PICK x : handed' = Append(handed, x)
    BY DEF OnMessageComplete
  <2>3. handed \in Seq(H \cup {x})
    BY <2>1, SeqMonotonic, H \subseteq H \cup {x}
  <2>4. handed' \in Seq(H \cup {x}) /\ Len(handed') = Len(handed) + 1
    BY <2>2, <2>3
  <2> QED
    BY <2>4
<1>14. AllGood'
  <2>1. ASSUME NEW i \in 1 .. h + 1 PROVE script[i].ok
    <3>1. i \in 1 .. h \/ i = h + 1
      BY <1>3
    <3> QED
      BY <1>1, <1>12, <3>1 DEF AllGood
  <2>2. h + 1 <= Len(script)
    BY <1>9
  <2> QED
    BY <1>2, <1>13, <2>1, <2>2 DEF AllGood
<1>15. \/ buf' = Tail(buf)
       \/ pc' = "abort" /\ buf' = <<>>
  <2>1. CASE upgrade
    <3>1. PutBack(Tail(buf))
      BY <2>1 DEF OnMessageComplete
    <3> QED
      BY <3>1 DEF PutBack
  <2>2. CASE ~ upgrade
    <3>1. buf' = SubSeq(buf, 1 + 1, Len(buf))
      BY <2>2 DEF OnMessageComplete, Consume
    <3>2. SubSeq(buf, 1 + 1, Len(buf)) = Tail(buf)
      BY <1>1, TailIsSubSeq
    <3> QED
      BY <3>1, <3>2
  <2> QED
    BY <2>1, <2>2
<1>16. pc' = "poll" => buf' = <<>>
  BY <1>1 DEF OnMessageComplete, PutBack
<1>17. CASE pc' = "abort" /\ buf' = <<>>
  <2>1. buf' \in Seq(Byte) /\ Len(buf') = 0
    BY <1>17
  <2> QED
    BY <1>1, <1>2, <1>3, <1>13, <1>14, <1>17, <2>1 DEF ParserInv
<1>18. CASE buf' = Tail(buf)
  <2>1. /\ buf' \in Seq(Byte) /\ Len(buf') = l - 1
        /\ \A i \in 1 .. l - 1 : buf'[i] = buf[i + 1]
    BY <1>1, <1>4, <1>18
  <2>2. l - 1 \in Nat /\ l - 1 <= read /\ read - (l - 1) = p + 1
    BY <1>3, <1>4, <1>5
  <2>3. Position' = p + 1
    BY <1>2, <2>1, <2>2 DEF Position
  <2>4. ASSUME NEW i \in 1 .. Len(buf') PROVE buf'[i] = Stream[(p + 1) + i]
    <3>1. i \in 1 .. l - 1 /\ i + 1 \in 1 .. Len(buf) /\ p + (i + 1) = (p + 1) + i
      <4>1. i \in 1 .. l - 1
        BY <2>1
      <4>2. i + 1 \in 1 .. l /\ p + (i + 1) = (p + 1) + i
        BY <1>5, <4>1
      <4> QED
        BY <1>4, <4>1, <4>2
    <3>2. buf[i + 1] = Stream[p + (i + 1)]
      BY <1>1, <3>1 DEF InRequest, p
    <3> QED
      BY <2>1, <3>1, <3>2
  <2>5. e[h + 1] <= p + 1
    BY <1>5, <1>10, <1>11
  <2>6. ASSUME h + 1 < Len(script) PROVE p + 1 < e[(h + 1) + 1]
    <3>1. (h + 1) + 1 \in 1 .. Len(script) /\ ((h + 1) + 1) - 1 = h + 1
      BY <1>3, <2>6
    <3>2. e[((h + 1) + 1) - 1] < e[(h + 1) + 1]
      BY <1>1, <3>1 DEF Layout
    <3> QED
      BY <1>10, <1>11, <3>1, <3>2
  <2>7. InRequest(e)'
    BY <1>2, <1>13, <2>3, <2>4, <2>5, <2>6 DEF InRequest
  <2> QED
    BY <1>1, <1>2, <1>13, <1>14, <1>16, <2>1, <2>2, <2>7 DEF ParserInv
<1> QED
  BY <1>15, <1>17, <1>18

(* A segment arrives.                                                      *)
LEMMA ArrivesKeeps ==
    ASSUME NEW e, ParserInv(e), NEW n \in 1 .. Len(Stream), Arrives(n) PROVE ParserInv(e)'
<1>1. /\ Layout(e, Stream, script) /\ read \in 0 .. Len(Stream) /\ buf = <<>> /\ AllGood
      /\ ~ errno => InRequest(e)
  BY DEF ParserInv, Arrives
<1>2. /\ Stream' = Stream /\ Layout(e, Stream, script)' /\ UNCHANGED <<script, errno, handed>>
      /\ pc' = "execute" /\ read' = read + n /\ read + n <= Len(Stream)
      /\ buf' = SubSeq(Stream, read + 1, read + n)
  BY <1>1 DEF Stream, Layout, Arrives
<1>3. Len(Stream) \in Nat /\ read \in Nat /\ n \in Nat /\ Stream \in Seq(Byte) /\ n <= read + n
  BY <1>1 DEF Layout
<1>4. buf' \in Seq(Byte) /\ Len(buf') = n /\ \A i \in 1 .. n : buf'[i] = Stream[read + i]
  <2>1. /\ buf' \in Seq(Byte) /\ Len(buf') = (read + n) - (read + 1) + 1
        /\ \A i \in 1 .. (read + n) - (read + 1) + 1 : buf'[i] = Stream[(read + 1) + i - 1]
    BY <1>2, <1>3, SubSeqProperties
  <2>2. (read + n) - (read + 1) + 1 = n /\ \A i \in 1 .. n : (read + 1) + i - 1 = read + i
    BY <1>3
  <2> QED
    BY <2>1, <2>2
<1>5. ~ errno => InRequest(e)'
  <2>1. Position = read /\ Position' = read
    <3>1. Len(buf) = 0 /\ read - 0 = read /\ (read + n) - n = read
      BY <1>1, <1>3
    <3> QED
      BY <1>2, <1>4, <3>1 DEF Position
  <2> QED
    BY <1>1, <1>2, <1>4, <2>1 DEF InRequest
<1>6. AllGood' /\ \E H : handed' \in Seq(H)
  BY <1>1, <1>2 DEF AllGood, ParserInv
<1>7. read' \in 0 .. Len(Stream)
  BY <1>2, <1>3
<1> QED
  BY <1>2, <1>3, <1>4, <1>5, <1>6, <1>7 DEF ParserInv

(* Whatever does not move the parser and hands nothing over.               *)
Stops == errno' /\ buf' = <<>> /\ pc' \in {"poll", "abort"}
Stays ==
    /\ buf' = buf
    /\ \/ errno' /\ pc' = "execute"
       \/ errno' = errno /\ (pc' = pc \/ (buf = <<>> /\ pc = "execute" /\ pc' = "poll"))

LEMMA StopKeeps ==
    ASSUME NEW e, ParserInv(e), UNCHANGED <<script, read, handed>>, Stops \/ Stays
    PROVE  ParserInv(e)'
<1>1. Stream' = Stream /\ Layout(e, Stream, script)' /\ \E H : handed' \in Seq(H)
  BY DEF Stream, Layout, ParserInv
<1>2. AllGood'
  BY DEF AllGood, ParserInv
<1>3. read' \in 0 .. Len(Stream) /\ Len(Stream) \in Nat
  BY DEF ParserInv, Layout
<1>4. CASE Stops
  <2>1. buf' \in Seq(Byte) /\ Len(buf') = 0
    BY <1>4 DEF Stops
  <2> QED
    BY <1>1, <1>2, <1>3, <1>4, <2>1 DEF ParserInv, Stops
<1>5. CASE Stays
  <2>1. ~ errno' /\ pc' # "abort" => InRequest(e)'
    BY <1>1, <1>5 DEF ParserInv, InRequest, Position, Stays
  <2>2. (pc' = "poll" => buf' = <<>>) /\ buf' \in Seq(Byte) /\ Len(buf') <= read'
    BY <1>5 DEF ParserInv, Stays
  <2> QED
    BY <1>1, <1>2, <1>3, <2>1, <2>2 DEF ParserInv
<1> QED
  BY <1>4, <1>5

LEMMA HandedNext ==
    ASSUME NEW e, ParserInv(e), [Next]_vars PROVE ParserInv(e)'
<1>1. CASE OnMessageBegin
  BY <1>1, ByteAdvances DEF OnMessageBegin, Sees
<1>2. CASE OnUrl
  <2>1. "url" \in Kinds
    BY DEF Kinds
  <2> QED
    BY <1>2, <2>1, ChunkAdvances DEF OnUrl, Sees, headerVars
<1>3. CASE OnHeaderField
  <2>1. "field" \in Kinds
    BY DEF Kinds
  <2> QED
    BY <1>3, <2>1, ChunkAdvances DEF OnHeaderField, Sees
<1>4. CASE OnHeaderValue
  <2>1. "value" \in Kinds
    BY DEF Kinds
  <2> QED
    BY <1>4, <2>1, ChunkAdvances DEF OnHeaderValue, Sees
<1>5. CASE OnHeadersComplete
  BY <1>5, ByteAdvances DEF OnHeadersComplete, Sees
<1>6. CASE OnBody
  <2>1. "body" \in Kinds
    BY DEF Kinds
  <2> QED
    BY <1>6, <2>1, ChunkAdvances DEF OnBody, Sees
<1>7. CASE OnMessageComplete
  BY <1>7, CompleteKeeps
<1>8. CASE ExecuteFails
  <2>1. UNCHANGED <<script, read, handed>> /\ (Stops \/ Stays)
    BY <1>8 DEF ExecuteFails, PutBack, Stops, Stays
  <2> QED
    BY <2>1, StopKeeps
<1>9. CASE ExecuteRefuses
  <2>1. UNCHANGED <<script, read, handed>> /\ Stops
    BY <1>9 DEF ExecuteRefuses, Stops
  <2> QED
    BY <2>1, StopKeeps
<1>10. CASE ExecuteEnds
  <2>1. UNCHANGED <<script, read, handed>> /\ Stays
    BY <1>10 DEF ExecuteEnds, parserVars, Stays
  <2> QED
    BY <2>1, StopKeeps
<1>11. CASE ForceCloseInLoop \/ PeerCloses \/ UNCHANGED vars
  <2>1. UNCHANGED <<script, read, handed, buf, errno, pc>>
    BY <1>11 DEF ForceCloseInLoop, PeerCloses, vars, parserVars
  <2>2. Stays
    BY <2>1 DEF Stays
  <2> QED
    BY <2>1, <2>2, StopKeeps
<1>12. CASE \E n \in 1 .. Len(Stream) : Arrives(n)
  BY <1>12, ArrivesKeeps
<1> QED
  BY <1>1, <1>2, <1>3, <1>4, <1>5, <1>6, <1>7, <1>8, <1>9, <1>10, <1>11, <1>12 DEF Next, LoopStep

(* As many good requests as are handed over come before the first bad one. *)
LEMMA GoodHanded ==
    ASSUME HandedInv PROVE NothingAfterError
<1> DEFINE all == Append(script, [ok |-> FALSE])
           I == {i \in 1 .. Len(all) : ~ all[i].ok}
<1>1. script \in Seq(ClientRequest) /\ AllGood /\ Len(script) \in Nat /\ Len(handed) \in Nat
  BY DEF HandedInv, ParserInv, Layout
<1>2. /\ Len(all) = Len(script) + 1 /\ all[Len(script) + 1] = [ok |-> FALSE]
      /\ \A i \in 1 .. Len(script) : all[i] = script[i]
  <2>1. script \in Seq(ClientRequest \cup {[ok |-> FALSE]})
    BY <1>1, SeqMonotonic, ClientRequest \subseteq ClientRequest \cup {[ok |-> FALSE]}
  <2> DEFINE r == [ok |-> FALSE]
             S == ClientRequest \cup {r}
  <2>2. script \in Seq(S) /\ r \in S
    BY <2>1
  <2> HIDE DEF r, S
  <2>3. /\ Len(Append(script, r)) = Len(script) + 1 /\ Append(script, r)[Len(script) + 1] = r
        /\ \A i \in 1 .. Len(script) : Append(script, r)[i] = script[i]
    BY <2>2, AppendProperties
  <2> QED
    BY <2>3 DEF r
<1>3. GoodRequests = (IF I # {} THEN Min(I) ELSE 0) - 1
  BY DEF GoodRequests, SelectInSeq
<1> HIDE DEF all
<1>4. Len(script) + 1 \in I
  <2>1. Len(script) + 1 \in 1 .. Len(all)
    BY <1>1, <1>2
  <2>2. all[Len(script) + 1].ok = FALSE
    BY <1>2
  <2> QED
    BY <2>1, <2>2
<1>5. I \in SUBSET Nat
  BY <1>1, <1>2
<1>6. \A i \in I : i > Len(handed)
  <2> SUFFICES ASSUME NEW i \in I, i <= Len(handed) PROVE FALSE
    BY <1>1, <1>5
  <2>1. i \in 1 .. Len(handed) /\ i \in 1 .. Len(script)
    BY <1>1, <1>2 DEF AllGood
  <2> QED
    BY <1>1, <1>2, <2>1 DEF AllGood
<1> HIDE DEF I
<1>7. Min(I) \in I
  BY <1>4, <1>5, MinIsLeast
<1>8. GoodRequests = Min(I) - 1 /\ Min(I) > Len(handed) /\ Min(I) \in Nat
  BY <1>3, <1>4, <1>5, <1>6, <1>7
<1> QED
  BY <1>1, <1>8 DEF NothingAfterError

(* For every client, every sequence of requests it may send and every way  *)
(* TCP cuts them: no request that comes behind a malformed one reaches an  *)
(* application, and none is handed over more often than it was sent.  The  *)
(* parser, once in its error state, refuses the rest of the connection,    *)
(* also when HTTPHandler::OnData() puts it back and tries again.           *)
THEOREM NothingAfterBadRequest == Spec => []NothingAfterError
<1>1. Init => HandedInv
  BY HandedInit
<1>2. HandedInv /\ [Next]_vars => HandedInv'
  <2> SUFFICES ASSUME HandedInv, [Next]_vars PROVE HandedInv'
    OBVIOUS
  <2>1. PICK e : ParserInv(e)
    BY DEF HandedInv
  <2>2. ParserInv(e)'
    BY <2>1, HandedNext
  <2> QED
    BY <2>2 DEF HandedInv
<1>3. HandedInv => NothingAfterError
  BY GoodHanded
<1> QED
  BY <1>1, <1>2, <1>3, PTL DEF Spec
=============================================================================
