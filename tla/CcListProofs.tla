---------------------------- MODULE CcListProofs ----------------------------
(***************************************************************************)
(* The linked list is a list, for any number of nodes: the pointers make a *)
(* ring of the allocated nodes, and each call on such a ring is a step of  *)
(* ListSpec.                                                               *)
(***************************************************************************)
EXTENDS CcList, DataLemmas

-----------------------------------------------------------------------------
(* Walks *)

IsPath(g, ptr, n, last) ==
  g = [i \in 0 .. Cardinality(Nodes) |->
        IF i = 0 THEN n ELSE IF g[i - 1] \in Nodes \ {last} THEN ptr[g[i - 1]] ELSE Junk]

\* The recursive definition of a path has a solution, so Path is one.
LEMMA PathSteps ==
  ASSUME NEW ptr, NEW n, NEW last, NEW f, IsPath(f, ptr, n, last)
  PROVE  IsPath(Path(ptr, n, last), ptr, n, last)
<1>1. Path(ptr, n, last) = CHOOSE g : IsPath(g, ptr, n, last)
  BY Zenon DEF Path, IsPath
<1> QED BY <1>1, Zenon

LEMMA CountTo ==
  ASSUME NEW n \in Nat
  PROVE  Cardinality(1 .. n) = n /\ Cardinality(0 .. n - 1) = n
<1>1. 0 \in Int /\ 1 \in Int /\ n \in Int /\ n - 1 \in Int
  OBVIOUS
<1>2. Cardinality(1 .. n) = IF 1 > n THEN 0 ELSE n - 1 + 1
  BY <1>1, FS_Interval
<1>3. Cardinality(0 .. n - 1) = IF 0 > n - 1 THEN 0 ELSE n - 1 - 0 + 1
  BY <1>1, FS_Interval
<1> QED BY <1>2, <1>3

\* No sequence of distinct nodes is longer than there are nodes.
LEMMA NodesSuffice ==
  ASSUME NEW r \in Seq(Nodes), Distinct(r)
  PROVE  Cardinality(Nodes) \in Nat /\ Len(r) \in 0 .. Cardinality(Nodes)
<1>1. IsFiniteSet(Nodes) /\ Cardinality(Nodes) \in Nat /\ Len(r) \in Nat /\ DOMAIN r = 1 .. Len(r)
  BY CcListAssumption, FS_CardinalityType, LenProperties
<1>2. r \in Injection(1 .. Len(r), Nodes)
  <2>1. r \in [1 .. Len(r) -> Nodes]
    BY LenProperties
  <2> QED BY <1>1, <2>1 DEF Distinct, Injection, IsInjective
<1>3. Cardinality(1 .. Len(r)) <= Cardinality(Nodes)
  BY <1>1, <1>2, FS_Injection
<1>4. Cardinality(1 .. Len(r)) = Len(r)
  BY <1>1, CountTo
<1> QED BY <1>1, <1>3, <1>4

\* The pointers lead from n through r to last.
LeadsThrough(ptr, n, r, last) ==
  /\ n = IF Len(r) = 0 THEN last ELSE r[1]
  /\ \A i \in 1 .. Len(r) : r[i] # last /\ ptr[r[i]] = IF i = Len(r) THEN last ELSE r[i + 1]

LEMMA WalkIs ==
  ASSUME NEW ptr, NEW n, NEW last, NEW r \in Seq(Nodes), Distinct(r), LeadsThrough(ptr, n, r, last)
  PROVE  Walk(ptr, n, last) = r
<1>0. /\ n = IF Len(r) = 0 THEN last ELSE r[1]
      /\ \A i \in 1 .. Len(r) : r[i] # last /\ ptr[r[i]] = IF i = Len(r) THEN last ELSE r[i + 1]
  BY Zenon DEF LeadsThrough
<1> DEFINE N == Cardinality(Nodes)
           f == [i \in 0 .. N |-> IF i < Len(r) THEN r[i + 1] ELSE IF i = Len(r) THEN last ELSE Junk]
           p == Path(ptr, n, last)
<1>1. N \in Nat /\ Len(r) \in 0 .. N /\ \A i \in 1 .. Len(r) : r[i] \in Nodes
  BY NodesSuffice, LenProperties
<1>2. Junk \notin Nodes
  BY CcListAssumption
<1> HIDE DEF N
<1>3. \A i \in 0 .. N : f[i] \in Nodes \ {last} <=> i < Len(r)
  BY <1>0, <1>1, <1>2
<1>4. ASSUME NEW i \in 0 .. N
      PROVE  f[i] = IF i = 0 THEN n ELSE IF f[i - 1] \in Nodes \ {last} THEN ptr[f[i - 1]] ELSE Junk
  <2>1. CASE i = 0
    BY <1>0, <1>1, <2>1
  <2>2. CASE i # 0 /\ i - 1 < Len(r)
    <3>1. i - 1 \in 0 .. N /\ i \in 1 .. Len(r) /\ (i - 1) + 1 = i
      BY <1>1, <2>2
    <3>2. f[i - 1] = r[i] /\ f[i - 1] \in Nodes \ {last}
      BY <1>3, <2>2, <3>1
    <3>3. f[i] = IF i = Len(r) THEN last ELSE r[i + 1]
      BY <1>1, <2>2, <3>1
    <3> HIDE DEF f
    <3> QED BY <1>0, <2>2, <3>1, <3>2, <3>3
  <2>3. CASE i # 0 /\ ~ (i - 1 < Len(r))
    <3>1. i - 1 \in 0 .. N /\ f[i] = Junk
      BY <1>1, <2>3
    <3>2. f[i - 1] \notin Nodes \ {last}
      BY <1>3, <2>3, <3>1
    <3> HIDE DEF f
    <3> QED BY <2>3, <3>1, <3>2
  <2> QED BY <2>1, <2>2, <2>3
<1>5. f = [i \in 0 .. N |-> f[i]]
  OBVIOUS
<1> HIDE DEF f
<1>6. IsPath(f, ptr, n, last)
  BY <1>4, <1>5 DEF IsPath, N
<1>7. IsPath(p, ptr, n, last)
  BY <1>6, PathSteps, Zenon
<1> HIDE DEF p
<1>8. p = [i \in 0 .. N |-> IF i = 0 THEN n ELSE IF p[i - 1] \in Nodes \ {last} THEN ptr[p[i - 1]] ELSE Junk]
  BY <1>7, Zenon DEF IsPath, N
<1>9. \A i \in 0 .. N : p[i] = f[i]
  <2> DEFINE Bad == { i \in 0 .. N : p[i] # f[i] }
  <2>1. SUFFICES ASSUME Bad # {} PROVE FALSE
    OBVIOUS
  <2>2. Bad \subseteq Nat
    BY <1>1
  <2>3. PICK m \in Bad : \A i \in Bad : m <= i
    <3> HIDE DEF Bad
    <3> QED BY <2>1, <2>2, LeastExists
  <2>4. m \in 0 .. N /\ p[m] # f[m]
    OBVIOUS
  <2>5. m # 0 => m - 1 \in 0 .. N /\ p[m - 1] = f[m - 1]
    <3>1. m # 0 => m - 1 \in 0 .. N /\ ~ (m <= m - 1)
      BY <1>1, <2>4
    <3>2. m # 0 => m - 1 \notin Bad
      <4> HIDE DEF Bad
      <4> QED BY <2>3, <3>1
    <3> QED BY <3>1, <3>2
  <2>6. p[m] = IF m = 0 THEN n ELSE IF p[m - 1] \in Nodes \ {last} THEN ptr[p[m - 1]] ELSE Junk
    BY <1>8, <2>4
  <2>7. f[m] = IF m = 0 THEN n ELSE IF f[m - 1] \in Nodes \ {last} THEN ptr[f[m - 1]] ELSE Junk
    BY <1>4, <2>4
  <2> QED BY <2>4, <2>5, <2>6, <2>7
<1>10. DOMAIN p = 0 .. N
  BY <1>8
<1>11. { i \in DOMAIN p : p[i] \in Nodes \ {last} } = 0 .. Len(r) - 1
  BY <1>1, <1>3, <1>9, <1>10
<1>12. Cardinality({ i \in DOMAIN p : p[i] \in Nodes \ {last} }) = Len(r)
  <2>1. Cardinality(0 .. Len(r) - 1) = Len(r)
    BY <1>1, CountTo
  <2> QED BY <1>11, <2>1
<1>13. Walk(ptr, n, last) = [i \in 1 .. Len(r) |-> p[i - 1]]
  BY <1>12 DEF Walk, p
<1>14. \A i \in 1 .. Len(r) : p[i - 1] = r[i]
  BY <1>1, <1>9 DEF f
<1>15. r = [i \in 1 .. Len(r) |-> r[i]]
  BY LenProperties
<1> QED BY <1>13, <1>14, <1>15
-----------------------------------------------------------------------------
(* Rings *)

\* The places of a ring.
LEMMA PlacesAre ==
  ASSUME NEW s \in Seq(Nodes), Distinct(s)
  PROVE  /\ Len(s) \in Nat /\ DOMAIN s = 1 .. Len(s)
         /\ NodeAt(s, 0) = HeadNode /\ NodeAt(s, Len(s) + 1) = HeadNode
         /\ \A i \in 1 .. Len(s) : NodeAt(s, i) = s[i] /\ s[i] \in Nodes
         /\ \A i \in 0 .. Len(s) + 1 : NodeAt(s, i) \in Nodes \cup {HeadNode}
         /\ \A i, j \in 0 .. Len(s) : NodeAt(s, i) = NodeAt(s, j) => i = j
         /\ \A i, j \in 1 .. Len(s) + 1 : NodeAt(s, i) = NodeAt(s, j) => i = j
<1>1. /\ Len(s) \in Nat /\ DOMAIN s = 1 .. Len(s)
      /\ \A i \in 1 .. Len(s) : s[i] \in Nodes
  BY LenProperties
<1>2. HeadNode \notin Nodes
  BY CcListAssumption
<1>3. \A i, j \in 1 .. Len(s) : s[i] = s[j] => i = j
  BY <1>1 DEF Distinct
<1>4. \A i \in 1 .. Len(s) : NodeAt(s, i) = s[i]
  BY <1>1 DEF NodeAt
<1>5. \A i : i \notin 1 .. Len(s) => NodeAt(s, i) = HeadNode
  BY <1>1 DEF NodeAt
<1>6. 0 \notin 1 .. Len(s) /\ Len(s) + 1 \notin 1 .. Len(s)
  BY <1>1
<1>7. \A i \in 0 .. Len(s) : i = 0 \/ i \in 1 .. Len(s)
  BY <1>1
<1>8. \A i \in 1 .. Len(s) + 1 : i = Len(s) + 1 \/ i \in 1 .. Len(s)
  BY <1>1
<1>9. \A i, j \in 0 .. Len(s) : NodeAt(s, i) = NodeAt(s, j) => i = j
  BY <1>1, <1>2, <1>3, <1>4, <1>5, <1>6, <1>7
<1>10. \A i, j \in 1 .. Len(s) + 1 : NodeAt(s, i) = NodeAt(s, j) => i = j
  BY <1>1, <1>2, <1>3, <1>4, <1>5, <1>6, <1>8
<1>11. \A i \in 0 .. Len(s) + 1 : NodeAt(s, i) \in Nodes \cup {HeadNode}
  BY <1>1, <1>4, <1>5, Zenon
<1> QED BY <1>1, <1>4, <1>5, <1>6, <1>9, <1>10, <1>11, Zenon

\* From place to place next leads through the nodes between them.
LEMMA WalkBetween ==
  ASSUME NEW ptr, NEW s \in Seq(Nodes), Distinct(s),
         \A i \in 0 .. Len(s) : ptr[NodeAt(s, i)] = NodeAt(s, i + 1),
         NEW from \in 0 .. Len(s), NEW to \in from .. Len(s),
         NEW r \in Seq(Nodes), Len(r) = to - from, \A i \in 1 .. Len(r) : r[i] = s[from + i]
  PROVE  Walk(ptr, NodeAt(s, from + 1), NodeAt(s, to + 1)) = r
<1> DEFINE n    == NodeAt(s, from + 1)
           last == NodeAt(s, to + 1)
<1>1. /\ Len(s) \in Nat /\ DOMAIN s = 1 .. Len(s) /\ DOMAIN r = 1 .. Len(r)
      /\ \A i \in 1 .. Len(s) : NodeAt(s, i) = s[i]
      /\ \A i, j \in 1 .. Len(s) + 1 : NodeAt(s, i) = NodeAt(s, j) => i = j
  BY PlacesAre, LenProperties
<1>2. \A i \in 1 .. Len(r) : from + i \in 1 .. Len(s) /\ from + i < to + 1 /\ r[i] = NodeAt(s, from + i)
  BY <1>1
<1>3. Distinct(r)
  <2>1. ASSUME NEW i \in 1 .. Len(r), NEW j \in 1 .. Len(r), r[i] = r[j] PROVE i = j
    <3>1. from + i \in 1 .. Len(s) + 1 /\ from + j \in 1 .. Len(s) + 1
      BY <1>1, <1>2
    <3>2. from + i = from + j
      BY <1>1, <1>2, <2>1, <3>1
    <3> QED BY <3>2
  <2> QED BY <1>1, <2>1, Zenon DEF Distinct
<1>4. n = IF Len(r) = 0 THEN last ELSE r[1]
  <2>1. CASE Len(r) = 0
    BY <1>1, <2>1
  <2>2. CASE Len(r) # 0
    <3>1. 1 \in 1 .. Len(r)
      BY <1>1, <2>2
    <3> QED BY <1>2, <2>2, <3>1
  <2> QED BY <2>1, <2>2
<1>5. ASSUME NEW i \in 1 .. Len(r)
      PROVE  r[i] # last /\ ptr[r[i]] = IF i = Len(r) THEN last ELSE r[i + 1]
  <2>1. from + i \in 1 .. Len(s) + 1 /\ to + 1 \in 1 .. Len(s) + 1 /\ from + i # to + 1
    BY <1>1, <1>2
  <2>2. r[i] # last
    BY <1>1, <1>2, <2>1
  <2>3. ptr[r[i]] = NodeAt(s, from + i + 1)
    BY <1>1, <1>2
  <2>4. CASE i = Len(r)
    <3>1. from + i + 1 = to + 1
      BY <1>1, <2>4
    <3> QED BY <2>2, <2>3, <2>4, <3>1
  <2>5. CASE i # Len(r)
    <3>1. i + 1 \in 1 .. Len(r) /\ from + i + 1 = from + (i + 1)
      BY <1>1, <2>5
    <3>2. r[i + 1] = NodeAt(s, from + (i + 1))
      BY <1>2, <3>1
    <3> QED BY <2>2, <2>3, <2>5, <3>1, <3>2
  <2> QED BY <2>4, <2>5
<1> HIDE DEF n, last
<1>6. Walk(ptr, n, last) = r
  <2>1. LeadsThrough(ptr, n, r, last)
    BY <1>4, <1>5, Zenon DEF LeadsThrough
  <2> QED BY <1>3, <2>1, WalkIs, Zenon
<1> QED BY <1>6, Zenon DEF n, last

\* All the way around.
LEMMA WalkAround ==
  ASSUME NEW ptr, NEW s \in Seq(Nodes), Distinct(s),
         \A i \in 0 .. Len(s) : ptr[NodeAt(s, i)] = NodeAt(s, i + 1)
  PROVE  Walk(ptr, ptr[HeadNode], HeadNode) = s
<1>1. /\ Len(s) \in Nat /\ NodeAt(s, 0) = HeadNode /\ NodeAt(s, Len(s) + 1) = HeadNode
  BY PlacesAre
<1>2. ptr[HeadNode] = NodeAt(s, 0 + 1)
  BY <1>1
<1>3. 0 \in 0 .. Len(s) /\ Len(s) \in 0 .. Len(s) /\ Len(s) = Len(s) - 0 /\ \A i \in 1 .. Len(s) : s[i] = s[0 + i]
  BY <1>1
<1>4. Walk(ptr, NodeAt(s, 0 + 1), NodeAt(s, Len(s) + 1)) = s
  BY <1>3, WalkBetween, Zenon
<1> QED BY <1>1, <1>2, <1>4

\* And back.
Reversed(s) == [i \in 1 .. Len(s) |-> s[Len(s) + 1 - i]]
LEMMA WalkBack ==
  ASSUME NEW ptr, NEW s \in Seq(Nodes), Distinct(s),
         \A i \in 0 .. Len(s) : ptr[NodeAt(s, i + 1)] = NodeAt(s, i)
  PROVE  Walk(ptr, ptr[HeadNode], HeadNode) = Reversed(s)
<1>1. /\ Len(s) \in Nat /\ DOMAIN s = 1 .. Len(s) /\ \A i \in 1 .. Len(s) : NodeAt(s, i) = s[i] /\ s[i] \in Nodes
      /\ NodeAt(s, 0) = HeadNode /\ NodeAt(s, Len(s) + 1) = HeadNode
      /\ \A i, j \in 0 .. Len(s) : NodeAt(s, i) = NodeAt(s, j) => i = j
  BY PlacesAre
<1> DEFINE r == Reversed(s)
<1>2. /\ r \in Seq(Nodes) /\ Len(r) = Len(s) /\ DOMAIN r = 1 .. Len(s)
      /\ \A i \in 1 .. Len(s) : r[i] = s[Len(s) + 1 - i] /\ Len(s) + 1 - i \in 1 .. Len(s)
  <2>1. \A i \in 1 .. Len(s) : Len(s) + 1 - i \in 1 .. Len(s) /\ s[Len(s) + 1 - i] \in Nodes
    BY <1>1
  <2> QED BY <1>1, <2>1 DEF Reversed
<1> HIDE DEF r
<1>3. \A i \in 1 .. Len(s) : r[i] = NodeAt(s, Len(s) + 1 - i)
  BY <1>1, <1>2
<1>4. \A i \in 0 .. Len(s) + 1 : NodeAt(r, i) = NodeAt(s, Len(s) + 1 - i)
  <2> TAKE i \in 0 .. Len(s) + 1
  <2>1. CASE i \in 1 .. Len(s)
    BY <1>2, <1>3, <2>1 DEF NodeAt
  <2>2. CASE i \notin 1 .. Len(s)
    <3>1. i = 0 \/ i = Len(s) + 1
      BY <1>1, <2>2
    <3>2. NodeAt(r, i) = HeadNode
      BY <1>2, <2>2 DEF NodeAt
    <3>3. NodeAt(s, Len(s) + 1 - i) = HeadNode
      BY <1>1, <3>1
    <3> QED BY <3>2, <3>3
  <2> QED BY <2>1, <2>2
<1>5. Distinct(r)
  <2>1. ASSUME NEW i \in 1 .. Len(s), NEW j \in 1 .. Len(s), r[i] = r[j] PROVE i = j
    <3>1. Len(s) + 1 - i \in 0 .. Len(s) /\ Len(s) + 1 - j \in 0 .. Len(s)
      BY <1>1
    <3>2. NodeAt(s, Len(s) + 1 - i) = NodeAt(s, Len(s) + 1 - j)
      BY <1>3, <2>1
    <3>3. Len(s) + 1 - i = Len(s) + 1 - j
      BY <1>1, <3>1, <3>2, Zenon
    <3> QED BY <1>1, <3>3
  <2> QED BY <1>2, <2>1, Zenon DEF Distinct
<1>6. ASSUME NEW i \in 0 .. Len(r) PROVE ptr[NodeAt(r, i)] = NodeAt(r, i + 1)
  <2>1. /\ i \in 0 .. Len(s) + 1 /\ i + 1 \in 0 .. Len(s) + 1
        /\ Len(s) - i \in 0 .. Len(s) /\ Len(s) + 1 - i = (Len(s) - i) + 1 /\ Len(s) + 1 - (i + 1) = Len(s) - i
    <3>1. Len(s) \in Nat /\ i \in 0 .. Len(s)
      BY <1>1, <1>2
    <3> QED BY <3>1
  <2> QED BY <1>4, <2>1
<1>7. Walk(ptr, ptr[HeadNode], HeadNode) = r
  BY <1>2, <1>5, <1>6, WalkAround, Zenon
<1> QED BY <1>7 DEF r
-----------------------------------------------------------------------------
(* What a call does to the ring *)

\* The nodes of the list, as one sequence.
LEMMA RingIs ==
  ASSUME IInv
  PROVE  \E s \in Seq(Nodes) :
           /\ s = Forward /\ Distinct(s) /\ { s[i] : i \in 1 .. Len(s) } = heap
           /\ \A i \in 0 .. Len(s) :
                next[NodeAt(s, i)] = NodeAt(s, i + 1) /\ prev[NodeAt(s, i + 1)] = NodeAt(s, i)
<1> DEFINE s == Forward
<1>1. s \in Seq(Nodes) /\ Ring(s)
  BY DEF IInv
<1> HIDE DEF s
<1>2. Len(s) \in Nat /\ DOMAIN s = 1 .. Len(s) /\ Distinct(s)
  BY <1>1, LenProperties DEF Ring
<1>3. { s[i] : i \in 1 .. Len(s) } = heap
  BY <1>1, <1>2 DEF Ring
<1>4. \A i \in 0 .. Len(s) :
        next[NodeAt(s, i)] = NodeAt(s, i + 1) /\ prev[NodeAt(s, i + 1)] = NodeAt(s, i)
  BY <1>1, Zenon DEF Ring
<1> QED BY <1>1, <1>2, <1>3, <1>4, Zenon DEF s

\* What a ring becomes is what is walked through.
LEMMA Becomes ==
  ASSUME NEW s \in Seq(Nodes), Stored', Distinct(s), { s[i] : i \in 1 .. Len(s) } = heap',
         \A i \in 0 .. Len(s) :
           next'[NodeAt(s, i)] = NodeAt(s, i + 1) /\ prev'[NodeAt(s, i + 1)] = NodeAt(s, i)
  PROVE  IInv' /\ Forward' = s
<1>1. Len(s) \in Nat /\ DOMAIN s = 1 .. Len(s)
  BY LenProperties
<1>2. \A i \in 0 .. Len(s) : next'[NodeAt(s, i)] = NodeAt(s, i + 1)
  OBVIOUS
<1>3. Walk(next', next'[HeadNode], HeadNode) = s
  BY <1>2, WalkAround, Zenon
<1>4. Forward' = s
  BY <1>3, Zenon DEF Forward, Walk, Path
<1>5. Ring(s)'
  BY <1>1 DEF Ring
<1>6. Ring(Forward)'
  BY <1>4, <1>5, Zenon DEF Ring
<1> QED BY <1>4, <1>6, Zenon DEF IInv

\* What PutIs says of a list of nodes.
LEMMA NodesPut ==
  ASSUME NEW s \in Seq(Nodes), NEW at \in 0 .. Len(s), NEW new \in Nodes
  PROVE  /\ WithPut(s, at, new) \in Seq(Nodes) /\ Len(WithPut(s, at, new)) = Len(s) + 1
         /\ PutPlaces(WithPut(s, at, new), s, at, new)
BY PutIs, Zenon

\* A node is put between two neighbours.
LEMMA PutStep ==
  ASSUME IInv, NEW s \in Seq(Nodes), s = Forward, NEW at \in 0 .. Len(s),
         NEW new \in Nodes \ heap, NEW e \in Elem,
         heap' = heap \cup {new}, data' = [data EXCEPT ![new] = e],
         Splice(new, NodeAt(s, at), NodeAt(s, at + 1))
  PROVE  IInv' /\ Forward' = WithPut(s, at, new)
<1> DEFINE before == NodeAt(s, at)
           after  == NodeAt(s, at + 1)
           t      == WithPut(s, at, new)
           N      == Len(s)
<1>1. /\ Distinct(s) /\ { s[i] : i \in 1 .. Len(s) } = heap
      /\ \A i \in 0 .. Len(s) :
           next[NodeAt(s, i)] = NodeAt(s, i + 1) /\ prev[NodeAt(s, i + 1)] = NodeAt(s, i)
  BY RingIs, Zenon
<1>2. /\ N \in Nat /\ DOMAIN s = 1 .. N
      /\ NodeAt(s, 0) = HeadNode /\ NodeAt(s, N + 1) = HeadNode
      /\ \A i \in 1 .. N : NodeAt(s, i) = s[i] /\ s[i] \in Nodes
      /\ \A i \in 0 .. N + 1 : NodeAt(s, i) \in Nodes \cup {HeadNode}
      /\ \A i, j \in 0 .. N : NodeAt(s, i) = NodeAt(s, j) => i = j
      /\ \A i, j \in 1 .. N + 1 : NodeAt(s, i) = NodeAt(s, j) => i = j
  BY <1>1, PlacesAre, Zenon
<1>3. /\ next' = [next EXCEPT ![new] = after, ![before] = new]
      /\ prev' = [prev EXCEPT ![new] = before, ![after] = new]
  BY Zenon DEF Splice
<1>4. /\ t \in Seq(Nodes) /\ Len(t) = N + 1 /\ PutPlaces(t, s, at, new)
      /\ DOMAIN t = 1 .. N + 1
  <2>1. t \in Seq(Nodes) /\ Len(t) = N + 1 /\ PutPlaces(t, s, at, new)
    <3>1. new \in Nodes
      OBVIOUS
    <3>2. /\ WithPut(s, at, new) \in Seq(Nodes) /\ Len(WithPut(s, at, new)) = Len(s) + 1
          /\ PutPlaces(WithPut(s, at, new), s, at, new)
      BY <3>1, NodesPut, Zenon
    <3> QED BY <3>2, Zenon
  <2> HIDE DEF t
  <2> QED BY <2>1, LenProperties
<1>5. /\ new \in Nodes /\ new # HeadNode
      /\ \A i \in 0 .. N + 1 : NodeAt(s, i) # new
  <2>1. HeadNode \notin Nodes
    BY CcListAssumption
  <2>2. \A i \in 1 .. N : s[i] # new
    BY <1>1
  <2>3. \A i \in 0 .. N + 1 : i = 0 \/ i = N + 1 \/ i \in 1 .. N
    BY <1>2
  <2> QED BY <1>2, <2>1, <2>2, <2>3
<1>6. /\ before \in Nodes \cup {HeadNode} /\ after \in Nodes \cup {HeadNode}
      /\ before # new /\ after # new
  <2>1. at \in 0 .. N + 1 /\ at + 1 \in 0 .. N + 1
    BY <1>2
  <2> QED BY <1>2, <1>5, <2>1
<1> HIDE DEF before, after, t, N
<1>7. \A x \in Nodes \cup {HeadNode} :
        /\ next'[x] = IF x = before THEN new ELSE IF x = new THEN after ELSE next[x]
        /\ prev'[x] = IF x = after THEN new ELSE IF x = new THEN before ELSE prev[x]
  BY <1>3, <1>5, <1>6 DEF IInv, Stored
\* The places of t are those of s up to the new one, and then one further on.
<1>8. /\ \A i \in 0 .. at : NodeAt(t, i) = NodeAt(s, i)
      /\ NodeAt(t, at + 1) = new
      /\ \A i \in at + 2 .. N + 2 : NodeAt(t, i) = NodeAt(s, i - 1)
  <2>0. at \in 0 .. N
    BY DEF N
  <2>1. \A i \in 1 .. N + 1 : t[i] = IF i <= at THEN s[i] ELSE IF i = at + 1 THEN new ELSE s[i - 1]
    BY <1>4, Zenon DEF PutPlaces, N
  <2>2. ASSUME NEW i \in 0 .. at PROVE NodeAt(t, i) = NodeAt(s, i)
    <3>1. CASE i = 0
      <4>1. i \notin 1 .. N + 1 /\ i \notin 1 .. N
        BY <1>2, <3>1
      <4> QED BY <1>2, <1>4, <4>1, Zenon DEF NodeAt
    <3>2. CASE i # 0
      <4>1. i \in 1 .. N + 1 /\ i \in 1 .. N /\ i <= at
        BY <1>2, <2>0, <3>2
      <4>2. t[i] = s[i]
        BY <2>1, <4>1
      <4> QED BY <1>2, <1>4, <4>1, <4>2, Zenon DEF NodeAt
    <3> QED BY <3>1, <3>2
  <2>3. NodeAt(t, at + 1) = new
    <3>1. at + 1 \in 1 .. N + 1 /\ ~ (at + 1 <= at)
      BY <1>2, <2>0
    <3> QED BY <1>4, <2>1, <3>1 DEF NodeAt
  <2>4. ASSUME NEW i \in at + 2 .. N + 2 PROVE NodeAt(t, i) = NodeAt(s, i - 1)
    <3>1. CASE i = N + 2
      <4>1. i \notin 1 .. N + 1 /\ i - 1 \notin 1 .. N
        BY <1>2, <3>1
      <4>2. NodeAt(t, i) = HeadNode /\ NodeAt(s, i - 1) = HeadNode
        BY <1>2, <1>4, <4>1 DEF NodeAt
      <4> QED BY <4>2
    <3>2. CASE i # N + 2
      <4>1. i \in 1 .. N + 1 /\ i - 1 \in 1 .. N /\ ~ (i <= at) /\ i # at + 1
        BY <1>2, <2>0, <3>2
      <4>2. t[i] = s[i - 1]
        BY <2>1, <4>1
      <4> QED BY <1>2, <1>4, <4>1, <4>2, Zenon DEF NodeAt
    <3> QED BY <3>1, <3>2
  <2> QED BY <2>2, <2>3, <2>4
<1>9. ASSUME NEW i \in 0 .. Len(t)
      PROVE  next'[NodeAt(t, i)] = NodeAt(t, i + 1) /\ prev'[NodeAt(t, i + 1)] = NodeAt(t, i)
  <2>0. at \in 0 .. N /\ i \in 0 .. N + 1 /\ before = NodeAt(s, at) /\ after = NodeAt(s, at + 1)
    BY <1>4 DEF N, before, after
  <2>1. CASE i < at
    <3>1. i \in 0 .. at /\ i + 1 \in 0 .. at /\ i \in 0 .. N /\ i + 1 \in 0 .. N
          /\ i + 1 \in 1 .. N + 1 /\ at + 1 \in 1 .. N + 1 /\ i # at /\ i + 1 # at + 1
      BY <1>2, <2>0, <2>1
    <3>2. NodeAt(t, i) = NodeAt(s, i) /\ NodeAt(t, i + 1) = NodeAt(s, i + 1)
      BY <1>8, <3>1, Zenon
    <3>3. NodeAt(s, i) # before /\ NodeAt(s, i + 1) # after
      BY <1>2, <2>0, <3>1, Zenon
    <3>4. i \in 0 .. N + 1 /\ i + 1 \in 0 .. N + 1
      BY <1>2, <3>1
    <3>5. /\ NodeAt(s, i) \in Nodes \cup {HeadNode} /\ NodeAt(s, i) # new
          /\ NodeAt(s, i + 1) \in Nodes \cup {HeadNode} /\ NodeAt(s, i + 1) # new
      BY <1>2, <1>5, <3>4, Zenon
    <3>6. next[NodeAt(s, i)] = NodeAt(s, i + 1) /\ prev[NodeAt(s, i + 1)] = NodeAt(s, i)
      BY <1>1, <3>1 DEF N
    <3> QED BY <1>7, <3>2, <3>3, <3>5, <3>6
  <2>2. CASE i = at
    <3>1. NodeAt(t, i) = before /\ NodeAt(t, i + 1) = new
      BY <1>8, <2>0, <2>2
    <3> QED BY <1>5, <1>6, <1>7, <3>1
  <2>3. CASE i = at + 1
    <3>1. NodeAt(t, i) = new /\ i + 1 \in at + 2 .. N + 2 /\ (i + 1) - 1 = at + 1
      BY <1>2, <1>8, <2>0, <2>3
    <3>2. NodeAt(t, i + 1) = after
      BY <1>8, <2>0, <3>1
    <3> QED BY <1>5, <1>6, <1>7, <3>1, <3>2
  <2>4. CASE i > at + 1
    <3>1. i \in at + 2 .. N + 2 /\ i + 1 \in at + 2 .. N + 2 /\ (i + 1) - 1 = i
          /\ i - 1 \in 0 .. N /\ at \in 0 .. N /\ i - 1 # at /\ i \in 1 .. N + 1 /\ at + 1 \in 1 .. N + 1
          /\ i # at + 1 /\ (i - 1) + 1 = i /\ i - 1 \in 0 .. N + 1 /\ i \in 0 .. N + 1
      BY <1>2, <2>0, <2>4
    <3>2. NodeAt(t, i) = NodeAt(s, i - 1) /\ NodeAt(t, i + 1) = NodeAt(s, i)
      BY <1>8, <3>1
    <3>3. NodeAt(s, i - 1) # before /\ NodeAt(s, i) # after
      BY <1>2, <2>0, <3>1, Zenon
    <3>4. /\ NodeAt(s, i - 1) \in Nodes \cup {HeadNode} /\ NodeAt(s, i - 1) # new
          /\ NodeAt(s, i) \in Nodes \cup {HeadNode} /\ NodeAt(s, i) # new
      BY <1>2, <1>5, <3>1, Zenon
    <3>5. next[NodeAt(s, i - 1)] = NodeAt(s, i) /\ prev[NodeAt(s, i)] = NodeAt(s, i - 1)
      BY <1>1, <3>1 DEF N
    <3> QED BY <1>7, <3>2, <3>3, <3>4, <3>5
  <2> QED BY <1>2, <2>0, <2>1, <2>2, <2>3, <2>4
<1>10. Distinct(t) /\ { t[i] : i \in 1 .. Len(t) } = heap'
  <2>0. at \in 0 .. N
    BY DEF N
  <2>1. \A i \in 1 .. N + 1 : t[i] = IF i <= at THEN s[i] ELSE IF i = at + 1 THEN new ELSE s[i - 1]
    BY <1>4, Zenon DEF PutPlaces, N
  <2>2. \A i \in 1 .. N : s[i] # new /\ s[i] \in heap
    BY <1>1 DEF N
  <2>3. \A i, j \in 1 .. N : s[i] = s[j] => i = j
    BY <1>1, <1>2, Zenon DEF Distinct
  <2>4. \A i \in 1 .. N + 1 : i # at + 1 =>
          \E k \in 1 .. N : t[i] = s[k] /\ k = IF i <= at THEN i ELSE i - 1
    BY <1>2, <2>0, <2>1
  <2>5. t[at + 1] = new /\ at + 1 \in 1 .. N + 1
    BY <1>2, <2>0, <2>1
  <2>6. ASSUME NEW i \in 1 .. N + 1, NEW j \in 1 .. N + 1, t[i] = t[j] PROVE i = j
    <3>1. CASE i = at + 1 \/ j = at + 1
      BY <2>2, <2>4, <2>5, <2>6, <3>1
    <3>2. CASE i # at + 1 /\ j # at + 1
      BY <1>2, <2>0, <2>3, <2>4, <2>6, <3>2
    <3> QED BY <3>1, <3>2
  <2>7. \A k \in 1 .. N : \E i \in 1 .. N + 1 : t[i] = s[k]
    <3> TAKE k \in 1 .. N
    <3>1. CASE k <= at
      BY <1>2, <2>0, <2>1, <3>1
    <3>2. CASE ~ (k <= at)
      <4>1. k + 1 \in 1 .. N + 1 /\ t[k + 1] = s[k]
        BY <1>2, <2>0, <2>1, <3>2
      <4> QED BY <4>1
    <3> QED BY <3>1, <3>2
  <2>8. heap = { s[k] : k \in 1 .. N }
    BY <1>1 DEF N
  <2>9. { t[i] : i \in 1 .. N + 1 } \subseteq heap \cup {new}
    BY <2>2, <2>4, <2>5
  <2>10. heap \cup {new} \subseteq { t[i] : i \in 1 .. N + 1 }
    BY <2>5, <2>7, <2>8
  <2> QED BY <1>4, <2>6, <2>9, <2>10 DEF Distinct
<1>11. Stored'
  <2>1. next' \in [Nodes \cup {HeadNode} -> Nodes \cup {HeadNode, Junk}]
    BY <1>3, <1>5, <1>6 DEF IInv, Stored
  <2>2. prev' \in [Nodes \cup {HeadNode} -> Nodes \cup {HeadNode, Junk}]
    BY <1>3, <1>5, <1>6 DEF IInv, Stored
  <2>3. heap' \subseteq Nodes /\ data' \in [Nodes -> Elem \cup {Junk}] /\ \A n \in heap' : data'[n] \in Elem
    BY <1>5 DEF IInv, Stored
  <2> QED BY <2>1, <2>2, <2>3, Zenon DEF Stored
<1>12. IInv' /\ Forward' = t
  BY <1>4, <1>9, <1>10, <1>11, Becomes, Zenon
<1> QED BY <1>12, Zenon DEF t
\* The nodes between two places are taken out.
LEMMA CutStep ==
  ASSUME IInv, NEW s \in Seq(Nodes), s = Forward, NEW from \in 0 .. Len(s), NEW to \in from .. Len(s),
         NEW gone, gone = { s[i] : i \in from + 1 .. to },
         heap' = heap \ gone, data' = Cleared(data, gone),
         next' = Cleared([next EXCEPT ![NodeAt(s, from)] = NodeAt(s, to + 1)], gone),
         prev' = Cleared([prev EXCEPT ![NodeAt(s, to + 1)] = NodeAt(s, from)], gone)
  PROVE  IInv' /\ Forward' = WithoutRange(s, from, to - from)
<1> DEFINE before == NodeAt(s, from)
           after  == NodeAt(s, to + 1)
           n      == to - from
           t      == WithoutRange(s, from, n)
           N      == Len(s)
           Old(i) == IF i <= from THEN i ELSE i + n
<1>1. /\ Distinct(s) /\ { s[i] : i \in 1 .. Len(s) } = heap
      /\ \A i \in 0 .. Len(s) :
           next[NodeAt(s, i)] = NodeAt(s, i + 1) /\ prev[NodeAt(s, i + 1)] = NodeAt(s, i)
  BY RingIs, Zenon
<1>2. /\ N \in Nat /\ DOMAIN s = 1 .. N
      /\ NodeAt(s, 0) = HeadNode /\ NodeAt(s, N + 1) = HeadNode
      /\ \A i \in 1 .. N : NodeAt(s, i) = s[i] /\ s[i] \in Nodes
      /\ \A i \in 0 .. N + 1 : NodeAt(s, i) \in Nodes \cup {HeadNode}
      /\ \A i, j \in 0 .. N : NodeAt(s, i) = NodeAt(s, j) => i = j
      /\ \A i, j \in 1 .. N + 1 : NodeAt(s, i) = NodeAt(s, j) => i = j
  BY <1>1, PlacesAre, Zenon
<1>3. /\ n \in 0 .. N - from /\ n \in Nat /\ from \in Nat /\ to \in Nat /\ N \in Nat
      /\ from \in 0 .. N /\ to \in 0 .. N /\ to = from + n
  BY <1>2
<1>4. /\ t \in Seq(Nodes) /\ Len(t) = N - n /\ CutPlaces(t, s, from, n) /\ DOMAIN t = 1 .. N - n
  <2>1. n \in 0 .. Len(s) - from
    BY <1>3
  <2> HIDE DEF n
  <2>2. /\ WithoutRange(s, from, n) \in Seq(Nodes) /\ Len(WithoutRange(s, from, n)) = Len(s) - n
        /\ CutPlaces(WithoutRange(s, from, n), s, from, n)
    BY <2>1, CutIs, Zenon
  <2>3. t \in Seq(Nodes) /\ Len(t) = N - n /\ CutPlaces(t, s, from, n)
    BY <2>2
  <2> HIDE DEF t
  <2> QED BY <2>3, LenProperties
<1>5. before \in Nodes \cup {HeadNode} /\ after \in Nodes \cup {HeadNode}
  <2>1. from \in 0 .. N + 1 /\ to + 1 \in 0 .. N + 1
    BY <1>3
  <2> QED BY <1>2, <2>1
<1> HIDE DEF before, after, t, n, N
<1>6. \A x \in (Nodes \cup {HeadNode}) \ gone :
        /\ next'[x] = IF x = before THEN after ELSE next[x]
        /\ prev'[x] = IF x = after THEN before ELSE prev[x]
  BY <1>5 DEF IInv, Stored, Cleared, before, after
\* The places that are left, and where they were.
<1>7. \A i \in 0 .. N - n + 1 :
        /\ Old(i) \in 0 .. N + 1 /\ Old(i) \notin from + 1 .. to
        /\ i <= N - n => Old(i) \in 0 .. N
        /\ i >= 1 => Old(i) \in 1 .. N + 1
        /\ i \in 1 .. N - n <=> Old(i) \in 1 .. N
  BY <1>3
<1>8. /\ Old(from) = from /\ Old(from + 1) = to + 1
      /\ \A i \in 0 .. N - n : i # from => Old(i) # from /\ Old(i + 1) # to + 1 /\ Old(i + 1) = Old(i) + 1
  BY <1>3
<1>9. \A i, j \in 0 .. N - n + 1 : Old(i) = Old(j) => i = j
  BY <1>3
<1>10. ASSUME NEW i \in 1 .. N - n PROVE t[i] = s[Old(i)] /\ Old(i) \in 1 .. N
  <2>1. t[i] = IF i <= from THEN s[i] ELSE s[i + n]
    BY <1>4, Zenon DEF CutPlaces, N
  <2>2. Old(i) \in 1 .. N
    BY <1>3
  <2> QED BY <2>1, <2>2
<1> HIDE DEF Old
<1>11. \A i \in 0 .. N - n + 1 : NodeAt(t, i) = NodeAt(s, Old(i))
  <2> TAKE i \in 0 .. N - n + 1
  <2>1. CASE i \in 1 .. N - n
    BY <1>2, <1>4, <1>10, <2>1, Zenon DEF NodeAt
  <2>2. CASE i \notin 1 .. N - n
    <3>1. Old(i) \notin 1 .. N
      BY <1>7, <2>2, Zenon
    <3> QED BY <1>2, <1>4, <2>2, <3>1, Zenon DEF NodeAt
  <2> QED BY <2>1, <2>2
<1>12. \A i \in 0 .. N + 1 : i \notin from + 1 .. to => NodeAt(s, i) \notin gone
  <2> TAKE i \in 0 .. N + 1
  <2> HAVE i \notin from + 1 .. to
  <2>1. \A k \in from + 1 .. to : k \in 1 .. N /\ k \in 0 .. N /\ s[k] = NodeAt(s, k) /\ s[k] # HeadNode
    <3>1. HeadNode \notin Nodes
      BY CcListAssumption
    <3>2. \A k \in from + 1 .. to : k \in 1 .. N /\ k \in 0 .. N
      BY <1>3
    <3>3. \A k \in 1 .. N : s[k] = NodeAt(s, k) /\ s[k] \in Nodes
      BY <1>2, Zenon
    <3>4. \A k \in 1 .. N : s[k] # HeadNode
      BY <3>1, <3>3, Zenon
    <3> QED BY <3>2, <3>3, <3>4, Zenon
  <2>2. CASE i = N + 1
    <3>1. NodeAt(s, i) = HeadNode
      BY <1>2, <2>2, Zenon
    <3> QED BY <2>1, <3>1, Zenon
  <2>3. CASE i # N + 1
    <3>1. i \in 0 .. N
      BY <1>3, <2>3
    <3>2. \A k \in from + 1 .. to : s[k] # NodeAt(s, i)
      BY <1>2, <2>1, <3>1, Zenon
    <3> QED BY <3>2, Zenon
  <2> QED BY <2>2, <2>3
<1>13. ASSUME NEW i \in 0 .. Len(t)
       PROVE  next'[NodeAt(t, i)] = NodeAt(t, i + 1) /\ prev'[NodeAt(t, i + 1)] = NodeAt(t, i)
  <2>0. i \in 0 .. N - n /\ i \in 0 .. N - n + 1 /\ i + 1 \in 0 .. N - n + 1 /\ i <= N - n /\ i + 1 >= 1
    BY <1>3, <1>4
  <2>1. NodeAt(t, i) = NodeAt(s, Old(i)) /\ NodeAt(t, i + 1) = NodeAt(s, Old(i + 1))
    BY <1>11, <2>0, Zenon
  <2>2. Old(i) \in 0 .. N /\ Old(i + 1) \in 1 .. N + 1
    BY <1>7, <2>0, Zenon
  <2>3. /\ NodeAt(s, Old(i)) \in (Nodes \cup {HeadNode}) \ gone
        /\ NodeAt(s, Old(i + 1)) \in (Nodes \cup {HeadNode}) \ gone
    <3>1. Old(i) \in 0 .. N + 1 /\ Old(i) \notin from + 1 .. to
          /\ Old(i + 1) \in 0 .. N + 1 /\ Old(i + 1) \notin from + 1 .. to
      BY <1>7, <2>0, Zenon
    <3> QED BY <1>2, <1>12, <3>1, Zenon
  <2>4. /\ next'[NodeAt(s, Old(i))] = IF NodeAt(s, Old(i)) = before THEN after ELSE next[NodeAt(s, Old(i))]
        /\ prev'[NodeAt(s, Old(i + 1))] =
             IF NodeAt(s, Old(i + 1)) = after THEN before ELSE prev[NodeAt(s, Old(i + 1))]
    BY <1>6, <2>3, Zenon
  <2>5. CASE i = from
    BY <1>8, <2>1, <2>4, <2>5 DEF before, after
  <2>6. CASE i # from
    <3>1. Old(i) # from /\ Old(i + 1) # to + 1 /\ Old(i + 1) = Old(i) + 1
      BY <1>8, <2>0, <2>6, Zenon
    <3>2. from \in 0 .. N /\ to + 1 \in 1 .. N + 1
      BY <1>3
    <3>3. NodeAt(s, Old(i)) # before /\ NodeAt(s, Old(i + 1)) # after
      BY <1>2, <2>2, <3>1, <3>2, Zenon DEF before, after
    <3>4. next[NodeAt(s, Old(i))] = NodeAt(s, Old(i) + 1) /\ prev[NodeAt(s, Old(i) + 1)] = NodeAt(s, Old(i))
      BY <1>1, <2>2, Zenon DEF N
    <3> QED BY <2>1, <2>4, <3>1, <3>3, <3>4
  <2> QED BY <2>5, <2>6
<1>14. Distinct(t) /\ { t[i] : i \in 1 .. Len(t) } = heap'
  <2>1. \A i, j \in 1 .. N : s[i] = s[j] => i = j
    BY <1>1, <1>2, Zenon DEF Distinct
  <2>2. \A i \in 1 .. N - n : i \in 0 .. N - n + 1
    BY <1>3
  <2>3. ASSUME NEW i \in 1 .. N - n, NEW j \in 1 .. N - n, t[i] = t[j] PROVE i = j
    BY <1>9, <1>10, <2>1, <2>2, <2>3, Zenon
  <2>4. \A i \in 1 .. N - n : t[i] \in heap \ gone
    <3> TAKE i \in 1 .. N - n
    <3>1. t[i] = s[Old(i)] /\ Old(i) \in 1 .. N
      BY <1>10
    <3>2. Old(i) \notin from + 1 .. to /\ Old(i) \in 0 .. N + 1
      BY <1>7, <2>2, Zenon
    <3>3. s[Old(i)] \notin gone
      BY <1>2, <1>12, <3>1, <3>2, Zenon
    <3> QED BY <1>1, <3>1, <3>3 DEF N
  <2>5. \A x \in heap \ gone : \E i \in 1 .. N - n : t[i] = x
    <3> TAKE x \in heap \ gone
    <3>1. PICK k \in 1 .. N : x = s[k]
      BY <1>1 DEF N
    <3>2. k \notin from + 1 .. to
      BY <3>1
    <3>3. CASE k <= from
      <4>1. k \in 1 .. N - n /\ Old(k) = k
        BY <1>3, <3>3 DEF Old
      <4> QED BY <1>10, <3>1, <4>1
    <3>4. CASE ~ (k <= from)
      <4>1. k - n \in 1 .. N - n /\ Old(k - n) = k
        BY <1>3, <3>2, <3>4 DEF Old
      <4> QED BY <1>10, <3>1, <4>1
    <3> QED BY <3>3, <3>4
  <2>6. { t[i] : i \in 1 .. N - n } = heap \ gone
    BY <2>4, <2>5
  <2> QED BY <1>4, <2>3, <2>6, Zenon DEF Distinct
<1>15. Stored'
  <2>1. next' \in [Nodes \cup {HeadNode} -> Nodes \cup {HeadNode, Junk}]
    BY <1>5 DEF IInv, Stored, Cleared, before, after
  <2>2. prev' \in [Nodes \cup {HeadNode} -> Nodes \cup {HeadNode, Junk}]
    BY <1>5 DEF IInv, Stored, Cleared, before, after
  <2>3. heap' \subseteq Nodes /\ data' \in [Nodes -> Elem \cup {Junk}] /\ \A x \in heap' : data'[x] \in Elem
    BY DEF IInv, Stored, Cleared
  <2> QED BY <2>1, <2>2, <2>3, Zenon DEF Stored
<1>16. IInv' /\ Forward' = t
  BY <1>4, <1>13, <1>14, <1>15, Becomes, Zenon
<1> QED BY <1>16, Zenon DEF t, n
-----------------------------------------------------------------------------
(* The calls *)

\* What is needed of the nodes of the list.
Listed(s) ==
  /\ s \in Seq(Nodes) /\ s = Forward
  /\ Len(s) \in Nat /\ DOMAIN s = 1 .. Len(s)
  /\ Distinct(s) /\ { s[i] : i \in 1 .. Len(s) } = heap
  /\ \A i \in 0 .. Len(s) :
       next[NodeAt(s, i)] = NodeAt(s, i + 1) /\ prev[NodeAt(s, i + 1)] = NodeAt(s, i)
  /\ NodeAt(s, 0) = HeadNode /\ NodeAt(s, Len(s) + 1) = HeadNode
  /\ \A i \in 1 .. Len(s) : NodeAt(s, i) = s[i] /\ s[i] \in Nodes /\ s[i] # HeadNode
  /\ \A at \in 0 .. Len(s) : Iter(at) = NodeAt(s, at + 1)

LEMMA ListedIs ==
  ASSUME IInv
  PROVE  \E s : Listed(s)
<1>1. PICK s \in Seq(Nodes) :
        /\ s = Forward /\ Distinct(s) /\ { s[i] : i \in 1 .. Len(s) } = heap
        /\ \A i \in 0 .. Len(s) :
             next[NodeAt(s, i)] = NodeAt(s, i + 1) /\ prev[NodeAt(s, i + 1)] = NodeAt(s, i)
  BY RingIs, Zenon
<1>2. /\ Len(s) \in Nat /\ DOMAIN s = 1 .. Len(s)
      /\ NodeAt(s, 0) = HeadNode /\ NodeAt(s, Len(s) + 1) = HeadNode
      /\ \A i \in 1 .. Len(s) : NodeAt(s, i) = s[i] /\ s[i] \in Nodes
  BY <1>1, PlacesAre, Zenon
<1>3. \A i \in 1 .. Len(s) : s[i] # HeadNode
  BY <1>2, CcListAssumption
<1>4. \A at \in 0 .. Len(s) : Iter(at) = NodeAt(s, at + 1)
  <2> TAKE at \in 0 .. Len(s)
  <2>1. CASE at = Len(s)
    BY <1>1, <1>2, <2>1 DEF Iter
  <2>2. CASE at # Len(s)
    <3>0. Len(s) \in Nat
      BY <1>2
    <3>1. at + 1 \in 1 .. Len(s)
      BY <2>2, <3>0
    <3> QED BY <1>1, <1>2, <2>2, <3>1 DEF Iter
  <2> QED BY <2>1, <2>2
<1>5. Listed(s)
  BY <1>1, <1>2, <1>3, <1>4 DEF Listed
<1> QED BY <1>5

\* A call that adds puts one node with its element somewhere ...
Grew(s) ==
  \E op \in List!Puts, at \in 0 .. Len(s), new \in Nodes \ heap, e \in Elem :
    /\ Forward' = WithPut(s, at, new)
    /\ heap' = heap \cup {new} /\ data' = [data EXCEPT ![new] = e]
    /\ call' = List!Call(op, at, 1, e)
    /\ op = "push_front" => at = 0
    /\ op = "push_back" => at = Len(s)

\* ... and one that removes takes out what lies between two places.
Shrank(s) ==
  \E op \in List!Takes, from \in 0 .. Len(s) : \E to \in from .. Len(s) :
    /\ Forward' = WithoutRange(s, from, to - from)
    /\ heap' = heap \ { s[i] : i \in from + 1 .. to }
    /\ data' = Cleared(data, { s[i] : i \in from + 1 .. to })
    /\ call' = List!Call(op, from, to - from, NoElem)
    /\ op = "pop_front" => from = 0
    /\ op = "pop_back" => from = Len(s) - 1

LEMMA PutGrows ==
  ASSUME IInv, NEW s, Listed(s), NEW op \in List!Puts, NEW at \in 0 .. Len(s), NEW before, NEW after,
         before = NodeAt(s, at), after = NodeAt(s, at + 1),
         op = "push_front" => at = 0, op = "push_back" => at = Len(s),
         Put(op, at, before, after)
  PROVE  IInv' /\ Grew(s)
<1>1. PICK new \in Nodes \ heap, e \in Elem :
        /\ heap' = heap \cup {new} /\ data' = [data EXCEPT ![new] = e]
        /\ Splice(new, before, after) /\ call' = List!Call(op, at, 1, e)
  BY Zenon DEF Put, Called
<1>2. s \in Seq(Nodes) /\ s = Forward
  BY Zenon DEF Listed
<1>3. IInv' /\ Forward' = WithPut(s, at, new)
  BY <1>1, <1>2, PutStep, Zenon
<1> QED BY <1>1, <1>3, Zenon DEF Grew

LEMMA PutsGrow ==
  ASSUME IInv, NEW s, Listed(s), PushBack \/ PushFront \/ Insert \/ InsertAfter
  PROVE  IInv' /\ Grew(s)
<1>1. /\ Len(s) \in Nat /\ Len(Forward) = Len(s) /\ Places = 0 .. Len(s)
      /\ NodeAt(s, 0) = HeadNode /\ NodeAt(s, Len(s) + 1) = HeadNode
      /\ \A at \in 0 .. Len(s) : Iter(at) = NodeAt(s, at + 1)
  BY DEF Listed, Places
<1>2. \A i \in 0 .. Len(s) :
        next[NodeAt(s, i)] = NodeAt(s, i + 1) /\ prev[NodeAt(s, i + 1)] = NodeAt(s, i)
  BY Zenon DEF Listed
<1>3. {"push_back", "push_front", "insert"} \subseteq List!Puts
  BY DEF List!Puts
<1>4. CASE PushBack
  <2>1. /\ prev[HeadNode] = NodeAt(s, Len(s)) /\ HeadNode = NodeAt(s, Len(s) + 1)
        /\ Len(s) \in 0 .. Len(s)
    BY <1>1, <1>2
  <2>2. Put("push_back", Len(s), prev[HeadNode], HeadNode)
    BY <1>1, <1>4 DEF PushBack
  <2> QED BY <1>3, <2>1, <2>2, PutGrows
<1>5. CASE PushFront
  <2>1. HeadNode = NodeAt(s, 0) /\ next[HeadNode] = NodeAt(s, 0 + 1) /\ 0 \in 0 .. Len(s)
    BY <1>1, <1>2
  <2>2. Put("push_front", 0, HeadNode, next[HeadNode])
    BY <1>5 DEF PushFront
  <2> QED BY <1>3, <2>1, <2>2, PutGrows
<1>6. CASE Insert
  <2>1. PICK at \in 0 .. Len(s) : Put("insert", at, prev[Iter(at)], Iter(at))
    BY <1>1, <1>6 DEF Insert
  <2>2. Iter(at) = NodeAt(s, at + 1) /\ prev[Iter(at)] = NodeAt(s, at)
    BY <1>1, <1>2
  <2> QED BY <1>3, <2>1, <2>2, PutGrows
<1>7. CASE InsertAfter
  <2>1. PICK at \in 0 .. Len(s) :
          Put("insert", IF Iter(at) = HeadNode THEN 0 ELSE at + 1, prev[next[Iter(at)]], next[Iter(at)])
    BY <1>1, <1>7 DEF InsertAfter
  <2> DEFINE place == IF Iter(at) = HeadNode THEN 0 ELSE at + 1
  <2>2. place \in 0 .. Len(s) /\ Iter(at) = NodeAt(s, place)
    <3>1. CASE Iter(at) = HeadNode
      BY <1>1, <3>1
    <3>2. CASE Iter(at) # HeadNode
      <4>1. at # Len(s)
        BY <1>1, <3>2
      <4> QED BY <1>1, <3>2, <4>1
    <3> QED BY <3>1, <3>2
  <2>3. Put("insert", place, prev[next[Iter(at)]], next[Iter(at)])
    BY <2>1
  <2> HIDE DEF place
  <2>4. next[Iter(at)] = NodeAt(s, place + 1) /\ prev[next[Iter(at)]] = NodeAt(s, place)
    BY <1>2, <2>2
  <2> QED BY <1>3, <2>2, <2>3, <2>4, PutGrows
<1> QED BY <1>4, <1>5, <1>6, <1>7

LEMMA CutShrinks ==
  ASSUME IInv, NEW s, Listed(s), NEW op \in List!Takes, NEW from \in 0 .. Len(s), NEW to \in from .. Len(s),
         NEW gone, gone = { s[i] : i \in from + 1 .. to },
         op = "pop_front" => from = 0, op = "pop_back" => from = Len(s) - 1,
         heap' = heap \ gone, data' = Cleared(data, gone),
         next' = Cleared([next EXCEPT ![NodeAt(s, from)] = NodeAt(s, to + 1)], gone),
         prev' = Cleared([prev EXCEPT ![NodeAt(s, to + 1)] = NodeAt(s, from)], gone),
         call' = List!Call(op, from, to - from, NoElem)
  PROVE  IInv' /\ Shrank(s)
<1>1. s \in Seq(Nodes) /\ s = Forward
  BY Zenon DEF Listed
<1>2. IInv' /\ Forward' = WithoutRange(s, from, to - from)
  BY <1>1, CutStep, Zenon
<1> QED BY <1>2, Zenon DEF Shrank

\* One node goes.
LEMMA NodeShrinks ==
  ASSUME IInv, NEW s, Listed(s), NEW op \in List!Takes, NEW at \in 0 .. Len(s), at # Len(s),
         NEW n, n = NodeAt(s, at + 1),
         op = "pop_front" => at = 0, op = "pop_back" => at = Len(s) - 1,
         RemoveNode(n), Called(op, at, 1, NoElem)
  PROVE  IInv' /\ Shrank(s)
<1>1. /\ Len(s) \in Nat /\ \A i \in 1 .. Len(s) : NodeAt(s, i) = s[i]
      /\ \A i \in 0 .. Len(s) :
           next[NodeAt(s, i)] = NodeAt(s, i + 1) /\ prev[NodeAt(s, i + 1)] = NodeAt(s, i)
  BY Zenon DEF Listed
<1>2. /\ at + 1 \in at .. Len(s) /\ at + 1 \in 1 .. Len(s) /\ at + 1 \in 0 .. Len(s)
      /\ (at + 1) - at = 1 /\ at + 1 .. at + 1 = {at + 1}
  BY <1>1
<1>3. {n} = { s[i] : i \in at + 1 .. at + 1 }
  BY <1>1, <1>2
<1>4. next[n] = NodeAt(s, (at + 1) + 1) /\ prev[n] = NodeAt(s, at)
  BY <1>1, <1>2
<1>5. /\ heap' = heap \ {n} /\ data' = Cleared(data, {n})
      /\ next' = Cleared([next EXCEPT ![NodeAt(s, at)] = NodeAt(s, (at + 1) + 1)], {n})
      /\ prev' = Cleared([prev EXCEPT ![NodeAt(s, (at + 1) + 1)] = NodeAt(s, at)], {n})
  BY <1>4 DEF RemoveNode, Free
<1>6. call' = List!Call(op, at, (at + 1) - at, NoElem)
  BY <1>2 DEF Called
<1> QED BY <1>2, <1>3, <1>5, <1>6, CutShrinks
\* What from and to name are the nodes between them.
LEMMA RangeIs ==
  ASSUME NEW s, Listed(s), NEW from \in 0 .. Len(s), NEW to \in from .. Len(s)
  PROVE  \E r \in Seq(Nodes) :
           /\ r = Walk(next, Iter(from), Iter(to))
           /\ Len(r) = to - from /\ DOMAIN r = 1 .. to - from
           /\ \A i \in 1 .. to - from : r[i] = s[from + i]
<1>1. /\ s \in Seq(Nodes) /\ Len(s) \in Nat /\ Distinct(s)
      /\ \A i \in 0 .. Len(s) : next[NodeAt(s, i)] = NodeAt(s, i + 1)
      /\ \A at \in 0 .. Len(s) : Iter(at) = NodeAt(s, at + 1)
      /\ \A i \in 1 .. Len(s) : s[i] \in Nodes
  BY Zenon DEF Listed
<1>2. to - from \in Nat /\ to \in 0 .. Len(s) /\ \A i \in 1 .. to - from : from + i \in 1 .. Len(s)
  BY <1>1
<1> DEFINE r == [i \in 1 .. to - from |-> s[from + i]]
<1>3. r \in Seq(Nodes) /\ Len(r) = to - from /\ DOMAIN r = 1 .. to - from
  BY <1>1, <1>2
<1>4. \A i \in 1 .. to - from : r[i] = s[from + i]
  OBVIOUS
<1> HIDE DEF r
<1>5. Walk(next, NodeAt(s, from + 1), NodeAt(s, to + 1)) = r
  <2>1. \A i \in 1 .. Len(r) : r[i] = s[from + i]
    BY <1>3, <1>4
  <2>2. s \in Seq(Nodes) /\ Distinct(s) /\ \A i \in 0 .. Len(s) : next[NodeAt(s, i)] = NodeAt(s, i + 1)
    BY <1>1, Zenon
  <2>3. r \in Seq(Nodes) /\ Len(r) = to - from
    BY <1>3, Zenon
  <2> QED BY <2>1, <2>2, <2>3, WalkBetween
<1>6. Walk(next, Iter(from), Iter(to)) = r
  BY <1>1, <1>2, <1>5
<1> QED BY <1>3, <1>4, <1>6, Zenon

LEMMA TakesShrink ==
  ASSUME IInv, NEW s, Listed(s), PopBack \/ PopFront \/ Remove \/ RemoveRange
  PROVE  IInv' /\ Shrank(s)
<1>1. /\ Len(s) \in Nat /\ Len(Forward) = Len(s) /\ Places = 0 .. Len(s)
      /\ NodeAt(s, 0) = HeadNode /\ NodeAt(s, Len(s) + 1) = HeadNode
      /\ \A at \in 0 .. Len(s) : Iter(at) = NodeAt(s, at + 1)
      /\ { s[i] : i \in 1 .. Len(s) } = heap
  BY DEF Listed, Places
<1>2. \A i \in 0 .. Len(s) :
        next[NodeAt(s, i)] = NodeAt(s, i + 1) /\ prev[NodeAt(s, i + 1)] = NodeAt(s, i)
  BY Zenon DEF Listed
<1>3. {"pop_back", "pop_front", "remove"} \subseteq List!Takes
  BY DEF List!Takes
<1>4. next[HeadNode] # HeadNode => Len(s) # 0
  BY <1>1, <1>2
<1>5. CASE PopBack
  <2>1. /\ Len(s) - 1 \in 0 .. Len(s) /\ Len(s) - 1 # Len(s) /\ prev[HeadNode] = NodeAt(s, (Len(s) - 1) + 1)
    BY <1>1, <1>2, <1>4, <1>5 DEF PopBack
  <2>2. RemoveNode(prev[HeadNode]) /\ Called("pop_back", Len(s) - 1, 1, NoElem)
    BY <1>1, <1>5 DEF PopBack
  <2> QED BY <1>3, <2>1, <2>2, NodeShrinks
<1>6. CASE PopFront
  <2>1. 0 \in 0 .. Len(s) /\ 0 # Len(s) /\ next[HeadNode] = NodeAt(s, 0 + 1)
    BY <1>1, <1>2, <1>4, <1>6 DEF PopFront
  <2>2. RemoveNode(next[HeadNode]) /\ Called("pop_front", 0, 1, NoElem)
    BY <1>6 DEF PopFront
  <2> QED BY <1>3, <2>1, <2>2, NodeShrinks
<1>7. CASE Remove
  <2>1. PICK at \in 0 .. Len(s) :
          Iter(at) # HeadNode /\ RemoveNode(Iter(at)) /\ Called("remove", at, 1, NoElem)
    BY <1>1, <1>7 DEF Remove
  <2>2. at # Len(s) /\ Iter(at) = NodeAt(s, at + 1)
    BY <1>1, <2>1
  <2> QED BY <1>3, <2>1, <2>2, NodeShrinks
<1>8. CASE RemoveRange
  <2>1. PICK from \in 0 .. Len(s), to \in 0 .. Len(s) :
          /\ from <= to
          /\ FreeRange(Iter(from), Iter(to))
          /\ next' = Cleared([next EXCEPT ![prev[Iter(from)]] = Iter(to)], heap \ heap')
          /\ prev' = Cleared([prev EXCEPT ![Iter(to)] = prev[Iter(from)]], heap \ heap')
          /\ Called("remove", from, to - from, NoElem)
    BY <1>1, <1>8 DEF RemoveRange
  <2>2. to \in from .. Len(s)
    BY <1>1, <2>1
  <2>3. PICK r \in Seq(Nodes) :
          /\ r = Walk(next, Iter(from), Iter(to))
          /\ DOMAIN r = 1 .. to - from /\ \A i \in 1 .. to - from : r[i] = s[from + i]
    BY <2>2, RangeIs, Zenon
  <2> DEFINE gone == { s[i] : i \in from + 1 .. to }
  <2>4. { r[i] : i \in DOMAIN r } = gone
    <3>1. \A i \in 1 .. to - from : from + i \in from + 1 .. to
      BY <1>1, <2>2
    <3>2. \A i \in from + 1 .. to : i - from \in 1 .. to - from /\ from + (i - from) = i
      BY <1>1, <2>2
    <3>3. \A i \in from + 1 .. to : r[i - from] = s[i]
      BY <2>3, <3>2
    <3>4. \A i \in 1 .. to - from : r[i] \in gone
      BY <2>3, <3>1, Zenon
    <3>5. \A i \in from + 1 .. to : s[i] \in { r[j] : j \in 1 .. to - from }
      BY <3>2, <3>3, Zenon
    <3> QED BY <2>3, <3>4, <3>5
  <2>5. gone \subseteq heap
    <3>1. from + 1 .. to \subseteq 1 .. Len(s)
      BY <1>1, <2>2
    <3> QED BY <1>1, <3>1
  <2> HIDE DEF gone
  <2>6. heap' = heap \ gone /\ data' = Cleared(data, gone)
    BY <2>1, <2>3, <2>4 DEF FreeRange, Free
  <2>7. heap \ heap' = gone
    BY <2>5, <2>6
  <2>8. Iter(to) = NodeAt(s, to + 1) /\ prev[Iter(from)] = NodeAt(s, from)
    BY <1>1, <1>2
  <2>9. /\ next' = Cleared([next EXCEPT ![NodeAt(s, from)] = NodeAt(s, to + 1)], gone)
        /\ prev' = Cleared([prev EXCEPT ![NodeAt(s, to + 1)] = NodeAt(s, from)], gone)
        /\ call' = List!Call("remove", from, to - from, NoElem)
    BY <2>1, <2>7, <2>8 DEF Called
  <2>10. gone = { s[i] : i \in from + 1 .. to }
    BY DEF gone
  <2> QED BY <1>3, <2>2, <2>6, <2>9, <2>10, CutShrinks
<1> QED BY <1>5, <1>6, <1>7, <1>8

\* The destroyed list is an empty one, and no node is left over.
LEMMA DestroyEmpties ==
  ASSUME IInv, Destroy
  PROVE  IInv' /\ Forward' = <<>> /\ heap' = {} /\ call' = List!NoCall
<1>1. PICK s : Listed(s)
  BY ListedIs
<1>2. { Forward[i] : i \in DOMAIN Forward } = heap
  BY <1>1 DEF Listed
<1>3. /\ heap' = {} /\ data' = Cleared(data, heap)
      /\ next' = Empty /\ prev' = Empty /\ call' = List!NoCall
  BY <1>2 DEF Destroy, Free
<1>4. Stored'
  <2>1. Empty \in [Nodes \cup {HeadNode} -> Nodes \cup {HeadNode, Junk}]
    BY DEF Empty
  <2>2. data' \in [Nodes -> Elem \cup {Junk}]
    BY <1>3 DEF IInv, Stored, Cleared
  <2> QED BY <1>3, <2>1, <2>2 DEF Stored
<1> DEFINE e == <<>>
<1>5. /\ e \in Seq(Nodes) /\ Len(e) = 0 /\ Distinct(e) /\ { e[i] : i \in 1 .. Len(e) } = heap'
      /\ NodeAt(e, 0) = HeadNode /\ NodeAt(e, 1) = HeadNode
  BY <1>3 DEF Distinct, NodeAt
<1>6. Empty[HeadNode] = HeadNode
  BY DEF Empty
<1>7. \A i \in 0 .. Len(e) :
        next'[NodeAt(e, i)] = NodeAt(e, i + 1) /\ prev'[NodeAt(e, i + 1)] = NodeAt(e, i)
  <2> HIDE DEF e
  <2> QED BY <1>3, <1>5, <1>6
<1>8. IInv' /\ Forward' = e
  <2> HIDE DEF e
  <2> QED BY <1>4, <1>5, <1>7, Becomes, Zenon
<1> QED BY <1>3, <1>8

\* A call that reads changes nothing else.
LEMMA Reads ==
  ASSUME IInv, Front \/ Back \/ IterForward \/ IterBackward \/ Size \/ Find \/ UNCHANGED vars
  PROVE  IInv' /\ UNCHANGED <<Forward, data, heap>>
<1>1. UNCHANGED <<next, prev, data, heap>>
  BY Zenon DEF Front, Back, IterForward, IterBackward, Size, Find, Look, vars
<1>2. UNCHANGED Forward
  BY <1>1 DEF Forward
<1>3. Stored' /\ Ring(Forward)'
  BY <1>1, <1>2, Zenon DEF IInv, Stored, Ring
<1> QED BY <1>1, <1>2, <1>3, Zenon DEF IInv
-----------------------------------------------------------------------------
(* The invariant *)

LEMMA InitIInv == Init => IInv /\ Forward = <<>>
<1> SUFFICES ASSUME Init PROVE IInv /\ Forward = <<>>
  OBVIOUS
<1>1. next = Empty /\ prev = Empty /\ data = [n \in Nodes |-> Junk] /\ heap = {}
  BY DEF Init
<1>2. Stored
  <2>1. Empty \in [Nodes \cup {HeadNode} -> Nodes \cup {HeadNode, Junk}]
    BY DEF Empty
  <2> QED BY <1>1, <2>1 DEF Stored
<1> DEFINE e == <<>>
<1>3. /\ e \in Seq(Nodes) /\ Len(e) = 0 /\ DOMAIN e = {} /\ Distinct(e) /\ { e[i] : i \in DOMAIN e } = heap
      /\ NodeAt(e, 0) = HeadNode /\ NodeAt(e, 1) = HeadNode
  BY <1>1 DEF Distinct, NodeAt
<1>4. Empty[HeadNode] = HeadNode
  BY DEF Empty
<1> HIDE DEF e
<1>5. \A i \in 0 .. Len(e) : next[NodeAt(e, i)] = NodeAt(e, i + 1) /\ prev[NodeAt(e, i + 1)] = NodeAt(e, i)
  BY <1>1, <1>3, <1>4
<1>6. Forward = e
  <2>1. \A i \in 0 .. Len(e) : next[NodeAt(e, i)] = NodeAt(e, i + 1)
    BY <1>5
  <2>2. Walk(next, next[HeadNode], HeadNode) = e
    BY <1>3, <2>1, WalkAround, Zenon
  <2> QED BY <2>2, Zenon DEF Forward
<1>7. Ring(e)
  BY <1>3, <1>5, Zenon DEF Ring
<1>8. IInv
  BY <1>2, <1>3, <1>6, <1>7, Zenon DEF IInv
<1> QED BY <1>6, <1>8, Zenon DEF e

\* Every step is one of five kinds.
LEMMA StepIs ==
  ASSUME IInv, [Next]_vars, NEW s, Listed(s)
  PROVE  /\ IInv'
         /\ \/ Grew(s)
            \/ Shrank(s)
            \/ Destroy
            \/ /\ Front \/ Back \/ IterForward \/ IterBackward \/ Size \/ Find
               /\ UNCHANGED <<Forward, data, heap>>
            \/ UNCHANGED vars
<1>1. CASE PushBack \/ PushFront \/ Insert \/ InsertAfter
  BY <1>1, PutsGrow, Zenon
<1>2. CASE PopBack \/ PopFront \/ Remove \/ RemoveRange
  BY <1>2, TakesShrink, Zenon
<1>3. CASE Destroy
  BY <1>3, DestroyEmpties, Zenon
<1>4. CASE Front \/ Back \/ IterForward \/ IterBackward \/ Size \/ Find
  BY <1>4, Reads, Zenon
<1>5. CASE UNCHANGED vars
  BY <1>5, Reads, Zenon
<1> QED BY <1>1, <1>2, <1>3, <1>4, <1>5, Zenon DEF Next

LEMMA NextIInv == IInv /\ [Next]_vars => IInv'
BY StepIs, ListedIs, Zenon

\* The nodes make a ring in every state.
THEOREM Invariance == Spec => []IInv
<1> QED BY InitIInv, NextIInv, PTL DEF Spec

\* For any number of nodes, what is allocated is exactly what the ring is made
\* of, and the ring read backwards is the ring (cc_list.c:40-89, 147-197).
THEOREM Linked == Spec => []WellLinked
<1>1. IInv => WellLinked
  <2> SUFFICES ASSUME IInv PROVE WellLinked
    OBVIOUS
  <2>1. PICK s : Listed(s)
    BY ListedIs
  <2>2. /\ s \in Seq(Nodes) /\ s = Forward /\ Len(s) \in Nat /\ DOMAIN s = 1 .. Len(s)
        /\ Distinct(s) /\ { s[i] : i \in 1 .. Len(s) } = heap
        /\ \A i \in 0 .. Len(s) : prev[NodeAt(s, i + 1)] = NodeAt(s, i)
    BY <2>1, Zenon DEF Listed
  <2>3. Backward = Reversed(s)
    BY <2>2, WalkBack, Zenon DEF Backward
  <2>4. Len(Reversed(s)) = Len(s) /\ \A i \in 1 .. Len(s) : Reversed(s)[i] = s[Len(s) - i + 1]
    <3>1. \A i \in 1 .. Len(s) : Len(s) + 1 - i \in 1 .. Len(s) /\ Len(s) + 1 - i = Len(s) - i + 1
      BY <2>2
    <3>2. Reversed(s) \in Seq(Nodes) /\ DOMAIN Reversed(s) = 1 .. Len(s)
      BY <2>2, <3>1 DEF Reversed
    <3>3. Len(Reversed(s)) = Len(s)
      BY <2>2, <3>2
    <3> QED BY <2>2, <3>1, <3>3 DEF Reversed
  <2> QED BY <2>2, <2>3, <2>4 DEF WellLinked
<1> QED BY <1>1, Invariance, PTL

-----------------------------------------------------------------------------
(* Iterators *)

\* What the property says of one step.
StaysValid ==
  \A i, j \in DOMAIN Forward :
    LET n == Forward[i]
        m == Forward[j]
    IN  n \in heap' /\ m \in heap' =>
          /\ data'[n] = data[n]
          /\ i < j => \E k, l \in DOMAIN Forward' : k < l /\ Forward'[k] = n /\ Forward'[l] = m

\* The nodes that stay keep their elements and their order.
LEMMA OrderKept ==
  ASSUME NEW s, Listed(s),
         \A i \in 1 .. Len(s) : s[i] \in heap' =>
           /\ data'[s[i]] = data[s[i]]
           /\ \E k \in DOMAIN Forward' : Forward'[k] = s[i],
         \A i, j \in 1 .. Len(s) : i < j /\ s[i] \in heap' /\ s[j] \in heap' =>
           \E k, l \in DOMAIN Forward' : k < l /\ Forward'[k] = s[i] /\ Forward'[l] = s[j]
  PROVE  StaysValid
<1> DEFINE InOrder(n, m) == \E k, l \in DOMAIN Forward' : k < l /\ Forward'[k] = n /\ Forward'[l] = m
<1>1. s = Forward /\ DOMAIN s = 1 .. Len(s)
  BY Zenon DEF Listed
<1>2. ASSUME NEW i \in 1 .. Len(s), NEW j \in 1 .. Len(s), s[i] \in heap', s[j] \in heap'
      PROVE  /\ data'[s[i]] = data[s[i]]
             /\ i < j => InOrder(s[i], s[j])
  BY <1>2, Zenon
<1> HIDE DEF InOrder
<1>3. ASSUME NEW i \in DOMAIN Forward, NEW j \in DOMAIN Forward, Forward[i] \in heap', Forward[j] \in heap'
      PROVE  /\ data'[Forward[i]] = data[Forward[i]]
             /\ i < j => InOrder(Forward[i], Forward[j])
  BY <1>1, <1>2, <1>3
<1> QED BY <1>3, Zenon DEF StaysValid, InOrder

LEMMA GrewStays ==
  ASSUME IInv, NEW s, Listed(s), Grew(s)
  PROVE  StaysValid
<1>1. /\ s \in Seq(Nodes) /\ Len(s) \in Nat
      /\ { s[i] : i \in 1 .. Len(s) } = heap
      /\ \A i \in 1 .. Len(s) : s[i] \in Nodes
  BY Zenon DEF Listed
<1>2. PICK at \in 0 .. Len(s), new \in Nodes \ heap, e \in Elem :
        Forward' = WithPut(s, at, new) /\ data' = [data EXCEPT ![new] = e]
  BY Zenon DEF Grew
<1> DEFINE t == WithPut(s, at, new)
<1>3. /\ Len(t) = Len(s) + 1 /\ DOMAIN t = 1 .. Len(s) + 1
      /\ \A i \in 1 .. Len(s) + 1 : t[i] = IF i <= at THEN s[i] ELSE IF i = at + 1 THEN new ELSE s[i - 1]
  <2>1. new \in Nodes /\ s \in Seq(Nodes)
    BY <1>1
  <2>2. /\ WithPut(s, at, new) \in Seq(Nodes) /\ Len(WithPut(s, at, new)) = Len(s) + 1
        /\ PutPlaces(WithPut(s, at, new), s, at, new)
    BY <2>1, PutIs, Zenon
  <2>3. t \in Seq(Nodes) /\ Len(t) = Len(s) + 1 /\ PutPlaces(t, s, at, new)
    BY <2>2
  <2> HIDE DEF t
  <2> QED BY <1>1, <2>3, LenProperties DEF PutPlaces
<1> HIDE DEF t
<1>4. Forward' = t
  BY <1>2, Zenon DEF t
<1> DEFINE New(i) == IF i <= at THEN i ELSE i + 1
<1>5. \A i \in 1 .. Len(s) : New(i) \in 1 .. Len(s) + 1 /\ t[New(i)] = s[i]
  <2> TAKE i \in 1 .. Len(s)
  <2>1. CASE i <= at
    <3>1. i \in 1 .. Len(s) + 1
      BY <1>1
    <3> QED BY <1>3, <2>1, <3>1
  <2>2. CASE ~ (i <= at)
    <3>1. i + 1 \in 1 .. Len(s) + 1 /\ ~ (i + 1 <= at) /\ i + 1 # at + 1 /\ (i + 1) - 1 = i
      BY <1>1, <2>2
    <3>2. t[i + 1] = s[(i + 1) - 1]
      BY <1>3, <3>1, Zenon
    <3> QED BY <2>2, <3>1, <3>2
  <2> QED BY <2>1, <2>2
<1>6. \A i, j \in 1 .. Len(s) : i < j => New(i) < New(j)
  BY <1>1
<1> HIDE DEF New
<1>7. \A i \in 1 .. Len(s) : data'[s[i]] = data[s[i]]
  <2> TAKE i \in 1 .. Len(s)
  <2>1. s[i] # new /\ s[i] \in Nodes
    BY <1>1
  <2> QED BY <1>2, <2>1 DEF IInv, Stored
<1>8. \A i \in 1 .. Len(s) : data'[s[i]] = data[s[i]] /\ \E k \in DOMAIN Forward' : Forward'[k] = s[i]
  BY <1>3, <1>4, <1>5, <1>7, Zenon
<1>9. \A i, j \in 1 .. Len(s) : i < j =>
        \E k, l \in DOMAIN Forward' : k < l /\ Forward'[k] = s[i] /\ Forward'[l] = s[j]
  BY <1>3, <1>4, <1>5, <1>6, Zenon
<1> QED BY <1>8, <1>9, OrderKept, Zenon

LEMMA ShrankStays ==
  ASSUME IInv, NEW s, Listed(s), Shrank(s)
  PROVE  StaysValid
<1>1. /\ s \in Seq(Nodes) /\ Len(s) \in Nat
      /\ \A i \in 1 .. Len(s) : s[i] \in Nodes
  BY Zenon DEF Listed
<1>2. PICK from \in 0 .. Len(s) : \E to \in from .. Len(s) :
        /\ Forward' = WithoutRange(s, from, to - from)
        /\ heap' = heap \ { s[i] : i \in from + 1 .. to }
        /\ data' = Cleared(data, { s[i] : i \in from + 1 .. to })
  BY Zenon DEF Shrank
<1>3. PICK to \in from .. Len(s) :
        /\ Forward' = WithoutRange(s, from, to - from)
        /\ heap' = heap \ { s[i] : i \in from + 1 .. to }
        /\ data' = Cleared(data, { s[i] : i \in from + 1 .. to })
  BY <1>2, Zenon
<1> DEFINE n == to - from
           t == WithoutRange(s, from, n)
<1>4. n \in 0 .. Len(s) - from /\ n \in Nat /\ from \in Nat /\ to = from + n
  BY <1>1
<1>5. /\ DOMAIN t = 1 .. Len(s) - n
      /\ \A i \in 1 .. Len(s) - n : t[i] = IF i <= from THEN s[i] ELSE s[i + n]
  <2> HIDE DEF n
  <2>1. /\ WithoutRange(s, from, n) \in Seq(Nodes) /\ Len(WithoutRange(s, from, n)) = Len(s) - n
        /\ CutPlaces(WithoutRange(s, from, n), s, from, n)
    BY <1>1, <1>4, CutIs, Zenon
  <2>2. t \in Seq(Nodes) /\ Len(t) = Len(s) - n /\ CutPlaces(t, s, from, n)
    BY <2>1
  <2> HIDE DEF t
  <2> QED BY <1>1, <1>4, <2>2, LenProperties DEF CutPlaces
<1>6. Forward' = t
  BY <1>3
<1> HIDE DEF t, n
<1> DEFINE New(i) == IF i <= from THEN i ELSE i - n
           Left   == { i \in 1 .. Len(s) : i \notin from + 1 .. to }
<1>7. \A i \in 1 .. Len(s) : s[i] \in heap' => i \in Left
  BY <1>3
<1>8. \A i \in Left : New(i) \in 1 .. Len(s) - n /\ t[New(i)] = s[i]
  <2> TAKE i \in Left
  <2>1. CASE i <= from
    <3>1. i \in 1 .. Len(s) - n
      BY <1>1, <1>4, <2>1
    <3> QED BY <1>5, <2>1, <3>1
  <2>2. CASE ~ (i <= from)
    <3>1. i - n \in 1 .. Len(s) - n /\ ~ (i - n <= from) /\ (i - n) + n = i
      BY <1>1, <1>4, <2>2
    <3>2. t[i - n] = s[(i - n) + n]
      BY <1>5, <3>1, Zenon
    <3> QED BY <2>2, <3>1, <3>2
  <2> QED BY <2>1, <2>2
<1>9. \A i, j \in Left : i < j => New(i) < New(j)
  BY <1>1, <1>4
<1>10. \A i \in 1 .. Len(s) : s[i] \in heap' => data'[s[i]] = data[s[i]]
  <2> TAKE i \in 1 .. Len(s)
  <2> HAVE s[i] \in heap'
  <2>1. s[i] \notin { s[k] : k \in from + 1 .. to } /\ s[i] \in Nodes
    BY <1>1, <1>3
  <2> QED BY <1>3, <2>1 DEF Cleared, IInv, Stored
<1> HIDE DEF New, Left
<1>11. \A i \in 1 .. Len(s) : s[i] \in heap' =>
         data'[s[i]] = data[s[i]] /\ \E k \in DOMAIN Forward' : Forward'[k] = s[i]
  BY <1>5, <1>6, <1>7, <1>8, <1>10, Zenon
<1>12. \A i, j \in 1 .. Len(s) : i < j /\ s[i] \in heap' /\ s[j] \in heap' =>
         \E k, l \in DOMAIN Forward' : k < l /\ Forward'[k] = s[i] /\ Forward'[l] = s[j]
  BY <1>5, <1>6, <1>7, <1>8, <1>9, Zenon
<1> QED BY <1>11, <1>12, OrderKept, Zenon

LEMMA AllStays ==
  ASSUME IInv, [Next]_vars
  PROVE  StaysValid
<1>1. PICK s : Listed(s)
  BY ListedIs
<1>2. CASE Grew(s)
  BY <1>1, <1>2, GrewStays, Zenon
<1>3. CASE Shrank(s)
  BY <1>1, <1>3, ShrankStays, Zenon
<1>4. CASE Destroy
  <2>1. heap' = {}
    BY <1>4, DestroyEmpties
  <2> QED BY <2>1 DEF StaysValid
<1>5. CASE UNCHANGED <<Forward, data, heap>>
  BY <1>5, Zenon DEF StaysValid
<1>6. CASE UNCHANGED vars
  <2>1. UNCHANGED <<Forward, data, heap>>
    BY <1>6, Reads, Zenon
  <2> QED BY <2>1, Zenon DEF StaysValid
<1> QED BY <1>1, <1>2, <1>3, <1>4, <1>5, <1>6, StepIs, Zenon

\* For any number of nodes, an iterator to an element that stays keeps it and
\* its side of every other that stays (cc_list.c:147-197).
THEOREM IteratorsValid == Spec => IteratorsStayValid
<1>1. IInv /\ [Next]_vars => StaysValid
  BY AllStays
<1>2. IInv /\ [Next]_vars => [StaysValid]_vars
  BY <1>1
<1> QED BY <1>2, Invariance, PTL DEF Spec, IteratorsStayValid, StaysValid
-----------------------------------------------------------------------------
(* The refinement *)

\* The elements the nodes of s hold.
ElementsOf(s, d) == [i \in DOMAIN s |-> d[s[i]]]

LEMMA ElementsAre ==
  ASSUME NEW s \in Seq(Nodes), NEW d, \A i \in 1 .. Len(s) : d[s[i]] \in Elem
  PROVE  /\ ElementsOf(s, d) \in Seq(Elem) /\ Len(ElementsOf(s, d)) = Len(s)
         /\ \A i \in 1 .. Len(s) : ElementsOf(s, d)[i] = d[s[i]]
<1>1. Len(s) \in Nat /\ DOMAIN s = 1 .. Len(s)
  BY LenProperties
<1> DEFINE v == [i \in 1 .. Len(s) |-> d[s[i]]]
<1>2. v \in Seq(Elem) /\ DOMAIN v = 1 .. Len(s) /\ \A i \in 1 .. Len(s) : v[i] = d[s[i]]
  BY <1>1
<1>3. ElementsOf(s, d) = v
  BY <1>1 DEF ElementsOf
<1> HIDE DEF v
<1>4. Len(v) = Len(s)
  BY <1>1, <1>2, LenProperties
<1> QED BY <1>2, <1>3, <1>4

\* d with e in the place of new.
Holding(d, new, e) == [d EXCEPT ![new] = e]

LEMMA ElementsPut ==
  ASSUME NEW s \in Seq(Nodes), NEW d \in [Nodes -> Elem \cup {Junk}],
         \A i \in 1 .. Len(s) : d[s[i]] \in Elem,
         NEW at \in 0 .. Len(s), NEW new \in Nodes, \A i \in 1 .. Len(s) : s[i] # new, NEW e \in Elem
  PROVE  ElementsOf(WithPut(s, at, new), Holding(d, new, e)) = WithPut(ElementsOf(s, d), at, e)
<1> DEFINE t == WithPut(s, at, new)
           c == Holding(d, new, e)
           v == ElementsOf(s, d)
           w == WithPut(v, at, e)
           u == ElementsOf(t, c)
<1>1. Len(s) \in Nat /\ \A i \in 1 .. Len(s) : s[i] \in Nodes
  BY LenProperties
<1>2. t \in Seq(Nodes) /\ Len(t) = Len(s) + 1 /\ PutPlaces(t, s, at, new)
  <2>1. /\ WithPut(s, at, new) \in Seq(Nodes) /\ Len(WithPut(s, at, new)) = Len(s) + 1
        /\ PutPlaces(WithPut(s, at, new), s, at, new)
    BY PutIs, Zenon
  <2> QED BY <2>1
<1>3. v \in Seq(Elem) /\ Len(v) = Len(s) /\ \A i \in 1 .. Len(s) : v[i] = d[s[i]]
  BY ElementsAre, Zenon
<1> HIDE DEF t, v
<1>4. w \in Seq(Elem) /\ Len(w) = Len(v) + 1 /\ PutPlaces(w, v, at, e)
  <2>1. v \in Seq(Elem) /\ at \in 0 .. Len(v) /\ e \in Elem
    BY <1>3
  <2>2. /\ WithPut(v, at, e) \in Seq(Elem) /\ Len(WithPut(v, at, e)) = Len(v) + 1
        /\ PutPlaces(WithPut(v, at, e), v, at, e)
    BY <2>1, PutIs, Zenon
  <2> QED BY <2>2
<1>5. c[new] = e /\ \A i \in 1 .. Len(s) : c[s[i]] = d[s[i]]
  BY <1>1 DEF Holding
<1> HIDE DEF c, w
<1>6. \A i \in 1 .. Len(s) + 1 : c[t[i]] = w[i] /\ w[i] \in Elem
  <2> TAKE i \in 1 .. Len(s) + 1
  <2>1. /\ t[i] = IF i <= at THEN s[i] ELSE IF i = at + 1 THEN new ELSE s[i - 1]
        /\ w[i] = IF i <= at THEN v[i] ELSE IF i = at + 1 THEN e ELSE v[i - 1]
    BY <1>2, <1>3, <1>4 DEF PutPlaces
  <2>2. CASE i <= at
    <3>1. i \in 1 .. Len(s)
      BY <1>1, <2>2
    <3> QED BY <1>3, <1>5, <2>1, <2>2, <3>1
  <2>3. CASE ~ (i <= at) /\ i = at + 1
    BY <1>5, <2>1, <2>3
  <2>4. CASE ~ (i <= at) /\ i # at + 1
    <3>1. i - 1 \in 1 .. Len(s)
      BY <1>1, <2>4
    <3> QED BY <1>3, <1>5, <2>1, <2>4, <3>1
  <2> QED BY <2>2, <2>3, <2>4
<1>7. u \in Seq(Elem) /\ Len(u) = Len(t) /\ \A i \in 1 .. Len(t) : u[i] = c[t[i]]
  <2>1. t \in Seq(Nodes) /\ \A i \in 1 .. Len(t) : c[t[i]] \in Elem
    BY <1>2, <1>6
  <2> QED BY <2>1, ElementsAre, Zenon
<1> HIDE DEF u
<1>8. u = w
  <2>1. Len(u) = Len(w) /\ \A i \in 1 .. Len(u) : u[i] = w[i]
    BY <1>2, <1>3, <1>4, <1>6, <1>7
  <2> QED BY <1>4, <1>7, <2>1, SeqEqual, Zenon
<1> QED BY <1>8 DEF u, w, v, c, t

LEMMA ElementsCut ==
  ASSUME NEW s \in Seq(Nodes), Distinct(s), NEW d \in [Nodes -> Elem \cup {Junk}],
         \A i \in 1 .. Len(s) : d[s[i]] \in Elem,
         NEW from \in 0 .. Len(s), NEW to \in from .. Len(s)
  PROVE  ElementsOf(WithoutRange(s, from, to - from), Cleared(d, { s[i] : i \in from + 1 .. to }))
           = WithoutRange(ElementsOf(s, d), from, to - from)
<1> DEFINE n    == to - from
           gone == { s[i] : i \in from + 1 .. to }
           t    == WithoutRange(s, from, n)
           c    == Cleared(d, gone)
           v    == ElementsOf(s, d)
           w    == WithoutRange(v, from, n)
           u    == ElementsOf(t, c)
<1>1. /\ Len(s) \in Nat /\ DOMAIN s = 1 .. Len(s) /\ \A i \in 1 .. Len(s) : s[i] \in Nodes
      /\ \A i, j \in 1 .. Len(s) : s[i] = s[j] => i = j
  BY LenProperties DEF Distinct
<1>2. n \in 0 .. Len(s) - from /\ n \in Nat /\ from \in Nat /\ to = from + n
  BY <1>1
<1>3. \A i \in 1 .. Len(s) : i \notin from + 1 .. to => c[s[i]] = d[s[i]]
  <2> TAKE i \in 1 .. Len(s)
  <2> HAVE i \notin from + 1 .. to
  <2>1. \A k \in from + 1 .. to : k \in 1 .. Len(s)
    BY <1>1
  <2>2. s[i] \notin gone
    BY <1>1, <2>1
  <2> HIDE DEF gone
  <2> QED BY <1>1, <2>2 DEF Cleared
<1> HIDE DEF n
<1>4. t \in Seq(Nodes) /\ Len(t) = Len(s) - n /\ CutPlaces(t, s, from, n)
  <2>1. /\ WithoutRange(s, from, n) \in Seq(Nodes) /\ Len(WithoutRange(s, from, n)) = Len(s) - n
        /\ CutPlaces(WithoutRange(s, from, n), s, from, n)
    BY <1>2, CutIs, Zenon
  <2> QED BY <2>1
<1>5. v \in Seq(Elem) /\ Len(v) = Len(s) /\ \A i \in 1 .. Len(s) : v[i] = d[s[i]]
  BY ElementsAre, Zenon
<1> HIDE DEF t, v, c
<1>6. w \in Seq(Elem) /\ Len(w) = Len(v) - n /\ CutPlaces(w, v, from, n)
  <2>1. v \in Seq(Elem) /\ from \in 0 .. Len(v) /\ n \in 0 .. Len(v) - from
    BY <1>2, <1>5
  <2>2. /\ WithoutRange(v, from, n) \in Seq(Elem) /\ Len(WithoutRange(v, from, n)) = Len(v) - n
        /\ CutPlaces(WithoutRange(v, from, n), v, from, n)
    BY <2>1, CutIs, Zenon
  <2> QED BY <2>2
<1> HIDE DEF w
<1>7. \A i \in 1 .. Len(s) - n : c[t[i]] = w[i] /\ w[i] \in Elem
  <2> TAKE i \in 1 .. Len(s) - n
  <2>1. /\ t[i] = IF i <= from THEN s[i] ELSE s[i + n]
        /\ w[i] = IF i <= from THEN v[i] ELSE v[i + n]
    BY <1>4, <1>5, <1>6 DEF CutPlaces
  <2>2. CASE i <= from
    <3>1. i \in 1 .. Len(s) /\ i \notin from + 1 .. to
      BY <1>1, <1>2, <2>2
    <3> QED BY <1>3, <1>5, <2>1, <2>2, <3>1
  <2>3. CASE ~ (i <= from)
    <3>1. i + n \in 1 .. Len(s) /\ i + n \notin from + 1 .. to
      BY <1>1, <1>2, <2>3
    <3> QED BY <1>3, <1>5, <2>1, <2>3, <3>1
  <2> QED BY <2>2, <2>3
<1>8. u \in Seq(Elem) /\ Len(u) = Len(t) /\ \A i \in 1 .. Len(t) : u[i] = c[t[i]]
  <2>1. t \in Seq(Nodes) /\ \A i \in 1 .. Len(t) : c[t[i]] \in Elem
    BY <1>4, <1>7
  <2> QED BY <2>1, ElementsAre, Zenon
<1> HIDE DEF u
<1>9. u = w
  <2>1. Len(u) = Len(w) /\ \A i \in 1 .. Len(u) : u[i] = w[i]
    BY <1>4, <1>5, <1>6, <1>7, <1>8
  <2> QED BY <1>6, <1>8, <2>1, SeqEqual, Zenon
<1> QED BY <1>9 DEF u, w, v, c, t, n, gone
\* The list the nodes hold.
LEMMA ViewIs ==
  ASSUME IInv, NEW s, Listed(s)
  PROVE  /\ View = ElementsOf(s, data) /\ View \in Seq(Elem) /\ Len(View) = Len(s)
         /\ \A i \in 1 .. Len(s) : View[i] = data[s[i]]
         /\ List!Positions = 0 .. Len(s)
<1>1. /\ s \in Seq(Nodes) /\ s = Forward /\ { s[i] : i \in 1 .. Len(s) } = heap
  BY Zenon DEF Listed
<1>2. \A i \in 1 .. Len(s) : data[s[i]] \in Elem
  BY <1>1 DEF IInv, Stored
<1>3. View = ElementsOf(s, data)
  BY <1>1 DEF View, ElementsOf
<1>4. /\ View \in Seq(Elem) /\ Len(View) = Len(s)
      /\ \A i \in 1 .. Len(s) : View[i] = data[s[i]]
  BY <1>1, <1>2, <1>3, ElementsAre, Zenon
<1>5. List!Positions = 0 .. Len(s)
  BY <1>4 DEF List!Positions
<1> QED BY <1>3, <1>4, <1>5, Zenon

LEMMA GrewRefines ==
  ASSUME IInv, NEW s, Listed(s), Grew(s)
  PROVE  List!LNext
<1>1. PICK op \in List!Puts, at \in 0 .. Len(s), new \in Nodes \ heap, e \in Elem :
        /\ Forward' = WithPut(s, at, new)
        /\ data' = [data EXCEPT ![new] = e]
        /\ call' = List!Call(op, at, 1, e)
        /\ op = "push_front" => at = 0
        /\ op = "push_back" => at = Len(s)
  BY Zenon DEF Grew
<1>2. /\ s \in Seq(Nodes) /\ { s[i] : i \in 1 .. Len(s) } = heap
      /\ View = ElementsOf(s, data) /\ Len(View) = Len(s) /\ List!Positions = 0 .. Len(s)
      /\ Len(s) \in Nat
  <2>1. s \in Seq(Nodes) /\ { s[i] : i \in 1 .. Len(s) } = heap /\ Len(s) \in Nat
    BY Zenon DEF Listed
  <2>2. View = ElementsOf(s, data) /\ Len(View) = Len(s) /\ List!Positions = 0 .. Len(s)
    BY ViewIs, Zenon
  <2> QED BY <2>1, <2>2, Zenon
<1>3. View' = WithPut(View, at, e)
  <2>1. /\ data \in [Nodes -> Elem \cup {Junk}] /\ \A i \in 1 .. Len(s) : data[s[i]] \in Elem
        /\ new \in Nodes /\ \A i \in 1 .. Len(s) : s[i] # new
    BY <1>2 DEF IInv, Stored
  <2>2. ElementsOf(WithPut(s, at, new), Holding(data, new, e)) = WithPut(ElementsOf(s, data), at, e)
    <3>1. s \in Seq(Nodes) /\ at \in 0 .. Len(s) /\ e \in Elem
      BY <1>2, Zenon
    <3> QED BY <2>1, <3>1, ElementsPut, Zenon
  <2>3. View' = ElementsOf(WithPut(s, at, new), Holding(data, new, e))
    BY <1>1 DEF View, ElementsOf, Holding
  <2> QED BY <1>2, <2>2, <2>3
<1>4. List!PositionOf(op, at, 1)
  BY <1>1, <1>2 DEF List!PositionOf, List!Puts
<1>5. List!Put(op, at, e)
  BY <1>1, <1>3, <1>4 DEF List!Put, WithPut
<1> QED BY <1>2, <1>5 DEF List!LNext

LEMMA ShrankRefines ==
  ASSUME IInv, NEW s, Listed(s), Shrank(s)
  PROVE  List!LNext
<1>1. PICK op \in List!Takes, from \in 0 .. Len(s) : \E to \in from .. Len(s) :
        /\ Forward' = WithoutRange(s, from, to - from)
        /\ data' = Cleared(data, { s[i] : i \in from + 1 .. to })
        /\ call' = List!Call(op, from, to - from, NoElem)
        /\ op = "pop_front" => from = 0
        /\ op = "pop_back" => from = Len(s) - 1
  BY Zenon DEF Shrank
<1>2. PICK to \in from .. Len(s) :
        /\ Forward' = WithoutRange(s, from, to - from)
        /\ data' = Cleared(data, { s[i] : i \in from + 1 .. to })
        /\ call' = List!Call(op, from, to - from, NoElem)
  BY <1>1, Zenon
<1>3. /\ s \in Seq(Nodes) /\ Distinct(s) /\ { s[i] : i \in 1 .. Len(s) } = heap
      /\ View = ElementsOf(s, data) /\ Len(View) = Len(s) /\ List!Positions = 0 .. Len(s)
      /\ Len(s) \in Nat
  <2>1. s \in Seq(Nodes) /\ Distinct(s) /\ { s[i] : i \in 1 .. Len(s) } = heap /\ Len(s) \in Nat
    BY Zenon DEF Listed
  <2>2. View = ElementsOf(s, data) /\ Len(View) = Len(s) /\ List!Positions = 0 .. Len(s)
    BY ViewIs, Zenon
  <2> QED BY <2>1, <2>2, Zenon
<1>4. View' = WithoutRange(View, from, to - from)
  <2>1. data \in [Nodes -> Elem \cup {Junk}] /\ \A i \in 1 .. Len(s) : data[s[i]] \in Elem
    BY <1>3 DEF IInv, Stored
  <2>2. ElementsOf(WithoutRange(s, from, to - from), Cleared(data, { s[i] : i \in from + 1 .. to }))
          = WithoutRange(ElementsOf(s, data), from, to - from)
    BY <1>3, <2>1, ElementsCut, Zenon
  <2>3. View' = ElementsOf(WithoutRange(s, from, to - from), Cleared(data, { s[i] : i \in from + 1 .. to }))
    BY <1>2 DEF View, ElementsOf
  <2> QED BY <1>3, <2>2, <2>3
<1>5. to - from \in 0 .. Len(s) /\ from + (to - from) <= Len(View)
  BY <1>3
<1>6. List!PositionOf(op, from, to - from)
  BY <1>1, <1>3 DEF List!PositionOf, List!Takes
<1>7. List!Take(op, from, to - from)
  BY <1>2, <1>4, <1>5, <1>6 DEF List!Take, WithoutRange
<1> QED BY <1>3, <1>5, <1>7 DEF List!LNext

\* An element is looked at where the position says it is.
LEMMA LookRefines ==
  ASSUME IInv, NEW s, Listed(s), UNCHANGED <<Forward, data, heap>>,
         NEW op \in List!Looks, NEW at \in 0 .. Len(s), at # Len(s),
         op = "front" => at = 0, op = "back" => at = Len(s) - 1,
         call' = List!Call(op, at, 1, data[s[at + 1]])
  PROVE  List!LNext
<1>1. /\ Len(s) \in Nat /\ Len(View) = Len(s) /\ List!Positions = 0 .. Len(s)
      /\ \A i \in 1 .. Len(s) : View[i] = data[s[i]]
  <2>1. Len(s) \in Nat
    BY Zenon DEF Listed
  <2> QED BY <2>1, ViewIs, Zenon
<1>2. at + 1 \in 1 .. Len(s) /\ at < Len(View)
  BY <1>1
<1>3. View' = View
  BY DEF View
<1>4. List!PositionOf(op, at, 1)
  BY <1>1 DEF List!PositionOf, List!Looks
<1>5. List!Look(op, at)
  BY <1>1, <1>2, <1>3, <1>4 DEF List!Look
<1> QED BY <1>1, <1>5 DEF List!LNext

LEMMA LooksRefine ==
  ASSUME IInv, NEW s, Listed(s), UNCHANGED <<Forward, data, heap>>,
         Front \/ Back \/ IterForward \/ IterBackward
  PROVE  List!LNext
<1>1. /\ s \in Seq(Nodes) /\ s = Forward /\ Len(s) \in Nat /\ DOMAIN s = 1 .. Len(s) /\ Distinct(s)
      /\ NodeAt(s, 0) = HeadNode /\ NodeAt(s, Len(s) + 1) = HeadNode
      /\ \A i \in 1 .. Len(s) : NodeAt(s, i) = s[i]
      /\ \A i \in 0 .. Len(s) :
           next[NodeAt(s, i)] = NodeAt(s, i + 1) /\ prev[NodeAt(s, i + 1)] = NodeAt(s, i)
  BY Zenon DEF Listed
<1>2. {"front", "back", "nth"} \subseteq List!Looks
  BY DEF List!Looks
<1>3. next[HeadNode] = NodeAt(s, 1) /\ prev[HeadNode] = NodeAt(s, Len(s))
      /\ (next[HeadNode] # HeadNode => Len(s) # 0)
  BY <1>1
<1>4. CASE Front
  <2>1. next[HeadNode] # HeadNode /\ call' = List!Call("front", 0, 1, data[next[HeadNode]])
    BY <1>4, Zenon DEF Front, Look, Called
  <2>2. 0 \in 0 .. Len(s) /\ 0 # Len(s) /\ next[HeadNode] = s[0 + 1]
    <3>1. Len(s) \in Nat /\ Len(s) # 0
      BY <1>1, <1>3, <2>1, Zenon
    <3>2. 1 \in 1 .. Len(s) /\ 0 \in 0 .. Len(s) /\ 0 + 1 = 1
      BY <3>1
    <3>3. NodeAt(s, 1) = s[1]
      BY <1>1, <3>2, Zenon
    <3> QED BY <1>3, <3>1, <3>2, <3>3, Zenon
  <2>3. "front" \in List!Looks /\ "front" # "back"
    BY <1>2
  <2> QED BY <2>1, <2>2, <2>3, LookRefines
<1>5. CASE Back
  <2>1. next[HeadNode] # HeadNode /\ call' = List!Call("back", Len(Forward) - 1, 1, data[prev[HeadNode]])
    BY <1>5, Zenon DEF Back, Look, Called
  <2>2. Len(s) - 1 \in 0 .. Len(s) /\ Len(s) - 1 # Len(s) /\ prev[HeadNode] = s[(Len(s) - 1) + 1]
    <3>1. Len(s) \in Nat /\ Len(s) # 0
      BY <1>1, <1>3, <2>1, Zenon
    <3>2. Len(s) \in 1 .. Len(s) /\ (Len(s) - 1) + 1 = Len(s) /\ Len(s) - 1 \in 0 .. Len(s)
          /\ Len(s) - 1 # Len(s)
      BY <3>1
    <3>3. NodeAt(s, Len(s)) = s[Len(s)]
      BY <1>1, <3>2, Zenon
    <3> QED BY <1>3, <3>2, <3>3, Zenon
  <2>3. "back" \in List!Looks /\ "front" # "back"
    BY <1>2
  <2>4. call' = List!Call("back", Len(s) - 1, 1, data[s[(Len(s) - 1) + 1]])
    BY <1>1, <2>1, <2>2, Zenon
  <2> QED BY <2>2, <2>3, <2>4, LookRefines
<1>6. CASE IterForward
  <2>1. PICK i \in DOMAIN Forward : call' = List!Call("nth", i - 1, 1, data[Forward[i]])
    BY <1>6, Zenon DEF IterForward, Look, Called
  <2>2. i - 1 \in 0 .. Len(s) /\ i - 1 # Len(s) /\ Forward[i] = s[(i - 1) + 1]
    BY <1>1, <2>1
  <2> QED BY <1>2, <2>1, <2>2, LookRefines
<1>7. CASE IterBackward
  <2>1. PICK i \in DOMAIN Backward : call' = List!Call("nth", Len(Backward) - i, 1, data[Backward[i]])
    BY <1>7, Zenon DEF IterBackward, Look, Called
  <2>2. \A i_1 \in 0 .. Len(s) : prev[NodeAt(s, i_1 + 1)] = NodeAt(s, i_1)
    BY <1>1, Zenon
  <2>3. Backward = Reversed(s)
    BY <1>1, <2>2, WalkBack, Zenon DEF Backward
  <2>4. DOMAIN Reversed(s) = 1 .. Len(s)
    BY DEF Reversed
  <2>5. Len(Reversed(s)) = Len(s)
    <3>1. \A k \in 1 .. Len(s) : s[Len(s) + 1 - k] \in Nodes
      BY <1>1
    <3>2. Reversed(s) \in Seq(Nodes)
      BY <1>1, <3>1 DEF Reversed
    <3> QED BY <1>1, <2>4, <3>2, LenProperties
  <2>6. i \in 1 .. Len(s) /\ Len(Backward) - i = Len(s) - i
    BY <2>1, <2>3, <2>4, <2>5
  <2>7. Len(s) - i \in 0 .. Len(s) /\ Len(s) - i # Len(s) /\ Len(s) + 1 - i = (Len(s) - i) + 1
    BY <1>1, <2>6
  <2>8. Backward[i] = s[(Len(s) - i) + 1]
    BY <2>3, <2>6, <2>7 DEF Reversed
  <2> QED BY <1>2, <2>1, <2>6, <2>7, <2>8, LookRefines
<1> QED BY <1>4, <1>5, <1>6, <1>7

LEMMA FindRefines ==
  ASSUME IInv, NEW s, Listed(s), UNCHANGED <<Forward, data, heap>>, Find
  PROVE  List!LNext
<1>1. /\ s \in Seq(Nodes) /\ s = Forward /\ Len(s) \in Nat
      /\ View \in Seq(Elem) /\ Len(View) = Len(s) /\ List!Positions = 0 .. Len(s)
      /\ \A i \in 1 .. Len(s) : View[i] = data[s[i]]
  <2>1. s \in Seq(Nodes) /\ s = Forward /\ Len(s) \in Nat
    BY Zenon DEF Listed
  <2> QED BY <2>1, ViewIs, Zenon
<1>2. Places = 0 .. Len(s)
  BY <1>1 DEF Places
<1> DEFINE Hits(r, e) == { i \in DOMAIN r : data[r[i]] = e }
           First(r, e) == IF Hits(r, e) = {} THEN Len(r)
                          ELSE (CHOOSE i \in Hits(r, e) : \A j \in Hits(r, e) : i <= j) - 1
<1>2a. \E from \in Places, to \in Places, e \in Elem :
         from <= to /\ call' = List!Call("find", from + First(Walk(next, Iter(from), Iter(to)), e), to - from, e)
  BY Zenon DEF Find, Called
<1>3. PICK from \in 0 .. Len(s), to \in 0 .. Len(s), e \in Elem :
        /\ from <= to
        /\ call' = List!Call("find", from + First(Walk(next, Iter(from), Iter(to)), e), to - from, e)
  <2> HIDE DEF First
  <2> QED BY <1>2, <1>2a, Zenon
<1>4. to \in from .. Len(s)
  BY <1>1, <1>3
<1>5. PICK r \in Seq(Nodes) :
        /\ r = Walk(next, Iter(from), Iter(to))
        /\ Len(r) = to - from /\ DOMAIN r = 1 .. to - from
        /\ \A i \in 1 .. to - from : r[i] = s[from + i]
  BY <1>4, RangeIs, Zenon
<1> DEFINE H == Hits(r, e)
           k == First(r, e)
<1>6. to - from \in Nat /\ \A i \in 1 .. to - from : from + i \in 1 .. Len(s)
  BY <1>1, <1>4
<1>7. \A i \in 1 .. to - from : i \in H <=> View[from + i] = e
  BY <1>1, <1>5, <1>6
<1>8. H \subseteq 1 .. to - from
  BY <1>5
<1>9. /\ k \in 0 .. to - from
      /\ k < to - from => k + 1 \in H
      /\ \A i \in 1 .. k : i \notin H
  <2>1. CASE H = {}
    BY <1>5, <1>6, <2>1
  <2>2. CASE H # {}
    <3>1. H \subseteq Nat
      BY <1>6, <1>8
    <3> HIDE DEF H
    <3>2. \E i \in H : \A j \in H : i <= j
      BY <2>2, <3>1, LeastExists
    <3>3. k = (CHOOSE i \in H : \A j \in H : i <= j) - 1
      BY <2>2 DEF H
    <3>4. PICK m \in H : m = (CHOOSE i \in H : \A j \in H : i <= j) /\ \A j \in H : m <= j
      BY <3>2, Zenon
    <3>5. k = m - 1 /\ m \in 1 .. to - from
      BY <1>8, <3>3, <3>4
    <3> HIDE DEF k
    <3>6. \A i \in 1 .. k : i \notin H
      <4> SUFFICES ASSUME NEW i \in 1 .. k, i \in H PROVE FALSE
        OBVIOUS
      <4>1. m <= i
        BY <3>4, Zenon
      <4> QED BY <3>5, <4>1
    <3>7. k \in 0 .. to - from
      BY <1>6, <3>5
    <3>8. k + 1 = m
      BY <1>6, <3>5
    <3> QED BY <3>4, <3>6, <3>7, <3>8
  <2> QED BY <2>1, <2>2
<1>10. call' = List!Call("find", from + k, to - from, e)
  BY <1>3, <1>5
<1> HIDE DEF k, H
<1>11. List!Find(from, to, e)
  <2> DEFINE place == from + k
  <2>1. place \in from .. to /\ place = from + k
    BY <1>6, <1>9
  <2>2. call' = List!Call("find", place, to - from, e)
    BY <1>10
  <2> HIDE DEF place
  <2>3. place < to => View[place + 1] = e
    <3>1. place < to => k < to - from /\ k + 1 \in 1 .. to - from /\ from + (k + 1) = place + 1
      BY <1>6, <1>9, <2>1
    <3> QED BY <1>7, <1>9, <3>1
  <2>4. \A i \in from .. place - 1 : View[i + 1] # e
    <3> TAKE i \in from .. place - 1
    <3>1. (i + 1) - from \in 1 .. k /\ (i + 1) - from \in 1 .. to - from /\ from + ((i + 1) - from) = i + 1
      BY <1>6, <1>9, <2>1
    <3> QED BY <1>7, <1>9, <3>1
  <2>5. View' = View
    BY DEF View
  <2>6. UNCHANGED <<View, TRUE>>
    BY <2>5
  <2> QED BY <2>1, <2>2, <2>3, <2>4, <2>6, Zenon DEF List!Find
<1> QED BY <1>1, <1>3, <1>11 DEF List!LNext

\* For any number of nodes, every call means what it says of a sequence: an
\* insertion, a removal, a walk in either direction and a search
\* (cc_list.c:19-297).
THEOREM Refinement == Spec => ImplementsList
<1>1. Init => List!LInit
  <2> SUFFICES ASSUME Init PROVE List!LInit
    OBVIOUS
  <2>1. Forward = <<>> /\ call = List!NoCall
    BY InitIInv DEF Init
  <2>2. View = <<>>
    BY <2>1 DEF View
  <2> QED BY <2>1, <2>2 DEF List!LInit
<1>2. IInv /\ [Next]_vars => [List!LNext]_(List!lvars)
  <2> SUFFICES ASSUME IInv, [Next]_vars PROVE List!LNext \/ UNCHANGED List!lvars
    OBVIOUS
  <2>1. PICK s : Listed(s)
    BY ListedIs
  <2>2. CASE Grew(s)
    BY <2>1, <2>2, GrewRefines
  <2>3. CASE Shrank(s)
    BY <2>1, <2>3, ShrankRefines
  <2>4. CASE Destroy
    <3>1. Forward' = <<>> /\ call' = List!NoCall
      BY <2>4, DestroyEmpties
    <3>2. View' = <<>>
      BY <3>1 DEF View
    <3> QED BY <3>1, <3>2 DEF List!LNext, List!Clear
  <2>5. CASE UNCHANGED <<Forward, data, heap>> /\ (Front \/ Back \/ IterForward \/ IterBackward)
    BY <2>1, <2>5, LooksRefine
  <2>6. CASE UNCHANGED <<Forward, data, heap>> /\ Find
    BY <2>1, <2>6, FindRefines
  <2>7. CASE UNCHANGED <<Forward, data, heap>> /\ Size
    <3>1. call' = List!Call("len", 0, Len(Forward), NoElem) /\ View' = View
      BY <2>7 DEF Size, Called, View
    <3>2. Len(View) = Len(Forward)
      BY <2>1, ViewIs DEF Listed
    <3> QED BY <3>1, <3>2 DEF List!LNext, List!Count
  <2>8. CASE UNCHANGED vars
    <3>1. UNCHANGED <<Forward, data, heap>>
      BY <2>8, Reads, Zenon
    <3> QED BY <2>8, <3>1 DEF vars, List!lvars, View
  <2> QED BY <2>1, <2>2, <2>3, <2>4, <2>5, <2>6, <2>7, <2>8, StepIs, Zenon
<1> QED BY <1>1, <1>2, Invariance, PTL DEF Spec, ImplementsList, List!LSpec
=============================================================================
