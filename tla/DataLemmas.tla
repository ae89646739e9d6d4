----------------------------- MODULE DataLemmas -----------------------------
(***************************************************************************)
(* Lemmas about numbers and sequences that the proofs share.  A claim      *)
(* about every number is proved from the first of its counterexamples, by  *)
(* LeastExists.                                                            *)
(***************************************************************************)
EXTENDS Integers, FiniteSetTheorems, SequenceTheorems, WellFoundedInduction, TLAPS

\* Every nonempty set of naturals has a least element: the intervals 1 .. n
\* are finite sets, and those are well-founded under proper inclusion.
THEOREM LeastExists ==
  ASSUME NEW S, S \subseteq Nat, S # {}
  PROVE  \E m \in S : \A n \in S : m <= n
<1> DEFINE T == { 1 .. n : n \in S }
           R == StrictSubsetOrdering(Nat)
           F == FiniteSubsetsOf(Nat)
<1>1. IsWellFoundedOn(R, F)
  BY FS_StrictSubsetOrderingWellFounded
<1>2. T \subseteq F /\ T # {}
  <2>1. \A n \in S : IsFiniteSet(1 .. n)
    BY FS_Interval, 1 \in Int
  <2>2. \A n \in S : 1 .. n \in SUBSET Nat
    OBVIOUS
  <2> QED BY <2>1, <2>2 DEF FiniteSubsetsOf
<1> HIDE DEF T, R, F
<1>3. PICK x \in T : \A y \in T : <<y, x>> \notin R
  BY <1>1, <1>2, WFMin
<1>4. PICK m \in S : x = 1 .. m
  BY <1>3 DEF T
<1>5. ASSUME NEW n \in S, n < m PROVE FALSE
  <2>1. 1 .. n \in T
    BY DEF T
  <2>2. 1 .. n \subseteq 1 .. m
    BY <1>5
  <2>3. m \in 1 .. m /\ m \notin 1 .. n
    BY <1>5
  <2>4. <<1 .. n, 1 .. m>> \in R
    <3>1. 1 .. n \in SUBSET Nat /\ 1 .. m \in SUBSET Nat
      OBVIOUS
    <3> QED BY <2>2, <2>3, <3>1 DEF R, StrictSubsetOrdering
  <2> QED BY <2>1, <2>4, <1>3, <1>4
<1> QED
  <2>1. \A n \in S : m <= n
    BY <1>5
  <2> QED BY <2>1, <1>4

\* A nonempty set of naturals with a bound has a greatest element.
THEOREM GreatestExists ==
  ASSUME NEW n \in Nat, NEW S, S \subseteq 0 .. n, S # {}
  PROVE  \E m \in S : \A k \in S : k <= m
<1> DEFINE T == { n - k : k \in S }
<1>1. \A k \in S : n - k \in Nat
  OBVIOUS
<1>2. T \subseteq Nat /\ T # {}
  BY <1>1
<1> HIDE DEF T
<1>3. PICK d \in T : \A e \in T : d <= e
  BY <1>2, LeastExists
<1>4. PICK m \in S : d = n - m
  BY <1>3 DEF T
<1>5. ASSUME NEW k \in S PROVE k <= m
  <2>1. n - k \in T
    BY DEF T
  <2>2. k \in Int /\ m \in Int
    OBVIOUS
  <2> QED BY <1>3, <1>4, <2>1, <2>2
<1> QED BY <1>5

\* Every number up to the size of a set is the rank of an element.
CountedOff(S) ==
  \A k \in 1 .. Cardinality(S) : \E p \in S : Cardinality({ q \in S : q <= p }) = k

\* Bounded sets of naturals can be counted off.
THEOREM RanksExist ==
  ASSUME NEW n \in Nat, NEW S, S \subseteq 0 .. n
  PROVE  CountedOff(S)
<1> SUFFICES ASSUME NEW k \in 1 .. Cardinality(S)
             PROVE  \E p \in S : Cardinality({ q \in S : q <= p }) = k
  BY Zenon DEF CountedOff
<1> DEFINE UpTo(p) == { q \in S : q <= p }
           T == { p \in S : k <= Cardinality(UpTo(p)) }
<1>1. IsFiniteSet(S) /\ Cardinality(S) \in Nat /\ k \in Nat /\ 1 <= k /\ k <= Cardinality(S)
  <2>1. IsFiniteSet(0 .. n)
    BY FS_Interval, 0 \in Int
  <2>2. IsFiniteSet(S) /\ Cardinality(S) \in Nat
    BY <2>1, FS_Subset, FS_CardinalityType
  <2> QED BY <2>2
<1>2. \A p \in S : IsFiniteSet(UpTo(p)) /\ Cardinality(UpTo(p)) \in Nat /\ p \in UpTo(p)
  <2> TAKE p \in S
  <2>1. UpTo(p) \subseteq S /\ p \in UpTo(p)
    OBVIOUS
  <2> QED BY <1>1, <2>1, FS_Subset, FS_CardinalityType
<1>3. T # {} /\ T \subseteq Nat
  <2>1. S # {}
    BY <1>1, FS_EmptySet
  <2>2. PICK m \in S : \A q \in S : q <= m
    BY <2>1, GreatestExists
  <2>3. UpTo(m) = S
    BY <2>2
  <2>4. k <= Cardinality(UpTo(m))
    BY <1>1, <2>3, Zenon
  <2>5. m \in T
    BY <2>2, <2>4, Zenon
  <2>6. T \subseteq S /\ S \subseteq Nat
    OBVIOUS
  <2> QED BY <2>5, <2>6, Zenon
<1>4. PICK p \in T : \A q \in T : p <= q
  BY <1>3, LeastExists
<1>5. p \in S /\ k <= Cardinality(UpTo(p)) /\ p \in Nat
  BY <1>3, <1>4
<1>6. CASE UpTo(p) = {p}
  <2>1. Cardinality(UpTo(p)) = 1
    BY <1>6, FS_Singleton
  <2> QED BY <1>1, <1>5, <2>1
<1>7. CASE UpTo(p) # {p}
  <2>1. UpTo(p) \ {p} # {} /\ UpTo(p) \ {p} \subseteq 0 .. n
    BY <1>2, <1>5, <1>7
  <2>2. PICK r \in UpTo(p) \ {p} : \A q \in UpTo(p) \ {p} : q <= r
    <3> HIDE DEF UpTo
    <3> QED BY <2>1, GreatestExists
  <2>3. r \in S /\ r < p /\ UpTo(r) = UpTo(p) \ {p}
    <3>1. r \in S /\ r < p
      BY <1>5, <2>2
    <3>2. \A q \in S : q <= r <=> (q <= p /\ q # p)
      BY <1>5, <2>2, <3>1
    <3> QED BY <3>1, <3>2
  <2>4. Cardinality(UpTo(r)) = Cardinality(UpTo(p)) - 1
    BY <1>2, <1>5, <2>3, FS_RemoveElement
  <2>5. ~ (k <= Cardinality(UpTo(r)))
    BY <1>4, <1>5, <2>3
  <2>6. Cardinality(UpTo(r)) \in Nat /\ Cardinality(UpTo(p)) \in Nat
    BY <1>2, <1>5, <2>3
  <2>7. Cardinality(UpTo(p)) = k
    <3> HIDE DEF UpTo
    <3> QED BY <1>1, <1>5, <2>4, <2>5, <2>6
  <2> QED BY <1>5, <2>7
<1> QED BY <1>6, <1>7

\* A function on 1 .. n + 1 may be defined from its later values.
FromLater(f, n, next, step, base) ==
  \A i \in 1 .. n + 1 :
    f[i] = IF next[i] \in i + 1 .. n + 1 THEN step[i][f[next[i]]] ELSE base[i]

THEOREM FromLaterExists ==
  ASSUME NEW n \in Nat, NEW V, NEW next \in [1 .. n + 1 -> Nat],
         NEW base \in [1 .. n + 1 -> V], NEW step \in [1 .. n + 1 -> [V -> V]]
  PROVE  \E f \in [1 .. n + 1 -> V] : FromLater(f, n, next, step, base)
<1> DEFINE Value(f, i) == IF next[i] \in i + 1 .. n + 1 THEN step[i][f[next[i]]] ELSE base[i]
           Solved(f, m) == \A i \in m .. n + 1 : f[i] = Value(f, i)
           S == { m \in 1 .. n + 2 : \E f \in [1 .. n + 1 -> V] : Solved(f, m) }
<1>1. n + 2 \in S
  <2>1. n + 2 .. n + 1 = {} /\ n + 2 \in 1 .. n + 2
    OBVIOUS
  <2>2. Solved(base, n + 2)
    BY <2>1
  <2> HIDE DEF Solved
  <2> QED BY <2>1, <2>2
<1>2. PICK m \in S : \A k \in S : m <= k
  <2>1. S \subseteq Nat
    <3> HIDE DEF Solved
    <3> QED OBVIOUS
  <2> HIDE DEF S
  <2> QED BY <1>1, <2>1, LeastExists
<1>3. m \in 1 .. n + 2
  OBVIOUS
<1>4. PICK f \in [1 .. n + 1 -> V] : Solved(f, m)
  <2> HIDE DEF Solved
  <2> QED OBVIOUS
<1>5. CASE m = 1
  BY <1>4, <1>5 DEF FromLater
<1>6. CASE m # 1
  <2> DEFINE g == [f EXCEPT ![m - 1] = Value(f, m - 1)]
  <2>1. m - 1 \in 1 .. n + 1 /\ m - 1 \in 1 .. n + 2 /\ ~ (m <= m - 1)
    BY <1>3, <1>6
  <2>2. Value(f, m - 1) \in V
    <3>1. CASE next[m - 1] \in (m - 1) + 1 .. n + 1
      <4>1. next[m - 1] \in 1 .. n + 1
        BY <1>3, <3>1
      <4>2. f[next[m - 1]] \in V /\ step[m - 1] \in [V -> V]
        BY <2>1, <4>1
      <4> QED BY <3>1, <4>2
    <3>2. CASE next[m - 1] \notin (m - 1) + 1 .. n + 1
      BY <2>1, <3>2
    <3> QED BY <3>1, <3>2
  <2>3. g \in [1 .. n + 1 -> V] /\ g[m - 1] = Value(f, m - 1)
        /\ \A i \in m .. n + 1 : g[i] = f[i]
    <3> HIDE DEF Value
    <3>1. \A i \in m .. n + 1 : i \in 1 .. n + 1 /\ i # m - 1
      BY <1>3
    <3> QED BY <2>1, <2>2, <3>1
  <2> HIDE DEF g
  <2>4. ASSUME NEW i \in m - 1 .. n + 1 PROVE g[i] = Value(g, i)
    <3>1. next[i] \in i + 1 .. n + 1 => next[i] \in m .. n + 1
      BY <1>3
    <3>2. Value(g, i) = Value(f, i)
      BY <2>3, <3>1
    <3>3. i = m - 1 \/ i \in m .. n + 1
      BY <1>3
    <3>4. i \in m .. n + 1 => f[i] = Value(f, i)
      BY <1>4
    <3> HIDE DEF Value
    <3> QED BY <2>3, <3>2, <3>3, <3>4
  <2>5. m - 1 \in S
    BY <2>1, <2>3, <2>4
  <2> HIDE DEF S
  <2> QED BY <1>2, <2>1, <2>5
<1> QED BY <1>5, <1>6

-----------------------------------------------------------------------------
(* Sequences *)

\* s with e at the place behind the first at elements.
WithPut(s, at, e) == SubSeq(s, 1, at) \o <<e>> \o SubSeq(s, at + 1, Len(s))

PutPlaces(t, s, at, e) ==
  \A i \in 1 .. Len(s) + 1 :
    t[i] = IF i <= at THEN s[i] ELSE IF i = at + 1 THEN e ELSE s[i - 1]

\* s without the n elements behind the first at.
WithoutRange(s, at, n) == SubSeq(s, 1, at) \o SubSeq(s, at + n + 1, Len(s))
CutPlaces(t, s, at, n) ==
  \A i \in 1 .. Len(s) - n : t[i] = IF i <= at THEN s[i] ELSE s[i + n]

\* The beginning and the end of a sequence, place by place.
LEMMA PrefixIs ==
  ASSUME NEW S, NEW s \in Seq(S), NEW at \in 0 .. Len(s)
  PROVE  /\ SubSeq(s, 1, at) \in Seq(S) /\ Len(SubSeq(s, 1, at)) = at
         /\ \A i \in 1 .. at : SubSeq(s, 1, at)[i] = s[i]
<1>1. Len(s) \in Nat /\ \A i \in 1 .. at : s[i] \in S
  BY LenProperties
<1> QED BY <1>1, SubSeqProperties

LEMMA SuffixIs ==
  ASSUME NEW S, NEW s \in Seq(S), NEW at \in 0 .. Len(s)
  PROVE  /\ SubSeq(s, at + 1, Len(s)) \in Seq(S) /\ Len(SubSeq(s, at + 1, Len(s))) = Len(s) - at
         /\ \A i \in 1 .. Len(s) - at : SubSeq(s, at + 1, Len(s))[i] = s[at + i]
<1>1. Len(s) \in Nat /\ \A i \in at + 1 .. Len(s) : s[i] \in S
  BY LenProperties
<1> QED BY <1>1, SubSeqProperties

THEOREM PutIs ==
  ASSUME NEW S, NEW s \in Seq(S), NEW at \in 0 .. Len(s), NEW e \in S
  PROVE  /\ WithPut(s, at, e) \in Seq(S)
         /\ Len(WithPut(s, at, e)) = Len(s) + 1
         /\ PutPlaces(WithPut(s, at, e), s, at, e)
<1> DEFINE a == SubSeq(s, 1, at)
           b == SubSeq(s, at + 1, Len(s))
           c == a \o <<e>>
<1>0. Len(s) \in Nat
  BY LenProperties
<1>1. a \in Seq(S) /\ Len(a) = at /\ \A i \in 1 .. at : a[i] = s[i]
  BY PrefixIs, Zenon
<1>2. b \in Seq(S) /\ Len(b) = Len(s) - at /\ \A i \in 1 .. Len(s) - at : b[i] = s[at + i]
  BY SuffixIs, Zenon
<1> HIDE DEF a, b
<1>3. /\ c \in Seq(S) /\ Len(c) = at + 1
      /\ \A i \in 1 .. at + 1 : c[i] = IF i <= at THEN s[i] ELSE e
  BY <1>1, ConcatProperties
<1> HIDE DEF c
<1>4. /\ c \o b \in Seq(S) /\ Len(c \o b) = Len(s) + 1
      /\ \A i \in 1 .. Len(s) + 1 : (c \o b)[i] = IF i <= at + 1 THEN c[i] ELSE b[i - (at + 1)]
  <2>1. Len(c) + Len(b) = Len(s) + 1
    BY <1>0, <1>2, <1>3
  <2>2. /\ c \o b \in Seq(S) /\ Len(c \o b) = Len(c) + Len(b)
        /\ \A i \in 1 .. Len(c) + Len(b) : (c \o b)[i] = IF i <= Len(c) THEN c[i] ELSE b[i - Len(c)]
    <3>1. c \in Seq(S) /\ b \in Seq(S)
      BY <1>2, <1>3, Zenon
    <3> QED BY <3>1, ConcatProperties, Zenon
  <2>3. Len(c) = at + 1
    BY <1>3, Zenon
  <2> QED BY <2>1, <2>2, <2>3
<1>5. ASSUME NEW i \in 1 .. Len(s) + 1
      PROVE  (c \o b)[i] = IF i <= at THEN s[i] ELSE IF i = at + 1 THEN e ELSE s[i - 1]
  <2>1. CASE i <= at + 1
    <3>1. i \in 1 .. at + 1 /\ (c \o b)[i] = c[i]
      BY <1>0, <1>4, <2>1
    <3>2. (c \o b)[i] = IF i <= at THEN s[i] ELSE e
      BY <1>3, <3>1, Zenon
    <3>3. i <= at \/ i = at + 1
      BY <1>0, <2>1
    <3> QED BY <3>2, <3>3
  <2>2. CASE ~ (i <= at + 1)
    <3>1. i - (at + 1) \in 1 .. Len(s) - at /\ at + (i - (at + 1)) = i - 1
      BY <1>0, <2>2
    <3>2. b[i - (at + 1)] = s[i - 1]
      BY <1>2, <3>1
    <3>3. ~ (i <= at) /\ i # at + 1
      BY <1>0, <2>2
    <3>4. (c \o b)[i] = b[i - (at + 1)]
      BY <1>4, <2>2, Zenon
    <3> QED BY <3>2, <3>3, <3>4
  <2> QED BY <2>1, <2>2
<1>6. WithPut(s, at, e) = c \o b
  BY DEF WithPut, a, b, c
<1>7. PutPlaces(c \o b, s, at, e)
  <2> DEFINE t == c \o b
  <2>1. \A i \in 1 .. Len(s) + 1 : t[i] = IF i <= at THEN s[i] ELSE IF i = at + 1 THEN e ELSE s[i - 1]
    BY <1>5
  <2> HIDE DEF t
  <2>2. PutPlaces(t, s, at, e)
    BY <2>1 DEF PutPlaces
  <2> QED BY <2>2 DEF t
<1> QED BY <1>4, <1>6, <1>7, Zenon

THEOREM CutIs ==
  ASSUME NEW S, NEW s \in Seq(S), NEW at \in 0 .. Len(s), NEW n \in 0 .. Len(s) - at
  PROVE  /\ WithoutRange(s, at, n) \in Seq(S)
         /\ Len(WithoutRange(s, at, n)) = Len(s) - n
         /\ CutPlaces(WithoutRange(s, at, n), s, at, n)
<1> DEFINE a == SubSeq(s, 1, at)
           b == SubSeq(s, at + n + 1, Len(s))
<1>0. Len(s) \in Nat /\ at + n \in 0 .. Len(s)
  BY LenProperties
<1>1. a \in Seq(S) /\ Len(a) = at /\ \A i \in 1 .. at : a[i] = s[i]
  BY PrefixIs, Zenon
<1>2. b \in Seq(S) /\ Len(b) = Len(s) - (at + n) /\ \A i \in 1 .. Len(s) - (at + n) : b[i] = s[at + n + i]
  BY <1>0, SuffixIs, Zenon
<1> HIDE DEF a, b
<1>3. /\ a \o b \in Seq(S) /\ Len(a \o b) = Len(s) - n
      /\ \A i \in 1 .. Len(s) - n : (a \o b)[i] = IF i <= at THEN a[i] ELSE b[i - at]
  BY <1>0, <1>1, <1>2, ConcatProperties
<1>4. ASSUME NEW i \in 1 .. Len(s) - n
      PROVE  (a \o b)[i] = IF i <= at THEN s[i] ELSE s[i + n]
  <2>1. CASE i <= at
    BY <1>0, <1>1, <1>3, <2>1
  <2>2. CASE ~ (i <= at)
    <3>1. i - at \in 1 .. Len(s) - (at + n) /\ at + n + (i - at) = i + n
      BY <1>0, <2>2
    <3>2. b[i - at] = s[i + n]
      BY <1>2, <3>1
    <3> QED BY <1>3, <2>2, <3>2
  <2> QED BY <2>1, <2>2
<1>5. WithoutRange(s, at, n) = a \o b
  BY DEF WithoutRange, a, b
<1> QED BY <1>3, <1>4, <1>5, Zenon DEF CutPlaces
=============================================================================
