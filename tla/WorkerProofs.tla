---------------------------- MODULE WorkerProofs ----------------------------
(***************************************************************************)
(* One connection from fdopen() to fclose(), for every first line, every   *)
(* number of headers and every size of the file: what is freed, what is    *)
(* read and what is sent; what the comparisons of strings decide, and what *)
(* is read from a query string.                                            *)
(***************************************************************************)
EXTENDS Worker, DataLemmas

-----------------------------------------------------------------------------
(* Loops over two strings *)

\* f[i] is what the loop returns from the offset i on: while `go`, a mismatch
\* (not `ok`) ends it; then `end` decides.
IsScan(f, n, go, ok, end) ==
  f = [i \in 1 .. n + 1 |-> IF go[i] THEN ok[i] /\ f[i + 1] ELSE end[i]]

\* The loop from i on ends at some offset where `end` holds.
Succeeds(i, n, go, ok, end) ==
  \E j \in i .. n + 1 : ~ go[j] /\ end[j] /\ \A k \in i .. j - 1 : go[k] /\ ok[k]

\* One turn of the loop.
LEMMA OneTurn ==
  ASSUME NEW n \in Nat, NEW go \in [1 .. n + 1 -> BOOLEAN], NEW ok \in [1 .. n + 1 -> BOOLEAN],
         NEW end \in [1 .. n + 1 -> BOOLEAN], ~ go[n + 1], NEW i \in 1 .. n + 1
  PROVE  /\ go[i] => i + 1 \in 1 .. n + 1
         /\ Succeeds(i, n, go, ok, end)
              <=> IF go[i] THEN ok[i] /\ Succeeds(i + 1, n, go, ok, end) ELSE end[i]
<1>1. go[i] => i + 1 \in 1 .. n + 1
  OBVIOUS
<1>2. CASE go[i]
  <2>1. ASSUME Succeeds(i, n, go, ok, end) PROVE ok[i] /\ Succeeds(i + 1, n, go, ok, end)
    <3>1. PICK j \in i .. n + 1 : ~ go[j] /\ end[j] /\ \A k \in i .. j - 1 : go[k] /\ ok[k]
      BY <2>1 DEF Succeeds
    <3>2. j # i
      BY <1>2, <3>1
    <3>3. j \in i + 1 .. n + 1 /\ i \in i .. j - 1 /\ i + 1 .. j - 1 \subseteq i .. j - 1
      BY <3>2
    <3> QED BY <3>1, <3>3 DEF Succeeds
  <2>2. ASSUME ok[i], Succeeds(i + 1, n, go, ok, end) PROVE Succeeds(i, n, go, ok, end)
    <3>1. PICK j \in i + 1 .. n + 1 : ~ go[j] /\ end[j] /\ \A k \in i + 1 .. j - 1 : go[k] /\ ok[k]
      BY <2>2 DEF Succeeds
    <3>2. j \in i .. n + 1 /\ \A k \in i .. j - 1 : k = i \/ k \in i + 1 .. j - 1
      OBVIOUS
    <3>3. \A k \in i .. j - 1 : go[k] /\ ok[k]
      BY <1>2, <2>2, <3>1, <3>2, Zenon
    <3> QED BY <3>1, <3>2, <3>3 DEF Succeeds
  <2> QED BY <1>1, <1>2, <2>1, <2>2
<1>3. CASE ~ go[i]
  <2>1. ASSUME Succeeds(i, n, go, ok, end) PROVE end[i]
    <3>1. PICK j \in i .. n + 1 : ~ go[j] /\ end[j] /\ \A k \in i .. j - 1 : go[k] /\ ok[k]
      BY <2>1 DEF Succeeds
    <3>2. j # i => i \in i .. j - 1
      OBVIOUS
    <3> QED BY <1>3, <3>1, <3>2
  <2>2. ASSUME end[i] PROVE Succeeds(i, n, go, ok, end)
    <3>1. i \in i .. n + 1 /\ i .. i - 1 = {}
      OBVIOUS
    <3> QED BY <1>3, <2>2, <3>1 DEF Succeeds
  <2> QED BY <1>3, <2>1, <2>2
<1> QED BY <1>2, <1>3

\* There is such a function.
LEMMA ScanExists ==
  ASSUME NEW n \in Nat, NEW go \in [1 .. n + 1 -> BOOLEAN], NEW ok \in [1 .. n + 1 -> BOOLEAN],
         NEW end \in [1 .. n + 1 -> BOOLEAN], ~ go[n + 1]
  PROVE  IsScan([i \in 1 .. n + 1 |-> Succeeds(i, n, go, ok, end)], n, go, ok, end)
<1> DEFINE f == [i \in 1 .. n + 1 |-> Succeeds(i, n, go, ok, end)]
<1>1. \A i \in 1 .. n + 1 : f[i] = IF go[i] THEN ok[i] /\ f[i + 1] ELSE end[i]
  <2> TAKE i \in 1 .. n + 1
  <2>1. /\ go[i] => i + 1 \in 1 .. n + 1
        /\ Succeeds(i, n, go, ok, end)
             <=> IF go[i] THEN ok[i] /\ Succeeds(i + 1, n, go, ok, end) ELSE end[i]
    BY OneTurn
  <2>2. Succeeds(i, n, go, ok, end) \in BOOLEAN /\ Succeeds(i + 1, n, go, ok, end) \in BOOLEAN
    BY DEF Succeeds
  <2>3. CASE go[i]
    <3>1. f[i] = Succeeds(i, n, go, ok, end) /\ f[i + 1] = Succeeds(i + 1, n, go, ok, end)
      BY <2>1, <2>3
    <3> QED BY <2>1, <2>2, <2>3, <3>1
  <2>4. CASE ~ go[i]
    <3>1. f[i] = Succeeds(i, n, go, ok, end)
      OBVIOUS
    <3> QED BY <2>1, <2>2, <2>4, <3>1
  <2> QED BY <2>3, <2>4
<1> QED BY <1>1 DEF IsScan

\* And what it is at the start.
LEMMA ScanIs ==
  ASSUME NEW n \in Nat, NEW go \in [1 .. n + 1 -> BOOLEAN], NEW ok \in [1 .. n + 1 -> BOOLEAN],
         NEW end \in [1 .. n + 1 -> BOOLEAN], ~ go[n + 1], NEW f, IsScan(f, n, go, ok, end)
  PROVE  f[1] <=> Succeeds(1, n, go, ok, end)
<1>1. \A i \in 1 .. n + 1 : f[i] = IF go[i] THEN ok[i] /\ f[i + 1] ELSE end[i]
  BY DEF IsScan
<1> DEFINE bad == { i \in 1 .. n + 1 : ~ (f[i] <=> Succeeds(i, n, go, ok, end)) }
<1>2. bad = {}
  <2> SUFFICES ASSUME bad # {} PROVE FALSE
    OBVIOUS
  <2>1. bad \subseteq 0 .. n + 1 /\ n + 1 \in Nat
    OBVIOUS
  <2>2. PICK m \in bad : \A i \in bad : i <= m
    <3> HIDE DEF bad
    <3> QED BY <2>1, GreatestExists
  <2>3. m \in 1 .. n + 1 /\ ~ (f[m] <=> Succeeds(m, n, go, ok, end))
    OBVIOUS
  <2>4. /\ go[m] => m + 1 \in 1 .. n + 1
        /\ Succeeds(m, n, go, ok, end)
             <=> IF go[m] THEN ok[m] /\ Succeeds(m + 1, n, go, ok, end) ELSE end[m]
    BY <2>3, OneTurn
  <2>5. go[m] => (f[m + 1] <=> Succeeds(m + 1, n, go, ok, end))
    <3> SUFFICES ASSUME go[m] PROVE f[m + 1] <=> Succeeds(m + 1, n, go, ok, end)
      OBVIOUS
    <3>1. m + 1 \in 1 .. n + 1 /\ ~ (m + 1 <= m)
      BY <2>3, <2>4
    <3>2. m + 1 \notin bad
      <4> HIDE DEF bad
      <4> QED BY <2>2, <3>1
    <3> QED BY <3>1, <3>2
  <2>6. f[m] = IF go[m] THEN ok[m] /\ f[m + 1] ELSE end[m]
    BY <1>1, <2>3
  <2> QED BY <2>3, <2>4, <2>5, <2>6, Zenon
<1> QED BY <1>2
-----------------------------------------------------------------------------
(* The comparisons *)

LEMMA CharAtIs ==
  ASSUME NEW s \in Seq(Char)
  PROVE  /\ Len(s) \in Nat /\ DOMAIN s = 1 .. Len(s)
         /\ CharAt(s, Len(s) + 1) = Nul
         /\ \A i \in 1 .. Len(s) : CharAt(s, i) = s[i] /\ s[i] \in Char /\ s[i] # Nul
<1>1. Len(s) \in Nat /\ DOMAIN s = 1 .. Len(s) /\ \A i \in 1 .. Len(s) : s[i] \in Char
  BY LenProperties
<1>2. s \in Seq(Char \cup {Nul}) /\ Nul \in Char \cup {Nul}
  BY <1>1
<1>3. /\ Append(s, Nul)[Len(s) + 1] = Nul
      /\ \A i \in 1 .. Len(s) : Append(s, Nul)[i] = s[i]
  BY <1>1, <1>2, AppendProperties
<1>4. \A i \in 1 .. Len(s) : s[i] # Nul
  BY <1>1, UrlMatchAssumption
<1> QED BY <1>1, <1>3, <1>4 DEF CharAt

LEMMA LowerIs == lower(Nul) = Nul /\ \A c \in Char : lower(c) = ToLower[c] /\ lower(c) \in Char /\ lower(c) # Nul
BY UrlMatchAssumption DEF lower

IsStrcmp(f, lhs, rhs) ==
  f = [i \in 1 .. Len(lhs) + 1 |->
        IF CharAt(lhs, i) # Nul
        THEN lower(CharAt(lhs, i)) = lower(CharAt(rhs, i)) /\ f[i + 1]
        ELSE CharAt(rhs, i) = Nul]

\* The loop of strcmp_icase returns what it says of some offset.
LEMMA StrcmpStops ==
  ASSUME NEW lhs \in Seq(Char), NEW rhs \in Seq(Char)
  PROVE  strcmp_icase(lhs, rhs)
           <=> \E j \in 1 .. Len(lhs) + 1 :
                 /\ CharAt(lhs, j) = Nul /\ CharAt(rhs, j) = Nul
                 /\ \A k \in 1 .. j - 1 :
                      CharAt(lhs, k) # Nul /\ lower(CharAt(lhs, k)) = lower(CharAt(rhs, k))
<1> DEFINE n   == Len(lhs)
           go  == [i \in 1 .. n + 1 |-> CharAt(lhs, i) # Nul]
           ok  == [i \in 1 .. n + 1 |-> lower(CharAt(lhs, i)) = lower(CharAt(rhs, i))]
           end == [i \in 1 .. n + 1 |-> CharAt(rhs, i) = Nul]
           f   == CHOOSE g : IsStrcmp(g, lhs, rhs)
<1>1. n \in Nat /\ CharAt(lhs, n + 1) = Nul
  BY CharAtIs
<1>2. /\ go \in [1 .. n + 1 -> BOOLEAN] /\ ok \in [1 .. n + 1 -> BOOLEAN] /\ end \in [1 .. n + 1 -> BOOLEAN]
      /\ ~ go[n + 1]
  <2>1. go \in [1 .. n + 1 -> BOOLEAN] /\ ok \in [1 .. n + 1 -> BOOLEAN] /\ end \in [1 .. n + 1 -> BOOLEAN]
    BY Zenon
  <2>2. n + 1 \in 1 .. n + 1
    BY <1>1
  <2> QED BY <1>1, <2>1, <2>2, Zenon
<1>3. \A g : IsScan(g, n, go, ok, end) <=> IsStrcmp(g, lhs, rhs)
  BY DEF IsScan, IsStrcmp
<1>4. strcmp_icase(lhs, rhs) = f[1]
  BY Zenon DEF strcmp_icase, IsStrcmp
<1>5. f[1] <=> Succeeds(1, n, go, ok, end)
  <2> HIDE DEF go, ok, end
  <2>1. \E g : IsScan(g, n, go, ok, end)
    BY <1>1, <1>2, ScanExists, Zenon
  <2>2. IsScan(f, n, go, ok, end)
    BY <1>3, <2>1, Zenon
  <2> HIDE DEF f
  <2> QED BY <1>1, <1>2, <2>2, ScanIs, Zenon
<1>6. Succeeds(1, n, go, ok, end)
        <=> \E j \in 1 .. n + 1 :
              /\ CharAt(lhs, j) = Nul /\ CharAt(rhs, j) = Nul
              /\ \A k \in 1 .. j - 1 :
                   CharAt(lhs, k) # Nul /\ lower(CharAt(lhs, k)) = lower(CharAt(rhs, k))
  <2>1. \A j \in 1 .. n + 1 :
          /\ go[j] <=> CharAt(lhs, j) # Nul
          /\ ok[j] <=> lower(CharAt(lhs, j)) = lower(CharAt(rhs, j))
          /\ end[j] <=> CharAt(rhs, j) = Nul
    BY Zenon
  <2>2. \A j \in 1 .. n + 1 : \A k \in 1 .. j - 1 : k \in 1 .. n + 1
    BY <1>1
  <2> HIDE DEF go, ok, end
  <2>3. ASSUME NEW j \in 1 .. n + 1
        PROVE  (~ go[j] /\ end[j] /\ \A k \in 1 .. j - 1 : go[k] /\ ok[k])
                 <=> /\ CharAt(lhs, j) = Nul /\ CharAt(rhs, j) = Nul
                     /\ \A k \in 1 .. j - 1 :
                          CharAt(lhs, k) # Nul /\ lower(CharAt(lhs, k)) = lower(CharAt(rhs, k))
    BY <2>1, <2>2, Zenon
  <2> QED BY <2>3, Zenon DEF Succeeds
<1> HIDE DEF f
<1> QED BY <1>4, <1>5, <1>6, Zenon

LEMMA LowerCaseIs ==
  ASSUME NEW s \in Seq(Char)
  PROVE  /\ LowerCase(s) \in Seq(Char) /\ Len(LowerCase(s)) = Len(s)
         /\ \A i \in 1 .. Len(s) : LowerCase(s)[i] = lower(CharAt(s, i)) /\ lower(CharAt(s, i)) \in Char
<1>1. /\ Len(s) \in Nat /\ DOMAIN s = 1 .. Len(s)
      /\ \A i \in 1 .. Len(s) : CharAt(s, i) = s[i] /\ s[i] \in Char
  BY CharAtIs
<1>2. \A i \in 1 .. Len(s) : lower(CharAt(s, i)) = ToLower[s[i]] /\ ToLower[s[i]] \in Char
  BY <1>1, LowerIs
<1> DEFINE t == [i \in 1 .. Len(s) |-> ToLower[s[i]]]
<1>3. t \in Seq(Char) /\ DOMAIN t = 1 .. Len(s) /\ \A i \in 1 .. Len(s) : t[i] = ToLower[s[i]]
  BY <1>1, <1>2
<1>4. LowerCase(s) = t
  BY <1>1 DEF LowerCase
<1> HIDE DEF t
<1>5. Len(t) = Len(s)
  BY <1>1, <1>3, LenProperties
<1> QED BY <1>2, <1>3, <1>4, <1>5

\* A text that agrees with another one up to some place is not shorter.
LEMMA AgreeingUpTo ==
  ASSUME NEW s \in Seq(Char), NEW t \in Seq(Char), NEW n \in 0 .. Len(s),
         \A k \in 1 .. n : lower(CharAt(s, k)) = lower(CharAt(t, k))
  PROVE  n <= Len(t)
<1>1. /\ Len(s) \in Nat /\ Len(t) \in Nat /\ CharAt(t, Len(t) + 1) = Nul
      /\ \A i \in 1 .. Len(s) : CharAt(s, i) \in Char
  BY CharAtIs
<1> SUFFICES ASSUME ~ (n <= Len(t)) PROVE FALSE
  OBVIOUS
<1>2. Len(t) + 1 \in 1 .. n /\ Len(t) + 1 \in 1 .. Len(s)
  BY <1>1
<1>3. lower(CharAt(s, Len(t) + 1)) = Nul
  BY <1>1, <1>2, LowerIs
<1> QED BY <1>1, <1>2, <1>3, LowerIs

\* What it means to be equal in lower case.
LEMMA EqualInLowerCase ==
  ASSUME NEW s \in Seq(Char), NEW t \in Seq(Char)
  PROVE  LowerCase(s) = LowerCase(t)
           <=> Len(s) = Len(t) /\ \A k \in 1 .. Len(s) : lower(CharAt(s, k)) = lower(CharAt(t, k))
<1>1. /\ LowerCase(s) \in Seq(Char) /\ Len(LowerCase(s)) = Len(s)
      /\ \A i \in 1 .. Len(s) : LowerCase(s)[i] = lower(CharAt(s, i))
  BY LowerCaseIs, Zenon
<1>2. /\ LowerCase(t) \in Seq(Char) /\ Len(LowerCase(t)) = Len(t)
      /\ \A i \in 1 .. Len(t) : LowerCase(t)[i] = lower(CharAt(t, i))
  BY LowerCaseIs, Zenon
<1>3. ASSUME LowerCase(s) = LowerCase(t)
      PROVE  Len(s) = Len(t) /\ \A k \in 1 .. Len(s) : lower(CharAt(s, k)) = lower(CharAt(t, k))
  <2>1. Len(s) = Len(t)
    BY <1>1, <1>2, <1>3, Zenon
  <2> QED BY <1>1, <1>2, <1>3, <2>1, Zenon
<1>4. ASSUME Len(s) = Len(t), \A k \in 1 .. Len(s) : lower(CharAt(s, k)) = lower(CharAt(t, k))
      PROVE  LowerCase(s) = LowerCase(t)
  <2>1. \A k \in 1 .. Len(LowerCase(s)) : LowerCase(s)[k] = LowerCase(t)[k]
    BY <1>1, <1>2, <1>4
  <2> QED BY <1>1, <1>2, <1>4, <2>1, SeqEqual, Zenon
<1> QED BY <1>3, <1>4

LEMMA StrcmpIs ==
  ASSUME NEW lhs \in Seq(Char), NEW rhs \in Seq(Char)
  PROVE  strcmp_icase(lhs, rhs) <=> LowerCase(lhs) = LowerCase(rhs)
<1>1. /\ Len(lhs) \in Nat /\ CharAt(lhs, Len(lhs) + 1) = Nul
      /\ \A i \in 1 .. Len(lhs) : CharAt(lhs, i) # Nul /\ CharAt(lhs, i) \in Char
  BY CharAtIs
<1>2. /\ Len(rhs) \in Nat /\ CharAt(rhs, Len(rhs) + 1) = Nul
      /\ \A i \in 1 .. Len(rhs) : CharAt(rhs, i) # Nul
  BY CharAtIs
<1>3. ASSUME NEW j \in 1 .. Len(lhs) + 1, CharAt(lhs, j) = Nul, CharAt(rhs, j) = Nul,
             \A k \in 1 .. j - 1 : lower(CharAt(lhs, k)) = lower(CharAt(rhs, k))
      PROVE  Len(lhs) = Len(rhs) /\ \A k \in 1 .. Len(lhs) : lower(CharAt(lhs, k)) = lower(CharAt(rhs, k))
  <2>1. j = Len(lhs) + 1 /\ j - 1 = Len(lhs)
    <3>1. j \notin 1 .. Len(lhs)
      BY <1>1, <1>3
    <3> QED BY <1>1, <3>1
  <2>2. \A k \in 1 .. Len(lhs) : lower(CharAt(lhs, k)) = lower(CharAt(rhs, k))
    BY <1>3, <2>1, Zenon
  <2>3. Len(lhs) <= Len(rhs)
    <3>1. Len(lhs) \in 0 .. Len(lhs)
      BY <1>1
    <3> QED BY <2>2, <3>1, AgreeingUpTo, Zenon
  <2>4. j \notin 1 .. Len(rhs)
    BY <1>2, <1>3
  <2> QED BY <1>1, <1>2, <2>1, <2>2, <2>3, <2>4
<1>4. ASSUME Len(lhs) = Len(rhs), \A k \in 1 .. Len(lhs) : lower(CharAt(lhs, k)) = lower(CharAt(rhs, k))
      PROVE  \E j \in 1 .. Len(lhs) + 1 :
               /\ CharAt(lhs, j) = Nul /\ CharAt(rhs, j) = Nul
               /\ \A k \in 1 .. j - 1 :
                    CharAt(lhs, k) # Nul /\ lower(CharAt(lhs, k)) = lower(CharAt(rhs, k))
  <2>1. Len(lhs) + 1 \in 1 .. Len(lhs) + 1 /\ 1 .. (Len(lhs) + 1) - 1 = 1 .. Len(lhs)
    BY <1>1
  <2> QED BY <1>1, <1>2, <1>4, <2>1
<1> QED BY <1>3, <1>4, StrcmpStops, EqualInLowerCase
\* Equal, or equal in lower case.
Same(icase, c, d) == IF icase THEN lower(c) = lower(d) ELSE c = d

IsSlicecmp(f, slice, rhs) ==
  f = [i \in 1 .. Len(slice) + 1 |->
        IF ~ (i = Len(slice) + 1) /\ CharAt(rhs, i) # Nul
        THEN lower(slice[i]) = lower(CharAt(rhs, i)) /\ f[i + 1]
        ELSE (i = Len(slice) + 1 /\ CharAt(rhs, i) = Nul)]

LEMMA SlicecmpStops ==
  ASSUME NEW slice \in Seq(Char), NEW rhs \in Seq(Char)
  PROVE  slicecmp_icase(slice, rhs)
           <=> \E j \in 1 .. Len(slice) + 1 :
                 /\ ~ (~ (j = Len(slice) + 1) /\ CharAt(rhs, j) # Nul) /\ (j = Len(slice) + 1 /\ CharAt(rhs, j) = Nul)
                 /\ \A k \in 1 .. j - 1 : ~ (k = Len(slice) + 1) /\ CharAt(rhs, k) # Nul /\ lower(slice[k]) = lower(CharAt(rhs, k))
<1> DEFINE n   == Len(slice)
           go  == [i \in 1 .. n + 1 |-> ~ (i = Len(slice) + 1) /\ CharAt(rhs, i) # Nul]
           ok  == [i \in 1 .. n + 1 |-> lower(slice[i]) = lower(CharAt(rhs, i))]
           end == [i \in 1 .. n + 1 |-> (i = Len(slice) + 1 /\ CharAt(rhs, i) = Nul)]
           f   == CHOOSE g : IsSlicecmp(g, slice, rhs)
<1>1. n \in Nat /\ CharAt(slice, n + 1) = Nul
  BY CharAtIs
<1>2. /\ go \in [1 .. n + 1 -> BOOLEAN] /\ ok \in [1 .. n + 1 -> BOOLEAN] /\ end \in [1 .. n + 1 -> BOOLEAN]
      /\ ~ go[n + 1]
  <2>1. go \in [1 .. n + 1 -> BOOLEAN] /\ ok \in [1 .. n + 1 -> BOOLEAN] /\ end \in [1 .. n + 1 -> BOOLEAN]
    BY Zenon
  <2>2. n + 1 \in 1 .. n + 1
    BY <1>1
  <2> QED BY <1>1, <2>1, <2>2, Zenon
<1>3. \A g : IsScan(g, n, go, ok, end) <=> IsSlicecmp(g, slice, rhs)
  BY DEF IsScan, IsSlicecmp
<1>4. slicecmp_icase(slice, rhs) = f[1]
  BY Zenon DEF slicecmp_icase, IsSlicecmp
<1>5. f[1] <=> Succeeds(1, n, go, ok, end)
  <2> HIDE DEF go, ok, end
  <2>1. \E g : IsScan(g, n, go, ok, end)
    BY <1>1, <1>2, ScanExists, Zenon
  <2>2. IsScan(f, n, go, ok, end)
    BY <1>3, <2>1, Zenon
  <2> HIDE DEF f
  <2> QED BY <1>1, <1>2, <2>2, ScanIs, Zenon
<1>6. Succeeds(1, n, go, ok, end)
        <=> \E j \in 1 .. n + 1 :
              /\ ~ (~ (j = Len(slice) + 1) /\ CharAt(rhs, j) # Nul) /\ (j = Len(slice) + 1 /\ CharAt(rhs, j) = Nul)
              /\ \A k \in 1 .. j - 1 : ~ (k = Len(slice) + 1) /\ CharAt(rhs, k) # Nul /\ lower(slice[k]) = lower(CharAt(rhs, k))
  <2>1. \A j \in 1 .. n + 1 : (go[j] <=> ~ (j = Len(slice) + 1) /\ CharAt(rhs, j) # Nul) /\ (ok[j] <=> lower(slice[j]) = lower(CharAt(rhs, j))) /\ (end[j] <=> (j = Len(slice) + 1 /\ CharAt(rhs, j) = Nul))
    BY Zenon
  <2>2. \A j \in 1 .. n + 1 : \A k \in 1 .. j - 1 : k \in 1 .. n + 1
    BY <1>1
  <2> HIDE DEF go, ok, end
  <2>3. ASSUME NEW j \in 1 .. n + 1
        PROVE  (~ go[j] /\ end[j] /\ \A k \in 1 .. j - 1 : go[k] /\ ok[k])
                 <=> /\ ~ (~ (j = Len(slice) + 1) /\ CharAt(rhs, j) # Nul) /\ (j = Len(slice) + 1 /\ CharAt(rhs, j) = Nul)
                     /\ \A k \in 1 .. j - 1 : ~ (k = Len(slice) + 1) /\ CharAt(rhs, k) # Nul /\ lower(slice[k]) = lower(CharAt(rhs, k))
    BY <2>1, <2>2, Zenon
  <2> QED BY <2>3, Zenon DEF Succeeds
<1> HIDE DEF f
<1> QED BY <1>4, <1>5, <1>6, Zenon

IsPrefixLoop(f, icase, url, pattern) ==
  f = [i \in 1 .. Len(url) + 1 |->
        IF CharAt(url, i) # Nul /\ CharAt(pattern, i) # Nul
        THEN Same(icase, CharAt(url, i), CharAt(pattern, i)) /\ f[i + 1]
        ELSE CharAt(pattern, i) = Nul]

LEMMA PrefixStops ==
  ASSUME NEW icase, NEW url \in Seq(Char), NEW pattern \in Seq(Char)
  PROVE  patternIsPrefix(icase, url, pattern)
           <=> \E j \in 1 .. Len(url) + 1 :
                 /\ ~ (CharAt(url, j) # Nul /\ CharAt(pattern, j) # Nul) /\ CharAt(pattern, j) = Nul
                 /\ \A k \in 1 .. j - 1 : CharAt(url, k) # Nul /\ CharAt(pattern, k) # Nul /\ Same(icase, CharAt(url, k), CharAt(pattern, k))
<1> DEFINE n   == Len(url)
           go  == [i \in 1 .. n + 1 |-> CharAt(url, i) # Nul /\ CharAt(pattern, i) # Nul]
           ok  == [i \in 1 .. n + 1 |-> Same(icase, CharAt(url, i), CharAt(pattern, i))]
           end == [i \in 1 .. n + 1 |-> CharAt(pattern, i) = Nul]
           f   == CHOOSE g : IsPrefixLoop(g, icase, url, pattern)
<1>1. n \in Nat /\ CharAt(url, n + 1) = Nul
  BY CharAtIs
<1>2. /\ go \in [1 .. n + 1 -> BOOLEAN] /\ ok \in [1 .. n + 1 -> BOOLEAN] /\ end \in [1 .. n + 1 -> BOOLEAN]
      /\ ~ go[n + 1]
  <2>1. go \in [1 .. n + 1 -> BOOLEAN] /\ ok \in [1 .. n + 1 -> BOOLEAN] /\ end \in [1 .. n + 1 -> BOOLEAN]
    <3>1. \A i \in 1 .. n + 1 : Same(icase, CharAt(url, i), CharAt(pattern, i)) \in BOOLEAN
      BY DEF Same
    <3> QED BY <3>1, Zenon
  <2>2. n + 1 \in 1 .. n + 1
    BY <1>1
  <2> QED BY <1>1, <2>1, <2>2, Zenon
<1>3. \A g : IsScan(g, n, go, ok, end) <=> IsPrefixLoop(g, icase, url, pattern)
  BY DEF IsScan, IsPrefixLoop
<1>4. patternIsPrefix(icase, url, pattern) = f[1]
  BY Zenon DEF patternIsPrefix, IsPrefixLoop, Same
<1>5. f[1] <=> Succeeds(1, n, go, ok, end)
  <2> HIDE DEF go, ok, end
  <2>1. \E g : IsScan(g, n, go, ok, end)
    BY <1>1, <1>2, ScanExists, Zenon
  <2>2. IsScan(f, n, go, ok, end)
    BY <1>3, <2>1, Zenon
  <2> HIDE DEF f
  <2> QED BY <1>1, <1>2, <2>2, ScanIs, Zenon
<1>6. Succeeds(1, n, go, ok, end)
        <=> \E j \in 1 .. n + 1 :
              /\ ~ (CharAt(url, j) # Nul /\ CharAt(pattern, j) # Nul) /\ CharAt(pattern, j) = Nul
              /\ \A k \in 1 .. j - 1 : CharAt(url, k) # Nul /\ CharAt(pattern, k) # Nul /\ Same(icase, CharAt(url, k), CharAt(pattern, k))
  <2>1. \A j \in 1 .. n + 1 : (go[j] <=> CharAt(url, j) # Nul /\ CharAt(pattern, j) # Nul) /\ (ok[j] <=> Same(icase, CharAt(url, j), CharAt(pattern, j))) /\ (end[j] <=> CharAt(pattern, j) = Nul)
    BY Zenon
  <2>2. \A j \in 1 .. n + 1 : \A k \in 1 .. j - 1 : k \in 1 .. n + 1
    BY <1>1
  <2> HIDE DEF go, ok, end
  <2>3. ASSUME NEW j \in 1 .. n + 1
        PROVE  (~ go[j] /\ end[j] /\ \A k \in 1 .. j - 1 : go[k] /\ ok[k])
                 <=> /\ ~ (CharAt(url, j) # Nul /\ CharAt(pattern, j) # Nul) /\ CharAt(pattern, j) = Nul
                     /\ \A k \in 1 .. j - 1 : CharAt(url, k) # Nul /\ CharAt(pattern, k) # Nul /\ Same(icase, CharAt(url, k), CharAt(pattern, k))
    BY <2>1, <2>2, Zenon
  <2> QED BY <2>3, Zenon DEF Succeeds
<1> HIDE DEF f
<1> QED BY <1>4, <1>5, <1>6, Zenon
LEMMA SlicecmpIs ==
  ASSUME NEW slice \in Seq(Char), NEW rhs \in Seq(Char)
  PROVE  slicecmp_icase(slice, rhs) <=> LowerCase(slice) = LowerCase(rhs)
<1>1. /\ Len(slice) \in Nat /\ CharAt(slice, Len(slice) + 1) = Nul
      /\ \A i \in 1 .. Len(slice) : CharAt(slice, i) = slice[i]
  BY CharAtIs
<1>2. /\ Len(rhs) \in Nat /\ CharAt(rhs, Len(rhs) + 1) = Nul
      /\ \A i \in 1 .. Len(rhs) : CharAt(rhs, i) # Nul
  BY CharAtIs
<1>3. ASSUME NEW j \in 1 .. Len(slice) + 1, j = Len(slice) + 1, CharAt(rhs, j) = Nul,
             \A k \in 1 .. j - 1 : lower(slice[k]) = lower(CharAt(rhs, k))
      PROVE  /\ Len(slice) = Len(rhs)
             /\ \A k \in 1 .. Len(slice) : lower(CharAt(slice, k)) = lower(CharAt(rhs, k))
  <2>1. j - 1 = Len(slice)
    BY <1>1, <1>3
  <2>2. \A k \in 1 .. Len(slice) : lower(CharAt(slice, k)) = lower(CharAt(rhs, k))
    BY <1>1, <1>3, <2>1, Zenon
  <2>3. Len(slice) <= Len(rhs)
    <3>1. Len(slice) \in 0 .. Len(slice)
      BY <1>1
    <3> QED BY <2>2, <3>1, AgreeingUpTo, Zenon
  <2>4. j \notin 1 .. Len(rhs)
    BY <1>2, <1>3
  <2> QED BY <1>1, <1>2, <1>3, <2>2, <2>3, <2>4
<1>4. ASSUME Len(slice) = Len(rhs), \A k \in 1 .. Len(slice) : lower(CharAt(slice, k)) = lower(CharAt(rhs, k))
      PROVE  \E j \in 1 .. Len(slice) + 1 :
               /\ ~ (~ (j = Len(slice) + 1) /\ CharAt(rhs, j) # Nul)
               /\ (j = Len(slice) + 1 /\ CharAt(rhs, j) = Nul)
               /\ \A k \in 1 .. j - 1 : /\ ~ (k = Len(slice) + 1) /\ CharAt(rhs, k) # Nul
                                        /\ lower(slice[k]) = lower(CharAt(rhs, k))
  <2>1. Len(slice) + 1 \in 1 .. Len(slice) + 1 /\ 1 .. (Len(slice) + 1) - 1 = 1 .. Len(slice)
        /\ \A k \in 1 .. Len(slice) : k # Len(slice) + 1
    BY <1>1
  <2> QED BY <1>1, <1>2, <1>4, <2>1
<1> QED BY <1>3, <1>4, SlicecmpStops, EqualInLowerCase

-----------------------------------------------------------------------------
(* Routes *)

LEMMA StartsWithIs ==
  ASSUME NEW s \in Seq(Char), NEW t \in Seq(Char)
  PROVE  StartsWith(s, t) <=> Len(t) <= Len(s) /\ \A k \in 1 .. Len(t) : s[k] = t[k]
<1>1. /\ Len(s) \in Nat /\ Len(t) \in Nat /\ \A k \in 1 .. Len(s) : s[k] \in Char
  BY CharAtIs
<1>2. ASSUME Len(t) <= Len(s)
      PROVE  SubSeq(s, 1, Len(t)) = t <=> \A k \in 1 .. Len(t) : s[k] = t[k]
  <2> DEFINE u == SubSeq(s, 1, Len(t))
  <2>1. \A k \in 1 .. Len(t) : s[k] \in Char
    BY <1>1, <1>2
  <2>2. /\ u \in Seq(Char) /\ Len(u) = IF 1 <= Len(t) THEN Len(t) - 1 + 1 ELSE 0
        /\ \A k \in 1 .. Len(t) - 1 + 1 : u[k] = s[1 + k - 1]
    BY <1>1, <2>1, SubSeqProperties
  <2> HIDE DEF u
  <2>3. Len(u) = Len(t) /\ \A k \in 1 .. Len(t) : u[k] = s[k]
    <3>1. (Len(t) - 1) + 1 = Len(t) /\ (~ (1 <= Len(t)) => Len(t) = 0)
      BY <1>1
    <3>2. Len(u) = Len(t)
      BY <2>2, <3>1
    <3>3. \A k \in 1 .. Len(t) : 1 + k - 1 = k
      OBVIOUS
    <3>4. \A k \in 1 .. Len(t) : u[k] = s[1 + k - 1]
      BY <2>2, <3>1
    <3> QED BY <3>2, <3>3, <3>4
  <2>4. ASSUME \A k \in 1 .. Len(t) : s[k] = t[k] PROVE u = t
    <3>1. \A k \in 1 .. Len(u) : u[k] = t[k]
      BY <2>3, <2>4
    <3> QED BY <2>2, <2>3, <3>1, SeqEqual, Zenon
  <2>5. u = t => \A k \in 1 .. Len(t) : s[k] = t[k]
    BY <2>3
  <2> QED BY <2>4, <2>5 DEF u
<1> QED BY <1>2 DEF StartsWith

LEMMA NormalIs ==
  ASSUME NEW ignoreCase \in BOOLEAN, NEW s \in Seq(Char)
  PROVE  /\ Normal(ignoreCase, s) \in Seq(Char) /\ Len(Normal(ignoreCase, s)) = Len(s)
         /\ \A k \in 1 .. Len(s) :
              Normal(ignoreCase, s)[k] = IF ignoreCase THEN lower(CharAt(s, k)) ELSE CharAt(s, k)
<1>1. /\ LowerCase(s) \in Seq(Char) /\ Len(LowerCase(s)) = Len(s)
      /\ \A i \in 1 .. Len(s) : LowerCase(s)[i] = lower(CharAt(s, i))
  BY LowerCaseIs, Zenon
<1>2. \A i \in 1 .. Len(s) : CharAt(s, i) = s[i]
  BY CharAtIs
<1> QED BY <1>1, <1>2 DEF Normal

LEMMA MatchIs ==
  ASSUME NEW ignoreCase \in BOOLEAN, NEW url \in Seq(Char), NEW pattern \in Seq(Char)
  PROVE  patternIsPrefix(ignoreCase, url, pattern)
           <=> StartsWith(Normal(ignoreCase, url), Normal(ignoreCase, pattern))
<1>1. /\ Len(url) \in Nat /\ CharAt(url, Len(url) + 1) = Nul
      /\ \A i \in 1 .. Len(url) : CharAt(url, i) # Nul
  BY CharAtIs
<1>2. /\ Len(pattern) \in Nat /\ CharAt(pattern, Len(pattern) + 1) = Nul
      /\ \A i \in 1 .. Len(pattern) : CharAt(pattern, i) # Nul
  BY CharAtIs
<1> DEFINE same(k) == Same(ignoreCase, CharAt(url, k), CharAt(pattern, k))
<1>3. ASSUME NEW j \in 1 .. Len(url) + 1, CharAt(pattern, j) = Nul,
             \A k \in 1 .. j - 1 : CharAt(pattern, k) # Nul /\ same(k)
      PROVE  Len(pattern) <= Len(url) /\ \A k \in 1 .. Len(pattern) : same(k)
  <2> HIDE DEF same
  <2>1. Len(pattern) + 1 \notin 1 .. j - 1 /\ j \notin 1 .. Len(pattern)
    BY <1>2, <1>3
  <2>2. j = Len(pattern) + 1 /\ j - 1 = Len(pattern)
    BY <1>1, <1>2, <2>1
  <2>3. \A k \in 1 .. Len(pattern) : same(k)
    BY <1>3, <2>2, Zenon
  <2> QED BY <1>1, <1>2, <2>2, <2>3
<1>4. ASSUME Len(pattern) <= Len(url), \A k \in 1 .. Len(pattern) : same(k)
      PROVE  \E j \in 1 .. Len(url) + 1 :
               /\ ~ (CharAt(url, j) # Nul /\ CharAt(pattern, j) # Nul) /\ CharAt(pattern, j) = Nul
               /\ \A k \in 1 .. j - 1 : CharAt(url, k) # Nul /\ CharAt(pattern, k) # Nul /\ same(k)
  <2> HIDE DEF same
  <2>1. /\ Len(pattern) + 1 \in 1 .. Len(url) + 1 /\ 1 .. (Len(pattern) + 1) - 1 = 1 .. Len(pattern)
        /\ 1 .. Len(pattern) \subseteq 1 .. Len(url)
    BY <1>1, <1>2, <1>4
  <2> QED BY <1>1, <1>2, <1>4, <2>1
<1>5. patternIsPrefix(ignoreCase, url, pattern)
        <=> Len(pattern) <= Len(url) /\ \A k \in 1 .. Len(pattern) : same(k)
  BY <1>3, <1>4, PrefixStops
<1>6. /\ Normal(ignoreCase, url) \in Seq(Char) /\ Len(Normal(ignoreCase, url)) = Len(url)
      /\ \A k \in 1 .. Len(url) :
           Normal(ignoreCase, url)[k] = IF ignoreCase THEN lower(CharAt(url, k)) ELSE CharAt(url, k)
  BY NormalIs
<1>7. /\ Normal(ignoreCase, pattern) \in Seq(Char) /\ Len(Normal(ignoreCase, pattern)) = Len(pattern)
      /\ \A k \in 1 .. Len(pattern) :
           Normal(ignoreCase, pattern)[k]
             = IF ignoreCase THEN lower(CharAt(pattern, k)) ELSE CharAt(pattern, k)
  BY NormalIs
<1>8. Len(pattern) <= Len(url) =>
        \A k \in 1 .. Len(pattern) :
          same(k) <=> Normal(ignoreCase, url)[k] = Normal(ignoreCase, pattern)[k]
  <2> SUFFICES ASSUME Len(pattern) <= Len(url), NEW k \in 1 .. Len(pattern)
               PROVE  same(k) <=> Normal(ignoreCase, url)[k] = Normal(ignoreCase, pattern)[k]
    OBVIOUS
  <2>1. k \in 1 .. Len(url)
    BY <1>1, <1>2
  <2> QED BY <1>6, <1>7, <2>1 DEF Same
<1>9. StartsWith(Normal(ignoreCase, url), Normal(ignoreCase, pattern))
        <=> /\ Len(pattern) <= Len(url)
            /\ \A k \in 1 .. Len(pattern) :
                 Normal(ignoreCase, url)[k] = Normal(ignoreCase, pattern)[k]
  <2>1. StartsWith(Normal(ignoreCase, url), Normal(ignoreCase, pattern))
          <=> /\ Len(Normal(ignoreCase, pattern)) <= Len(Normal(ignoreCase, url))
              /\ \A k \in 1 .. Len(Normal(ignoreCase, pattern)) :
                   Normal(ignoreCase, url)[k] = Normal(ignoreCase, pattern)[k]
    BY <1>6, <1>7, StartsWithIs, Zenon
  <2>2. Len(Normal(ignoreCase, pattern)) = Len(pattern) /\ Len(Normal(ignoreCase, url)) = Len(url)
    BY <1>6, <1>7, Zenon
  <2> QED BY <2>1, <2>2
<1> HIDE DEF same
<1> QED BY <1>5, <1>8, <1>9

\* The comparison routeAndHandle picks.
LEMMA UrlCompareIs ==
  ASSUME NEW ignoreCase \in BOOLEAN, NEW url \in Seq(Char), NEW pattern \in Seq(Char)
  PROVE  urlCompare(ignoreCase, url, pattern)
           <=> IF pattern # <<>> /\ Head(pattern) = "!"
               THEN Normal(ignoreCase, url) = Normal(ignoreCase, Tail(pattern))
               ELSE StartsWith(Normal(ignoreCase, url), Normal(ignoreCase, pattern))
<1>1. CharAt(pattern, 1) = "!" <=> pattern # <<>> /\ Head(pattern) = "!"
  <2>1. CASE pattern = <<>>
    <3>1. Len(pattern) + 1 = 1
      BY <2>1
    <3>2. CharAt(pattern, 1) = Nul
      BY <3>1, CharAtIs
    <3>3. Nul # "!"
      BY UrlMatchAssumption
    <3> QED BY <2>1, <3>2, <3>3
  <2>2. CASE pattern # <<>>
    <3>1. 1 \in 1 .. Len(pattern) /\ Head(pattern) = pattern[1]
      BY <2>2
    <3>2. CharAt(pattern, 1) = pattern[1]
      BY <3>1, CharAtIs
    <3> QED BY <2>2, <3>1, <3>2
  <2> QED BY <2>1, <2>2
<1>2. pattern # <<>> => Tail(pattern) \in Seq(Char)
  OBVIOUS
<1>3. CASE ignoreCase
  <2>1. pattern # <<>> =>
          (strcmp_icase(url, Tail(pattern)) <=> Normal(ignoreCase, url) = Normal(ignoreCase, Tail(pattern)))
    BY <1>2, <1>3, StrcmpIs DEF Normal
  <2>2. patternIsPrefix(TRUE, url, pattern)
          <=> StartsWith(Normal(ignoreCase, url), Normal(ignoreCase, pattern))
    BY <1>3, MatchIs
  <2> QED BY <1>1, <1>3, <2>1, <2>2 DEF urlCompare, urlcmp_icase
<1>4. CASE ~ ignoreCase
  <2>1. url = Tail(pattern) <=> Normal(ignoreCase, url) = Normal(ignoreCase, Tail(pattern))
    BY <1>4 DEF Normal
  <2>2. patternIsPrefix(FALSE, url, pattern)
          <=> StartsWith(Normal(ignoreCase, url), Normal(ignoreCase, pattern))
    BY <1>4, MatchIs
  <2> QED BY <1>1, <1>4, <2>1, <2>2 DEF urlCompare, urlcmp
<1> QED BY <1>3, <1>4

-----------------------------------------------------------------------------
(* The query *)

LEMMA StrchrIs ==
  ASSUME NEW s \in Seq(Char), NEW from \in Nat \ {0}, NEW c
  PROVE  \/ strchr(s, from, c) = 0 /\ \A i \in from .. Len(s) : s[i] # c
         \/ /\ strchr(s, from, c) \in from .. Len(s) /\ s[strchr(s, from, c)] = c
            /\ \A i \in from .. strchr(s, from, c) - 1 : s[i] # c
<1> DEFINE hits == { i \in from .. Len(s) : s[i] = c }
           first == CHOOSE i \in hits : \A j \in hits : i <= j
<1>1. Len(s) \in Nat
  BY LenProperties
<1>2. strchr(s, from, c) = IF hits = {} THEN 0 ELSE first
  BY Zenon DEF strchr
<1>3. CASE hits = {}
  <2>1. strchr(s, from, c) = 0
    BY <1>2, <1>3, Zenon
  <2> QED BY <1>3, <2>1
<1>4. CASE hits # {}
  <2>1. hits \subseteq Nat
    BY <1>1
  <2>2. first \in hits /\ \A j \in hits : first <= j
    <3> HIDE DEF hits
    <3>1. \E i \in hits : \A j \in hits : i <= j
      BY <1>4, <2>1, LeastExists
    <3> QED BY <3>1
  <2>3. strchr(s, from, c) = first
    BY <1>2, <1>4, Zenon
  <2> HIDE DEF first
  <2>4. first \in from .. Len(s) /\ s[first] = c
    BY <2>2
  <2>5. ASSUME NEW i \in from .. first - 1 PROVE s[i] # c
    <3>1. i \in from .. Len(s) /\ ~ (first <= i)
      BY <1>1, <2>4
    <3>2. i \notin hits
      <4> HIDE DEF hits
      <4> QED BY <2>2, <3>1, Zenon
    <3> QED BY <3>1, <3>2
  <2> HIDE DEF hits
  <2> QED BY <2>3, <2>4, <2>5, Zenon
<1> QED BY <1>3, <1>4

\* One turn of the loop of parseQueryPath, at i.
KeyEnd(q, i) == strchr(q, i, "=")
Amp(q, i)    == strchr(q, KeyEnd(q, i) + 1, "&")
Param(q, i)  ==
  [key   |-> SubSeq(q, i, KeyEnd(q, i) - 1),
   value |-> SubSeq(q, KeyEnd(q, i) + 1, IF Amp(q, i) = 0 THEN Len(q) ELSE Amp(q, i) - 1)]
Turn(f, q, i) ==
  IF KeyEnd(q, i) = 0 THEN [ok |-> FALSE, list |-> <<>>]
  ELSE IF Amp(q, i) = 0 THEN [ok |-> TRUE, list |-> <<Param(q, i)>>]
  ELSE [ok |-> f[Amp(q, i) + 1].ok, list |-> <<Param(q, i)>> \o f[Amp(q, i) + 1].list]
IsParams(f, q) == f = [i \in 1 .. Len(q) + 1 |-> Turn(f, q, i)]

LEMMA TurnIs ==
  ASSUME NEW q \in Seq(Char), NEW i \in 1 .. Len(q) + 1
  PROVE  /\ \/ KeyEnd(q, i) = 0 /\ \A j \in i .. Len(q) : q[j] # "="
            \/ /\ KeyEnd(q, i) \in i .. Len(q) /\ q[KeyEnd(q, i)] = "="
               /\ \A j \in i .. KeyEnd(q, i) - 1 : q[j] # "="
         /\ KeyEnd(q, i) # 0 =>
              \/ Amp(q, i) = 0 /\ \A j \in KeyEnd(q, i) + 1 .. Len(q) : q[j] # "&"
              \/ /\ Amp(q, i) \in KeyEnd(q, i) + 1 .. Len(q) /\ q[Amp(q, i)] = "&"
                 /\ \A j \in KeyEnd(q, i) + 1 .. Amp(q, i) - 1 : q[j] # "&"
         /\ Amp(q, i) \in 0 .. Len(q)
         /\ KeyEnd(q, i) # 0 => Param(q, i) \in [key : Seq(Char), value : Seq(Char)]
<1>1. Len(q) \in Nat /\ i \in Nat \ {0} /\ \A j \in 1 .. Len(q) : q[j] \in Char
  BY LenProperties
<1>2. \/ KeyEnd(q, i) = 0 /\ \A j \in i .. Len(q) : q[j] # "="
      \/ /\ KeyEnd(q, i) \in i .. Len(q) /\ q[KeyEnd(q, i)] = "="
         /\ \A j \in i .. KeyEnd(q, i) - 1 : q[j] # "="
  BY <1>1, StrchrIs, Zenon DEF KeyEnd
<1>3. KeyEnd(q, i) + 1 \in Nat \ {0}
  BY <1>1, <1>2
<1>4. \/ Amp(q, i) = 0 /\ \A j \in KeyEnd(q, i) + 1 .. Len(q) : q[j] # "&"
      \/ /\ Amp(q, i) \in KeyEnd(q, i) + 1 .. Len(q) /\ q[Amp(q, i)] = "&"
         /\ \A j \in KeyEnd(q, i) + 1 .. Amp(q, i) - 1 : q[j] # "&"
  BY <1>3, StrchrIs, Zenon DEF Amp
<1>5. Amp(q, i) \in 0 .. Len(q)
  BY <1>1, <1>3, <1>4
<1>6. ASSUME KeyEnd(q, i) # 0 PROVE Param(q, i) \in [key : Seq(Char), value : Seq(Char)]
  <2> DEFINE e == KeyEnd(q, i)
             end == IF Amp(q, i) = 0 THEN Len(q) ELSE Amp(q, i) - 1
  <2>1. e \in i .. Len(q) /\ end \in 0 .. Len(q)
    BY <1>1, <1>2, <1>5, <1>6
  <2>2. Param(q, i) = [key |-> SubSeq(q, i, e - 1), value |-> SubSeq(q, e + 1, end)]
    BY Zenon DEF Param
  <2> HIDE DEF e, end
  <2>3. /\ i \in Int /\ e - 1 \in Int /\ \A j \in i .. e - 1 : q[j] \in Char
        /\ e + 1 \in Int /\ end \in Int /\ \A j \in e + 1 .. end : q[j] \in Char
    BY <1>1, <2>1
  <2>4. SubSeq(q, i, e - 1) \in Seq(Char) /\ SubSeq(q, e + 1, end) \in Seq(Char)
    BY <2>3, SubSeqProperties, Zenon
  <2> QED BY <2>2, <2>4
<1> QED BY <1>2, <1>4, <1>5, <1>6, Zenon

\* The loop has a result, and Params is it.
LEMMA ParamsRead ==
  ASSUME NEW q \in Seq(Char)
  PROVE  \E f : /\ \A i \in 1 .. Len(q) + 1 : f[i] = Turn(f, q, i)
                /\ Params(q) = f[1]
<1> DEFINE n == Len(q)
           P == [key : Seq(Char), value : Seq(Char)]
           V == [ok : BOOLEAN, list : Seq(P)]
           I == 1 .. n + 1
           next == [i \in I |-> IF KeyEnd(q, i) = 0 \/ Amp(q, i) = 0 THEN 0 ELSE Amp(q, i) + 1]
           base == [i \in I |-> IF KeyEnd(q, i) = 0 THEN [ok |-> FALSE, list |-> <<>>]
                                ELSE [ok |-> TRUE, list |-> IF Amp(q, i) = 0 THEN <<Param(q, i)>> ELSE <<>>]]
           step == [i \in I |-> [v \in V |->
                     [ok |-> v.ok, list |-> IF KeyEnd(q, i) = 0 THEN v.list ELSE <<Param(q, i)>> \o v.list]]]
<1>1. n \in Nat
  BY LenProperties
<1>2. next \in [I -> Nat] /\ \A i \in I : next[i] \in i + 1 .. n + 1 <=> KeyEnd(q, i) # 0 /\ Amp(q, i) # 0
  <2>1. ASSUME NEW i \in I
        PROVE  /\ next[i] = IF KeyEnd(q, i) = 0 \/ Amp(q, i) = 0 THEN 0 ELSE Amp(q, i) + 1
               /\ next[i] \in Nat
               /\ next[i] \in i + 1 .. n + 1 <=> KeyEnd(q, i) # 0 /\ Amp(q, i) # 0
    <3>1. /\ Amp(q, i) \in 0 .. n
          /\ KeyEnd(q, i) = 0 \/ KeyEnd(q, i) \in i .. n
          /\ KeyEnd(q, i) # 0 => Amp(q, i) = 0 \/ Amp(q, i) \in KeyEnd(q, i) + 1 .. n
      BY TurnIs, Zenon
    <3> QED BY <1>1, <3>1
  <2> QED BY <2>1
<1>3. base \in [I -> V]
  <2>1. ASSUME NEW i \in I PROVE base[i] \in V
    <3>1. KeyEnd(q, i) # 0 => Param(q, i) \in P
      BY TurnIs, Zenon
    <3>2. <<>> \in Seq(P) /\ (KeyEnd(q, i) # 0 => <<Param(q, i)>> \in Seq(P))
      BY <3>1
    <3> HIDE DEF P
    <3> QED BY <3>2
  <2> QED BY <2>1
<1>4. step \in [I -> [V -> V]]
  <2>1. ASSUME NEW i \in I, NEW v \in V
        PROVE  [ok |-> v.ok, list |-> IF KeyEnd(q, i) = 0 THEN v.list ELSE <<Param(q, i)>> \o v.list] \in V
    <3>1. KeyEnd(q, i) # 0 => Param(q, i) \in P
      BY TurnIs, Zenon
    <3> HIDE DEF P
    <3>2. v.ok \in BOOLEAN /\ v.list \in Seq(P)
      OBVIOUS
    <3>3. KeyEnd(q, i) # 0 => <<Param(q, i)>> \o v.list \in Seq(P)
      BY <3>1, <3>2
    <3> QED BY <3>2, <3>3
  <2> HIDE DEF V
  <2> QED BY <2>1
<1>5. PICK f \in [I -> V] : FromLater(f, n, next, step, base)
  <2> HIDE DEF V, next, base, step
  <2> QED BY <1>1, <1>2, <1>3, <1>4, FromLaterExists, Zenon
<1>6. ASSUME NEW i \in I PROVE f[i] = Turn(f, q, i)
  <2>1. f[i] = IF next[i] \in i + 1 .. n + 1 THEN step[i][f[next[i]]] ELSE base[i]
    BY <1>5, Zenon DEF FromLater
  <2>2. CASE KeyEnd(q, i) # 0 /\ Amp(q, i) # 0
    <3>1. next[i] = Amp(q, i) + 1 /\ Amp(q, i) + 1 \in i + 1 .. n + 1 /\ Amp(q, i) + 1 \in I
      BY <1>1, <1>2, <2>2
    <3>2. f[Amp(q, i) + 1] \in V
      BY <3>1
    <3>3. f[i] = [ok |-> f[Amp(q, i) + 1].ok, list |-> <<Param(q, i)>> \o f[Amp(q, i) + 1].list]
      BY <2>1, <2>2, <3>1, <3>2, Zenon
    <3> QED BY <2>2, <3>3, Zenon DEF Turn
  <2>3. CASE ~ (KeyEnd(q, i) # 0 /\ Amp(q, i) # 0)
    <3>1. f[i] = base[i]
      BY <1>2, <2>1, <2>3, Zenon
    <3> QED BY <2>3, <3>1, Zenon DEF Turn
  <2> QED BY <2>2, <2>3
<1> DEFINE g == CHOOSE h : IsParams(h, q)
<1>7. Params(q) = g[1]
  BY Zenon DEF Params, IsParams, Turn, Param, KeyEnd, Amp
<1>8. IsParams(g, q)
  <2> HIDE DEF V
  <2>1. f = [i \in 1 .. Len(q) + 1 |-> Turn(f, q, i)]
    BY <1>6
  <2>2. IsParams(f, q)
    BY <2>1, Zenon DEF IsParams
  <2> QED BY <2>2, Zenon
<1> HIDE DEF g
<1>9. \A i \in 1 .. Len(q) + 1 : g[i] = Turn(g, q, i)
  <2>1. \A i \in 1 .. Len(q) + 1 : [j \in 1 .. Len(q) + 1 |-> Turn(g, q, j)][i] = Turn(g, q, i)
    BY Zenon
  <2> QED BY <1>8, <2>1, Zenon DEF IsParams
<1> QED BY <1>7, <1>9, Zenon

\* The parameters of list begin at the places b in q, from i on; the last place
\* is the one behind the separator that follows them.
Between(p, q, from, to) ==
  \E e \in from .. Len(q) :
    /\ to \in e + 2 .. Len(q) + 2
    /\ q[e] = "=" /\ \A j \in from .. e - 1 : q[j] # "="
    /\ \A j \in e + 1 .. to - 2 : q[j] # "&"
    /\ to # Len(q) + 2 => q[to - 1] = "&"
    /\ p = [key |-> SubSeq(q, from, e - 1), value |-> SubSeq(q, e + 1, to - 2)]
Parted(list, b, q, i) ==
  /\ b \in [1 .. Len(list) + 1 -> 1 .. Len(q) + 2] /\ b[1] = i
  /\ \A k \in 1 .. Len(list) : Between(list[k], q, b[k], b[k + 1])

\* How the parameters end: with the query, or where there is no '=' any more.
Finished(ok, last, q) ==
  \/ ok = TRUE /\ last = Len(q) + 2
  \/ ok = FALSE /\ last \in 1 .. Len(q) + 1 /\ \A j \in last .. Len(q) : q[j] # "="

Places(v, q, i) ==
  /\ v.list \in Seq([key : Seq(Char), value : Seq(Char)])
  /\ \E b : Parted(v.list, b, q, i) /\ Finished(v.ok, b[Len(v.list) + 1], q)

\* The last parameter, and one before others.
LEMMA LastPlaces ==
  ASSUME NEW q \in Seq(Char), NEW i \in 1 .. Len(q) + 1, KeyEnd(q, i) # 0, Amp(q, i) = 0
  PROVE  Places([ok |-> TRUE, list |-> <<Param(q, i)>>], q, i)
<1> DEFINE n == Len(q)
           e == KeyEnd(q, i)
           p == Param(q, i)
           b == [k \in 1 .. 2 |-> IF k = 1 THEN i ELSE n + 2]
<1>1. n \in Nat
  BY LenProperties
<1>2. /\ e \in i .. n /\ q[e] = "=" /\ \A j \in i .. e - 1 : q[j] # "="
      /\ \A j \in e + 1 .. n : q[j] # "&"
      /\ p \in [key : Seq(Char), value : Seq(Char)]
  <2>1. /\ \/ KeyEnd(q, i) = 0
           \/ e \in i .. n /\ q[e] = "=" /\ \A j \in i .. e - 1 : q[j] # "="
        /\ \/ \A j \in e + 1 .. n : q[j] # "&"
           \/ Amp(q, i) \in e + 1 .. n
        /\ p \in [key : Seq(Char), value : Seq(Char)]
    BY TurnIs, Zenon
  <2> HIDE DEF p
  <2> QED BY <1>1, <2>1
<1>3. p = [key |-> SubSeq(q, i, e - 1), value |-> SubSeq(q, e + 1, n)]
  BY Zenon DEF Param
<1> HIDE DEF e, p
<1>4. Between(p, q, i, n + 2)
  <2>1. n + 2 \in e + 2 .. n + 2 /\ (n + 2) - 2 = n
    BY <1>1, <1>2
  <2> QED BY <1>2, <1>3, <2>1, Zenon DEF Between
<1>5. <<p>> \in Seq([key : Seq(Char), value : Seq(Char)]) /\ Len(<<p>>) = 1 /\ <<p>>[1] = p
  BY <1>2
<1>6. b[1] = i /\ b[2] = n + 2 /\ b \in [1 .. 1 + 1 -> 1 .. n + 2] /\ 1 + 1 = 2 /\ 1 .. 1 = {1}
  BY <1>1
<1> HIDE DEF n, b
<1>7. Parted(<<p>>, b, q, i)
  BY <1>4, <1>5, <1>6 DEF Parted, n
<1>8. Finished(TRUE, b[Len(<<p>>) + 1], q)
  BY <1>5, <1>6 DEF Finished, n
<1>9. [ok |-> TRUE, list |-> <<p>>].list = <<p>> /\ [ok |-> TRUE, list |-> <<p>>].ok = TRUE
  OBVIOUS
<1> QED BY <1>5, <1>7, <1>8, <1>9, Zenon DEF Places, p

LEMMA MorePlaces ==
  ASSUME NEW q \in Seq(Char), NEW i \in 1 .. Len(q) + 1, KeyEnd(q, i) # 0, Amp(q, i) # 0,
         NEW v, Places(v, q, Amp(q, i) + 1)
  PROVE  Places([ok |-> v.ok, list |-> <<Param(q, i)>> \o v.list], q, i)
<1> DEFINE n == Len(q)
           e == KeyEnd(q, i)
           a == Amp(q, i)
           p == Param(q, i)
           P == [key : Seq(Char), value : Seq(Char)]
           m == Len(v.list)
           t == <<p>> \o v.list
<1>1. n \in Nat /\ i \in 1 .. n + 1
  BY LenProperties
<1>2. /\ e \in i .. n /\ q[e] = "=" /\ \A j \in i .. e - 1 : q[j] # "="
      /\ a \in e + 1 .. n /\ q[a] = "&" /\ \A j \in e + 1 .. a - 1 : q[j] # "&"
      /\ p \in P
  BY TurnIs, Zenon
<1>3. p = [key |-> SubSeq(q, i, e - 1), value |-> SubSeq(q, e + 1, a - 1)]
  BY Zenon DEF Param
<1>4. v.list \in Seq(P) /\ m \in Nat
  BY DEF Places
<1>5. PICK c : Parted(v.list, c, q, a + 1) /\ Finished(v.ok, c[m + 1], q)
  BY Zenon DEF Places
<1>6. /\ c \in [1 .. m + 1 -> 1 .. n + 2] /\ c[1] = a + 1
      /\ \A k \in 1 .. m : Between(v.list[k], q, c[k], c[k + 1])
  BY <1>5, Zenon DEF Parted
<1> HIDE DEF e, p, a, P, m, n
<1>7. Between(p, q, i, a + 1)
  <2>1. a + 1 \in e + 2 .. Len(q) + 2 /\ (a + 1) - 2 = a - 1 /\ (a + 1) - 1 = a /\ e \in i .. Len(q)
    BY <1>1, <1>2 DEF n
  <2> QED BY <1>2, <1>3, <2>1, Zenon DEF Between
<1>8. /\ t \in Seq(P) /\ Len(t) = m + 1 /\ t[1] = p
      /\ \A k \in 2 .. m + 1 : t[k] = v.list[k - 1]
  BY <1>2, <1>4 DEF m
<1> DEFINE b == [k \in 1 .. (m + 1) + 1 |-> IF k = 1 THEN i ELSE c[k - 1]]
<1>9. b \in [1 .. (m + 1) + 1 -> 1 .. n + 2] /\ b[1] = i
      /\ \A k \in 2 .. (m + 1) + 1 : b[k] = c[k - 1]
  <2>1. \A k \in 2 .. (m + 1) + 1 : k - 1 \in 1 .. m + 1
    BY <1>4
  <2> QED BY <1>1, <1>4, <1>6, <2>1
<1> HIDE DEF b, t
<1>10. ASSUME NEW k \in 1 .. m + 1 PROVE Between(t[k], q, b[k], b[k + 1])
  <2>1. CASE k = 1
    <3>1. b[2] = a + 1 /\ k + 1 = 2
      BY <1>4, <1>6, <1>9, <2>1
    <3> QED BY <1>7, <1>8, <1>9, <2>1, <3>1
  <2>2. CASE k # 1
    <3>1. k - 1 \in 1 .. m /\ k \in 2 .. m + 1 /\ k \in 2 .. (m + 1) + 1 /\ k + 1 \in 2 .. (m + 1) + 1
          /\ (k + 1) - 1 = k /\ (k - 1) + 1 = k
      BY <1>4, <2>2
    <3>2. t[k] = v.list[k - 1] /\ b[k] = c[k - 1] /\ b[k + 1] = c[k]
      BY <1>8, <1>9, <3>1
    <3>3. Between(v.list[k - 1], q, c[k - 1], c[(k - 1) + 1])
      BY <1>6, <3>1, Zenon
    <3> QED BY <3>1, <3>2, <3>3
  <2> QED BY <2>1, <2>2
<1>11. Parted(t, b, q, i)
  BY <1>8, <1>9, <1>10, Zenon DEF Parted, n
<1>12. Finished(v.ok, b[Len(t) + 1], q)
  <2>1. b[(m + 1) + 1] = c[m + 1]
    <3>1. (m + 1) + 1 \in 2 .. (m + 1) + 1 /\ ((m + 1) + 1) - 1 = m + 1
      BY <1>4
    <3> QED BY <1>9, <3>1
  <2> QED BY <1>5, <1>8, <2>1
<1>13. [ok |-> v.ok, list |-> t].list = t /\ [ok |-> v.ok, list |-> t].ok = v.ok
  OBVIOUS
<1> QED BY <1>8, <1>11, <1>12, <1>13, Zenon DEF Places, P, p, t

\* So the loop divides the query, from wherever it begins.
LEMMA ParamsPlaces ==
  ASSUME NEW q \in Seq(Char)
  PROVE  Places(Params(q), q, 1)
<1> DEFINE n == Len(q)
<1>1. n \in Nat
  BY LenProperties
<1>2. PICK f : (\A i \in 1 .. n + 1 : f[i] = Turn(f, q, i)) /\ Params(q) = f[1]
  BY ParamsRead, Zenon
<1> DEFINE bad == { i \in 1 .. n + 1 : ~ Places(f[i], q, i) }
<1>3. bad = {}
  <2> SUFFICES ASSUME bad # {} PROVE FALSE
    OBVIOUS
  <2>1. bad \subseteq 0 .. n + 1 /\ n + 1 \in Nat
    BY <1>1
  <2>2. PICK m \in bad : \A i \in bad : i <= m
    <3> HIDE DEF bad
    <3> QED BY <2>1, GreatestExists
  <2>3. m \in 1 .. n + 1 /\ ~ Places(f[m], q, m)
    OBVIOUS
  <2>4. f[m] = Turn(f, q, m)
    BY <1>2, <2>3, Zenon
  <2>5. CASE KeyEnd(q, m) = 0
    <3> DEFINE v == [ok |-> FALSE, list |-> <<>>]
               b == [k \in 1 .. 1 |-> m]
    <3>1. f[m] = v
      BY <2>4, <2>5, Zenon DEF Turn
    <3>2. \A j \in m .. n : q[j] # "="
      BY <1>1, <2>3, <2>5, TurnIs
    <3>3. v.list = <<>> /\ v.ok = FALSE /\ Len(<<>>) = 0
      OBVIOUS
    <3>4. b \in [1 .. 0 + 1 -> 1 .. n + 2] /\ b[1] = m /\ 0 + 1 = 1 /\ 1 .. 0 = {}
      BY <1>1, <2>3
    <3> HIDE DEF v, b
    <3>5. Parted(<<>>, b, q, m)
      BY <3>3, <3>4, Zenon DEF Parted
    <3>6. Finished(FALSE, b[Len(<<>>) + 1], q)
      BY <2>3, <3>2, <3>3, <3>4, Zenon DEF Finished
    <3>7. <<>> \in Seq([key : Seq(Char), value : Seq(Char)])
      OBVIOUS
    <3> QED BY <2>3, <3>1, <3>3, <3>5, <3>6, <3>7, Zenon DEF Places
  <2>6. CASE KeyEnd(q, m) # 0 /\ Amp(q, m) = 0
    <3>1. f[m] = [ok |-> TRUE, list |-> <<Param(q, m)>>]
      BY <2>4, <2>6, Zenon DEF Turn
    <3> QED BY <2>3, <2>6, <3>1, LastPlaces, Zenon
  <2>7. CASE KeyEnd(q, m) # 0 /\ Amp(q, m) # 0
    <3> DEFINE r == Amp(q, m) + 1
    <3>1. f[m] = [ok |-> f[r].ok, list |-> <<Param(q, m)>> \o f[r].list]
      BY <2>4, <2>7, Zenon DEF Turn
    <3>2. r \in 1 .. n + 1 /\ ~ (r <= m)
      <4>1. KeyEnd(q, m) \in m .. n /\ Amp(q, m) \in KeyEnd(q, m) + 1 .. n
        BY <2>3, <2>7, TurnIs, Zenon
      <4> QED BY <1>1, <2>3, <4>1
    <3>3. r \notin bad
      <4> HIDE DEF bad, r
      <4> QED BY <2>2, <3>2, Zenon
    <3>4. Places(f[r], q, r)
      <4> HIDE DEF r
      <4> QED BY <3>2, <3>3
    <3> QED BY <2>3, <2>7, <3>1, <3>4, MorePlaces, Zenon
  <2> QED BY <2>5, <2>6, <2>7
<1>4. 1 \in 1 .. n + 1 /\ 1 \notin bad
  BY <1>1, <1>3
<1> QED BY <1>2, <1>4


-----------------------------------------------------------------------------
(* The parameters, written *)

LEMMA Glued ==
  ASSUME NEW A, NEW q \in Seq(A), NEW a \in 1 .. Len(q) + 1, NEW x \in a - 1 .. Len(q), NEW y \in x .. Len(q)
  PROVE  SubSeq(q, a, x) \o SubSeq(q, x + 1, y) = SubSeq(q, a, y)
<1> DEFINE s == SubSeq(q, a, x)
           t == SubSeq(q, x + 1, y)
           u == SubSeq(q, a, y)
<1>1. Len(q) \in Nat /\ \A i \in 1 .. Len(q) : q[i] \in A
  BY LenProperties
<1>2. /\ s \in Seq(A) /\ Len(s) = (x - a) + 1 /\ \A i \in 1 .. (x - a) + 1 : s[i] = q[(a + i) - 1]
      /\ t \in Seq(A) /\ Len(t) = y - x /\ \A i \in 1 .. y - x : t[i] = q[x + i]
      /\ u \in Seq(A) /\ Len(u) = (y - a) + 1 /\ \A i \in 1 .. (y - a) + 1 : u[i] = q[(a + i) - 1]
  <2>1. ASSUME NEW f \in 1 .. Len(q) + 1, NEW l \in f - 1 .. Len(q)
        PROVE  /\ SubSeq(q, f, l) \in Seq(A) /\ Len(SubSeq(q, f, l)) = (l - f) + 1
               /\ \A i \in 1 .. (l - f) + 1 : SubSeq(q, f, l)[i] = q[(f + i) - 1]
    <3>1. f \in Int /\ l \in Int /\ \A i \in f .. l : q[i] \in A
      BY <1>1, <2>1
    <3>2. /\ SubSeq(q, f, l) \in Seq(A)
          /\ Len(SubSeq(q, f, l)) = IF f <= l THEN (l - f) + 1 ELSE 0
          /\ \A i \in 1 .. (l - f) + 1 : SubSeq(q, f, l)[i] = q[(f + i) - 1]
      BY <3>1, SubSeqProperties
    <3> QED BY <1>1, <2>1, <3>2
  <2>2. x + 1 \in 1 .. Len(q) + 1 /\ y \in (x + 1) - 1 .. Len(q) /\ y \in a - 1 .. Len(q)
        /\ (y - (x + 1)) + 1 = y - x /\ \A i \in 1 .. y - x : ((x + 1) + i) - 1 = x + i
    BY <1>1
  <2> HIDE DEF s, t, u
  <2>3. /\ s \in Seq(A) /\ Len(s) = (x - a) + 1 /\ \A i \in 1 .. (x - a) + 1 : s[i] = q[(a + i) - 1]
    BY <2>1, Zenon DEF s
  <2>4. /\ t \in Seq(A) /\ Len(t) = (y - (x + 1)) + 1
        /\ \A i \in 1 .. (y - (x + 1)) + 1 : t[i] = q[((x + 1) + i) - 1]
    BY <2>1, <2>2, Zenon DEF t
  <2>5. /\ u \in Seq(A) /\ Len(u) = (y - a) + 1 /\ \A i \in 1 .. (y - a) + 1 : u[i] = q[(a + i) - 1]
    BY <2>1, <2>2, Zenon DEF u
  <2> QED BY <2>2, <2>3, <2>4, <2>5, Zenon
<1> HIDE DEF s, t, u
<1>3. s \o t \in Seq(A) /\ Len(s \o t) = Len(s) + Len(t)
      /\ \A i \in 1 .. Len(s) + Len(t) : (s \o t)[i] = IF i <= Len(s) THEN s[i] ELSE t[i - Len(s)]
  BY <1>2, ConcatProperties
<1>4. Len(s) + Len(t) = Len(u)
  BY <1>1, <1>2
<1>5. ASSUME NEW i \in 1 .. Len(u) PROVE (s \o t)[i] = u[i]
  <2>1. CASE i <= Len(s)
    <3>1. i \in 1 .. (x - a) + 1 /\ i \in 1 .. (y - a) + 1 /\ i \in 1 .. Len(s) + Len(t)
      BY <1>1, <1>2, <1>4, <2>1
    <3> QED BY <1>2, <1>3, <2>1, <3>1, Zenon
  <2>2. CASE ~ (i <= Len(s))
    <3>1. /\ i - Len(s) \in 1 .. y - x /\ x + (i - Len(s)) = (a + i) - 1
          /\ i \in 1 .. (y - a) + 1 /\ i \in 1 .. Len(s) + Len(t)
      BY <1>1, <1>2, <1>4, <2>2
    <3> QED BY <1>2, <1>3, <2>2, <3>1, Zenon
  <2> QED BY <2>1, <2>2
<1> QED
  <2>1. s \o t = u
    BY <1>2, <1>3, <1>4, <1>5, SeqEqual
  <2> QED BY <2>1, Zenon DEF s, t, u

LEMMA OneCharacter ==
  ASSUME NEW q \in Seq(Char), NEW e \in 1 .. Len(q), NEW c, q[e] = c
  PROVE  <<c>> = SubSeq(q, e, e)
<1> DEFINE s == SubSeq(q, e, e)
<1>1. Len(q) \in Nat /\ e \in Int /\ \A i \in e .. e : q[i] \in Char
  BY LenProperties
<1>2. /\ s \in Seq(Char) /\ Len(s) = IF e <= e THEN (e - e) + 1 ELSE 0
      /\ \A i \in 1 .. (e - e) + 1 : s[i] = q[(e + i) - 1]
  BY <1>1, SubSeqProperties
<1>3. s \in Seq(Char) /\ Len(s) = 1 /\ s[1] = c
  <2>1. (e - e) + 1 = 1 /\ (e + 1) - 1 = e /\ 1 \in 1 .. 1 /\ e <= e
    BY <1>1
  <2> HIDE DEF s
  <2> QED BY <1>2, <2>1
<1>4. c \in Char
  BY <1>1
<1> HIDE DEF s
<1>5. <<c>> = s
  BY <1>3, <1>4, SeqEqual
<1> QED BY <1>5, Zenon DEF s

\* One parameter, and the separator behind all but the last.
Piece(list, k) ==
  list[k].key \o <<"=">> \o list[k].value \o (IF k = Len(list) THEN <<>> ELSE <<"&">>)
IsWritten(f, list) ==
  f = [k \in 1 .. Len(list) + 1 |->
        IF k > Len(list) THEN <<>>
        ELSE list[k].key \o <<"=">> \o list[k].value
               \o (IF k = Len(list) THEN <<>> ELSE <<"&">>) \o f[k + 1]]

LEMMA WrittenIs ==
  ASSUME NEW list \in Seq([key : Seq(Char), value : Seq(Char)])
  PROVE  \E f : /\ \A k \in 1 .. Len(list) + 1 :
                     f[k] = IF k > Len(list) THEN <<>> ELSE Piece(list, k) \o f[k + 1]
                /\ Written(list) = f[1]
<1> DEFINE n == Len(list)
           A == Char \cup {"=", "&"}
           I == 1 .. n + 1
           next == [k \in I |-> k + 1]
           base == [k \in I |-> <<>>]
           step == [k \in I |-> [w \in Seq(A) |-> IF k = n + 1 THEN w ELSE Piece(list, k) \o w]]
           g == CHOOSE f : IsWritten(f, list)
<1>1. n \in Nat
  BY LenProperties
<1>2. ASSUME NEW k \in 1 .. n PROVE Piece(list, k) \in Seq(A)
  <2>1. list[k] \in [key : Seq(Char), value : Seq(Char)]
    BY LenProperties
  <2>2. list[k].key \in Seq(A) /\ list[k].value \in Seq(A)
    <3>1. list[k].key \in Seq(Char) /\ list[k].value \in Seq(Char)
      BY <2>1
    <3>2. ASSUME NEW s \in Seq(Char) PROVE s \in Seq(A)
      OBVIOUS
    <3> QED BY <3>1, <3>2, Zenon
  <2>3. "=" \in A /\ "&" \in A
    OBVIOUS
  <2> DEFINE x == list[k].key
             y == list[k].value
             s == IF k = Len(list) THEN <<>> ELSE <<"&">>
  <2> HIDE DEF A
  <2>4. <<"=">> \in Seq(A) /\ s \in Seq(A)
    BY <2>3
  <2>5. Piece(list, k) = x \o <<"=">> \o y \o s
    BY Zenon DEF Piece
  <2> HIDE DEF x, y, s
  <2>6. x \in Seq(A) /\ y \in Seq(A)
    BY <2>2, Zenon DEF x, y
  <2>7. x \o <<"=">> \in Seq(A)
    BY <2>4, <2>6
  <2>8. x \o <<"=">> \o y \in Seq(A)
    BY <2>6, <2>7
  <2> QED BY <2>4, <2>5, <2>8
<1>3. next \in [I -> Nat] /\ base \in [I -> Seq(A)] /\ step \in [I -> [Seq(A) -> Seq(A)]]
  <2>1. next \in [I -> Nat]
    BY <1>1
  <2>2. base \in [I -> Seq(A)]
    <3> HIDE DEF A
    <3>1. <<>> \in Seq(A)
      OBVIOUS
    <3> QED BY <3>1
  <2>3. ASSUME NEW k \in I, NEW w \in Seq(A)
        PROVE  (IF k = n + 1 THEN w ELSE Piece(list, k) \o w) \in Seq(A)
    <3>1. CASE k = n + 1
      BY <3>1
    <3>2. CASE k # n + 1
      <4>1. k \in 1 .. n
        BY <1>1, <3>2
      <4>2. Piece(list, k) \in Seq(A)
        BY <1>2, <4>1
      <4> HIDE DEF A, n
      <4> QED BY <3>2, <4>2
    <3> QED BY <3>1, <3>2
  <2>4. step \in [I -> [Seq(A) -> Seq(A)]]
    <3> HIDE DEF A, I
    <3> QED BY <2>3
  <2> QED BY <2>1, <2>2, <2>4
<1>4. PICK f \in [I -> Seq(A)] : FromLater(f, n, next, step, base)
  <2> HIDE DEF A, next, base, step
  <2> QED BY <1>1, <1>3, FromLaterExists, Zenon
<1>5. ASSUME NEW k \in I PROVE f[k] = IF k > n THEN <<>> ELSE Piece(list, k) \o f[k + 1]
  <2>1. f[k] = IF next[k] \in k + 1 .. n + 1 THEN step[k][f[next[k]]] ELSE base[k]
    BY <1>4, Zenon DEF FromLater
  <2>2. next[k] = k + 1 /\ base[k] = <<>>
    BY Zenon
  <2>3. CASE k > n
    <3>1. k + 1 \notin k + 1 .. n + 1
      BY <1>1, <2>3
    <3> QED BY <2>1, <2>2, <2>3, <3>1, Zenon
  <2>4. CASE ~ (k > n)
    <3>1. k + 1 \in k + 1 .. n + 1 /\ k + 1 \in I /\ k # n + 1
      BY <1>1, <2>4
    <3>2. f[k + 1] \in Seq(A)
      BY <3>1, Zenon
    <3>3. step[k][f[k + 1]] = Piece(list, k) \o f[k + 1]
      BY <3>1, <3>2, Zenon
    <3> QED BY <2>1, <2>2, <2>4, <3>1, <3>3, Zenon
  <2> QED BY <2>3, <2>4
<1>6. ASSUME NEW h, NEW k \in I
      PROVE  (IF k > Len(list) THEN <<>>
              ELSE list[k].key \o <<"=">> \o list[k].value
                     \o (IF k = Len(list) THEN <<>> ELSE <<"&">>) \o h[k + 1])
             = IF k > n THEN <<>> ELSE Piece(list, k) \o h[k + 1]
  BY Zenon DEF Piece
<1>7. IsWritten(f, list)
  <2> HIDE DEF A
  <2>1. f = [k \in I |-> f[k]]
    BY <1>4
  <2> QED BY <1>5, <1>6, <2>1, Zenon DEF IsWritten
<1>8. Written(list) = g[1]
  BY Zenon DEF Written, IsWritten
<1>9. IsWritten(g, list)
  BY <1>7, Zenon
<1> HIDE DEF g
<1>10. ASSUME NEW k \in I PROVE g[k] = IF k > n THEN <<>> ELSE Piece(list, k) \o g[k + 1]
  BY <1>6, <1>9, Zenon DEF IsWritten
<1> QED BY <1>8, <1>10, Zenon

\* A parameter, written, is what lies between its place and the next.
LEMMA PieceIs ==
  ASSUME NEW q \in Seq(Char), NEW list \in Seq([key : Seq(Char), value : Seq(Char)]), NEW k \in 1 .. Len(list),
         NEW from \in 1 .. Len(q) + 2, NEW to \in 1 .. Len(q) + 2,
         Between(list[k], q, from, to), k # Len(list) => to # Len(q) + 2
  PROVE  /\ from \in 1 .. Len(q) /\ to - 2 \in from .. Len(q)
         /\ Piece(list, k) = SubSeq(q, from, IF k = Len(list) THEN to - 2 ELSE to - 1)
         /\ k # Len(list) => to - 1 \in from .. Len(q)
<1>1. PICK e \in from .. Len(q) :
        /\ to \in e + 2 .. Len(q) + 2 /\ q[e] = "="
        /\ to # Len(q) + 2 => q[to - 1] = "&"
        /\ list[k] = [key |-> SubSeq(q, from, e - 1), value |-> SubSeq(q, e + 1, to - 2)]
  BY Zenon DEF Between
<1>2. Len(q) \in Nat /\ \A i \in 1 .. Len(q) : q[i] \in Char
  BY LenProperties
<1>3. /\ from \in 1 .. Len(q) /\ to - 2 \in from .. Len(q) /\ from \in 1 .. Len(q) + 1
      /\ e - 1 \in from - 1 .. Len(q) /\ e \in e - 1 .. Len(q) /\ (e - 1) + 1 = e
      /\ e \in from - 1 .. Len(q) /\ to - 2 \in e .. Len(q) /\ e \in 1 .. Len(q)
  BY <1>1, <1>2
<1>4. <<"=">> = SubSeq(q, e, e)
  <2>1. e \in 1 .. Len(q) /\ q[e] = "="
    BY <1>1, <1>3
  <2> QED BY <2>1, OneCharacter, Zenon
<1>5. SubSeq(q, from, e - 1) \o <<"=">> = SubSeq(q, from, e)
  <2>1. SubSeq(q, from, e - 1) \o SubSeq(q, (e - 1) + 1, e) = SubSeq(q, from, e)
    BY <1>3, Glued, Zenon
  <2> QED BY <1>3, <1>4, <2>1, Zenon
<1>6. SubSeq(q, from, e) \o SubSeq(q, e + 1, to - 2) = SubSeq(q, from, to - 2)
  BY <1>3, Glued, Zenon
<1>7. SubSeq(q, from, to - 2) \in Seq(Char)
  <2>1. \A i \in from .. to - 2 : q[i] \in Char
    BY <1>2, <1>3
  <2> QED BY <1>2, <1>3, <2>1, SubSeqProperties
<1>8. list[k].key = SubSeq(q, from, e - 1) /\ list[k].value = SubSeq(q, e + 1, to - 2)
  BY <1>1
<1>9. list[k].key \o <<"=">> \o list[k].value = SubSeq(q, from, to - 2)
  BY <1>5, <1>6, <1>8, Zenon
<1>10. CASE k = Len(list)
  <2>1. SubSeq(q, from, to - 2) \o <<>> = SubSeq(q, from, to - 2)
    BY <1>7, ConcatEmptySeq
  <2>2. Piece(list, k) = SubSeq(q, from, to - 2)
    BY <1>9, <1>10, <2>1, Zenon DEF Piece
  <2> QED BY <1>3, <1>10, <2>2
<1>11. CASE k # Len(list)
  <2>1. to # Len(q) + 2 /\ q[to - 1] = "&"
    BY <1>1, <1>11, Zenon
  <2>2. /\ to - 1 \in from .. Len(q) /\ to - 2 \in from - 1 .. Len(q) /\ to - 2 \in 0 .. Len(q)
        /\ to - 1 \in to - 2 .. Len(q) /\ (to - 2) + 1 = to - 1 /\ to - 1 \in 1 .. Len(q)
    <3>1. Len(q) \in Nat /\ from \in 1 .. Len(q) /\ to - 2 \in from .. Len(q) 
          /\ to \in 1 .. Len(q) + 2 /\ to # Len(q) + 2
      BY <1>2, <1>3, <2>1, Zenon
    <3>2. ASSUME NEW m \in Nat, NEW a \in 1 .. m, NEW z \in 1 .. m + 2, z - 2 \in a .. m, z # m + 2
          PROVE  /\ z - 1 \in a .. m /\ z - 2 \in a - 1 .. m /\ z - 2 \in 0 .. m
                 /\ z - 1 \in z - 2 .. m /\ (z - 2) + 1 = z - 1 /\ z - 1 \in 1 .. m
      BY <3>2
    <3> QED BY <3>1, <3>2, Zenon
  <2>3. <<"&">> = SubSeq(q, to - 1, to - 1)
    BY <2>1, <2>2, OneCharacter, Zenon
  <2>4. SubSeq(q, from, to - 2) \o SubSeq(q, (to - 2) + 1, to - 1) = SubSeq(q, from, to - 1)
    BY <1>3, <2>2, Glued, Zenon
  <2>5. Piece(list, k) = SubSeq(q, from, to - 1)
    BY <1>9, <1>11, <2>2, <2>3, <2>4, Zenon DEF Piece
  <2> QED BY <1>3, <1>11, <2>2, <2>5
<1> QED BY <1>10, <1>11

\* The parameters, written, are the query up to the last place.
LEMMA WrittenIsQuery ==
  ASSUME NEW q \in Seq(Char), NEW list \in Seq([key : Seq(Char), value : Seq(Char)]), NEW b,
         Parted(list, b, q, 1), Len(list) # 0
  PROVE  b[Len(list) + 1] - 2 \in 0 .. Len(q) /\ Written(list) = SubSeq(q, 1, b[Len(list) + 1] - 2)
<1> DEFINE n == Len(list)
           last == b[n + 1] - 2
<1>1. n \in Nat \ {0} /\ Len(q) \in Nat
  BY LenProperties
<1>2. PICK f : /\ \A k \in 1 .. n + 1 : f[k] = IF k > n THEN <<>> ELSE Piece(list, k) \o f[k + 1]
               /\ Written(list) = f[1]
  BY WrittenIs, Zenon
<1>3. /\ \A k \in 1 .. n + 1 : b[k] \in 1 .. Len(q) + 2
      /\ b[1] = 1 /\ \A k \in 1 .. n : Between(list[k], q, b[k], b[k + 1])
  BY DEF Parted
<1>4. ASSUME NEW k \in 1 .. n
      PROVE  /\ b[k] \in 1 .. Len(q) /\ b[k + 1] - 2 \in b[k] .. Len(q)
             /\ Piece(list, k) = SubSeq(q, b[k], IF k = n THEN b[k + 1] - 2 ELSE b[k + 1] - 1)
             /\ k # n => b[k + 1] - 1 \in b[k] .. Len(q)
  <2>1. k \in 1 .. n + 1 /\ k + 1 \in 1 .. n + 1
    BY <1>1
  <2>2. b[k] \in 1 .. Len(q) + 2 /\ b[k + 1] \in 1 .. Len(q) + 2 /\ Between(list[k], q, b[k], b[k + 1])
    BY <1>3, <2>1, Zenon
  <2>3. k # n => b[k + 1] # Len(q) + 2
    <3>1. SUFFICES ASSUME k # n PROVE b[k + 1] # Len(q) + 2
      OBVIOUS
    <3>2. k + 1 \in 1 .. n
      BY <1>1, <3>1
    <3>3. Between(list[k + 1], q, b[k + 1], b[(k + 1) + 1])
      BY <1>3, <3>2, Zenon
    <3>4. PICK e : e \in b[k + 1] .. Len(q)
      BY <3>3, Zenon DEF Between
    <3> QED BY <1>1, <2>2, <3>4
  <2> QED BY <2>2, <2>3, PieceIs, Zenon
<1> DEFINE Rest(k) == f[k] = SubSeq(q, b[k], last) /\ last \in b[k] .. Len(q)
           bad == { k \in 1 .. n : ~ Rest(k) }
<1>5. last \in 0 .. Len(q) /\ last \in b[n] .. Len(q)
  <2>1. n \in 1 .. n
    BY <1>1
  <2>2. b[n] \in 1 .. Len(q) /\ b[n + 1] - 2 \in b[n] .. Len(q)
    BY <1>4, <2>1, Zenon
  <2> HIDE DEF n
  <2> QED BY <1>1, <2>2
<1>6. Rest(n)
  <2>1. n \in 1 .. n + 1 /\ n \in 1 .. n /\ ~ (n > n) /\ n + 1 \in 1 .. n + 1 /\ n + 1 > n
    BY <1>1
  <2>2. f[n] = Piece(list, n) \o f[n + 1] /\ f[n + 1] = <<>>
    BY <1>2, <2>1, Zenon
  <2>3. Piece(list, n) = SubSeq(q, b[n], last) /\ b[n] \in 1 .. Len(q)
    BY <1>4, <2>1, Zenon
  <2>4. SubSeq(q, b[n], last) \in Seq(Char)
    <3>1. b[n] \in Int /\ last \in Int /\ \A i \in b[n] .. last : q[i] \in Char
      BY <1>1, <1>5, <2>3, LenProperties
    <3> QED BY <3>1, SubSeqProperties
  <2>5. SubSeq(q, b[n], last) \o <<>> = SubSeq(q, b[n], last)
    BY <2>4, ConcatEmptySeq
  <2> QED BY <1>5, <2>2, <2>3, <2>5, Zenon
<1> HIDE DEF Rest
<1>7. ASSUME NEW k \in 1 .. n, k # n, Rest(k + 1) PROVE Rest(k)
  <2>1. k \in 1 .. n + 1 /\ ~ (k > n) /\ k + 1 \in 1 .. n
    <3> HIDE DEF n
    <3> QED BY <1>1, <1>7
  <2>2. f[k] = Piece(list, k) \o f[k + 1]
    BY <1>2, <2>1, Zenon
  <2>3. Piece(list, k) = SubSeq(q, b[k], b[k + 1] - 1) /\ b[k] \in 1 .. Len(q) /\ b[k + 1] - 1 \in b[k] .. Len(q)
        /\ b[k + 1] \in 1 .. Len(q)
    BY <1>4, <1>7, <2>1, Zenon
  <2>4. f[k + 1] = SubSeq(q, b[k + 1], last) /\ last \in b[k + 1] .. Len(q)
    BY <1>7, Zenon DEF Rest
  <2> HIDE DEF last, n
  <2>5. /\ b[k] \in 1 .. Len(q) + 1 /\ b[k + 1] - 1 \in b[k] - 1 .. Len(q) /\ last \in b[k + 1] - 1 .. Len(q)
        /\ (b[k + 1] - 1) + 1 = b[k + 1] /\ last \in b[k] .. Len(q)
    <3>1. ASSUME NEW m \in Nat, NEW x \in 1 .. m, NEW y \in 1 .. m, NEW z \in y .. m, y - 1 \in x .. m
          PROVE  /\ x \in 1 .. m + 1 /\ y - 1 \in x - 1 .. m /\ z \in y - 1 .. m
                 /\ (y - 1) + 1 = y /\ z \in x .. m
      BY <3>1
    <3> QED BY <1>1, <2>3, <2>4, <3>1, Zenon
  <2>6. SubSeq(q, b[k], b[k + 1] - 1) \o SubSeq(q, (b[k + 1] - 1) + 1, last) = SubSeq(q, b[k], last)
    BY <2>5, Glued, Zenon
  <2> QED BY <2>2, <2>3, <2>4, <2>5, <2>6, Zenon DEF Rest
<1>8. Rest(1)
  <2>1. SUFFICES ASSUME ~ Rest(1) PROVE FALSE
    OBVIOUS
  <2>2. 1 \in bad /\ bad \subseteq 0 .. n /\ bad # {}
    <3> HIDE DEF n
    <3>1. 1 \in 1 .. n
      BY <1>1
    <3>2. 1 \in bad
      BY <2>1, <3>1
    <3> QED BY <1>1, <3>2
  <2>3. PICK k \in bad : \A j \in bad : j <= k
    <3> HIDE DEF bad
    <3> QED BY <1>1, <2>2, GreatestExists
  <2>4. k \in 1 .. n /\ ~ Rest(k) /\ k # n
    BY <1>6, <2>3
  <2>5. k + 1 \in 1 .. n /\ ~ (k + 1 <= k)
    BY <1>1, <2>4
  <2>6. Rest(k + 1)
    BY <2>3, <2>5
  <2> QED BY <1>7, <2>4, <2>6, Zenon
<1> QED BY <1>2, <1>3, <1>5, <1>8, Zenon DEF Rest

\* What QueryIsItsParameters says of a query and what is read from it.
IsRead(q, ok, list) ==
  /\ ok <=> \E i \in DOMAIN q : q[i] = "=" /\ \A j \in i + 1 .. Len(q) : q[j] # "&"
  /\ ok => Written(list) = q
  /\ \E n \in 0 .. Len(q) : Written(list) = SubSeq(q, 1, n)
  /\ \A k \in DOMAIN list :
       /\ \A j \in DOMAIN list[k].key : list[k].key[j] # "="
       /\ \A j \in DOMAIN list[k].value : list[k].value[j] # "&"

\* A parameter's key has no '=', its value no '&'.
LEMMA PartsOfBetween ==
  ASSUME NEW q \in Seq(Char), NEW from \in 1 .. Len(q) + 2, NEW to, NEW p, Between(p, q, from, to)
  PROVE  /\ \A j \in DOMAIN p.key : p.key[j] # "="
         /\ \A j \in DOMAIN p.value : p.value[j] # "&"
<1>1. PICK e \in from .. Len(q) :
        /\ to \in e + 2 .. Len(q) + 2
        /\ \A j \in from .. e - 1 : q[j] # "="
        /\ \A j \in e + 1 .. to - 2 : q[j] # "&"
        /\ p = [key |-> SubSeq(q, from, e - 1), value |-> SubSeq(q, e + 1, to - 2)]
  BY Zenon DEF Between
<1>2. Len(q) \in Nat /\ \A i \in 1 .. Len(q) : q[i] \in Char
  BY LenProperties
<1>3. ASSUME NEW x \in Nat \ {0}, NEW y \in Int, y <= Len(q), NEW c, \A j \in x .. y : q[j] # c
      PROVE  \A j \in DOMAIN SubSeq(q, x, y) : SubSeq(q, x, y)[j] # c
  <2> DEFINE s == SubSeq(q, x, y)
  <2>1. x \in Int /\ y \in Int /\ \A i \in x .. y : q[i] \in Char
    BY <1>2, <1>3
  <2>2. /\ s \in Seq(Char) /\ Len(s) = IF x <= y THEN (y - x) + 1 ELSE 0
        /\ \A i \in 1 .. (y - x) + 1 : s[i] = q[(x + i) - 1]
    BY <2>1, SubSeqProperties
  <2> HIDE DEF s
  <2>3. DOMAIN s = 1 .. Len(s)
    BY <2>2, LenProperties
  <2>4. ASSUME NEW j \in 1 .. Len(s) PROVE s[j] # c
    <3>1. j \in 1 .. (y - x) + 1 /\ (x + j) - 1 \in x .. y
      BY <1>3, <2>2
    <3> QED BY <1>3, <2>2, <3>1, Zenon
  <2>5. \A j \in DOMAIN s : s[j] # c
    BY <2>3, <2>4, Zenon
  <2> QED BY <2>5, Zenon DEF s
<1>4. /\ from \in Nat \ {0} /\ e - 1 \in Int /\ e - 1 <= Len(q)
      /\ e + 1 \in Nat \ {0} /\ to - 2 \in Int /\ to - 2 <= Len(q)
  BY <1>1, <1>2
<1>5. p.key = SubSeq(q, from, e - 1) /\ p.value = SubSeq(q, e + 1, to - 2)
  BY <1>1
<1>6. \A j \in DOMAIN p.key : p.key[j] # "="
  BY <1>1, <1>3, <1>4, <1>5, Zenon
<1>7. \A j \in DOMAIN p.value : p.value[j] # "&"
  BY <1>1, <1>3, <1>4, <1>5, Zenon
<1> QED BY <1>6, <1>7

\* No parameter was read.
LEMMA NothingIsRead ==
  ASSUME NEW q \in Seq(Char), \A j \in 1 .. Len(q) : q[j] # "="
  PROVE  IsRead(q, FALSE, <<>>)
<1>1. DOMAIN q = 1 .. Len(q) /\ Len(q) \in Nat
  BY LenProperties
<1>2. SubSeq(q, 1, 0) = <<>>
  BY SubSeqEmpty
<1>3. Written(<<>>) = <<>>
  <2>1. <<>> \in Seq([key : Seq(Char), value : Seq(Char)]) /\ Len(<<>>) = 0
    OBVIOUS
  <2>2. PICK f : /\ \A k \in 1 .. Len(<<>>) + 1 :
                       f[k] = IF k > Len(<<>>) THEN <<>> ELSE Piece(<<>>, k) \o f[k + 1]
                 /\ Written(<<>>) = f[1]
    BY <2>1, WrittenIs, Zenon
  <2>3. 1 \in 1 .. Len(<<>>) + 1 /\ 1 > Len(<<>>)
    BY <2>1
  <2> QED BY <2>2, <2>3, Zenon
<1>4. 0 \in 0 .. Len(q) /\ DOMAIN <<>> = {}
  BY <1>1
<1> QED BY <1>1, <1>2, <1>3, <1>4, Zenon DEF IsRead

LEMMA ParamsAreTheQuery ==
  ASSUME NEW q \in Seq(Char)
  PROVE  IsRead(q, Params(q).ok, Params(q).list)
<1> DEFINE v == Params(q)
           list == v.list
           n == Len(list)
<1>1. PICK b : Parted(v.list, b, q, 1) /\ Finished(v.ok, b[Len(v.list) + 1], q)
  BY ParamsPlaces, Zenon DEF Places
<1>2. list \in Seq([key : Seq(Char), value : Seq(Char)])
  BY ParamsPlaces, Zenon DEF Places
<1>3. n \in Nat /\ DOMAIN list = 1 .. n /\ Len(q) \in Nat /\ DOMAIN q = 1 .. Len(q)
  BY <1>2, LenProperties
<1>4. /\ \A k \in 1 .. n + 1 : b[k] \in 1 .. Len(q) + 2
      /\ b[1] = 1 /\ \A k \in 1 .. n : Between(list[k], q, b[k], b[k + 1])
  BY <1>1 DEF Parted
<1>5. CASE n = 0
  <2>1. list = <<>>
    BY <1>2, <1>5, EmptySeq
  <2>2. b[n + 1] = 1
    BY <1>4, <1>5
  <2>3. v.ok = FALSE /\ \A j \in 1 .. Len(q) : q[j] # "="
    <3>1. 1 # Len(q) + 2
      BY <1>3
    <3> QED BY <1>1, <2>2, <3>1, Zenon DEF Finished
  <2> QED BY <2>1, <2>3, NothingIsRead, Zenon
<1>6. CASE n # 0
  <2> DEFINE last == b[n + 1]
  <2>1. last - 2 \in 0 .. Len(q) /\ Written(list) = SubSeq(q, 1, last - 2)
    BY <1>1, <1>2, <1>6, WrittenIsQuery, Zenon
  <2>2. last \in 1 .. Len(q) + 2
    BY <1>3, <1>4
  <2>3. PICK e \in b[n] .. Len(q) :
          /\ last \in e + 2 .. Len(q) + 2 /\ q[e] = "=" /\ b[n] \in 1 .. Len(q) + 2
          /\ \A j \in e + 1 .. last - 2 : q[j] # "&"
          /\ last # Len(q) + 2 => q[last - 1] = "&"
    <3>1. n \in 1 .. n /\ n \in 1 .. n + 1
      BY <1>3, <1>6
    <3>2. Between(list[n], q, b[n], last) /\ b[n] \in 1 .. Len(q) + 2
      BY <1>4, <3>1, Zenon
    <3> QED BY <3>2, Zenon DEF Between
  <2>4. \/ v.ok = TRUE /\ last = Len(q) + 2
        \/ v.ok = FALSE /\ last \in 1 .. Len(q) + 1 /\ \A j \in last .. Len(q) : q[j] # "="
    BY <1>1, Zenon DEF Finished
  <2> HIDE DEF last, n, list, v
  <2>5. v.ok <=> \E i \in DOMAIN q : q[i] = "=" /\ \A j \in i + 1 .. Len(q) : q[j] # "&"
    <3>1. CASE v.ok = TRUE
      <4>1. last - 2 = Len(q) /\ e \in 1 .. Len(q)
        BY <1>3, <2>3, <2>4, <3>1
      <4> QED BY <1>3, <2>3, <3>1, <4>1, Zenon
    <3>2. CASE v.ok = FALSE
      <4>1. last \in 1 .. Len(q) + 1 /\ \A j \in last .. Len(q) : q[j] # "="
        BY <2>4, <3>2, Zenon
      <4>2. last # Len(q) + 2 /\ last - 1 \in 1 .. Len(q)
        BY <1>3, <2>1, <4>1
      <4>3. q[last - 1] = "&"
        BY <2>3, <4>2, Zenon
      <4>4. ASSUME NEW i \in 1 .. Len(q), q[i] = "=" PROVE last - 1 \in i + 1 .. Len(q)
        <5>1. i \notin last .. Len(q)
          BY <4>1, <4>4, Zenon
        <5>2. "=" # "&"
          OBVIOUS
        <5>3. i # last - 1
          BY <4>3, <4>4, <5>2, Zenon
        <5>4. ASSUME NEW m \in Nat, NEW z \in 1 .. m + 1, NEW k \in 1 .. m, k \notin z .. m, k # z - 1, z - 1 \in 1 .. m
              PROVE  z - 1 \in k + 1 .. m
          BY <5>4
        <5> QED BY <1>3, <4>1, <4>2, <5>1, <5>3, <5>4, Zenon
      <4> QED BY <1>3, <3>2, <4>3, <4>4, Zenon
    <3> QED BY <2>4, <3>1, <3>2, Zenon
  <2>6. ASSUME v.ok PROVE Written(list) = q
    <3>1. last - 2 = Len(q)
      <4>1. last = Len(q) + 2
        BY <2>4, <2>6, Zenon
      <4> QED BY <1>3, <4>1
    <3>2. SubSeq(q, 1, Len(q)) = q
      OBVIOUS
    <3> QED BY <2>1, <3>1, <3>2, Zenon
  <2>7. ASSUME NEW k \in DOMAIN list
        PROVE  /\ \A j \in DOMAIN list[k].key : list[k].key[j] # "="
               /\ \A j \in DOMAIN list[k].value : list[k].value[j] # "&"
    <3>1. k \in 1 .. n /\ k \in 1 .. n + 1
      BY <1>3
    <3>2. Between(list[k], q, b[k], b[k + 1]) /\ b[k] \in 1 .. Len(q) + 2
      BY <1>4, <3>1, Zenon
    <3> QED BY <3>2, PartsOfBetween, Zenon
  <2>8. IsRead(q, v.ok, list)
    BY <2>1, <2>5, <2>6, <2>7, Zenon DEF IsRead
  <2> QED BY <2>8, Zenon DEF v, list
<1> QED BY <1>5, <1>6

LEMMA SkipWhitespaceIs ==
  ASSUME NEW s \in Seq(Char), NEW x \in 1 .. Len(s) + 1
  PROVE  skipWhitespace(s, x) \in x .. Len(s) + 1
<1> DEFINE n == Len(s)
           stops == { i \in x .. n + 1 : i = n + 1 \/ s[i] # " " }
           Skip(i) == (i = n + 1 \/ s[i] # " ") /\ \A j \in x .. i - 1 : s[j] = " "
<1>1. n \in Nat /\ x \in 1 .. n + 1
  <2>1. n \in Nat
    BY LenProperties
  <2> QED BY <2>1, Zenon
<1> HIDE DEF n
<1>2. stops \subseteq Nat /\ stops # {}
  <2>1. n + 1 \in stops
    <3>1. n + 1 \in x .. n + 1
      BY <1>1
    <3> QED BY <3>1
  <2>2. ASSUME NEW k \in x .. n + 1 PROVE k \in Nat
    BY <1>1
  <2> QED BY <2>1, <2>2, Zenon
<1>3. PICK i \in stops : \A j \in stops : i <= j
  <2> HIDE DEF stops
  <2> QED BY <1>2, LeastExists
<1>4. i \in x .. n + 1 /\ Skip(i)
  <2>1. i \in x .. n + 1 /\ (i = n + 1 \/ s[i] # " ")
    BY <1>3
  <2>2. ASSUME NEW j \in x .. i - 1 PROVE s[j] = " "
    <3> HIDE DEF stops
    <3>1. ASSUME NEW k \in x .. n + 1, NEW l \in x .. k - 1 PROVE l \in x .. n + 1 /\ ~ (k <= l)
      BY <1>1
    <3>2. j \in x .. n + 1 /\ ~ (i <= j)
      BY <2>1, <3>1, Zenon
    <3> QED BY <1>3, <3>2 DEF stops
  <2> QED BY <2>1, <2>2
<1> HIDE DEF Skip
<1>5. (CHOOSE k \in x .. n + 1 : Skip(k)) \in x .. n + 1
  BY <1>4, Zenon
<1> QED BY <1>5, Zenon DEF skipWhitespace, Skip, n

\* The target of a line that has one is a string of its own.
LEMMA TargetRead ==
  ASSUME NEW s \in Seq(Char), FirstSpace(s) # 0, Slash(s) # 0, SecondSpace(s) # 0
  PROVE  SubSeq(s, Slash(s), SecondSpace(s) - 1) \in Seq(Char)
<1>1. Len(s) \in Nat /\ \A i \in 1 .. Len(s) : s[i] \in Char
  BY LenProperties
<1>2. FirstSpace(s) \in 1 .. Len(s)
  <2>1. 1 \in Nat \ {0}
    OBVIOUS
  <2> QED BY <2>1, StrchrIs, Zenon DEF FirstSpace
<1>3. skipWhitespace(s, FirstSpace(s)) \in Nat \ {0}
  <2>1. FirstSpace(s) \in 1 .. Len(s) + 1
    BY <1>1, <1>2
  <2>2. skipWhitespace(s, FirstSpace(s)) \in FirstSpace(s) .. Len(s) + 1
    BY <2>1, SkipWhitespaceIs, Zenon
  <2> QED BY <1>1, <1>2, <2>2
<1>4. Slash(s) \in skipWhitespace(s, FirstSpace(s)) .. Len(s)
  BY <1>3, StrchrIs, Zenon DEF Slash
<1>5. Slash(s) \in Nat \ {0}
  BY <1>1, <1>3, <1>4
<1>6. SecondSpace(s) \in Slash(s) .. Len(s)
  BY <1>5, StrchrIs, Zenon DEF SecondSpace
<1>7. Slash(s) \in Int /\ SecondSpace(s) - 1 \in Int /\ \A i \in Slash(s) .. SecondSpace(s) - 1 : s[i] \in Char
  BY <1>1, <1>5, <1>6
<1> QED BY <1>7, SubSeqProperties, Zenon

LEMMA QueryRead ==
  ASSUME NEW t \in Seq(Char), parseQueryPath(t).hasQuery
  PROVE  /\ parseQueryPath(t).query \in Seq(Char)
         /\ parseQueryPath(t).ok = Params(parseQueryPath(t).query).ok
         /\ parseQueryPath(t).params = Params(parseQueryPath(t).query).list
<1> DEFINE mark == strchr(t, 1, "?")
           query == SubSeq(t, mark + 1, Len(t))
           read == [ok |-> Params(query).ok, path |-> SubSeq(t, 1, mark - 1),
                    hasQuery |-> TRUE, query |-> query, params |-> Params(query).list]
           none == [ok |-> TRUE, path |-> t, hasQuery |-> FALSE, query |-> <<>>, params |-> <<>>]
<1>1. parseQueryPath(t) = IF mark = 0 THEN none ELSE read
  BY Zenon DEF parseQueryPath
<1>2. mark # 0
  <2>1. none.hasQuery = FALSE
    OBVIOUS
  <2> HIDE DEF none, mark
  <2> QED BY <1>1, <2>1, Zenon
<1>3. mark \in 1 .. Len(t) /\ Len(t) \in Nat
  <2>1. 1 \in Nat \ {0}
    OBVIOUS
  <2>2. Len(t) \in Nat
    BY LenProperties
  <2> QED BY <1>2, <2>1, <2>2, StrchrIs, Zenon
<1>4. query \in Seq(Char)
  <2>1. mark \in 0 .. Len(t)
    BY <1>3
  <2> QED BY <2>1, SuffixIs, Zenon
<1>5. read.query = query /\ read.ok = Params(query).ok /\ read.params = Params(query).list
  BY Zenon
<1> HIDE DEF read, query
<1> QED BY <1>1, <1>2, <1>4, <1>5, Zenon

-----------------------------------------------------------------------------
(* The request reader *)

\* What the loop over the headers computes: the first Content-Length decides.
LEMMA DeclaredLengthIsTheFirst ==
  ASSUME NEW fields \in Seq(Fields)
  PROVE  /\ DeclaredLength(fields) \in Nat
         /\ \/ \E i \in DOMAIN fields :
                 /\ fields[i].name = "Content-Length"
                 /\ \A j \in 1 .. i - 1 : fields[j].name = Other
                 /\ DeclaredLength(fields) = IF fields[i].value > 0 THEN fields[i].value ELSE 0
            \/ /\ \A i \in DOMAIN fields : fields[i].name = Other
               /\ DeclaredLength(fields) = 0
<1>1. \A i \in 1 .. Len(fields) :
        fields[i].name \in {"Content-Length", Other} /\ fields[i].value \in Int
  <2>1. ASSUME NEW f \in Fields PROVE f.name \in {"Content-Length", Other} /\ f.value \in Int
    <3>1. CASE f \in [name : {"Content-Length"}, value : Lengths]
      <4>1. f.value \in Lengths /\ f.name = "Content-Length"
        BY <3>1
      <4> QED BY <4>1, RequestReaderAssumption
    <3>2. CASE f \in [name : {Other}, value : {0}]
      BY <3>2
    <3> QED BY <3>1, <3>2 DEF Fields
  <2> QED BY <2>1
<1>2. CASE Declaring(fields) = {}
  BY <1>1, <1>2 DEF DeclaredLength, Declaring
<1>3. CASE Declaring(fields) # {}
  <2> DEFINE first == CHOOSE i \in Declaring(fields) : \A j \in Declaring(fields) : i <= j
  <2>1. \E i \in Declaring(fields) : \A j \in Declaring(fields) : i <= j
    <3>1. Declaring(fields) \subseteq Nat
      BY DEF Declaring
    <3> QED BY <1>3, <3>1, LeastExists
  <2>2. first \in Declaring(fields) /\ \A j \in Declaring(fields) : first <= j
    BY <2>1
  <2>3. DeclaredLength(fields) = AtLeast0(fields[first].value)
    BY <1>3 DEF DeclaredLength
  <2> HIDE DEF first
  <2>4. first \in 1 .. Len(fields) /\ fields[first].name = "Content-Length"
    BY <2>2 DEF Declaring
  <2>5. \A j \in 1 .. first - 1 : fields[j].name = Other
    BY <1>1, <2>2, <2>4 DEF Declaring
  <2>6. AtLeast0(fields[first].value) \in Nat
    BY <1>1, <2>4 DEF AtLeast0
  <2> QED BY <2>3, <2>4, <2>5, <2>6 DEF AtLeast0
<1> QED BY <1>2, <1>3

\* Nothing is known of an argument that parses, and nothing is needed.
LEMMA BlocksOfTarget ==
  ASSUME NEW parsed
  PROVE  "path" \in BlocksOf(parsed) /\ BlocksOf(parsed) \subseteq {"path", "query", "params"}
BY DEF BlocksOf

LEMMA ReaderStarts ==
  ASSUME RInit
  PROVE  ReaderInv
<1>1. text \in Seq(Char) /\ headers \in Seq(Fields)
  BY RequestReaderAssumption DEF RInit
<1>2. /\ pc \in Labels /\ line \in {Null, "line"} /\ live \subseteq Blocks
      /\ ended \in BOOLEAN /\ damage \in {"none", "corrupted", "died"}
  BY DEF RInit, Labels
<1>3. contentLength \in Nat /\ bodyRead \in 0 .. contentLength
  BY DEF RInit
<1>4. ReaderTypeOK
  BY <1>1, <1>2, <1>3 DEF ReaderTypeOK
<1> QED BY <1>4 DEF RInit, ReaderInv, Needed, Allowed, Forward, FreedOnce

\* After a bad first line only what its target allocated is live, and the line.
LEMMA BadFirstLineFrees ==
  ASSUME BadFirstLine
  PROVE  /\ line' = "line" /\ "line" \in live' /\ pc = "firstLine" /\ pc' = "free_params_ret"
         /\ live' \subseteq {"line", "path", "query", "params"}
         /\ text' = <<>> /\ UNCHANGED <<headers, contentLength, bodyRead, ended, damage>>
<1>1. BlocksOf(TargetOf(text)) \subseteq {"path", "query", "params"}
  BY BlocksOfTarget
<1>2. CASE FirstLineAt("free_params_ret", "line", {"line"})
  BY <1>2 DEF BadFirstLine, FirstLineAt
<1>3. CASE FirstLineAt("free_params_ret", "line", {"line"} \cup BlocksOf(TargetOf(text)))
  BY <1>1, <1>3 DEF BadFirstLine, FirstLineAt
<1> QED BY <1>2, <1>3 DEF BadFirstLine

\* Every step of readHttpRequest, and the release of the request, preserves
\* what is known of the reader.
LEMMA FirstLinePreserves ==
  ASSUME ReaderInv, FirstLine
  PROVE  ReaderInv'
<1> USE DEF ReaderInv, ReaderTypeOK, Labels, Needed, Allowed, Blocks, Null, Forward, FreedOnce
<1>1. CASE NoFirstLine
  BY <1>1 DEF NoFirstLine, FirstLineAt
<1>2. CASE BadFirstLine
  BY <1>2, BadFirstLineFrees
<1>3. CASE FatalFirstLine
  BY <1>3 DEF FatalFirstLine, Die
<1>4. CASE TargetCopyFails
  BY <1>4 DEF TargetCopyFails, Die
<1>5. CASE GoodFirstLine
  BY <1>5, BlocksOfTarget DEF GoodFirstLine, FirstLineAt
<1> QED BY <1>1, <1>2, <1>3, <1>4, <1>5 DEF FirstLine

LEMMA HeadersPreserve ==
  ASSUME ReaderInv, Headers
  PROVE  ReaderInv'
<1> USE DEF ReaderInv, ReaderTypeOK, Labels, Needed, Allowed, Blocks, Null, Forward, FreedOnce,
            HeaderLineAt
<1>1. CASE NoHeaderLine
  BY <1>1 DEF NoHeaderLine
<1>2. CASE EndOfHeaders
  BY <1>2 DEF EndOfHeaders
<1>3. CASE BadHeaderLine
  BY <1>3 DEF BadHeaderLine
<1>4. CASE HeaderLine
  BY <1>4 DEF HeaderLine
<1>5. CASE HeaderCopyFails
  BY <1>5 DEF HeaderCopyFails, Die
<1>6. CASE LoneColon
  <2>1. [name |-> Other, value |-> 0] \in Fields
    BY DEF Fields
  <2>2. CASE pc = "headerLine" /\ Running /\ Die
    BY <2>2 DEF Die
  <2>3. CASE HeaderLineAt("free_headers_ret") /\ line' = Null /\ live' = live \cup {"headers"}
             /\ headers' = Append(headers, [name |-> Other, value |-> 0])
             /\ damage' = "corrupted" /\ UNCHANGED ended
    <3>1. headers' \in Seq(Fields)
      BY <2>1, <2>3
    <3> QED BY <2>3, <3>1
  <2> QED BY <1>6, <2>2, <2>3 DEF LoneColon
<1> QED BY <1>1, <1>2, <1>3, <1>4, <1>5, <1>6 DEF Headers

LEMMA BodyPreserves ==
  ASSUME ReaderInv, Body
  PROVE  ReaderInv'
<1> USE DEF ReaderInv, ReaderTypeOK, Labels, Needed, Allowed, Blocks, Null, Forward, FreedOnce
<1>1. CASE FindLength
  BY <1>1, DeclaredLengthIsTheFirst DEF FindLength
<1>2. CASE AllocRequest
  BY <1>2 DEF AllocRequest
<1>3. CASE AllocRequestFails
  BY <1>3 DEF AllocRequestFails
<1>4. CASE ReadBody
  BY <1>4 DEF ReadBody
<1> QED BY <1>1, <1>2, <1>3, <1>4 DEF Body

LEMMA ExitsPreserve ==
  ASSUME ReaderInv, Exits \/ DropRequest
  PROVE  ReaderInv'
<1> USE DEF ReaderInv, ReaderTypeOK, Labels, Needed, Allowed, Blocks, Null, Forward, FreedOnce, ExitAt
<1>1. CASE FreeAll
  BY <1>1 DEF FreeAll
<1>2. CASE FreeHeaders
  BY <1>2 DEF FreeHeaders
<1>3. CASE FreeParams
  <2>1. damage' \in {"none", "corrupted", "died"}
    BY <1>3, Zenon DEF FreeParams, Running
  <2>2. pc = "free_params_ret" /\ pc' = "rejected" /\ live' = {} /\ line' = line
    BY <1>3 DEF FreeParams
  <2>3. UNCHANGED <<text, headers, contentLength, bodyRead, ended>>
    BY <1>3 DEF FreeParams
  <2> QED BY <2>1, <2>2, <2>3
<1>4. CASE DropRequest
  BY <1>4 DEF DropRequest
<1> QED BY <1>1, <1>2, <1>3, <1>4 DEF Exits

LEMMA ReaderPreserves ==
  ASSUME ReaderInv, readHttpRequest \/ DropRequest
  PROVE  ReaderInv'
BY FirstLinePreserves, HeadersPreserve, BodyPreserves, ExitsPreserve DEF readHttpRequest

-----------------------------------------------------------------------------
(* The static handler *)

LEMMA WholeIsNotCut ==
  /\ File!Whole(200) # [status |-> 200, whole |-> FALSE]
  /\ \A n : File!Whole(n) = [status |-> n, whole |-> TRUE]
<1>1. File!Whole(200).whole # [status |-> 200, whole |-> FALSE].whole
  BY DEF File!Whole
<1> QED BY <1>1 DEF File!Whole

\* The three outcomes of the handler, as the connection and the Error see them.
LEMMA StaticOutcomesAre ==
  ASSUME NEW o, NEW e
  PROVE  [out |-> o, err |-> e] \in File!StaticOutcomes <=>
           \/ o = <<>> /\ e = 500
           \/ o = <<File!Whole(200)>> /\ e = 0
           \/ o = <<[status |-> 200, whole |-> FALSE]>> /\ e = 0
<1>1. \A a, b : [out |-> o, err |-> e] = [out |-> a, err |-> b] <=> o = a /\ e = b
  <2>1. \A a, b : /\ [out |-> a, err |-> b].out = a
                  /\ [out |-> a, err |-> b].err = b
    OBVIOUS
  <2> QED BY <2>1, Zenon
<1> DEFINE r == [out |-> o, err |-> e]
<1>2. r \in File!StaticOutcomes <=>
        \/ r = File!Failed(500)
        \/ r = File!Wrote(File!Whole(200))
        \/ r = File!Wrote([status |-> 200, whole |-> FALSE])
  <2> HIDE DEF r
  <2> QED BY Zenon DEF File!StaticOutcomes
<1>3. /\ r = File!Failed(500) <=> o = <<>> /\ e = 500
      /\ r = File!Wrote(File!Whole(200)) <=> o = <<File!Whole(200)>> /\ e = 0
      /\ r = File!Wrote([status |-> 200, whole |-> FALSE]) <=>
           o = <<[status |-> 200, whole |-> FALSE]>> /\ e = 0
  BY <1>1, Zenon DEF File!Failed, File!Wrote
<1> HIDE DEF r
<1>4. r \in File!StaticOutcomes <=>
        \/ o = <<>> /\ e = 500
        \/ o = <<File!Whole(200)>> /\ e = 0
        \/ o = <<[status |-> 200, whole |-> FALSE]>> /\ e = 0
  BY <1>2, <1>3
<1> QED BY <1>4 DEF r

LEMMA FileStarts ==
  ASSUME File!Init
  PROVE  File!IInv
<1>1. size \in Nat
  BY WorkerAssumption DEF File!Init
<1>2. File!Locals
  BY <1>1 DEF File!Init, File!Locals, File!Labels
<1>3. File!Served
  BY DEF File!Init, File!Served
<1>4. body = 0 /\ filled = 0 /\ DOMAIN out = {}
  BY DEF File!Init
<1> QED BY <1>2, <1>3, <1>4 DEF File!IInv, File!NothingUninitialisedIsSent

LEMMA StepOfFile ==
  ASSUME errno \in BOOLEAN, NEW from, NEW to, File!Step(from, to)
  PROVE  filePc = from /\ filePc' = to /\ size' = size /\ errno' \in BOOLEAN
<1>1. errno' = errno \/ errno' = TRUE
  BY Zenon DEF File!Step
<1>2. errno' \in BOOLEAN
  BY <1>1, Zenon
<1> QED BY <1>2, Zenon DEF File!Step

\* The locals keep their types, and the file and the buffer are held exactly
\* between the label that acquires and the label that releases them.
LEMMA FileLocals ==
  ASSUME File!Locals, File!handleStatic \/ File!Rewrite
  PROVE  File!Locals'
<1> USE StepOfFile DEF File!Locals, File!Labels, File!Fail
<1>1. CASE File!Open
  <2>1. opened' = TRUE
    BY <1>1, Zenon DEF File!Open
  <2>2. opened' /\ opened' \in BOOLEAN
    BY <2>1, Zenon
  <2>3. File!Step("open", "measure") /\ UNCHANGED <<buffer, fileSize, toRead, filled, body>>
    BY <1>1, Zenon DEF File!Open
  <2> QED BY <2>2, <2>3
<1>1f. CASE File!OpenFails
  BY <1>1f DEF File!OpenFails
<1>2. CASE File!Measure \/ File!MeasureFails
  BY <1>2 DEF File!Measure, File!MeasureFails
<1>3. CASE File!Alloc
  <2>1. buffer' = TRUE
    BY <1>3, Zenon DEF File!Alloc
  <2>2. buffer' /\ buffer' \in BOOLEAN
    BY <2>1, Zenon
  <2>3. File!Step("alloc", "measureAgain") /\ UNCHANGED <<opened, fileSize, toRead, filled, body>>
    BY <1>3, Zenon DEF File!Alloc
  <2> QED BY <2>2, <2>3
<1>3f. CASE File!AllocFails
  BY <1>3f DEF File!AllocFails
<1>4. CASE File!MeasureAgain
  BY <1>4 DEF File!MeasureAgain
<1>5. CASE File!Read
  BY <1>5 DEF File!Read
<1>6. CASE File!Header
  BY <1>6 DEF File!Header
<1>7. CASE File!Body
  BY <1>7 DEF File!Body
<1>8. CASE File!FreeBuffer
  <2>1. buffer' = FALSE
    BY <1>8, Zenon DEF File!FreeBuffer
  <2>2. ~ buffer' /\ buffer' \in BOOLEAN
    BY <2>1, Zenon
  <2>3. File!Step("free_buf_ret", "close_fp_ret") /\ UNCHANGED <<opened, fileSize, toRead, filled, body>>
    BY <1>8, Zenon DEF File!FreeBuffer
  <2> QED BY <2>2, <2>3
<1>9. CASE File!CloseFile
  <2>1. opened' = FALSE
    BY <1>9, Zenon DEF File!CloseFile
  <2>2. ~ opened' /\ opened' \in BOOLEAN
    BY <2>1, Zenon
  <2>3. File!Step("close_fp_ret", "return") /\ UNCHANGED <<buffer, fileSize, toRead, filled, body>>
    BY <1>9, Zenon DEF File!CloseFile
  <2> QED BY <2>2, <2>3
<1>10. CASE File!Rewrite
  BY <1>10, WorkerAssumption DEF File!Rewrite
<1> QED BY <1>1, <1>1f, <1>2, <1>3, <1>3f, <1>4, <1>5, <1>6, <1>7, <1>8, <1>9, <1>10
           DEF File!handleStatic

\* Up to the header the connection and the Error are untouched, and from it on
\* they hold one of the promised outcomes.
LEMMA FileServes ==
  ASSUME File!Locals, File!Served, File!handleStatic \/ File!Rewrite
  PROVE  File!Served'
<1>0. errno \in BOOLEAN /\ filePc \in File!Labels
  BY DEF File!Locals
<1> USE <1>0, StepOfFile DEF File!Served, File!Labels
<1>1. CASE File!OpenFails \/ File!MeasureFails \/ File!AllocFails
  <2>1. out = <<>> /\ out' = out /\ err' = 500 /\ body' = body /\ body = 0
    BY <1>1 DEF File!OpenFails, File!MeasureFails, File!AllocFails, File!Fail
  <2>2. filePc' \in {"return", "close_fp_ret", "free_buf_ret"}
    BY <1>1 DEF File!OpenFails, File!MeasureFails, File!AllocFails, File!Fail
  <2> QED BY <2>1, <2>2, StaticOutcomesAre
<1>2. CASE File!Open
  BY <1>2 DEF File!Open
<1>3. CASE File!Measure
  BY <1>3 DEF File!Measure
<1>4. CASE File!Alloc
  BY <1>4 DEF File!Alloc
<1>5. CASE File!MeasureAgain
  BY <1>5 DEF File!MeasureAgain
<1>6. CASE File!Read
  <2>1. CASE filled' = fileSize /\ File!Step("read", "header") /\ UNCHANGED <<fileSize, body, out, err>>
    BY <2>1
  <2>2. CASE filled' # fileSize /\ File!Fail("read", "free_buf_ret")
    BY <2>2, StaticOutcomesAre DEF File!Fail
  <2> QED BY <1>6, <2>1, <2>2 DEF File!Read
<1>7. CASE File!Header
  <2>1. filePc = "header" /\ filePc' \in {"free_buf_ret", "body"}
    BY <1>7 DEF File!Header
  <2>2. /\ out' = <<[status |-> 200, whole |-> FALSE]>>
        /\ UNCHANGED <<fileSize, filled, body, err>>
    BY <1>7, Zenon DEF File!Header
  <2> QED BY <2>1, <2>2, StaticOutcomesAre
<1>8. CASE File!Body
  <2>1. filePc = "body" /\ filePc' = "free_buf_ret" /\ err' = err
    BY <1>8 DEF File!Body
  <2>2. out' = <<[status |-> 200, whole |-> body' = fileSize]>>
    BY <1>8, Zenon DEF File!Body
  <2>3. (body' = fileSize) \in BOOLEAN
    OBVIOUS
  <2>4. \/ out' = <<File!Whole(200)>>
        \/ out' = <<[status |-> 200, whole |-> FALSE]>>
    BY <2>2, <2>3, Zenon DEF File!Whole
  <2> QED BY <2>1, <2>4, StaticOutcomesAre
<1>9. CASE File!FreeBuffer \/ File!CloseFile
  BY <1>9 DEF File!FreeBuffer, File!CloseFile
<1>10. CASE File!Rewrite
  BY <1>10 DEF File!Rewrite
<1> QED BY <1>1, <1>2, <1>3, <1>4, <1>5, <1>6, <1>7, <1>8, <1>9, <1>10 DEF File!handleStatic

\* No byte is sent that was not read: the header goes out when the buffer is
\* full of the file's bytes, and the body is cut from it.
LEMMA FileSendsWhatItRead ==
  ASSUME File!Locals, File!Served, File!NothingUninitialisedIsSent,
         File!handleStatic \/ File!Rewrite
  PROVE  File!NothingUninitialisedIsSent'
<1>0. /\ errno \in BOOLEAN /\ filePc \in File!Labels
      /\ fileSize \in Nat /\ toRead \in Nat /\ filled \in Nat /\ body \in Nat
  BY DEF File!Locals
<1>1. CASE UNCHANGED <<fileSize, filled, body, out>>
  BY <1>1 DEF File!NothingUninitialisedIsSent
<1>2. CASE File!Measure \/ File!MeasureAgain \/ File!Read
  <2>1. filePc \in {"measure", "measureAgain", "read"}
    BY <1>0, <1>2, StepOfFile DEF File!Measure, File!MeasureAgain, File!Read, File!Fail
  <2>2. out = <<>> /\ body = 0
    BY <2>1 DEF File!Served
  <2>3. out' = out /\ body' = body
    BY <1>2 DEF File!Measure, File!MeasureAgain, File!Read, File!Fail
  <2>4. filled' \in Nat
    BY <1>0, <1>2 DEF File!Measure, File!MeasureAgain, File!Read
  <2> QED BY <2>2, <2>3, <2>4 DEF File!NothingUninitialisedIsSent
<1>3. CASE File!Header
  <2>1. /\ out' = <<[status |-> 200, whole |-> FALSE]>>
        /\ UNCHANGED <<fileSize, filled, body>>
    BY <1>3, Zenon DEF File!Header
  <2>2. \A i \in DOMAIN out' : out'[i] # File!Whole(200)
    BY <2>1, WholeIsNotCut
  <2> QED BY <2>1, <2>2 DEF File!NothingUninitialisedIsSent
<1>4. CASE File!Body
  <2>1. filled = fileSize
    BY <1>0, <1>4, StepOfFile DEF File!Body, File!Served
  <2>2. body' \in 0 .. fileSize /\ UNCHANGED <<fileSize, filled>>
    BY <1>4 DEF File!Body
  <2>3. out' = <<[status |-> 200, whole |-> body' = fileSize]>>
    BY <1>4, Zenon DEF File!Body
  <2>4. CASE body' = fileSize
    BY <1>0, <2>1, <2>2, <2>4 DEF File!NothingUninitialisedIsSent
  <2>5. CASE body' # fileSize
    <3>1. out' = <<[status |-> 200, whole |-> FALSE]>>
      <4>1. (body' = fileSize) = FALSE
        BY <2>5
      <4> QED BY <2>3, <4>1, Zenon
    <3>2. \A i \in DOMAIN out' : out'[i] # File!Whole(200)
      BY <3>1, WholeIsNotCut
    <3> QED BY <1>0, <2>1, <2>2, <3>2 DEF File!NothingUninitialisedIsSent
  <2> QED BY <2>4, <2>5
<1> QED BY <1>1, <1>2, <1>3, <1>4
        DEF File!handleStatic, File!Open, File!OpenFails, File!MeasureFails, File!Alloc,
            File!AllocFails, File!Fail, File!FreeBuffer, File!CloseFile, File!Rewrite

LEMMA FilePreserves ==
  ASSUME File!IInv, File!handleStatic \/ File!Rewrite
  PROVE  File!IInv'
BY FileLocals, FileServes, FileSendsWhatItRead DEF File!IInv

-----------------------------------------------------------------------------
(* The connection *)

\* What the handler may have written at any moment, now or after a step.
LEMMA FileResponses ==
  /\ <<>> \in Seq(File!Response)
  /\ <<File!Whole(200)>> \in Seq(File!Response)
  /\ <<[status |-> 200, whole |-> FALSE]>> \in Seq(File!Response)
BY DEF File!Response, File!Whole

LEMMA FileWrites ==
  /\ File!IInv => out \in Seq(File!Response) /\ err \in {0, 500}
  /\ File!IInv' => out' \in Seq(File!Response) /\ err' \in {0, 500}
<1>1. File!IInv => \/ out = <<>> /\ err \in {0, 500}
                   \/ out = <<File!Whole(200)>> /\ err = 0
                   \/ out = <<[status |-> 200, whole |-> FALSE]>> /\ err = 0
  BY StaticOutcomesAre DEF File!IInv, File!Locals, File!Served, File!Labels
<1>2. File!IInv' => \/ out' = <<>> /\ err' \in {0, 500}
                    \/ out' = <<File!Whole(200)>> /\ err' = 0
                    \/ out' = <<[status |-> 200, whole |-> FALSE]>> /\ err' = 0
  BY StaticOutcomesAre DEF File!IInv, File!Locals, File!Served, File!Labels
<1>3. File!IInv => out \in Seq(File!Response) /\ err \in {0, 500}
  <2>1. 0 \in {0, 500}
    OBVIOUS
  <2> QED BY <1>1, <2>1, FileResponses, Zenon
<1>4. File!IInv' => out' \in Seq(File!Response) /\ err' \in {0, 500}
  <2>1. 0 \in {0, 500}
    OBVIOUS
  <2> QED BY <1>2, <2>1, FileResponses, Zenon
<1> QED BY <1>3, <1>4, Zenon

\* Steps that leave a part alone leave what is known of it alone.
LEMMA ReaderStutters ==
  ASSUME ReaderInv, UNCHANGED rvars
  PROVE  ReaderInv'
BY DEF rvars, ReaderInv, ReaderTypeOK, Needed, Allowed, Forward, FreedOnce

LEMMA FileStutters ==
  ASSUME File!IInv, errno' \in BOOLEAN, size' \in Nat,
         UNCHANGED <<filePc, opened, buffer, fileSize, toRead, filled, body, out, err>>
  PROVE  File!IInv'
<1>1. File!Locals'
  BY DEF File!IInv, File!Locals
<1>2. File!Served' = File!Served
  BY DEF File!Served
<1>3. File!NothingUninitialisedIsSent' = File!NothingUninitialisedIsSent
  BY DEF File!NothingUninitialisedIsSent
<1> QED BY <1>1, <1>2, <1>3, Zenon DEF File!IInv

\* The pages httpHandler sends are whole, and none is a 200.
LEMMA ErrorPagesAre ==
  /\ File!ErrorPages(0) = <<>>
  /\ \A e \in {404, 500} : /\ File!ErrorPages(e) = <<File!Whole(e)>>
                           /\ File!Whole(e) \in File!Response
                           /\ File!Whole(e) # File!Whole(200)
<1>1. File!Whole(404).status = 404 /\ File!Whole(500).status = 500 /\ File!Whole(200).status = 200
  BY DEF File!Whole
<1>2. File!Whole(404) \in File!Response /\ File!Whole(500) \in File!Response
  BY DEF File!Whole, File!Response
<1> QED BY <1>1, <1>2 DEF File!ErrorPages

LEMMA DiePreserves ==
  ASSUME ReaderInv, Die
  PROVE  ReaderInv'
BY DEF Die, ReaderInv, ReaderTypeOK, Needed, Allowed, Forward, FreedOnce

LEMMA ReaderDropsNothing ==
  ASSUME readHttpRequest, pc # "dropped"
  PROVE  pc' # "dropped"
<1>1. CASE FirstLine
  BY <1>1 DEF FirstLine, NoFirstLine, BadFirstLine, FatalFirstLine, TargetCopyFails,
              GoodFirstLine, FirstLineAt, Die
<1>2. CASE Headers
  BY <1>2 DEF Headers, NoHeaderLine, EndOfHeaders, BadHeaderLine, HeaderLine,
              HeaderCopyFails, LoneColon, HeaderLineAt, Die
<1>3. CASE Body \/ Exits
  BY <1>3 DEF Body, FindLength, AllocRequest, AllocRequestFails, ReadBody,
              Exits, FreeAll, FreeHeaders, FreeParams, ExitAt
<1> QED BY <1>1, <1>2, <1>3 DEF readHttpRequest

LEMMA WorkerStarts ==
  ASSUME Init
  PROVE  IInv
<1>1. ReaderInv
  BY ReaderStarts DEF Init
<1>2. File!IInv
  BY FileStarts DEF Init
<1>3. out = <<>> /\ err = 0 /\ filePc = "open" /\ pc = "firstLine"
  BY DEF Init, File!Init, RInit
<1>4. TypeOK
  BY <1>1, <1>2, FileWrites DEF Init, TypeOK, ReaderInv
<1>5. AtStep
  BY <1>2, <1>3 DEF Init, AtStep, Unserved
<1> QED BY <1>1, <1>2, <1>4, <1>5 DEF IInv, File!IInv, NothingUninitialisedIsSent

\* Steps before a route is chosen.
LEMMA ReadingPreserves ==
  ASSUME IInv, Fdopen \/ FdopenFails \/ Read \/ NoRequest \/ NewError \/ Route \/ NoRoute
  PROVE  IInv'
<1>0. TypeOK /\ ReaderInv /\ AtStep /\ NothingUninitialisedIsSent
  BY DEF IInv
<1>1. CASE Fdopen
  <2>1. /\ wpc = "fdopen" /\ wpc' = "read" /\ errno' \in BOOLEAN
        /\ UNCHANGED <<rvars, owned, size, filePc, opened, buffer, fileSize, toRead, filled, body, out, err>>
    BY <1>1 DEF Fdopen, At
  <2>2. ReaderInv' /\ pc' = pc /\ pc = "firstLine"
    BY <1>0, <2>1, ReaderStutters DEF AtStep, rvars
  <2>3. File!IInv /\ Unserved /\ err = 0 /\ owned = {"context", "fd"} /\ size \in Nat
    BY <1>0, <2>1 DEF AtStep, File!IInv, File!Locals
  <2>4. File!IInv'
    BY <2>1, <2>3, FileStutters
  <2>5. TypeOK' /\ AtStep'
    BY <2>1, <2>2, <2>3, <2>4, <1>0 DEF TypeOK, ReaderInv, AtStep, Unserved
  <2> QED BY <2>2, <2>4, <2>5 DEF IInv, File!IInv, NothingUninitialisedIsSent
<1>2. CASE FdopenFails
  <2>1. wpc = "fdopen" /\ wpc' = "fdopen" /\ Die /\ UNCHANGED <<fvars, owned>>
    BY <1>2 DEF FdopenFails, At
  <2>2. ReaderInv' /\ pc' = pc
    BY <1>0, <2>1, DiePreserves DEF Die
  <2>3. File!IInv /\ Unserved /\ err = 0 /\ pc = "firstLine" /\ owned = {"context", "fd"}
    BY <1>0, <2>1 DEF AtStep
  <2>4. File!IInv'
    <3>1. errno' \in BOOLEAN /\ size' \in Nat
      BY <2>1, <2>3 DEF fvars, File!IInv, File!Locals
    <3> QED BY <2>1, <2>3, <3>1, FileStutters DEF fvars
  <2>5. TypeOK' /\ AtStep'
    BY <2>1, <2>2, <2>3, <2>4, <1>0 DEF TypeOK, ReaderInv, AtStep, Unserved, fvars
  <2> QED BY <2>2, <2>4, <2>5 DEF IInv, File!IInv, NothingUninitialisedIsSent
<1>3. CASE Read
  <2>1. /\ wpc = "read" /\ wpc' = "read" /\ readHttpRequest
        /\ UNCHANGED <<owned, size, filePc, opened, buffer, fileSize, toRead, filled, body, out, err>>
    BY <1>3 DEF Read, At
  <2>2. ReaderInv' /\ pc' # "dropped"
    <3>1. pc # "dropped"
      BY <1>0, <2>1 DEF AtStep
    <3> QED BY <1>0, <2>1, <3>1, ReaderPreserves, ReaderDropsNothing
  <2>3. File!IInv /\ Unserved /\ err = 0 /\ owned = {"context", "fd"}
    BY <1>0, <2>1 DEF AtStep
  <2>4. File!IInv'
    <3>1. errno \in BOOLEAN /\ size' \in Nat
      BY <2>1, <2>3 DEF File!IInv, File!Locals
    <3>2. errno' = errno \/ errno' = TRUE
      BY <1>3, Zenon DEF Read
    <3>3. errno' \in BOOLEAN
      BY <3>1, <3>2, Zenon
    <3> QED BY <2>1, <2>3, <3>1, <3>3, FileStutters
  <2>5. TypeOK' /\ AtStep'
    BY <2>1, <2>2, <2>3, <2>4, <1>0 DEF TypeOK, ReaderInv, AtStep, Unserved
  <2> QED BY <2>2, <2>4, <2>5 DEF IInv, File!IInv, NothingUninitialisedIsSent
<1>4. CASE NoRequest
  <2>1. wpc = "read" /\ wpc' = "close_fp_ret" /\ pc = "rejected" /\ UNCHANGED <<rvars, fvars, owned>>
    BY <1>4 DEF NoRequest, At
  <2>2. ReaderInv' /\ pc' = pc
    BY <1>0, <2>1, ReaderStutters DEF rvars
  <2>3. File!IInv /\ Unserved /\ owned = {"context", "fd"} /\ ~ opened /\ ~ buffer
    BY <1>0, <2>1 DEF AtStep, Unserved, File!IInv, File!Locals
  <2>4. TypeOK' /\ AtStep'
    BY <2>1, <2>2, <2>3, <1>0 DEF TypeOK, ReaderInv, AtStep, Unserved, fvars
  <2>5. NothingUninitialisedIsSent'
    BY <1>0, <2>1 DEF NothingUninitialisedIsSent, File!NothingUninitialisedIsSent, fvars
  <2> QED BY <2>2, <2>4, <2>5 DEF IInv
<1>5. CASE NewError
  <2>1. wpc = "read" /\ pc = "accepted" /\ UNCHANGED fvars
    BY <1>5 DEF NewError, At
  <2>2. \/ wpc' = "route" /\ owned' = owned \cup {"error"} /\ UNCHANGED rvars
        \/ wpc' = "read" /\ Die /\ UNCHANGED owned
    BY <1>5 DEF NewError, At
  <2>3. ReaderInv' /\ pc' = pc
    BY <1>0, <2>2, ReaderStutters, DiePreserves DEF rvars, Die
  <2>4. File!IInv /\ Unserved /\ err = 0 /\ owned = {"context", "fd"}
    BY <1>0, <2>1 DEF AtStep
  <2>5. File!IInv'
    <3>1. errno' \in BOOLEAN /\ size' \in Nat
      BY <2>1, <2>4 DEF fvars, File!IInv, File!Locals
    <3> QED BY <2>1, <2>4, <3>1, FileStutters DEF fvars
  <2>6. TypeOK' /\ AtStep'
    BY <2>1, <2>2, <2>3, <2>4, <2>5, <1>0 DEF TypeOK, ReaderInv, AtStep, Unserved, fvars
  <2> QED BY <2>3, <2>5, <2>6 DEF IInv, File!IInv, NothingUninitialisedIsSent
<1>6. CASE Route
  <2>1. /\ wpc = "route" /\ wpc' = "handle" /\ size' \in Sizes
        /\ UNCHANGED <<rvars, owned, filePc, errno, opened, buffer, fileSize, toRead, filled, body, out, err>>
    BY <1>6 DEF Route, At
  <2>2. ReaderInv' /\ pc' = pc /\ pc = "accepted"
    BY <1>0, <2>1, ReaderStutters DEF rvars, AtStep
  <2>3. File!IInv /\ Unserved /\ err = 0 /\ owned = {"context", "fd", "error"}
    BY <1>0, <2>1 DEF AtStep
  <2>4. File!IInv'
    <3>1. errno' \in BOOLEAN /\ size' \in Nat
      BY <2>1, <2>3, WorkerAssumption DEF File!IInv, File!Locals
    <3> QED BY <2>1, <2>3, <3>1, FileStutters
  <2>5. TypeOK' /\ AtStep'
    BY <2>1, <2>2, <2>3, <2>4, <1>0 DEF TypeOK, ReaderInv, AtStep, Unserved
  <2> QED BY <2>2, <2>4, <2>5 DEF IInv, File!IInv, NothingUninitialisedIsSent
<1>7. CASE NoRoute
  <2>1. /\ wpc = "route" /\ wpc' = "drop" /\ err' = 404
        /\ UNCHANGED <<rvars, owned, size, filePc, errno, opened, buffer, fileSize, toRead, filled, body, out>>
    BY <1>7 DEF NoRoute, At
  <2>2. ReaderInv' /\ pc' = pc /\ pc = "accepted"
    BY <1>0, <2>1, ReaderStutters DEF rvars, AtStep
  <2>3. Unserved /\ owned = {"context", "fd", "error"} /\ ~ opened /\ ~ buffer
    BY <1>0, <2>1 DEF AtStep, Unserved, File!IInv, File!Locals
  <2>4. TypeOK' /\ AtStep'
    BY <2>1, <2>2, <2>3, <1>0 DEF TypeOK, ReaderInv, AtStep, Unserved
  <2>5. NothingUninitialisedIsSent'
    BY <1>0, <2>1 DEF NothingUninitialisedIsSent, File!NothingUninitialisedIsSent
  <2> QED BY <2>2, <2>4, <2>5 DEF IInv
<1> QED BY <1>1, <1>2, <1>3, <1>4, <1>5, <1>6, <1>7

\* Steps from the route to the end of the connection.
LEMMA ServingPreserves ==
  ASSUME IInv, Rewrite \/ Handle \/ Drop \/ ErrorPage \/ DropError \/ Close
  PROVE  IInv'
<1>0. TypeOK /\ ReaderInv /\ AtStep /\ NothingUninitialisedIsSent
  BY DEF IInv
<1>1. CASE Rewrite \/ Handle
  <2>1. /\ wpc = "handle" /\ wpc' = "handle" /\ UNCHANGED <<rvars, owned>>
        /\ File!handleStatic \/ File!Rewrite
    BY <1>1 DEF Rewrite, Handle, At
  <2>2. ReaderInv' /\ pc' = pc /\ pc = "accepted"
    BY <1>0, <2>1, ReaderStutters DEF rvars, AtStep
  <2>3. File!IInv'
    BY <1>0, <2>1, FilePreserves DEF AtStep
  <2>4. out' \in Seq(File!Response) /\ err' \in {0, 500}
    BY <2>3, FileWrites
  <2>5. TypeOK' /\ AtStep'
    BY <2>1, <2>2, <2>3, <2>4, <1>0 DEF TypeOK, ReaderInv, AtStep
  <2> QED BY <2>2, <2>3, <2>5 DEF IInv, File!IInv, NothingUninitialisedIsSent
<1>2. CASE Drop
  <2>1. /\ wpc' = "page" /\ DropRequest /\ UNCHANGED <<fvars, owned>>
        /\ (wpc = "handle" /\ filePc = "return") \/ wpc = "drop"
    BY <1>2 DEF Drop, At
  <2>2. ReaderInv' /\ pc' = "dropped"
    BY <1>0, <2>1, ReaderPreserves DEF DropRequest, ExitAt
  <2>3. /\ \/ [out |-> out, err |-> err] \in File!StaticOutcomes
           \/ out = <<>> /\ err = 404
        /\ ~ opened /\ ~ buffer /\ owned = {"context", "fd", "error"}
    BY <1>0, <2>1 DEF AtStep, Unserved, File!IInv, File!Locals, File!Served
  <2>4. TypeOK' /\ AtStep'
    BY <2>1, <2>2, <2>3, <1>0 DEF TypeOK, ReaderInv, AtStep, fvars
  <2>5. NothingUninitialisedIsSent'
    BY <1>0, <2>1 DEF NothingUninitialisedIsSent, File!NothingUninitialisedIsSent, fvars
  <2> QED BY <2>2, <2>4, <2>5 DEF IInv
<1>3. CASE ErrorPage
  <2>1. /\ wpc = "page" /\ wpc' = "dropError" /\ out' = out \o File!ErrorPages(err)
        /\ UNCHANGED <<rvars, owned, size, filePc, errno, opened, buffer, fileSize, toRead, filled, body, err>>
    BY <1>3 DEF ErrorPage, At
  <2>2. ReaderInv' /\ pc' = pc /\ pc = "dropped"
    BY <1>0, <2>1, ReaderStutters DEF rvars, AtStep
  <2>3. ~ opened /\ ~ buffer /\ owned = {"context", "fd", "error"}
    BY <1>0, <2>1 DEF AtStep
  <2>4. \/ err \in {404, 500} /\ out = <<>>
        \/ err = 0 /\ Len(out) = 1 /\ out \in Seq(File!Response)
    BY <1>0, <2>1, StaticOutcomesAre DEF AtStep, TypeOK
  <2>5. /\ Answered' /\ out' \in Seq(File!Response) /\ NothingUninitialisedIsSent'
    <3>1. CASE err \in {404, 500} /\ out = <<>>
      <4>1. out' = <<File!Whole(err)>> /\ err' = err
        BY <2>1, <3>1, ErrorPagesAre
      <4>2. File!Whole(err) \in File!Response /\ File!Whole(err) # File!Whole(200)
        BY <3>1, ErrorPagesAre
      <4>3. \A i \in DOMAIN out' : out'[i] # File!Whole(200)
        BY <4>1, <4>2
      <4>4. body' <= filled'
        BY <1>0, <2>1 DEF NothingUninitialisedIsSent, File!NothingUninitialisedIsSent
      <4> QED BY <4>1, <4>2, <4>3, <4>4
              DEF Answered, NothingUninitialisedIsSent, File!NothingUninitialisedIsSent
    <3>2. CASE err = 0 /\ Len(out) = 1 /\ out \in Seq(File!Response)
      <4>1. out' = out /\ err' = 0
        <5>1. out' = out \o <<>> /\ err' = err
          <6>1. File!ErrorPages(err) = <<>>
            BY <3>2, ErrorPagesAre, Zenon
          <6> QED BY <2>1, <6>1, Zenon
        <5> QED BY <3>2, <5>1, ConcatEmptySeq
      <4> QED BY <1>0, <2>1, <3>2, <4>1
              DEF Answered, NothingUninitialisedIsSent, File!NothingUninitialisedIsSent
    <3> QED BY <2>4, <3>1, <3>2
  <2>6. TypeOK' /\ AtStep'
    BY <2>1, <2>2, <2>3, <2>5, <1>0 DEF TypeOK, ReaderInv, AtStep
  <2> QED BY <2>2, <2>5, <2>6 DEF IInv
<1>4. CASE DropError \/ Close
  <2>1. /\ UNCHANGED <<rvars, fvars>>
        /\ \/ wpc = "dropError" /\ wpc' = "close_fp_ret" /\ owned' = owned \ {"error"}
           \/ wpc = "close_fp_ret" /\ wpc' = "closed" /\ owned' = owned \ {"fd", "context"}
    BY <1>4 DEF DropError, Close, At
  <2>2. ReaderInv' /\ pc' = pc
    BY <1>0, <2>1, ReaderStutters DEF rvars
  <2>3. Answered' = Answered /\ UNCHANGED <<out, err, opened, buffer>>
    BY <2>1 DEF Answered, fvars
  <2>4. AtStep'
    BY <2>1, <2>2, <2>3, <1>0 DEF AtStep
  <2>5. TypeOK'
    BY <2>1, <2>2, <2>3, <1>0 DEF TypeOK, ReaderInv
  <2>6. NothingUninitialisedIsSent'
    BY <1>0, <2>1 DEF NothingUninitialisedIsSent, File!NothingUninitialisedIsSent, fvars
  <2> QED BY <2>2, <2>4, <2>5, <2>6 DEF IInv
<1> QED BY <1>1, <1>2, <1>3, <1>4

-----------------------------------------------------------------------------
(* The theorems *)

\* What is known of the reader, the handler and the connection at each step
\* holds in every state of every worker.
THEOREM Invariance == Spec => []IInv
<1>1. Init => IInv
  BY WorkerStarts
<1>2. IInv /\ [Next]_vars => IInv'
  <2>1. ASSUME IInv, Next PROVE IInv'
    BY <2>1, ReadingPreserves, ServingPreserves DEF Next, httpHandler
  <2>2. ASSUME IInv, UNCHANGED vars PROVE IInv'
    <3>1. ReaderInv'
      BY <2>2, ReaderStutters DEF IInv, vars
    <3>2. TypeOK'
      BY <2>2, <3>1 DEF IInv, TypeOK, ReaderInv, vars, fvars
    <3>3. NothingUninitialisedIsSent'
      BY <2>2 DEF IInv, NothingUninitialisedIsSent, File!NothingUninitialisedIsSent, vars, fvars
    <3>4. AtStep'
      <4>1. UNCHANGED <<wpc, pc, owned>> /\ UNCHANGED <<size, filePc, errno, opened, buffer,
              fileSize, toRead, filled, body, out, err>>
        BY <2>2 DEF vars, fvars, rvars
      <4>2. File!IInv => File!IInv'
        BY <4>1, FileStutters DEF File!IInv, File!Locals
      <4> QED BY <2>2, <4>1, <4>2 DEF IInv, AtStep, Answered, Unserved
    <3> QED BY <3>1, <3>2, <3>3, <3>4 DEF IInv
  <2> QED BY <2>1, <2>2
<1> QED BY <1>1, <1>2, PTL DEF Spec

\* Every variable of the reader, the handler and the connection has its type:
\* in particular the length a request declares is never negative.
THEOREM TypeCorrect == Spec => []TypeOK
BY Invariance, PTL DEF IInv

\* A request refused before its headers end frees every block once, its line
\* included.
THEOREM RefusedFreedOnce == Spec => []FreedOnce
<1>1. IInv => FreedOnce
  BY DEF IInv, ReaderInv
<1> QED BY <1>1, Invariance, PTL

\* However many headers a request has, its body is what the first
\* Content-Length declares, and complete.
THEOREM BodyDeclared == Spec => []BodyAsDeclared
<1>1. IInv => BodyAsDeclared
  <2>1. ASSUME IInv, pc = "accepted" PROVE BodyAsDeclared
    <3>1. /\ headers \in Seq(Fields) /\ ended /\ bodyRead = contentLength
          /\ contentLength = DeclaredLength(headers)
      BY <2>1 DEF IInv, ReaderInv, ReaderTypeOK, Forward
    <3> QED BY <3>1, DeclaredLengthIsTheFirst DEF BodyAsDeclared
  <2> QED BY <2>1 DEF BodyAsDeclared
<1> QED BY <1>1, Invariance, PTL

\* The static handler returns with one of the outcomes Server counts on, for
\* every errno it starts with and every way the file changes under it.
THEOREM OutcomePromised == Spec => []OutcomeAsPromised
<1>1. IInv => OutcomeAsPromised
  BY DEF IInv, AtStep, OutcomeAsPromised, File!OutcomeAsPromised, File!IInv, File!Served
<1> QED BY <1>1, Invariance, PTL

\* No byte that was not read from the file is sent, and a whole file is as
\* long as its header says.
THEOREM NothingUninitialised == Spec => []NothingUninitialisedIsSent
BY Invariance, PTL DEF IInv

\* A worker that closes its connection has given everything back.
THEOREM ClosesClean == Spec => []ClosedClean
<1>1. IInv => ClosedClean
  <2>1. ASSUME IInv, wpc = "closed" PROVE live = {} /\ owned = {} /\ ~ opened /\ ~ buffer
    <3>1. pc \in {"rejected", "dropped"} /\ owned = {} /\ ~ opened /\ ~ buffer
      BY <2>1 DEF IInv, AtStep
    <3>2. live = {}
      BY <2>1, <3>1 DEF IInv, ReaderInv, Allowed
    <3> QED BY <3>1, <3>2
  <2> QED BY <2>1 DEF ClosedClean
<1> QED BY <1>1, Invariance, PTL

\* One response for a request that was read, none for one that was not.
THEOREM RespondsOnce == Spec => []OneResponse
<1>1. IInv => OneResponse
  BY DEF IInv, AtStep, Answered, OneResponse
<1> QED BY <1>1, Invariance, PTL

\* The reader leaves nothing allocated behind a NULL, and hands out a request
\* with its path and its body only.
THEOREM ReaderLeaksNothing == Spec => []NothingLeaks
<1>1. IInv => NothingLeaks
  BY DEF IInv, ReaderInv, ReaderTypeOK, Forward, Needed, Allowed, Blocks, Running, NothingLeaks
<1> QED BY <1>1, Invariance, PTL

\* Comparing without regard to case is equality of the lower-cased texts, for
\* texts of any length.
THEOREM IcaseEquality == Spec => []IcaseIsEquality
<1>1. IInv => IcaseIsEquality
  <2>1. ASSUME IInv, NEW pattern \in Patterns
        PROVE  /\ strcmp_icase(text, pattern) <=> LowerCase(text) = LowerCase(pattern)
               /\ slicecmp_icase(text, pattern) <=> LowerCase(text) = LowerCase(pattern)
    <3>1. text \in Seq(Char) /\ pattern \in Seq(Char)
      BY <2>1, WorkerAssumption DEF IInv, ReaderInv, ReaderTypeOK
    <3> QED BY <3>1, StrcmpIs, SlicecmpIs
  <2> QED BY <2>1 DEF IcaseIsEquality
<1> QED BY <1>1, Invariance, PTL

\* A route matches the paths that equal it or that begin with it, for any
\* path and any route.
THEOREM RouteMatch == Spec => []RouteMatchIsExactOrPrefix
<1>1. IInv => RouteMatchIsExactOrPrefix
  <2>1. ASSUME IInv, NEW pattern \in Patterns, NEW ignoreCase \in BOOLEAN
        PROVE  urlCompare(ignoreCase, text, pattern)
                 <=> IF pattern # <<>> /\ Head(pattern) = "!"
                     THEN Normal(ignoreCase, text) = Normal(ignoreCase, Tail(pattern))
                     ELSE StartsWith(Normal(ignoreCase, text), Normal(ignoreCase, pattern))
    <3>1. text \in Seq(Char) /\ pattern \in Seq(Char)
      BY <2>1, WorkerAssumption DEF IInv, ReaderInv, ReaderTypeOK
    <3> QED BY <3>1, UrlCompareIs
  <2> QED BY <2>1 DEF RouteMatchIsExactOrPrefix
<1> QED BY <1>1, Invariance, PTL

\* The query and its parameters are each other, for any line.
THEOREM QueryParameters == Spec => []QueryIsItsParameters
<1>1. IInv => QueryIsItsParameters
  <2>1. ASSUME IInv, FirstSpace(text) # 0, Slash(text) # 0, SecondSpace(text) # 0, TargetOf(text).hasQuery
        PROVE  IsRead(TargetOf(text).query, TargetOf(text).ok, TargetOf(text).params)
    <3> DEFINE t == SubSeq(text, Slash(text), SecondSpace(text) - 1)
               q == parseQueryPath(t).query
    <3>1. text \in Seq(Char)
      BY <2>1 DEF IInv, ReaderInv, ReaderTypeOK
    <3>2. t \in Seq(Char)
      BY <2>1, <3>1, TargetRead, Zenon
    <3>3. TargetOf(text) = parseQueryPath(t)
      BY Zenon DEF TargetOf
    <3> HIDE DEF t
    <3>4. q \in Seq(Char) /\ parseQueryPath(t).ok = Params(q).ok /\ parseQueryPath(t).params = Params(q).list
      BY <2>1, <3>2, <3>3, QueryRead, Zenon
    <3>5. IsRead(q, Params(q).ok, Params(q).list)
      BY <3>4, ParamsAreTheQuery, Zenon
    <3> QED BY <3>3, <3>4, <3>5, Zenon
  <2> QED BY <2>1, Zenon DEF QueryIsItsParameters, IsRead
<1> QED BY <1>1, Invariance, PTL
=============================================================================
