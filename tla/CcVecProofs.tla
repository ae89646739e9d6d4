---------------------------- MODULE CcVecProofs ----------------------------
(***************************************************************************)
(* The vector is a list, whatever its initial size, until CC_VPTR_SUB is   *)
(* used: Held is inductive, and each call on a vector for which it holds   *)
(* is a step of ListSpec.                                                  *)
(***************************************************************************)
EXTENDS CcVec, DataLemmas

-----------------------------------------------------------------------------
(* The block *)

\* Growing makes room for one element and keeps what is stored.
LEMMA GrowingMakesRoom ==
  ASSUME Held
  PROVE  /\ RoomFor \in Nat /\ used < RoomFor
         /\ Room \in [0 .. RoomFor - 1 -> Elem \cup {Junk}]
         /\ \A i \in 0 .. used - 1 : Room[i] = mem[i]
<1>1. CASE used # cap
  BY <1>1 DEF Held, Room, RoomFor
<1>2. CASE used = cap
  <2>1. Target \in Nat /\ cap < Target
    BY <1>2, CcVecAssumption DEF Held, Target
  <2>2. \A i \in 0 .. Target - 1 : (IF i < cap THEN mem[i] ELSE Junk) \in Elem \cup {Junk}
    BY <2>1 DEF Held
  <2>3. Grown \in [0 .. Target - 1 -> Elem \cup {Junk}]
    BY <2>2 DEF Grown
  <2>4. \A i \in 0 .. used - 1 : Grown[i] = mem[i]
    BY <1>2, <2>1 DEF Held, Grown
  <2> QED BY <1>2, <2>1, <2>3, <2>4 DEF Room, RoomFor
<1> QED BY <1>1, <1>2

\* Putting an element at a place moves those from the place on up by one.
LEMMA PutHolds ==
  ASSUME Held, NEW op, NEW at \in 0 .. used, NEW e \in Elem, Put(op, at, e)
  PROVE  /\ Held' /\ used' = used + 1
         /\ \A i \in 0 .. used : mem'[i] = IF i < at THEN mem[i]
                                           ELSE IF i = at THEN e ELSE mem[i - 1]
<1>1. /\ RoomFor \in Nat /\ used < RoomFor /\ used \in Nat
      /\ Room \in [0 .. RoomFor - 1 -> Elem \cup {Junk}]
      /\ \A i \in 0 .. used - 1 : Room[i] = mem[i] /\ mem[i] \in Elem
  BY GrowingMakesRoom DEF Held
<1> DEFINE moved == Moved(Room, at + 1, at, used - at)
<1>2. /\ cap' = RoomFor /\ mem' = [moved EXCEPT ![at] = e]
      /\ used' = used + 1 /\ damage' = damage
  BY <1>1 DEF Put, VptrAdd
<1>3. \A i \in 0 .. RoomFor - 1 :
        (IF at + 1 <= i /\ i < at + 1 + (used - at) THEN Room[i - (at + 1) + at] ELSE Room[i])
          \in Elem \cup {Junk}
  BY <1>1
<1>4. /\ moved \in [0 .. RoomFor - 1 -> Elem \cup {Junk}]
      /\ \A i \in 0 .. used : moved[i] = IF at + 1 <= i THEN Room[i - 1] ELSE Room[i]
  BY <1>1, <1>3 DEF Moved
<1> HIDE DEF moved
<1>5. mem' \in [0 .. RoomFor - 1 -> Elem \cup {Junk}]
  BY <1>1, <1>2, <1>4
<1>6. \A i \in 0 .. used : mem'[i] = IF i < at THEN mem[i] ELSE IF i = at THEN e ELSE mem[i - 1]
  BY <1>1, <1>2, <1>4
<1>7. \A i \in 0 .. used : mem'[i] \in Elem
  BY <1>1, <1>6
<1> QED BY <1>1, <1>2, <1>5, <1>6, <1>7 DEF Held

-----------------------------------------------------------------------------
(* The invariant *)

LEMMA Starts == Init => IInv
BY DEF Init, IInv, Held

\* What a call does to the soundness of the vector: nothing, or it ends it.
LEMMA SoundOrNot ==
  ASSUME Next
  PROVE  sound' = sound \/ sound' = FALSE
<1>1. CASE PushBack \/ PushFront \/ Insert \/ GrowFails
  BY <1>1, Zenon DEF PushBack, PushFront, Insert, Put, GrowFails
<1>2. CASE Front \/ Nth \/ NthPastEnd \/ Back
  BY <1>2, Zenon DEF Front, Nth, NthPastEnd, Back
<1>3. CASE Length \/ Destroy
  BY <1>3, Zenon DEF Length, Destroy
<1>4. CASE PopBack \/ PopFront \/ Remove \/ RemoveFromEmpty \/ RemoveN
  BY <1>4, Zenon DEF PopBack, PopFront, Remove, RemoveFromEmpty, RemoveN, Take
<1> QED BY <1>1, <1>2, <1>3, <1>4, Zenon DEF Next

LEMMA LooksHold ==
  ASSUME Held, Front \/ Nth
  PROVE  /\ UNCHANGED <<mem, cap, used, damage>>
         /\ \E op \in List!Looks, at \in 0 .. used - 1 :
              (op = "front" => at = 0) /\ op # "back" /\ call' = List!Call(op, at, 1, mem[at])
<1>1. CASE Front
  <2>1. used # 0 /\ 0 \in 0 .. used - 1 /\ 0 < cap
    BY <1>1 DEF Front, Look, Held
  <2> QED BY <1>1, <2>1 DEF Front, Look, Called, List!Looks
<1>2. CASE Nth
  <2>1. PICK at \in 0 .. used - 1 : Look("nth", at)
    BY <1>2 DEF Nth
  <2>2. at < cap
    BY DEF Held
  <2> QED BY <2>1, <2>2 DEF Look, Called, List!Looks
<1> QED BY <1>1, <1>2

\* A call that leaves the vector sound leaves it in order.
LEMMA Keeps ==
  ASSUME Held, sound, sound', Next
  PROVE  Held'
<1>1. CASE PushBack \/ PushFront \/ Insert
  <2>1. PICK op \in List!Puts, at \in 0 .. used, e \in Elem : Put(op, at, e)
    BY <1>1 DEF PushBack, PushFront, Insert, Held, List!Puts
  <2> QED BY <2>1, PutHolds
<1>2. CASE Front \/ Nth
  BY <1>2, LooksHold DEF Held
<1>3. CASE Length \/ NthPastEnd
  BY <1>3 DEF Length, NthPastEnd, Held
<1>6. CASE GrowFails
  BY <1>6 DEF GrowFails, Damaged, Held
<1>4. CASE Back \/ PopBack \/ PopFront \/ Remove \/ RemoveFromEmpty \/ RemoveN
  BY <1>4 DEF Back, PopBack, PopFront, Remove, RemoveFromEmpty, RemoveN, Take
<1>5. CASE Destroy
  BY <1>5 DEF Destroy, Held
<1> QED BY <1>1, <1>2, <1>3, <1>4, <1>5, <1>6 DEF Next

THEOREM Invariance == Spec => []IInv
<1>1. IInv /\ [Next]_vars => IInv'
  <2>1. ASSUME IInv, Next PROVE IInv'
    <3>1. sound' \in BOOLEAN /\ (sound' => sound)
      <4>1. sound \in BOOLEAN
        BY <2>1 DEF IInv
      <4>2. CASE sound' = sound
        BY <4>1, <4>2, Zenon
      <4>3. CASE sound' = FALSE
        BY <4>3, Zenon
      <4> QED BY <2>1, <4>2, <4>3, SoundOrNot
    <3>2. sound' => Held'
      BY <2>1, <3>1, Keeps DEF IInv
    <3> QED BY <3>1, <3>2, Zenon DEF IInv
  <2>2. ASSUME IInv, UNCHANGED vars PROVE IInv'
    BY <2>2 DEF IInv, Held, vars
  <2> QED BY <2>1, <2>2
<1> QED BY <1>1, Starts, PTL DEF Spec

\* Before CC_VPTR_SUB is used no access leaves the block, and no assertion but
\* the one on realloc()'s result fails (cc_vec.c:12-113).
THEOREM SubIsNeeded == Spec => []DamageNeedsSub
<1>1. IInv => DamageNeedsSub
  BY DEF IInv, Held, DamageNeedsSub
<1> QED BY <1>1, Invariance, PTL

-----------------------------------------------------------------------------
(* The refinement *)

\* The cells below usage are a sequence.
LEMMA CellsAreASequence ==
  ASSUME NEW m, NEW u \in Nat, \A i \in 0 .. u - 1 : m[i] \in Elem
  PROVE  LET v == [i \in 1 .. u |-> m[i - 1]]
         IN  v \in Seq(Elem) /\ Len(v) = u /\ \A i \in 1 .. u : v[i] = m[i - 1]
<1> DEFINE v == [i \in 1 .. u |-> m[i - 1]]
<1>1. \A i \in 1 .. u : m[i - 1] \in Elem
  OBVIOUS
<1>2. v \in [1 .. u -> Elem]
  BY <1>1
<1>3. v \in Seq(Elem)
  BY <1>2, SeqDef
<1>4. Len(v) = u
  <2>1. DOMAIN v = 1 .. u
    OBVIOUS
  <2> HIDE DEF v
  <2> QED BY <1>3, <2>1, LenProperties
<1> QED BY <1>3, <1>4

LEMMA ViewIsASequence ==
  /\ Held => View \in Seq(Elem) /\ Len(View) = used /\ \A i \in 1 .. used : View[i] = mem[i - 1]
  /\ Held' => /\ View' \in Seq(Elem) /\ Len(View') = used'
              /\ \A i \in 1 .. used' : View'[i] = mem'[i - 1]
<1>1. Held => used \in Nat /\ \A i \in 0 .. used - 1 : mem[i] \in Elem
  BY DEF Held
<1>2. Held' => used' \in Nat /\ \A i \in 0 .. used' - 1 : mem'[i] \in Elem
  <2>1. Held' => cap' \in Nat /\ used' \in 0 .. cap'
    BY Zenon DEF Held
  <2>2. Held' => \A i \in 0 .. used' - 1 : mem'[i] \in Elem
    BY Zenon DEF Held
  <2> QED BY <2>1, <2>2
<1> QED BY <1>1, <1>2, CellsAreASequence DEF View

\* Each call on a sound vector is the same call on the list, or gives it up.
LEMMA PutRefines ==
  ASSUME Held, sound, sound', NEW op \in List!Puts, NEW at \in 0 .. used, NEW e \in Elem,
         op = "push_front" => at = 0, op = "push_back" => at = used, Put(op, at, e)
  PROVE  List!LNext
<1>0. used \in Nat
  BY DEF Held
<1>1. /\ Held' /\ used' = used + 1
      /\ \A i \in 0 .. used : mem'[i] = IF i < at THEN mem[i]
                                        ELSE IF i = at THEN e ELSE mem[i - 1]
  BY PutHolds
<1>2. /\ View \in Seq(Elem) /\ Len(View) = used /\ \A i \in 1 .. used : View[i] = mem[i - 1]
      /\ View' \in Seq(Elem) /\ Len(View') = used'
      /\ \A i \in 1 .. used' : View'[i] = mem'[i - 1]
  BY <1>1, ViewIsASequence
<1> DEFINE t == WithPut(View, at, e)
<1>3. /\ t \in Seq(Elem) /\ Len(t) = used + 1
      /\ \A i \in 1 .. used + 1 :
           t[i] = IF i <= at THEN View[i] ELSE IF i = at + 1 THEN e ELSE View[i - 1]
  <2>1. View \in Seq(Elem) /\ at \in 0 .. Len(View) /\ Len(View) = used
    BY <1>2
  <2> HIDE DEF t
  <2>2. t \in Seq(Elem) /\ Len(t) = Len(View) + 1 /\ PutPlaces(t, View, at, e)
    BY <2>1, PutIs, Zenon DEF t
  <2> QED BY <2>1, <2>2 DEF PutPlaces
<1> HIDE DEF t
<1>4. \A i \in 1 .. used + 1 : View'[i] = t[i]
  <2>1. ASSUME NEW i \in 1 .. used + 1 PROVE View'[i] = t[i]
    <3>1. View'[i] = mem'[i - 1] /\ i - 1 \in 0 .. used
      BY <1>1, <1>2
    <3>2. CASE i <= at
      <4>1. i \in 1 .. used /\ i - 1 \in 0 .. used /\ i - 1 < at
        BY <1>0, <3>2
      <4>2. mem'[i - 1] = mem[i - 1] /\ View[i] = mem[i - 1] /\ t[i] = View[i]
        BY <1>1, <1>2, <1>3, <3>2, <4>1
      <4> QED BY <3>1, <4>2
    <3>3. CASE i = at + 1
      BY <1>0, <1>1, <1>2, <1>3, <3>1, <3>3
    <3>4. CASE i > at + 1
      <4>1. View'[i] = mem[i - 2]
        BY <1>0, <1>1, <3>1, <3>4
      <4>2. t[i] = View[i - 1] /\ View[i - 1] = mem[i - 2]
        BY <1>0, <1>1, <1>2, <1>3, <3>4
      <4> QED BY <4>1, <4>2
    <3> QED BY <1>0, <3>2, <3>3, <3>4
  <2> QED BY <2>1
<1>5. View' = t
  BY <1>0, <1>1, <1>2, <1>3, <1>4, SeqEqual
<1>6. call' = List!Call(op, at, 1, e)
  BY DEF Put, Called
<1>7. List!Put(op, at, e)
  <2>1. List!PositionOf(op, at, 1)
    BY <1>2 DEF List!PositionOf, List!Puts
  <2> QED BY <1>5, <1>6, <2>1 DEF List!Put, WithPut, t
<1>8. at \in List!Positions
  BY <1>0, <1>2 DEF List!Positions
<1> QED BY <1>7, <1>8 DEF List!LNext

\* A step of a sound vector that leaves it sound.
LEMMA SoundStepRefines ==
  ASSUME Held, sound, sound', Next
  PROVE  List!LNext \/ UNCHANGED List!lvars
<1>0. used \in Nat /\ cap \in Nat
  BY DEF Held
<1>1. CASE PushBack \/ PushFront \/ Insert
  <2>1. PICK op \in List!Puts, at \in 0 .. used, e \in Elem :
          /\ Put(op, at, e)
          /\ op = "push_front" => at = 0
          /\ op = "push_back" => at = used
    BY <1>0, <1>1 DEF PushBack, PushFront, Insert, List!Puts
  <2> QED BY <2>1, PutRefines
<1>2. CASE Front \/ Nth
  <2>1. PICK op \in List!Looks, at \in 0 .. used - 1 :
          (op = "front" => at = 0) /\ op # "back" /\ call' = List!Call(op, at, 1, mem[at])
    BY <1>2, LooksHold
  <2>2. UNCHANGED <<mem, cap, used, damage>>
    BY <1>2, LooksHold
  <2>3. View' = View
    BY <2>2 DEF View
  <2>4. at \in Nat /\ at < Len(View) /\ View[at + 1] = mem[at]
    BY <1>0, ViewIsASequence
  <2>5. List!Look(op, at)
    BY <2>1, <2>3, <2>4 DEF List!Look, List!PositionOf, List!Looks
  <2>6. at \in List!Positions
    BY <1>0, <2>4, ViewIsASequence DEF List!Positions
  <2> QED BY <2>5, <2>6 DEF List!LNext
<1>3. CASE Length
  <2>1. call' = List!Call("len", 0, used, NoElem) /\ UNCHANGED <<mem, used>>
    BY <1>3 DEF Length, Called
  <2>2. View' = View
    BY <2>1 DEF View
  <2> QED BY <2>1, <2>2, ViewIsASequence DEF List!LNext, List!Count
<1>4. CASE Back \/ PopBack \/ PopFront \/ Remove \/ RemoveFromEmpty \/ RemoveN
  BY <1>4 DEF Back, PopBack, PopFront, Remove, RemoveFromEmpty, RemoveN, Take
<1>5. CASE Destroy
  <2>1. used' = 0 /\ call' = List!NoCall
    BY <1>5 DEF Destroy, Called, List!NoCall
  <2>2. View' = <<>>
    BY <2>1 DEF View
  <2> QED BY <2>1, <2>2 DEF List!LNext, List!Clear
<1>6. CASE NthPastEnd
  <2>1. /\ used # 0 /\ call' = List!Call("nth", used, 1, NoElem)
        /\ UNCHANGED <<mem, used>>
    BY <1>6 DEF NthPastEnd, Called
  <2>2. View' = View
    BY <2>1 DEF View
  <2>3. Len(View) = used /\ View # <<>>
    BY <1>0, <2>1, ViewIsASequence
  <2> QED BY <2>1, <2>2, <2>3 DEF List!LNext, List!PastEnd
<1>7. CASE GrowFails
  <2>1. UNCHANGED <<mem, used, call, sound>>
    BY <1>7 DEF GrowFails, Damaged
  <2>2. View' = View
    BY <2>1 DEF View
  <2> QED BY <2>1, <2>2 DEF List!lvars
<1> QED BY <1>1, <1>2, <1>3, <1>4, <1>5, <1>6, <1>7 DEF Next

\* Until the first use of CC_VPTR_SUB every call means what it says.
THEOREM Refinement == Spec => ImplementsList
<1>1. Init => List!LInit
  BY DEF Init, List!LInit, View
<1>2. IInv /\ [Next]_vars => [List!LNext]_(List!lvars)
  <2>1. ASSUME IInv, Next PROVE List!LNext \/ UNCHANGED List!lvars
    <3>1. sound \in BOOLEAN /\ (sound' = sound \/ sound' = FALSE)
      BY <2>1, SoundOrNot DEF IInv
    <3>2. CASE sound /\ sound'
      BY <2>1, <3>2, SoundStepRefines DEF IInv
    <3>3. CASE sound /\ ~ sound'
      BY <3>1, <3>3 DEF List!LNext, List!GiveUp, List!NoCall, List!Call
    <3>4. CASE ~ sound
      <4>1. ~ sound' /\ sound' = sound
        <5>1. sound = FALSE
          BY <3>1, <3>4, Zenon
        <5> QED BY <3>1, <3>4, <5>1, Zenon
      <4> QED BY <3>4, <4>1 DEF List!lvars
    <3> QED BY <3>1, <3>2, <3>3, <3>4
  <2>2. ASSUME UNCHANGED vars PROVE UNCHANGED List!lvars
    BY <2>2 DEF vars, List!lvars, View
  <2> QED BY <2>1, <2>2
<1> QED BY <1>1, <1>2, Invariance, PTL DEF Spec, ImplementsList, List!LSpec
=============================================================================
