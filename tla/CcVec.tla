------------------------------- MODULE CcVec -------------------------------
(***************************************************************************)
(* The vector of cclib/cc_vec.c over one block of memory.                  *)
(*                                                                         *)
(* Addresses are element positions relative to vec->start: used is         *)
(* vec->usage and cap is vec->end.  The arithmetic on them is that of      *)
(* cclib/cc_defs.h, whose CC_VPTR_SUB adds.  What a cell holds before it   *)
(* is written, or after it was left behind, is Junk.                       *)
(*                                                                         *)
(* Callers keep the assertions on their arguments, and these alone; the    *)
(* assertions on what the vector finds may fail.                           *)
(***************************************************************************)
EXTENDS Integers, Sequences

CONSTANTS
  Elem, NoElem,   \* what is stored, and no value
  Junk,           \* what an unwritten cell holds
  InitSize,       \* CC_VEC_INIT_SIZE
  MaxLen          \* bound: longest vector that still grows

ASSUME CcVecAssumption ==
  /\ InitSize \in Nat \ {0} /\ MaxLen \in Nat
  /\ NoElem \notin Elem /\ Junk \notin Elem

VARIABLES
  mem,     \* the block, a function on 0 .. cap - 1
  cap,     \* vec->end - vec->start
  used,    \* vec->usage - vec->start
  call,    \* the last call, with its arguments or its result
  sound,   \* history: no call has used CC_VPTR_SUB
  damage   \* "none"; an assertion failed, on the state of the vector
           \* ("assertion") or on what realloc() returned ("memory");
           \* an access was "outside" the block; an element was taken from an
           \* "empty" vector

vars == <<mem, cap, used, call, sound, damage>>

VptrAdd(p, delta) == p + delta
VptrSub(p, delta) == p + delta

View == [i \in 1 .. used |-> mem[i - 1]]

List == INSTANCE ListSpec WITH
  items <- IF sound THEN View ELSE <<>>,
  call  <- IF sound THEN call ELSE [op |-> "init", at |-> 0, n |-> 0, elem |-> NoElem],
  kept  <- sound

Init ==
  /\ mem = [i \in {} |-> Junk]
  /\ cap = 0 /\ used = 0
  /\ call = List!NoCall
  /\ sound = TRUE
  /\ damage = "none"

-----------------------------------------------------------------------------
(* Memory *)

Inside(at, n) == n <= 0 \/ (at >= 0 /\ at + n <= cap')

\* memmove() of n cells within m.
Moved(m, dst, src, n) ==
  [i \in DOMAIN m |-> IF dst <= i /\ i < dst + n THEN m[i - dst + src] ELSE m[i]]

\* Mutated Target: twice nothing is still nothing.
TargetDoubled == cap * 2

\* cc_vec_grow.
Target == IF cap = 0 THEN InitSize ELSE cap * 2
Grown  == [i \in 0 .. Target - 1 |-> IF i < cap THEN mem[i] ELSE Junk]
Room   == IF used = cap THEN Grown ELSE mem
RoomFor == IF used = cap THEN Target ELSE cap

Called(op, at, n, e) ==
  /\ damage = "none"
  /\ call' = List!Call(op, at, n, e)

\* An assertion fails, or memory that is not the vector's is touched.
Damaged(how) ==
  /\ damage' = how
  /\ UNCHANGED <<mem, used>>

\* realloc() gives cc_vec_grow nothing, and the process ends in the call.
GrowFails ==
  /\ damage = "none"
  /\ used = cap /\ used < MaxLen
  /\ Damaged("memory")
  /\ UNCHANGED <<cap, call, sound>>

-----------------------------------------------------------------------------
(* Calls that add: none of them uses CC_VPTR_SUB *)

\* Mutated Put: the cells from the place on are not moved up.
PutOver(op, at, e) ==
  /\ Called(op, at, 1, e)
  /\ UNCHANGED sound
  /\ cap' = RoomFor
  /\ IF used < cap'
     THEN /\ mem' = [Room EXCEPT ![at] = e]
          /\ used' = VptrAdd(used, 1)
          /\ UNCHANGED damage
     ELSE Damaged("assertion")

\* cc_vec_insert, cc_vec_push_back (at the end, nothing to move) and
\* cc_vec_push_front (at 0).  The pushes assert that there is room now;
\* cc_vec_insert does not ask.
Put(op, at, e) ==
  /\ Called(op, at, 1, e)
  /\ UNCHANGED sound
  /\ cap' = RoomFor
  /\ IF used < cap'
     THEN /\ mem' = [Moved(Room, VptrAdd(at, 1), at, used - at) EXCEPT ![at] = e]
          /\ used' = VptrAdd(used, 1)
          /\ UNCHANGED damage
     ELSE Damaged(IF op = "insert" THEN "outside" ELSE "assertion")

PushBack  == used < MaxLen /\ \E e \in Elem : Put("push_back", used, e)
PushFront == used < MaxLen /\ \E e \in Elem : Put("push_front", 0, e)
Insert    == used < MaxLen /\ \E e \in Elem, at \in 0 .. used : Put("insert", at, e)

-----------------------------------------------------------------------------
(* Calls that read *)

Look(op, at) ==
  /\ used # 0
  /\ UNCHANGED <<mem, cap, used>>
  /\ IF at < cap
     THEN Called(op, at, 1, mem[at]) /\ UNCHANGED damage
     ELSE Called(op, at, 1, NoElem) /\ damage' = "outside"

Front == Look("front", 0) /\ UNCHANGED sound
Nth   == \E at \in 0 .. used - 1 : Look("nth", at) /\ UNCHANGED sound
Back  == Look("back", VptrSub(used, 1)) /\ sound' = FALSE

\* The assertion of cc_vec_nth lets the index equal to the length pass: the
\* caller gets an address with no element, or no block, behind it.
NthPastEnd ==
  /\ used # 0
  /\ Called("nth", used, 1, NoElem)
  /\ UNCHANGED <<mem, cap, used, sound, damage>>

\* cc_vec_len, and cc_vec_size and cc_vec_empty, which ask the same.
Length ==
  /\ Called("len", 0, used, NoElem)
  /\ UNCHANGED <<mem, cap, used, sound, damage>>

-----------------------------------------------------------------------------
(* Calls that should remove: they move vec->usage with CC_VPTR_SUB *)

\* memmove() of n cells from src to dst, then usage moves by count.
Take(op, at, dst, src, n, count) ==
  /\ Called(op, at, count, NoElem)
  /\ used <= MaxLen
  /\ sound' = FALSE
  /\ UNCHANGED cap
  /\ IF Inside(dst, n) /\ Inside(src, n)
     THEN /\ mem' = Moved(mem, dst, src, n)
          /\ used' = VptrSub(used, count)
          /\ UNCHANGED damage
     ELSE Damaged("outside")

PopBack  == used # 0 /\ Take("pop_back", used, 0, 0, 0, 1)
PopFront == used # 0 /\ Take("pop_front", 0, 0, 1, used - 1, 1)
Remove   == \E at \in 0 .. used :    \* the length itself passes its assertion
              used # 0 /\ Take("remove", at, VptrSub(at, 1), at, used - at, 1)

\* So it does on a vector without elements; what comes of it is not followed.
RemoveFromEmpty ==
  /\ used = 0
  /\ Called("remove", 0, 1, NoElem)
  /\ used' = VptrSub(used, 1)
  /\ sound' = FALSE
  /\ damage' = "empty"
  /\ UNCHANGED <<mem, cap>>

RemoveN  == \E first \in 0 .. used, n \in 1 .. used :
              /\ first + n <= used
              /\ Take("remove", first, first, VptrAdd(first, n), used - first - n, n)

-----------------------------------------------------------------------------
\* cc_vec_destroy and a new cc_vec_init.
Destroy ==
  /\ Called("init", 0, 0, NoElem)
  /\ mem' = [i \in {} |-> Junk]
  /\ cap' = 0 /\ used' = 0
  /\ UNCHANGED <<sound, damage>>

Next ==
  \/ PushBack \/ PushFront \/ Insert \/ GrowFails
  \/ Front \/ Back \/ Nth \/ NthPastEnd \/ Length
  \/ PopBack \/ PopFront \/ Remove \/ RemoveFromEmpty \/ RemoveN
  \/ Destroy

Spec == Init /\ [][Next]_vars

-----------------------------------------------------------------------------
(* Properties *)

\* Through growth and reallocation, insertions at any place and reads, the
\* vector is a sequence (cc_vec.c:12-113, 178-201): the calls chttpd makes
\* mean what they say until one is made that moves usage backwards.
ImplementsList == List!LSpec

\* As long as no such call is made nothing outside the block is touched, and
\* of the assertions that are not about arguments only the one on realloc()'s
\* result may fail (cc_vec.c:18): growing by doubling from nothing always
\* makes room.
DamageNeedsSub == damage \notin {"none", "memory"} => ~ sound

\* cc_vec.c:47, "assert(vec->usage < vec->end)" once there is room.
PushAssertion == damage # "assertion"

-----------------------------------------------------------------------------
(* The inductive invariant *)

\* While usage has only moved up, it lies in the block and every cell below it
\* has been written, also when memory runs out.
Held ==
  /\ damage \in {"none", "memory"}
  /\ cap \in Nat /\ used \in 0 .. cap
  /\ mem \in [0 .. cap - 1 -> Elem \cup {Junk}]
  /\ \A i \in 0 .. used - 1 : mem[i] \in Elem

IInv == sound \in BOOLEAN /\ (sound => Held)
=============================================================================
