------------------------------ MODULE ListSpec ------------------------------
(***************************************************************************)
(* What a container of cclib promises: a finite sequence, and for every    *)
(* call, with its arguments, what the sequence is afterwards or what was   *)
(* read from it.  Positions count from 0, as in the C interface.           *)
(*                                                                         *)
(* An implementation may give the promise up, once and for good.           *)
(***************************************************************************)
EXTENDS Naturals, Sequences

CONSTANTS Elem, NoElem

VARIABLES
  items,  \* the elements
  call,   \* the last call: its name, position, count and element
  kept    \* the promise holds

lvars == <<items, call, kept>>

Call(op, at, n, e) == [op |-> op, at |-> at, n |-> n, elem |-> e]
NoCall == Call("init", 0, 0, NoElem)

\* The position the name of a call stands for; the other calls are given one.
PositionOf(op, at, n) ==
  CASE op \in {"push_front", "pop_front", "front"} -> at = 0
    [] op = "push_back"                            -> at = Len(items)
    [] op \in {"pop_back", "back"}                 -> at = Len(items) - 1
    [] OTHER                                       -> TRUE

LInit ==
  /\ items = <<>>
  /\ call = NoCall
  /\ kept = TRUE

Put(op, at, e) ==
  /\ kept
  /\ PositionOf(op, at, 1)
  /\ items' = SubSeq(items, 1, at) \o <<e>> \o SubSeq(items, at + 1, Len(items))
  /\ call' = Call(op, at, 1, e)
  /\ UNCHANGED kept

Take(op, at, n) ==
  /\ kept
  /\ PositionOf(op, at, n)
  /\ at + n <= Len(items)
  /\ items' = SubSeq(items, 1, at) \o SubSeq(items, at + n + 1, Len(items))
  /\ call' = Call(op, at, n, NoElem)
  /\ UNCHANGED kept

Look(op, at) ==
  /\ kept
  /\ PositionOf(op, at, 1)
  /\ at < Len(items)
  /\ call' = Call(op, at, 1, items[at + 1])
  /\ UNCHANGED <<items, kept>>

\* Asked for the position behind the last element, it names no element.
PastEnd ==
  /\ kept
  /\ items # <<>>
  /\ call' = Call("nth", Len(items), 1, NoElem)
  /\ UNCHANGED <<items, kept>>

Count ==
  /\ kept
  /\ call' = Call("len", 0, Len(items), NoElem)
  /\ UNCHANGED <<items, kept>>

\* The first position of e from first on and before last, or last.
Find(first, last, e) ==
  /\ kept
  /\ \E at \in first .. last :
       /\ at < last => items[at + 1] = e
       /\ \A i \in first .. at - 1 : items[i + 1] # e
       /\ call' = Call("find", at, last - first, e)
  /\ UNCHANGED <<items, kept>>

Clear ==
  /\ kept
  /\ items' = <<>>
  /\ call' = NoCall
  /\ UNCHANGED kept

GiveUp ==
  /\ kept
  /\ kept' = FALSE
  /\ items' = <<>>
  /\ call' = NoCall

Puts  == {"push_back", "push_front", "insert"}
Takes == {"pop_back", "pop_front", "remove"}
Looks == {"front", "back", "nth"}
Positions == 0 .. Len(items)

LNext ==
  \/ Count \/ Clear \/ PastEnd \/ GiveUp
  \/ \E op \in Puts, at \in Positions, e \in Elem : Put(op, at, e)
  \/ \E op \in Takes, at \in Positions, n \in Positions : Take(op, at, n)
  \/ \E op \in Looks, at \in Positions : Look(op, at)
  \/ \E first \in Positions, last \in Positions, e \in Elem :
       first <= last /\ Find(first, last, e)

LSpec == LInit /\ [][LNext]_lvars
=============================================================================
