------------------------------- MODULE CcList -------------------------------
(***************************************************************************)
(* The doubly linked list of cclib/cc_list.c: nodes on the heap in a ring  *)
(* through the list's own head.  Iterators are node addresses; a call gets *)
(* any iterator that points to an element or to the end.  malloc()         *)
(* succeeds and may return any address that is free.                       *)
(***************************************************************************)
EXTENDS Integers, Sequences, FiniteSets

CONSTANTS
  Nodes,          \* addresses malloc() returns
  HeadNode,       \* address of the list itself
  Junk,           \* the contents of memory that is not allocated
  Elem, NoElem    \* what is stored, and no value

ASSUME CcListAssumption ==
  /\ IsFiniteSet(Nodes) /\ HeadNode \notin Nodes /\ Junk \notin Nodes \cup {HeadNode}
  /\ NoElem \notin Elem /\ Junk \notin Elem

VARIABLES
  next, prev,   \* the pointers of every node and of the head
  data,         \* the element of every node
  heap,         \* the nodes that are allocated
  call          \* the last call, with its arguments or its result

vars == <<next, prev, data, heap, call>>

\* Where following ptr from n leads, up to last.
Path(ptr, n, last) ==
  LET at[i \in 0 .. Cardinality(Nodes)] ==
        IF i = 0 THEN n ELSE IF at[i - 1] \in Nodes \ {last} THEN ptr[at[i - 1]] ELSE Junk
  IN  at

\* The addresses from n on to before last, following ptr.
Walk(ptr, n, last) ==
  LET at    == Path(ptr, n, last)
      steps == { i \in DOMAIN at : at[i] \in Nodes \ {last} }
  IN  [i \in 1 .. Cardinality(steps) |-> at[i - 1]]

Forward  == Walk(next, next[HeadNode], HeadNode)
Backward == Walk(prev, prev[HeadNode], HeadNode)
View     == [i \in DOMAIN Forward |-> data[Forward[i]]]

List == INSTANCE ListSpec WITH items <- View, call <- call, kept <- TRUE

\* cc_list_begin() advanced at times.
Iter(at) == IF at = Len(Forward) THEN HeadNode ELSE Forward[at + 1]
Places   == 0 .. Len(Forward)

Empty == [n \in Nodes \cup {HeadNode} |-> IF n = HeadNode THEN HeadNode ELSE Junk]

Init ==
  /\ next = Empty /\ prev = Empty
  /\ data = [n \in Nodes |-> Junk]
  /\ heap = {}
  /\ call = List!NoCall

Called(op, at, n, e) == call' = List!Call(op, at, n, e)

-----------------------------------------------------------------------------
(* Insertion *)

\* Mutated Splice: the node after the new one keeps its prev pointer.
SpliceNextOnly(new, before, after) ==
  /\ next' = [next EXCEPT ![new] = after, ![before] = new]
  /\ prev' = [prev EXCEPT ![new] = before]

Splice(new, before, after) ==
  /\ next' = [next EXCEPT ![new] = after, ![before] = new]
  /\ prev' = [prev EXCEPT ![new] = before, ![after] = new]

Put(op, at, before, after) ==
  \E new \in Nodes \ heap, e \in Elem :
    /\ heap' = heap \cup {new}
    /\ data' = [data EXCEPT ![new] = e]
    /\ Splice(new, before, after)
    /\ Called(op, at, 1, e)

PushBack    == Put("push_back", Len(Forward), prev[HeadNode], HeadNode)
PushFront   == Put("push_front", 0, HeadNode, next[HeadNode])
Insert      == \E at \in Places : Put("insert", at, prev[Iter(at)], Iter(at))
InsertAfter ==
  \E at \in Places :
    LET pos == next[Iter(at)]
    IN  Put("insert", IF Iter(at) = HeadNode THEN 0 ELSE at + 1, prev[pos], pos)

-----------------------------------------------------------------------------
(* Removal *)

Cleared(ptr, nodes) == [n \in DOMAIN ptr |-> IF n \in nodes THEN Junk ELSE ptr[n]]

Free(nodes) ==
  /\ heap' = heap \ nodes
  /\ data' = Cleared(data, nodes)

\* Mutated RemoveNode: the element after n moves into n, whose successor goes.
RemoveByCopy(n) ==
  LET gone == IF next[n] = HeadNode THEN n ELSE next[n]
  IN  /\ next' = Cleared([next EXCEPT ![prev[gone]] = next[gone]], {gone})
      /\ prev' = Cleared([prev EXCEPT ![next[gone]] = prev[gone]], {gone})
      /\ heap' = heap \ {gone}
      /\ data' = Cleared([data EXCEPT ![n] = data[gone]], {gone})

RemoveNode(n) ==
  /\ next' = Cleared([next EXCEPT ![prev[n]] = next[n]], {n})
  /\ prev' = Cleared([prev EXCEPT ![next[n]] = prev[n]], {n})
  /\ Free({n})

PopBack ==
  /\ next[HeadNode] # HeadNode
  /\ RemoveNode(prev[HeadNode])
  /\ Called("pop_back", Len(Forward) - 1, 1, NoElem)

PopFront ==
  /\ next[HeadNode] # HeadNode
  /\ RemoveNode(next[HeadNode])
  /\ Called("pop_front", 0, 1, NoElem)

Remove ==
  \E at \in Places :
    /\ Iter(at) # HeadNode
    /\ RemoveNode(Iter(at))
    /\ Called("remove", at, 1, NoElem)

\* Mutated FreeRange: only the first node is freed.
FreeFirst(first, last) ==
  IF first = last THEN UNCHANGED <<heap, data>> ELSE Free({first})

\* The loop of cc_list_remove_range.
FreeRange(first, last) ==
  LET range == Walk(next, first, last) IN Free({ range[i] : i \in DOMAIN range })

RemoveRange ==
  \E from \in Places, to \in Places :
    LET first == Iter(from)
        last  == Iter(to)
        gone  == heap \ heap'
    IN  /\ from <= to
        /\ FreeRange(first, last)
        /\ next' = Cleared([next EXCEPT ![prev[first]] = last], gone)
        /\ prev' = Cleared([prev EXCEPT ![last] = prev[first]], gone)
        /\ Called("remove", from, to - from, NoElem)

\* cc_list_destroy and a new cc_list_init.
Destroy ==
  /\ Free({ Forward[i] : i \in DOMAIN Forward })
  /\ next' = Empty /\ prev' = Empty
  /\ call' = List!NoCall

-----------------------------------------------------------------------------
(* Reading *)

Look(op, at, n) ==
  /\ Called(op, at, 1, data[n])
  /\ UNCHANGED <<next, prev, data, heap>>

Front == next[HeadNode] # HeadNode /\ Look("front", 0, next[HeadNode])
Back  == next[HeadNode] # HeadNode /\ Look("back", Len(Forward) - 1, prev[HeadNode])

\* cc_list_iter_next from the beginning, or cc_list_iter_prev from the end,
\* and cc_list_iter_deref.
IterForward  == \E i \in DOMAIN Forward : Look("nth", i - 1, Forward[i])
IterBackward == \E i \in DOMAIN Backward : Look("nth", Len(Backward) - i, Backward[i])

\* cc_list_size, and cc_list_len.
Size ==
  /\ Called("len", 0, Len(Forward), NoElem)
  /\ UNCHANGED <<next, prev, data, heap>>

\* cc_list_iter_find and, from the beginning to the end, cc_list_find.
Find ==
  \E from \in Places, to \in Places, e \in Elem :
    LET range == Walk(next, Iter(from), Iter(to))
        hits  == { i \in DOMAIN range : data[range[i]] = e }
    IN  /\ from <= to
        /\ Called("find",
                  from + (IF hits = {} THEN Len(range)
                          ELSE (CHOOSE i \in hits : \A j \in hits : i <= j) - 1),
                  to - from, e)
        /\ UNCHANGED <<next, prev, data, heap>>

-----------------------------------------------------------------------------
Next ==
  \/ PushBack \/ PushFront \/ Insert \/ InsertAfter
  \/ PopBack \/ PopFront \/ Remove \/ RemoveRange \/ Destroy
  \/ Front \/ Back \/ IterForward \/ IterBackward \/ Size \/ Find

Spec == Init /\ [][Next]_vars

-----------------------------------------------------------------------------
(* Properties *)

\* Whatever the calls, the ring of nodes is a sequence: every insertion,
\* removal, walk in either direction and search means what it says
\* (cc_list.c:19-297).
ImplementsList == List!LSpec

\* Every allocated node is on the ring and nothing else is, so nothing is lost,
\* freed twice or reached after it was freed; and the ring read backwards is
\* the ring (cc_list.c:40-89, 147-197).
WellLinked ==
  /\ { Forward[i] : i \in DOMAIN Forward } = heap
  /\ Len(Backward) = Len(Forward)
  /\ \A i \in DOMAIN Forward : Backward[i] = Forward[Len(Forward) - i + 1]

\* What the nodes of s and the head are: a ring.  NodeAt(s, 0) is the head, and
\* so is the place behind the last node.
NodeAt(s, i) == IF i \in DOMAIN s THEN s[i] ELSE HeadNode
Distinct(s)  == \A i, j \in DOMAIN s : s[i] = s[j] => i = j
Ring(s) ==
  /\ Distinct(s)
  /\ { s[i] : i \in DOMAIN s } = heap
  /\ \A i \in 0 .. Len(s) : next[NodeAt(s, i)] = NodeAt(s, i + 1) /\ prev[NodeAt(s, i + 1)] = NodeAt(s, i)

\* The pointers hold addresses, and the allocated nodes elements.
Stored ==
  /\ next \in [Nodes \cup {HeadNode} -> Nodes \cup {HeadNode, Junk}]
  /\ prev \in [Nodes \cup {HeadNode} -> Nodes \cup {HeadNode, Junk}]
  /\ heap \subseteq Nodes
  /\ data \in [Nodes -> Elem \cup {Junk}]
  /\ \A n \in heap : data[n] \in Elem

\* The inductive invariant: what is walked through is a ring.
IInv ==
  /\ Stored
  /\ Forward \in Seq(Nodes)
  /\ Ring(Forward)

\* An iterator to an element that stays keeps pointing to that element, and
\* stays on the same side of every other that stays, whatever is inserted or
\* removed around them (cc_list.c:147-197).
IteratorsStayValid ==
  [][ \A i, j \in DOMAIN Forward :
        LET n == Forward[i]
            m == Forward[j]
        IN  n \in heap' /\ m \in heap' =>
              /\ data'[n] = data[n]
              /\ i < j => \E k, l \in DOMAIN Forward' :
                             k < l /\ Forward'[k] = n /\ Forward'[l] = m ]_vars
=============================================================================
