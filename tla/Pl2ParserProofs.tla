-------------------------- MODULE Pl2ParserProofs --------------------------
(***************************************************************************)
(* Proofs about Pl2Parser: whatever the text of a configuration file is,   *)
(* and however large the two buffers are, the parser's slices lie in the   *)
(* text and what it overwrites is behind it.                               *)
(***************************************************************************)
EXTENDS Pl2Reading, DataLemmas

-----------------------------------------------------------------------------
(* Lemmas about the operators of Pl2Parser *)

\* The bounds.
LEMMA Bounds ==
  /\ BufferSize \in Nat /\ BufferSize >= 1 /\ Beyond = BufferSize + 1 /\ Beyond \in Nat
  /\ Cells = 1 .. BufferSize
  /\ PartsSize \in Nat /\ PartsSize >= 1
BY Pl2ParserAssumption DEF Beyond, Cells

\* The scan of a text ends, at the latest behind it.
LEMMA PastAllIs ==
  ASSUME NEW p \in 1 .. Beyond, NEW symbols
  PROVE  /\ PastAll(p, symbols) \in p .. Beyond
         /\ PastAll(p, symbols) = Beyond \/ src[PastAll(p, symbols)] \notin symbols
         /\ \A i \in p .. PastAll(p, symbols) - 1 : src[i] \in symbols
<1> DEFINE Ends == { q \in p .. Beyond : q = Beyond \/ src[q] \notin symbols }
<1>1. Ends \subseteq Nat /\ Beyond \in Ends
  BY Bounds
<1>2. PICK q \in Ends : \A i \in Ends : q <= i
  <2> HIDE DEF Ends
  <2> QED BY <1>1, LeastExists
<1>3. q \in p .. Beyond /\ (q = Beyond \/ src[q] \notin symbols)
  OBVIOUS
<1>4. \A i \in p .. q - 1 : src[i] \in symbols
  <2> TAKE i \in p .. q - 1
  <2>1. i \in p .. Beyond /\ ~ (q <= i)
    BY <1>3, Bounds
  <2> QED BY <1>2, <2>1
<1> HIDE DEF Ends
<1> DEFINE Here(r) == (r = Beyond \/ src[r] \notin symbols) /\ \A i \in p .. r - 1 : src[i] \in symbols
<1>5. \E r \in p .. Beyond : Here(r)
  BY <1>3, <1>4
<1>6. PastAll(p, symbols) = CHOOSE r \in p .. Beyond : Here(r)
  BY Zenon DEF PastAll
<1> HIDE DEF Here
<1>7. PastAll(p, symbols) \in p .. Beyond /\ Here(PastAll(p, symbols))
  BY <1>5, <1>6, Zenon
<1> QED BY <1>7, Zenon DEF Here

\* So does a string.
LEMMA StringEndIs ==
  ASSUME NEW start \in 1 .. Beyond
  PROVE  /\ StringEnd(start) \in start .. Beyond
         /\ StringEnd(start) # Beyond => src[StringEnd(start)] \in Quotes \cup LineEnds
         /\ EndsString(start, StringEnd(start))
         /\ \A i \in start .. StringEnd(start) - 1 : ~ EndsString(start, i)
<1> DEFINE Ends == { q \in start .. Beyond : EndsString(start, q) }
<1>1. Ends \subseteq Nat /\ Beyond \in Ends
  BY Bounds DEF EndsString
<1>2. PICK q \in Ends : \A i \in Ends : q <= i
  <2> HIDE DEF Ends
  <2> QED BY <1>1, LeastExists
<1>3. q \in start .. Beyond /\ EndsString(start, q)
  OBVIOUS
<1>4. \A i \in start .. q - 1 : ~ EndsString(start, i)
  <2> TAKE i \in start .. q - 1
  <2>1. i \in start .. Beyond /\ ~ (q <= i)
    BY <1>3, Bounds
  <2> QED BY <1>2, <2>1
<1> HIDE DEF Ends
<1>5. /\ StringEnd(start) \in start .. Beyond /\ EndsString(start, StringEnd(start))
      /\ \A i \in start .. StringEnd(start) - 1 : ~ EndsString(start, i)
  BY <1>3, <1>4, Zenon DEF StringEnd
<1>6. StringEnd(start) # Beyond => src[StringEnd(start)] \in Quotes \cup LineEnds
  BY <1>5 DEF EndsString, LineEnds
<1> QED BY <1>5, <1>6, Zenon

\* The elements of a bounded set can be counted off.
LEMMA NthIs ==
  ASSUME NEW n \in Nat, NEW S, S \subseteq 0 .. n,
         NEW k \in 1 .. Cardinality(S)
  PROVE  Nth(k, S) \in S /\ Cardinality({ q \in S : q <= Nth(k, S) }) = k
<1>1. CountedOff(S)
  BY RanksExist, Zenon
<1> QED BY <1>1, Zenon DEF CountedOff, Nth

\* What a string is shrunk to is no longer than it was, and made of the
\* characters of a text.
LEMMA ShrunkIs ==
  ASSUME NEW start \in Cells, NEW end \in start .. BufferSize,
         src \in [Cells -> Symbols \cup {Nul}]
  PROVE  /\ shrinkConv(start, end) \in Seq(Symbols \cup {Nul})
         /\ Len(shrinkConv(start, end)) \in 0 .. end - start
<1> DEFINE K == Kept(start, end)
<1>1. K \subseteq start .. end - 1 /\ start \in Nat /\ end \in Nat /\ end - start \in Nat
  BY Bounds DEF Kept
<1>2. K \subseteq 0 .. end
  BY <1>1
<1>3. IsFiniteSet(start .. end - 1) /\ Cardinality(start .. end - 1) = end - start
  <2>1. start \in Int /\ end - 1 \in Int
    BY <1>1
  <2>2. CASE start > end - 1
    <3>1. start .. end - 1 = {} /\ end - start = 0
      BY <1>1, <2>2
    <3> QED BY <3>1, FS_EmptySet
  <2>3. CASE start <= end - 1
    BY <1>1, <2>1, <2>3, FS_Interval
  <2> QED BY <2>1, <2>2, <2>3
<1>4. Cardinality(K) \in 0 .. end - start
  <2> HIDE DEF K
  <2>1. Cardinality(K) \in Nat /\ Cardinality(K) <= Cardinality(start .. end - 1)
    BY <1>1, <1>3, FS_Subset, FS_CardinalityType
  <2> QED BY <1>1, <1>3, <2>1
<1>5. ASSUME NEW p \in Cells PROVE Shrunk(p) \in Symbols \cup {Nul}
  <2>1. \A c \in DOMAIN Escapes : Escapes[c] \in Symbols \cup {Nul}
    BY DEF Escapes, Symbols, IdChars, Quotes, Alnum, Newline, Nul
  <2>2. CASE EscapeAt(p)
    BY <2>1, <2>2, Zenon DEF EscapeAt, Shrunk
  <2>3. CASE ~ EscapeAt(p)
    BY <2>3 DEF Shrunk
  <2> QED BY <2>2, <2>3
<1>6. ASSUME NEW k \in 1 .. Cardinality(K) PROVE Shrunk(Nth(k, K)) \in Symbols \cup {Nul}
  <2> HIDE DEF K
  <2>1. end \in Nat
    BY <1>1
  <2>2. Nth(k, K) \in K
    BY <1>2, <2>1, NthIs, Zenon
  <2>3. Nth(k, K) \in Cells
    <3>1. start .. end - 1 \subseteq Cells
      BY Bounds
    <3> QED BY <1>1, <2>2, <3>1, Zenon
  <2> QED BY <1>5, <2>3, Zenon
<1>7. shrinkConv(start, end) = [k \in 1 .. Cardinality(K) |-> Shrunk(Nth(k, K))]
  BY Zenon DEF shrinkConv
<1> HIDE DEF K
<1> QED BY <1>4, <1>6, <1>7

\* One step over a character that is one of the symbols, or none.
LEMMA OverIs ==
  ASSUME NEW p \in 1 .. Beyond, NEW symbols
  PROVE  /\ Over(p, symbols) \in p .. Beyond
         /\ p # Beyond /\ src[p] \in symbols => Over(p, symbols) = p + 1
BY Bounds DEF Over

LEMMA NextCharIs ==
  ASSUME NEW p \in Cells
  PROVE  /\ nextChar(p) \in p .. Beyond
         /\ src[p] # Nul => nextChar(p) = p + 1
BY Bounds DEF nextChar

\* A slice of the text is a place in it, or none.
LEMMA SliceIs ==
  ASSUME NEW from \in 1 .. Beyond, NEW to \in from .. Beyond
  PROVE  slice(from, to) \in Slices /\ slice(from, to).to <= to
<1>1. CASE from = to
  BY <1>1, Bounds DEF slice, Slices, NullSlice
<1>2. CASE from # to
  <2>1. slice(from, to) = [from |-> from, to |-> to]
    BY <1>2, Zenon DEF slice
  <2>2. from \in Cells /\ to \in 2 .. Beyond /\ from < to
    BY <1>2, Bounds
  <2> QED BY <2>1, <2>2, Bounds DEF Slices
<1> QED BY <1>1, <1>2

\* A slice that is not null begins and ends in the text.
LEMMA NotNull ==
  ASSUME NEW s \in Slices, ~ isNullSlice(s)
  PROVE  s.from \in Cells /\ s.to \in 2 .. Beyond
BY Bounds DEF Slices, NullSlice, isNullSlice

\* The parts of a command are not null.
LEMMA PartCountIs ==
  ASSUME parts \in Seq(Slices)
  PROVE  /\ PartCount \in 0 .. Len(parts)
         /\ PartCount = Len(parts) \/ isNullSlice(parts[PartCount + 1])
         /\ \A i \in 1 .. PartCount : i \in DOMAIN parts /\ ~ isNullSlice(parts[i])
<1> DEFINE Ends == { n \in 0 .. Len(parts) : n = Len(parts) \/ isNullSlice(parts[n + 1]) }
<1>1. Ends \subseteq Nat /\ Len(parts) \in Ends
  OBVIOUS
<1>2. PICK n \in Ends : \A i \in Ends : n <= i
  <2> HIDE DEF Ends
  <2> QED BY <1>1, LeastExists
<1>3. n \in 0 .. Len(parts) /\ (n = Len(parts) \/ isNullSlice(parts[n + 1]))
  OBVIOUS
<1>4. \A i \in 1 .. n : ~ isNullSlice(parts[i])
  <2> TAKE i \in 1 .. n
  <2>1. i - 1 \in 0 .. Len(parts) /\ ~ (n <= i - 1) /\ (i - 1) + 1 = i
    BY <1>3
  <2>2. i - 1 \notin Ends
    <3> HIDE DEF Ends
    <3> QED BY <1>2, <2>1
  <2> QED BY <2>1, <2>2
<1> HIDE DEF Ends
<1>5. /\ PartCount \in 0 .. Len(parts)
      /\ PartCount = Len(parts) \/ isNullSlice(parts[PartCount + 1])
      /\ \A i \in 1 .. PartCount : ~ isNullSlice(parts[i])
  BY <1>3, <1>4, Zenon DEF PartCount
<1> QED BY <1>5

-----------------------------------------------------------------------------
(* What the steps have in common *)

\* The text that was read, at a cell that is no terminator.
LEMMA InFile ==
  ASSUME file \in Seq(Symbols), NEW p \in Cells, Padded(file)[p] # Nul
  PROVE  p \in DOMAIN file /\ file[p] = Padded(file)[p]
BY Bounds DEF Padded

\* Nothing is undone by going on in the text ...
LEMMA GoesOn ==
  ASSUME at \in 1 .. Beyond, at' \in at .. Beyond, AheadIntact, UNCHANGED <<file, src>>
  PROVE  AheadIntact'
<1>1. ASSUME NEW p \in at' .. BufferSize
      PROVE  \/ src[p] = Padded(file)[p]
             \/ /\ p = at' /\ src[p] = Nul
                /\ \E q \in 1 .. p - 1 : file[q] = "?" /\ \A i \in q + 1 .. p - 1 : file[i] \in Alnum
  <2>1. p \in at .. BufferSize /\ (p = at => p = at')
    BY Bounds
  <2> QED BY <2>1, Zenon DEF AheadIntact
<1> QED BY <1>1, Zenon DEF AheadIntact, Padded

\* Every loop of parseLine goes on from here.
LEMMA HereIs ==
  ASSUME at \in 1 .. Beyond
  PROVE  here \in at .. Beyond
BY PastAllIs, Zenon DEF here

\* The kinds of the ends of a run.
Outcomes ==
  /\ err \in Errors
  /\ pc \in {"file", "line", "done"}
  /\ damage \in Damages

\* What a step that does not touch the text and takes no part keeps.
LEMMA TextKept ==
  ASSUME IInv, UNCHANGED <<file, src, commands>>, at' \in at .. Beyond,
         mode' \in {"single", "multi"}, parts' \in {parts, <<>>}, Outcomes'
  PROVE  IInv'
<1>1. TypeOK /\ PartsBehind /\ AheadIntact /\ at \in 1 .. Beyond
  BY DEF IInv, TypeOK
<1>2. AheadIntact'
  BY <1>1, GoesOn
<1>3. at' \in 1 .. Beyond
  BY <1>1, Bounds
<1>4. parts' \in Seq(Slices) /\ Len(parts') < PartsSize /\ PartsBehind'
  <2>1. CASE parts' = parts
    <3>1. \A i \in DOMAIN parts : parts[i].to \in Nat
      BY <1>1, Bounds DEF TypeOK, Slices, NullSlice
    <3>2. \A i \in DOMAIN parts : parts[i].to <= at'
      BY <1>1, <1>3, <3>1, Bounds DEF PartsBehind
    <3> QED BY <1>1, <2>1, <3>2 DEF TypeOK, PartsBehind
  <2>2. CASE parts' = <<>>
    BY <2>2, Bounds DEF PartsBehind
  <2> QED BY <2>1, <2>2
<1>5. TypeOK'
  BY <1>1, <1>3, <1>4, Zenon DEF TypeOK, Outcomes
<1> QED BY <1>2, <1>4, <1>5, Zenon DEF IInv

\* The steps that are of this kind.
StandingSteps ==
  \/ NoContext \/ EndOfFile \/ BeginLine \/ ReadBeyond \/ QuesAlone
  \/ EndOfLineOverruns \/ StrOverruns \/ UNCHANGED vars

LEMMA Stands ==
  ASSUME StandingSteps
  PROVE  UNCHANGED <<file, src, at, mode, parts, commands>>
BY Zenon DEF StandingSteps, NoContext, EndOfFile, BeginLine, ReadBeyond, QuesAlone,
             EndOfLineOverruns, StrOverruns, Undefined, vars

LEMMA StandingStep ==
  ASSUME IInv, StandingSteps
  PROVE  IInv'
<1>1. TypeOK
  BY DEF IInv
<1>2. UNCHANGED <<file, src, at, mode, parts, commands>>
  BY Stands, Zenon
<1>3. Outcomes'
  BY <1>1 DEF StandingSteps, NoContext, EndOfFile, BeginLine, ReadBeyond, QuesAlone,
              EndOfLineOverruns, StrOverruns, Undefined, Fail, vars, TypeOK, Outcomes, Errors, Damages
<1>4. at' \in at .. Beyond /\ mode' \in {"single", "multi"}
  BY <1>1, <1>2, Bounds DEF TypeOK
<1> QED BY <1>2, <1>3, <1>4, TextKept, Zenon

LineSteps == EndOfLineFails \/ EndOfLineInBlock \/ Comment

LEMMA LineGoes ==
  ASSUME TypeOK, LineSteps
  PROVE  /\ UNCHANGED <<file, src, mode, commands>> /\ parts' \in {parts, <<>>}
         /\ at' \in at .. Beyond
<1>1. at \in 1 .. Beyond
  BY DEF TypeOK
<1>2. here \in at .. Beyond /\ here # Beyond
  BY <1>1, HereIs DEF LineSteps, EndOfLineFails, EndOfLineInBlock, Comment, CurIn
<1>3. here \in Cells
  BY <1>1, <1>2, Bounds
<1>4. UNCHANGED <<file, src, mode, commands>> /\ parts' \in {parts, <<>>}
  BY DEF LineSteps, EndOfLineFails, EndOfLineInBlock, Comment
<1>5. at' \in here .. Beyond
  <2>1. CASE EndOfLineFails
    <3>1. at' = Over(nextChar(here), {Newline})
      BY <2>1, Zenon DEF EndOfLineFails
    <3>2. nextChar(here) \in here .. Beyond
      BY <1>3, NextCharIs
    <3>3. nextChar(here) \in 1 .. Beyond
      BY <1>3, <3>2, Bounds
    <3>4. at' \in nextChar(here) .. Beyond
      BY <3>1, <3>3, OverIs, Zenon
    <3> QED BY <1>3, <3>2, <3>4, Bounds
  <2>2. CASE EndOfLineInBlock
    <3>1. at' = Over(here, {Newline}) /\ here \in 1 .. Beyond
      BY <1>3, <2>2, Bounds DEF EndOfLineInBlock
    <3> QED BY <3>1, OverIs, Zenon
  <2>3. CASE Comment
    <3> DEFINE end == PastAll(here + 1, Symbols \ LineEnds)
    <3>1. at' = Over(end, {Newline})
      BY <2>3, Zenon DEF Comment
    <3>2. end \in here + 1 .. Beyond
      <4>1. here + 1 \in 1 .. Beyond
        BY <1>3, Bounds
      <4> QED BY <4>1, PastAllIs, Zenon
    <3> HIDE DEF end
    <3>3. end \in 1 .. Beyond
      BY <1>3, <3>2, Bounds
    <3>4. at' \in end .. Beyond
      BY <3>1, <3>3, OverIs, Zenon
    <3> QED BY <1>3, <3>2, <3>4, Bounds
  <2> QED BY <2>1, <2>2, <2>3, Zenon DEF LineSteps
<1>6. at' \in at .. Beyond
  BY <1>1, <1>2, <1>5, Bounds
<1> QED BY <1>4, <1>6

LEMMA LineStep ==
  ASSUME IInv, LineSteps
  PROVE  IInv'
<1>1. TypeOK
  BY DEF IInv
<1>2. /\ UNCHANGED <<file, src, mode, commands>> /\ parts' \in {parts, <<>>}
      /\ at' \in at .. Beyond
  BY <1>1, LineGoes
<1>3. Outcomes'
  BY <1>1 DEF LineSteps, EndOfLineFails, EndOfLineInBlock, Comment, Fail, TypeOK, Outcomes, Errors
<1>4. mode' \in {"single", "multi"}
  BY <1>1, <1>2 DEF TypeOK
<1> QED BY <1>2, <1>3, <1>4, TextKept, Zenon

-----------------------------------------------------------------------------
(* A '?' operator *)

QuesSteps == QuesBegin \/ QuesEnd \/ QuesUnknown

LEMMA QuesGoes ==
  ASSUME TypeOK, QuesSteps
  PROVE  /\ UNCHANGED <<file, parts, commands>>
         /\ at \in Cells /\ src[at] = "?"
         /\ WordEnd \in Cells /\ at < WordEnd /\ at' = WordEnd /\ src' = [src EXCEPT ![WordEnd] = Nul]
         /\ \A i \in at + 1 .. WordEnd - 1 : src[i] \in Alnum
<1>1. at \in Cells /\ src[at] = "?"
  BY Bounds DEF TypeOK, QuesSteps, QuesBegin, QuesEnd, QuesUnknown, QuesMark, AtQuesMark
<1>2. QuesMark /\ UNCHANGED <<file, parts, commands>>
  BY <1>1 DEF QuesSteps, QuesBegin, QuesEnd, QuesUnknown, QuesMark
<1> DEFINE w == WordEnd
<1>3. /\ w \in Cells /\ at < w /\ at' = w /\ src' = [src EXCEPT ![w] = Nul]
      /\ \A i \in at + 1 .. w - 1 : src[i] \in Alnum
  <2>1. at + 1 \in 1 .. Beyond
    BY <1>1, Bounds
  <2>2. w \in at + 1 .. Beyond /\ \A i \in at + 1 .. w - 1 : src[i] \in Alnum
    BY <2>1, PastAllIs, Zenon DEF WordEnd
  <2>3. w # Beyond /\ at' = w /\ src' = [src EXCEPT ![w] = Nul]
    BY <1>2, Zenon DEF QuesMark
  <2> HIDE DEF w
  <2>4. w \in Cells /\ at < w
    BY <1>1, <2>2, <2>3, Bounds
  <2> QED BY <2>2, <2>3, <2>4, Zenon
<1> QED BY <1>1, <1>2, <1>3

LEMMA QuesStep ==
  ASSUME IInv, QuesSteps
  PROVE  IInv'
<1>1. TypeOK /\ PartsBehind /\ AheadIntact /\ at \in Cells /\ src[at] = "?"
  BY QuesGoes DEF IInv
<1>2. UNCHANGED <<file, parts, commands>> /\ mode' \in {"single", "multi"}
  BY <1>1, QuesGoes DEF QuesSteps, QuesBegin, QuesEnd, QuesUnknown, TypeOK
<1>3. Outcomes'
  BY <1>1 DEF QuesSteps, QuesBegin, QuesEnd, QuesUnknown, Fail, TypeOK, Outcomes, Errors
<1> DEFINE w == WordEnd
<1>4. /\ w \in Cells /\ at < w /\ at' = w /\ src' = [src EXCEPT ![w] = Nul]
      /\ \A i \in at + 1 .. w - 1 : src[i] \in Alnum
  BY <1>1, QuesGoes, Zenon
<1> HIDE DEF w
<1>5. \A p \in at .. BufferSize : p # at => src[p] = Padded(file)[p]
  BY <1>1 DEF AheadIntact
<1>6. file[at] = "?" /\ \A i \in at + 1 .. w - 1 : file[i] \in Alnum
  <2>1. file \in Seq(Symbols) /\ Nul # "?" /\ Nul \notin Alnum
    BY <1>1 DEF TypeOK, Nul, Alnum
  <2>2. src[at] = Padded(file)[at]
    BY <1>1, <2>1, Bounds DEF AheadIntact
  <2>3. file[at] = "?"
    BY <1>1, <2>1, <2>2, InFile
  <2>4. ASSUME NEW i \in at + 1 .. w - 1 PROVE file[i] \in Alnum
    <3>1. i \in Cells /\ i \in at .. BufferSize /\ i # at
      BY <1>1, <1>4, Bounds
    <3>2. src[i] \in Alnum /\ src[i] = Padded(file)[i]
      BY <1>4, <1>5, <3>1, Zenon
    <3> QED BY <2>1, <3>1, <3>2, InFile
  <2> QED BY <2>3, <2>4
<1>7. AheadIntact'
  <2>1. ASSUME NEW p \in w .. BufferSize
        PROVE  \/ src'[p] = Padded(file)[p]
               \/ /\ p = w /\ src'[p] = Nul
                  /\ \E q \in 1 .. p - 1 : file[q] = "?" /\ \A i \in q + 1 .. p - 1 : file[i] \in Alnum
    <3>1. CASE p = w
      <4>1. src'[p] = Nul
        BY <1>1, <1>4, <3>1 DEF TypeOK
      <4>2. at \in 1 .. p - 1
        BY <1>1, <1>4, <3>1, Bounds
      <4> QED BY <1>6, <3>1, <4>1, <4>2, Zenon
    <3>2. CASE p # w
      <4>1. p \in at .. BufferSize /\ p # at /\ p \in Cells
        BY <1>1, <1>4, <3>2, Bounds
      <4>2. src'[p] = src[p]
        BY <1>1, <1>4, <3>2, <4>1 DEF TypeOK
      <4> QED BY <1>5, <4>1, <4>2, Zenon
    <3> QED BY <3>1, <3>2
  <2> QED BY <1>2, <1>4, <2>1, Zenon DEF AheadIntact, Padded
<1>8. PartsBehind'
  <2>1. \A i \in DOMAIN parts : parts[i].to \in Nat
    BY <1>1, Bounds DEF TypeOK, Slices, NullSlice
  <2>2. \A i \in DOMAIN parts : parts[i].to <= at'
    BY <1>1, <1>4, <2>1, Bounds DEF PartsBehind
  <2> QED BY <1>2, <2>2, Zenon DEF PartsBehind
<1>9. TypeOK'
  <2>1. src' \in [Cells -> Symbols \cup {Nul}]
    BY <1>1, <1>4 DEF TypeOK
  <2>2. at' \in 1 .. Beyond
    BY <1>4, Bounds
  <2> QED BY <1>1, <1>2, <1>3, <2>1, <2>2, Zenon DEF TypeOK, Outcomes
<1> QED BY <1>7, <1>8, <1>9, Zenon DEF IInv

-----------------------------------------------------------------------------
(* The end of a line *)

\* A command is made of places in the text, and its terminators lie behind the
\* parser.
LEMMA AppendKeeps ==
  ASSUME TypeOK, PartsBehind, AppendCommand
  PROVE  /\ commands' \in Seq(Seq(Cells))
         /\ src' \in [Cells -> Symbols \cup {Nul}]
         /\ \A p \in Cells : src'[p] = src[p] \/ (src'[p] = Nul /\ p <= at)
         /\ parts' = <<>>
<1>1. /\ parts \in Seq(Slices) /\ commands \in Seq(Seq(Cells)) /\ at \in 1 .. Beyond
      /\ src \in [Cells -> Symbols \cup {Nul}]
  BY DEF TypeOK
<1>2. PICK n \in 0 .. Len(parts) :
        /\ n = PartCount
        /\ \A i \in 1 .. n : i \in DOMAIN parts /\ ~ isNullSlice(parts[i])
  BY <1>1, PartCountIs, Zenon
<1>3. ASSUME NEW i \in 1 .. n PROVE i \in DOMAIN parts /\ parts[i].from \in Cells /\ parts[i].to \in 2 .. Beyond
  <2>1. i \in DOMAIN parts /\ parts[i] \in Slices /\ ~ isNullSlice(parts[i])
    BY <1>1, <1>2
  <2> QED BY <2>1, NotNull, Zenon
<1>4. commands' \in Seq(Seq(Cells))
  <2> DEFINE c == [i \in 1 .. n |-> parts[i].from]
  <2>1. c \in Seq(Cells)
    BY <1>2, <1>3
  <2>2. commands' = IF parts = <<>> THEN commands ELSE Append(commands, c)
    BY <1>2 DEF AppendCommand
  <2> HIDE DEF c
  <2> QED BY <1>1, <2>1, <2>2
<1> DEFINE Ends(p) == \E i \in 1 .. n : parts[i].to = p
<1>5. src' = [p \in Cells |-> IF Ends(p) THEN Nul ELSE src[p]]
  BY <1>2 DEF AppendCommand
<1>6. \A p \in Cells : Ends(p) => p <= at
  BY <1>3, Zenon DEF PartsBehind
<1> HIDE DEF Ends
<1>7. src' \in [Cells -> Symbols \cup {Nul}]
  BY <1>1, <1>5
<1>8. \A p \in Cells : src'[p] = src[p] \/ (src'[p] = Nul /\ p <= at)
  BY <1>5, <1>6
<1>9. parts' = <<>>
  BY DEF AppendCommand
<1> QED BY <1>4, <1>7, <1>8, <1>9

\* It goes on behind the line it ends ...
LEMMA EndOfLineGoes ==
  ASSUME TypeOK, EndOfLine
  PROVE  /\ AppendCommand /\ UNCHANGED <<file, mode, err, damage>> /\ pc' = "file"
         /\ at \in Cells /\ at' \in at .. Beyond /\ at' \in 1 .. Beyond
         /\ at' = at => src[at] = Nul
<1>1. at \in 1 .. Beyond
  BY DEF TypeOK
<1>2. /\ AppendCommand /\ UNCHANGED <<file, mode, err, damage>> /\ pc' = "file"
      /\ at' = Over(nextChar(here), {Newline})
      /\ here # Beyond /\ src[here] \in LineEnds
  BY Zenon DEF EndOfLine, CurIn
<1>3. here \in at .. Beyond
  BY <1>1, HereIs
<1>4. here \in Cells
  BY <1>1, <1>2, <1>3, Bounds
<1> DEFINE next == nextChar(here)
<1>5. next \in here .. Beyond /\ next \in 1 .. Beyond /\ (src[here] # Nul => next = here + 1)
  <2>1. next \in here .. Beyond /\ (src[here] # Nul => next = here + 1)
    BY <1>4, NextCharIs
  <2> HIDE DEF next
  <2> QED BY <1>4, <2>1, Bounds
<1>6. at' \in next .. Beyond
  BY <1>2, <1>5, OverIs, Zenon
<1> HIDE DEF next
<1>7. at' \in here .. Beyond /\ at' \in at .. Beyond /\ at' \in 1 .. Beyond
  BY <1>1, <1>3, <1>4, <1>5, <1>6, Bounds
<1>8. ASSUME at' = at PROVE src[at] = Nul
  <2>1. at = here
    BY <1>1, <1>3, <1>7, <1>8, Bounds
  <2> QED BY <1>4, <1>5, <1>6, <1>8, <2>1, Bounds
<1>9. at \in Cells
  BY <1>1, <1>3, <1>4, Bounds
<1> QED BY <1>2, <1>7, <1>8, <1>9

\* ... and the text ahead is as it was.
LEMMA EndOfLineStep ==
  ASSUME IInv, EndOfLine
  PROVE  IInv'
<1>1. TypeOK /\ PartsBehind /\ AheadIntact /\ at \in 1 .. Beyond
  BY DEF IInv, TypeOK
<1>2. /\ AppendCommand /\ UNCHANGED <<file, mode, err, damage>> /\ pc' = "file"
      /\ at' \in at .. Beyond /\ at' \in 1 .. Beyond
      /\ at' = at => src[at] = Nul
  BY <1>1, EndOfLineGoes
<1>3. /\ commands' \in Seq(Seq(Cells))
      /\ src' \in [Cells -> Symbols \cup {Nul}]
      /\ \A p \in Cells : src'[p] = src[p] \/ (src'[p] = Nul /\ p <= at)
      /\ parts' = <<>>
  BY <1>1, <1>2, AppendKeeps, Zenon
<1>4. ASSUME NEW p \in at' .. BufferSize PROVE src'[p] = src[p]
  <2>1. p \in Cells /\ at <= p /\ (p = at => at' = at)
    BY <1>1, <1>2, Bounds
  <2>2. CASE p = at
    BY <1>2, <1>3, <2>1, <2>2
  <2>3. CASE p # at
    BY <1>1, <1>3, <2>1, <2>3, Bounds
  <2> QED BY <2>2, <2>3
<1>5. AheadIntact'
  <2>1. ASSUME NEW p \in at' .. BufferSize
        PROVE  \/ src'[p] = Padded(file)[p]
               \/ /\ p = at' /\ src'[p] = Nul
                  /\ \E q \in 1 .. p - 1 : file[q] = "?" /\ \A i \in q + 1 .. p - 1 : file[i] \in Alnum
    <3>1. src'[p] = src[p]
      BY <1>4
    <3>2. p \in at .. BufferSize /\ (p = at => p = at')
      BY <1>1, <1>2, Bounds
    <3> QED BY <1>1, <3>1, <3>2, Zenon DEF AheadIntact
  <2> QED BY <1>2, <2>1, Zenon DEF AheadIntact, Padded
<1>6. PartsBehind'
  BY <1>3 DEF PartsBehind
<1>7. TypeOK'
  <2>1. parts' \in Seq(Slices) /\ Len(parts') < PartsSize
    BY <1>3, Bounds
  <2>2. file' \in Seq(Symbols) /\ mode' \in {"single", "multi"} /\ err' \in Errors /\ damage' \in Damages
    BY <1>1, <1>2, Zenon DEF TypeOK
  <2>3. pc' \in {"file", "line", "done"}
    BY <1>2
  <2> QED BY <1>2, <1>3, <2>1, <2>2, <2>3, Zenon DEF TypeOK
<1> QED BY <1>5, <1>6, <1>7, Zenon DEF IInv

-----------------------------------------------------------------------------
(* A part *)

\* A part that is behind the parser is taken, or the run ends.
LEMMA PartTaken ==
  ASSUME TypeOK, PartsBehind, at' \in at .. Beyond,
         NEW s \in Slices, s.to <= at', AddPart(s)
  PROVE  /\ parts' \in Seq(Slices) /\ Len(parts') < PartsSize
         /\ PartsBehind'
         /\ err' \in Errors /\ damage' \in Damages /\ pc' \in {"file", "line", "done"}
<1>1. /\ parts \in Seq(Slices) /\ Len(parts) < PartsSize /\ Len(parts) \in Nat
      /\ at \in 1 .. Beyond /\ err \in Errors /\ pc \in {"file", "line", "done"}
      /\ damage \in Damages
  BY DEF TypeOK
<1>2. \A i \in DOMAIN parts : parts[i].to \in Nat
  BY <1>1, Bounds DEF Slices, NullSlice
<1>3. \A i \in DOMAIN parts : parts[i].to <= at'
  BY <1>1, <1>2, Bounds DEF PartsBehind
<1>4. \/ parts' = parts
      \/ parts' = Append(parts, s) /\ PartsSize > Len(parts) + 1
  BY DEF AddPart
<1>5. err' \in Errors /\ damage' \in Damages /\ pc' \in {"file", "line", "done"}
  BY <1>1, SMT DEF AddPart, Fail, Errors, Damages
<1>6. CASE parts' = parts
  BY <1>1, <1>3, <1>5, <1>6 DEF PartsBehind
<1>7. CASE parts' = Append(parts, s) /\ PartsSize > Len(parts) + 1
  <2>1. parts' \in Seq(Slices) /\ Len(parts') = Len(parts) + 1
    BY <1>1, <1>7
  <2>2. ASSUME NEW i \in DOMAIN parts' PROVE parts'[i].to <= at'
    <3>1. CASE i \in DOMAIN parts
      BY <1>1, <1>3, <1>7, <3>1
    <3>2. CASE i \notin DOMAIN parts
      BY <1>1, <1>7, <3>2
    <3> QED BY <3>1, <3>2
  <2>3. Len(parts') < PartsSize
    BY <1>1, <1>7, <2>1, Bounds
  <2> QED BY <1>5, <2>1, <2>2, <2>3 DEF PartsBehind
<1> QED BY <1>4, <1>6, <1>7

LEMMA IdGoes ==
  ASSUME TypeOK, Id
  PROVE  /\ at' = PastAll(here, IdChars) /\ AddPart(slice(here, at'))
         /\ UNCHANGED <<file, src, mode, commands>>
         /\ here \in Cells /\ here \in at .. Beyond /\ at' \in here .. Beyond
         /\ at' \in at .. Beyond /\ at' \in 1 .. Beyond
         /\ slice(here, at') \in Slices /\ slice(here, at').to <= at'
<1>1. at \in 1 .. Beyond
  BY DEF TypeOK
<1>2. /\ here # Beyond /\ at' = PastAll(here, IdChars) /\ AddPart(slice(here, at'))
      /\ UNCHANGED <<file, src, mode, commands>>
  BY Zenon DEF Id
<1>3. here \in at .. Beyond
  BY <1>1, HereIs
<1>4. here \in 1 .. Beyond /\ here \in Cells
  BY <1>1, <1>2, <1>3, Bounds
<1>5. at' \in here .. Beyond
  BY <1>2, <1>4, PastAllIs, Zenon
<1>6. at' \in at .. Beyond /\ at' \in 1 .. Beyond
  BY <1>1, <1>3, <1>4, <1>5, Bounds
<1>7. slice(here, at') \in Slices /\ slice(here, at').to <= at'
  BY <1>4, <1>5, SliceIs, Zenon
<1> QED BY <1>2, <1>3, <1>4, <1>5, <1>6, <1>7, Zenon

LEMMA IdStep ==
  ASSUME IInv, Id
  PROVE  IInv'
<1>1. TypeOK /\ PartsBehind /\ AheadIntact /\ at \in 1 .. Beyond
  BY DEF IInv, TypeOK
<1>2. /\ AddPart(slice(here, at')) /\ UNCHANGED <<file, src, mode, commands>>
      /\ at' \in at .. Beyond /\ at' \in 1 .. Beyond
      /\ slice(here, at') \in Slices /\ slice(here, at').to <= at'
  BY <1>1, IdGoes, Zenon
<1>3. /\ parts' \in Seq(Slices) /\ Len(parts') < PartsSize
      /\ PartsBehind'
      /\ err' \in Errors /\ damage' \in Damages /\ pc' \in {"file", "line", "done"}
  BY <1>1, <1>2, PartTaken, Zenon
<1>4. AheadIntact'
  BY <1>1, <1>2, GoesOn
<1>5. TypeOK'
  BY <1>1, <1>2, <1>3, Zenon DEF TypeOK
<1> QED BY <1>3, <1>4, <1>5, Zenon DEF IInv

\* A string: what it becomes ends before the quote that ended it.
LEMMA StrGoes ==
  ASSUME TypeOK, Str
  PROVE  \E start, end \in Cells, n \in Nat :
           /\ at < start /\ start + n <= end
           /\ at' \in end .. Beyond /\ at' \in at .. Beyond /\ at' \in 1 .. Beyond
           /\ src' \in [Cells -> Symbols \cup {Nul}]
           /\ \A p \in Cells : p < start \/ p >= end => src'[p] = src[p]
           /\ \/ at' = end + 1 /\ AddPart(slice(start, start + n))
              \/ at' = end /\ Fail(984) /\ UNCHANGED parts
           /\ UNCHANGED <<file, mode, commands>>
<1>1. at \in 1 .. Beyond /\ src \in [Cells -> Symbols \cup {Nul}]
  BY DEF TypeOK
<1> DEFINE start == here + 1
           end   == StringEnd(start)
           text  == shrinkConv(start, end)
           Text(p) == p \in start .. start + Len(text) - 1
<1>2. /\ here # Beyond /\ end # Beyond
      /\ src' = [p \in Cells |-> IF Text(p) THEN text[p - start + 1] ELSE src[p]]
      /\ \/ at' = end + 1 /\ AddPart(slice(start, start + Len(text)))
         \/ at' = end /\ Fail(984) /\ UNCHANGED parts
      /\ UNCHANGED <<file, mode, commands>>
  BY DEF Str, CurIn
<1>3. here \in at .. Beyond
  BY <1>1, HereIs
<1>4. here \in Cells /\ start \in 1 .. Beyond /\ at < start /\ at \in Nat
  BY <1>1, <1>2, <1>3, Bounds
<1>5. end \in start .. Beyond
  BY <1>4, StringEndIs, Zenon
<1>6. start \in Cells /\ end \in start .. BufferSize /\ end \in Cells
  <2> HIDE DEF start, end
  <2> QED BY <1>2, <1>4, <1>5, Bounds
<1>7. text \in Seq(Symbols \cup {Nul}) /\ Len(text) \in 0 .. end - start
  BY <1>1, <1>6, ShrunkIs, Zenon
<1> HIDE DEF start, end, text
<1>8. at' \in end .. Beyond /\ at' \in at .. Beyond /\ at' \in 1 .. Beyond
  BY <1>1, <1>2, <1>4, <1>6, Bounds
<1>9. src' \in [Cells -> Symbols \cup {Nul}]
  <2>1. \A p \in Cells : Text(p) => text[p - start + 1] \in Symbols \cup {Nul}
    BY <1>4, <1>6, <1>7, Bounds
  <2> HIDE DEF Text
  <2> QED BY <1>1, <1>2, <2>1
<1>10. \A p \in Cells : p < start \/ p >= end => src'[p] = src[p]
  BY <1>2, <1>6, <1>7, Bounds
<1>11. Len(text) \in Nat /\ start + Len(text) <= end
  BY <1>6, <1>7, Bounds
<1> HIDE DEF Text
<1> QED BY <1>2, <1>4, <1>6, <1>8, <1>9, <1>10, <1>11, Zenon

LEMMA StrStep ==
  ASSUME IInv, Str
  PROVE  IInv'
<1>1. TypeOK /\ PartsBehind /\ AheadIntact /\ at \in 1 .. Beyond
  BY DEF IInv, TypeOK
<1>2. PICK start \in Cells, end \in Cells, n \in Nat :
        /\ at < start /\ start + n <= end
        /\ at' \in end .. Beyond /\ at' \in at .. Beyond /\ at' \in 1 .. Beyond
        /\ src' \in [Cells -> Symbols \cup {Nul}]
        /\ \A p \in Cells : p < start \/ p >= end => src'[p] = src[p]
        /\ \/ at' = end + 1 /\ AddPart(slice(start, start + n))
           \/ at' = end /\ Fail(984) /\ UNCHANGED parts
        /\ UNCHANGED <<file, mode, commands>>
  BY <1>1, StrGoes, Zenon
<1>3. AheadIntact'
  <2>1. ASSUME NEW p \in at' .. BufferSize PROVE src'[p] = Padded(file)[p]
    <3>1. p \in Cells /\ p >= end /\ p \in at .. BufferSize /\ p # at
      BY <1>1, <1>2, Bounds
    <3>2. src'[p] = src[p]
      BY <1>2, <3>1
    <3> QED BY <1>1, <3>1, <3>2, Zenon DEF AheadIntact
  <2> QED BY <1>2, <2>1, Zenon DEF AheadIntact, Padded
<1>4. /\ parts' \in Seq(Slices) /\ Len(parts') < PartsSize
      /\ PartsBehind'
      /\ err' \in Errors /\ damage' \in Damages /\ pc' \in {"file", "line", "done"}
  <2>1. CASE at' = end + 1 /\ AddPart(slice(start, start + n))
    <3>1. start \in 1 .. Beyond /\ start + n \in start .. Beyond /\ start + n <= at'
      BY <1>2, <2>1, Bounds
    <3>2. slice(start, start + n) \in Slices /\ slice(start, start + n).to <= start + n
      BY <3>1, SliceIs, Zenon
    <3>3. slice(start, start + n).to \in Nat
      BY <3>2, Bounds DEF Slices, NullSlice
    <3>4. slice(start, start + n).to <= at'
      BY <1>2, <3>1, <3>2, <3>3, Bounds
    <3> QED BY <1>1, <1>2, <2>1, <3>2, <3>4, PartTaken, Zenon
  <2>2. CASE at' = end /\ Fail(984) /\ UNCHANGED parts
    <3>1. \A i \in DOMAIN parts : parts[i].to \in Nat
      BY <1>1, Bounds DEF TypeOK, Slices, NullSlice
    <3>2. \A i \in DOMAIN parts : parts[i].to <= at'
      BY <1>1, <1>2, <3>1, Bounds DEF PartsBehind
    <3>3. PartsBehind'
      BY <2>2, <3>2, Zenon DEF PartsBehind
    <3> QED BY <1>1, <2>2, <3>3 DEF TypeOK, Fail, Errors
  <2> QED BY <1>2, <2>1, <2>2
<1>5. TypeOK'
  BY <1>1, <1>2, <1>4, Zenon DEF TypeOK
<1> QED BY <1>3, <1>4, <1>5, Zenon DEF IInv

-----------------------------------------------------------------------------
(* The theorems *)

LEMMA StepsAre ==
  ASSUME [Next]_vars
  PROVE  StandingSteps \/ LineSteps \/ QuesSteps \/ EndOfLine \/ Id \/ Str
BY Zenon DEF Next, parseLine, parseQuesMark, finishLine, parsePart,
             StandingSteps, LineSteps, QuesSteps

LEMMA InitIInv == Init => IInv
<1> SUFFICES ASSUME Init PROVE IInv
  OBVIOUS
<1>1. /\ file \in Seq(Symbols) /\ src = Padded(file) /\ at = 1 /\ mode = "single"
      /\ parts = <<>> /\ commands = <<>> /\ err = 0 /\ pc = "file" /\ damage = "none"
  BY Pl2ParserAssumption DEF Init
<1>2. src \in [Cells -> Symbols \cup {Nul}]
  BY <1>1, Bounds DEF Padded
<1>3. TypeOK
  BY <1>1, <1>2, Bounds DEF TypeOK, Errors, Damages
<1>4. PartsBehind
  BY <1>1 DEF PartsBehind
<1>5. AheadIntact
  BY <1>1 DEF AheadIntact
<1> QED BY <1>3, <1>4, <1>5 DEF IInv

LEMMA NextIInv == IInv /\ [Next]_vars => IInv'
<1> SUFFICES ASSUME IInv, [Next]_vars PROVE IInv'
  OBVIOUS
<1>1. StandingSteps \/ LineSteps \/ QuesSteps \/ EndOfLine \/ Id \/ Str
  BY StepsAre
<1> QED BY <1>1, StandingStep, LineStep, QuesStep, EndOfLineStep, IdStep, StrStep, Zenon

\* The three parts of the inductive invariant hold in every state.
THEOREM Invariance == Spec => []IInv
<1> QED BY InitIInv, NextIInv, PTL DEF Spec

\* Every part and every command is made of places in the text, and the buffer
\* of parts never holds more than parseBufferSize allows (pl2b.c:393-418).
THEOREM TypeCorrect == Spec => []TypeOK
<1>1. IInv => TypeOK
  BY DEF IInv
<1> QED BY <1>1, Invariance, PTL

\* The parser, which unescapes strings and terminates parts in the text it
\* reads, never changes what it has still to read, but for the cell behind a
\* '?' operator (pl2b.c:52-53, 279, 489-510).
THEOREM AheadStaysIntact == Spec => []AheadIntact
<1>1. IInv => AheadIntact
  BY DEF IInv
<1> QED BY <1>1, Invariance, PTL

-----------------------------------------------------------------------------
(* What the characters of a file are *)

KindNames == {"blank", "id", "string", "escape", "comment", "bad"}

\* The table of Kind.
LEMMA CharacterIs ==
  ASSUME NEW c \in Symbols
  PROVE  /\ InString(c) \in {"bad", "blank", "escape", "string"}
         /\ c = Newline => InString(c) = "bad"
         /\ c \in Quotes => InString(c) = "blank"
         /\ c = "\\" => InString(c) = "escape"
         /\ c \notin Quotes \cup {Newline, "\\"} => InString(c) = "string"
         /\ OutOfParts(c) \in {"blank", "string", "comment", "bad", "id"}
         /\ c \in Whitespace \cup {Newline} => OutOfParts(c) = "blank"
         /\ c \in Quotes => OutOfParts(c) = "string"
         /\ c = "#" => OutOfParts(c) = "comment"
         /\ c = "illegal" => OutOfParts(c) = "bad"
         /\ c \notin Whitespace \cup Quotes \cup {Newline, "#", "illegal"} => OutOfParts(c) = "id"
BY DEF InString, OutOfParts, Symbols, IdChars, Alnum, Quotes, Whitespace, Newline

LEMMA KindIs ==
  ASSUME NEW k \in KindNames, NEW c \in Symbols
  PROVE  /\ Kind(k, c) \in KindNames
         /\ k = "bad" => Kind(k, c) = "bad"
         /\ k = "escape" => Kind(k, c) = "string"
         /\ k = "string" => Kind(k, c) = InString(c)
         /\ k = "comment" => Kind(k, c) = IF c = Newline THEN "blank" ELSE "comment"
         /\ k = "id" /\ c \in IdChars => Kind(k, c) = "id"
         /\ k = "blank" \/ (k = "id" /\ c \notin IdChars) => Kind(k, c) = OutOfParts(c)
BY CharacterIs DEF Kind, KindNames

IsKinds(g, f) == g = [i \in 0 .. Len(f) |-> IF i = 0 THEN "blank" ELSE Kind(g[i - 1], f[i])]

LEMMA KindsAre ==
  ASSUME NEW f \in Seq(Symbols)
  PROVE  /\ Kinds(f) \in [0 .. Len(f) -> KindNames]
         /\ Kinds(f)[0] = "blank"
         /\ \A i \in 1 .. Len(f) : Kinds(f)[i] = Kind(Kinds(f)[i - 1], f[i])
<1> DEFINE n == Len(f)
           I == 1 .. n + 1
           next == [k \in I |-> k + 1]
           base == [k \in I |-> "blank"]
           step == [k \in I |-> [v \in KindNames |-> IF k \in 1 .. n THEN Kind(v, f[(n + 1) - k]) ELSE v]]
<1>1. n \in Nat /\ \A i \in 1 .. n : f[i] \in Symbols
  BY LenProperties
<1> HIDE DEF n
<1>2. next \in [I -> Nat] /\ base \in [I -> KindNames]
  BY <1>1 DEF KindNames
<1>3. step \in [I -> [KindNames -> KindNames]]
  <2>1. ASSUME NEW k \in I, NEW v \in KindNames
        PROVE  (IF k \in 1 .. n THEN Kind(v, f[(n + 1) - k]) ELSE v) \in KindNames
    <3>1. CASE k \in 1 .. n
      <4>1. (n + 1) - k \in 1 .. n
        BY <1>1, <3>1
      <4>2. Kind(v, f[(n + 1) - k]) \in KindNames
        BY <1>1, <4>1, KindIs, Zenon
      <4> QED BY <3>1, <4>2
    <3> QED BY <3>1
  <2> HIDE DEF I
  <2> QED BY <2>1
<1>4. PICK g \in [I -> KindNames] : FromLater(g, n, next, step, base)
  <2> HIDE DEF next, base, step
  <2> QED BY <1>1, <1>2, <1>3, FromLaterExists, Zenon
<1> DEFINE h == [i \in 0 .. n |-> g[(n + 1) - i]]
<1>5. \A i \in 0 .. n : h[i] \in KindNames
  <2>1. ASSUME NEW i \in 0 .. n PROVE (n + 1) - i \in I
    BY <1>1
  <2> HIDE DEF I
  <2> QED BY <2>1
<1>6. h[0] = "blank"
  <2>1. n + 1 \in I /\ (n + 1) - 0 = n + 1 /\ 0 \in 0 .. n /\ (n + 1) + 1 \notin (n + 1) + 1 .. n + 1
    BY <1>1
  <2>2. g[n + 1] = IF next[n + 1] \in (n + 1) + 1 .. n + 1 THEN step[n + 1][g[next[n + 1]]] ELSE base[n + 1]
    BY <1>4, <2>1, Zenon DEF FromLater
  <2>3. next[n + 1] = (n + 1) + 1 /\ base[n + 1] = "blank"
    BY <2>1, Zenon
  <2>4. h[0] = g[n + 1]
    BY <2>1
  <2> QED BY <2>1, <2>2, <2>3, <2>4, Zenon
<1>7. ASSUME NEW i \in 1 .. n PROVE h[i] = Kind(h[i - 1], f[i])
  <2> DEFINE k == (n + 1) - i
  <2>1. /\ k \in I /\ k \in 1 .. n /\ k + 1 \in I /\ k + 1 \in k + 1 .. n + 1
        /\ (n + 1) - k = i /\ (n + 1) - (i - 1) = k + 1 /\ i \in 0 .. n /\ i - 1 \in 0 .. n
    BY <1>1
  <2> HIDE DEF k, I
  <2>2. g[k] = IF next[k] \in k + 1 .. n + 1 THEN step[k][g[next[k]]] ELSE base[k]
    BY <1>4, <2>1, Zenon DEF FromLater, I
  <2>3. next[k] = k + 1 /\ g[k + 1] \in KindNames
    BY <2>1, Zenon
  <2>4. step[k][g[k + 1]] = Kind(g[k + 1], f[(n + 1) - k])
    BY <2>1, <2>3, Zenon
  <2>5. h[i] = g[(n + 1) - i] /\ h[i - 1] = g[(n + 1) - (i - 1)]
    BY <2>1, Zenon
  <2>6. h[i] = g[k] /\ h[i - 1] = g[k + 1]
    BY <2>1, <2>5, Zenon DEF k
  <2> QED BY <2>1, <2>2, <2>3, <2>4, <2>6, Zenon
<1>8. IsKinds(h, f)
  <2>1. ASSUME NEW i \in 0 .. n PROVE h[i] = IF i = 0 THEN "blank" ELSE Kind(h[i - 1], f[i])
    <3>1. i # 0 => i \in 1 .. n
      BY <1>1
    <3> HIDE DEF h
    <3> QED BY <1>6, <1>7, <3>1, Zenon
  <2>2. h = [i \in 0 .. n |-> h[i]]
    BY Zenon
  <2> HIDE DEF h
  <2>3. h = [i \in 0 .. n |-> IF i = 0 THEN "blank" ELSE Kind(h[i - 1], f[i])]
    BY <2>1, <2>2, Zenon
  <2> QED BY <2>3, Zenon DEF IsKinds, n
<1> DEFINE c == CHOOSE e : IsKinds(e, f)
<1>9. Kinds(f) = c
  BY Zenon DEF Kinds, IsKinds
<1>10. IsKinds(c, f)
  BY <1>8, Zenon
<1> HIDE DEF c, h
<1>11. /\ c = [i \in 0 .. n |-> IF i = 0 THEN "blank" ELSE Kind(c[i - 1], f[i])]
  BY <1>10, Zenon DEF IsKinds, n
<1>12. \A i \in 0 .. n : c[i] = IF i = 0 THEN "blank" ELSE Kind(c[i - 1], f[i])
  BY <1>11, Zenon
<1>13. c[0] = "blank" /\ \A i \in 1 .. n : c[i] = Kind(c[i - 1], f[i])
  <2>1. 0 \in 0 .. n /\ \A i \in 1 .. n : i \in 0 .. n /\ i # 0
    BY <1>1
  <2> QED BY <1>12, <2>1, Zenon
<1>14. c \in [0 .. n -> KindNames]
  <2> DEFINE wrong == { i \in 0 .. n : c[i] \notin KindNames }
  <2>1. SUFFICES ASSUME wrong # {} PROVE FALSE
    <3> HIDE DEF KindNames
    <3>1. \A i \in 0 .. n : c[i] \in KindNames
      BY <2>1
    <3>2. c = [i \in 0 .. n |-> c[i]]
      BY <1>11
    <3> QED BY <3>1, <3>2
  <2>2. wrong \subseteq Nat
    OBVIOUS
  <2>3. PICK m \in wrong : \A j \in wrong : m <= j
    <3> HIDE DEF wrong
    <3> QED BY <2>1, <2>2, LeastExists
  <2>4. m \in 1 .. n /\ m - 1 \in 0 .. n /\ ~ (m <= m - 1)
    BY <1>1, <1>13, <2>3 DEF KindNames
  <2>5. c[m - 1] \in KindNames
    BY <2>3, <2>4
  <2>6. Kind(c[m - 1], f[m]) \in KindNames
    BY <1>1, <2>4, <2>5, KindIs, Zenon
  <2> QED BY <1>13, <2>3, <2>4, <2>6
<1> QED BY <1>9, <1>13, <1>14, Zenon DEF n

\* A file that fits the buffer and what its characters are.
LEMMA FileIs ==
  ASSUME NEW f \in Seq(Symbols), Len(f) <= BufferSize
  PROVE  /\ Len(f) \in Nat /\ Len(f) + 1 \in 1 .. Beyond /\ (Len(f) + 1 # Beyond => Len(f) + 1 \in Cells)
         /\ Kinds(f) \in [0 .. Len(f) -> KindNames] /\ Kinds(f)[0] = "blank"
         /\ \A i \in 1 .. Len(f) :
              /\ f[i] \in Symbols /\ f[i] # Nul /\ i \in Cells
              /\ Kinds(f)[i - 1] \in KindNames
              /\ Kinds(f)[i] = Kind(Kinds(f)[i - 1], f[i])
<1> DEFINE n == Len(f)
           kind == Kinds(f)
<1>1. /\ n \in Nat /\ (\A i \in 1 .. n : f[i] \in Symbols /\ i \in Cells)
      /\ n + 1 \in 1 .. Beyond /\ (n + 1 # Beyond => n + 1 \in Cells)
  BY LenProperties, Bounds
<1>2. /\ kind \in [0 .. n -> KindNames] /\ kind[0] = "blank"
      /\ \A i \in 1 .. n : kind[i] = Kind(kind[i - 1], f[i])
  BY KindsAre, Zenon
<1> HIDE DEF n, kind
<1>3. \A i \in 1 .. n : kind[i - 1] \in KindNames
  BY <1>1, <1>2
<1>4. \A i \in 1 .. n : f[i] # Nul
  <2>1. Nul \notin Symbols
    BY DEF Nul, Symbols, IdChars, Alnum, Quotes, Whitespace, Newline
  <2> QED BY <1>1, <2>1
<1> QED BY <1>1, <1>2, <1>3, <1>4, Zenon DEF n, kind

\* A well-formed file and what its characters are.
LEMMA WellFormedIs ==
  ASSUME NEW f \in Seq(Symbols), WellFormed(f)
  PROVE  /\ Len(f) <= BufferSize /\ Len(f) < BufferSize /\ Len(f) \in Nat /\ Len(f) + 1 \in Cells
         /\ \A i \in 1 .. Len(f) : Kinds(f)[i] # "bad" /\ f[i] # Nul
         /\ Kinds(f)[Len(f)] \in {"blank", "id", "comment"}
<1> DEFINE n == Len(f)
           kind == Kinds(f)
<1>1. n \in Nat /\ n < BufferSize /\ n <= BufferSize /\ n + 1 \in Cells /\ kind[n] \in {"blank", "id", "comment"}
  <2>1. n \in Nat /\ n < BufferSize /\ kind[n] \in {"blank", "id", "comment"}
    BY LenProperties, Zenon DEF WellFormed
  <2> HIDE DEF kind, n
  <2> QED BY <2>1, Bounds
<1>2. \A i \in 1 .. n : f[i] \in Symbols /\ f[i] # Nul /\ kind[i] = Kind(kind[i - 1], f[i])
  BY <1>1, FileIs, Zenon
<1> HIDE DEF n, kind
<1>3. \A i \in 1 .. n : kind[i] # "bad"
  <2> DEFINE wrong == { i \in 1 .. n : kind[i] = "bad" }
  <2>1. SUFFICES ASSUME wrong # {} PROVE FALSE
    OBVIOUS
  <2>2. wrong \subseteq 0 .. n
    OBVIOUS
  <2>3. PICK m \in wrong : \A j \in wrong : j <= m
    <3> HIDE DEF wrong
    <3> QED BY <1>1, <2>1, <2>2, GreatestExists
  <2>4. m \in 1 .. n /\ kind[m] = "bad" /\ m # n
    BY <1>1, <2>3
  <2>5. m + 1 \in 1 .. n /\ (m + 1) - 1 = m /\ ~ (m + 1 <= m)
    BY <1>1, <2>4
  <2>6. kind[m + 1] = Kind("bad", f[m + 1])
    BY <1>2, <2>4, <2>5, Zenon
  <2>7. \A c \in Symbols : Kind("bad", c) = "bad"
    BY KindIs DEF KindNames
  <2>8. kind[m + 1] = "bad"
    BY <1>2, <2>5, <2>6, <2>7, Zenon
  <2> QED BY <2>3, <2>5, <2>8
<1> QED BY <1>1, <1>2, <1>3, Zenon DEF n, kind

\* The text from p on is that of the file.
Ahead(f, p) == \A q \in p .. BufferSize : src[q] = Padded(f)[q]

LEMMA AheadIs ==
  ASSUME NEW f \in Seq(Symbols), Len(f) <= BufferSize, NEW p \in 1 .. Len(f) + 1, Ahead(f, p)
  PROVE  /\ \A q \in p .. Len(f) : src[q] = f[q] /\ q \in 1 .. Len(f) /\ q \in Cells
         /\ Len(f) + 1 # Beyond => src[Len(f) + 1] = Nul
<1>1. Len(f) \in Nat /\ Len(f) <= BufferSize /\ Len(f) + 1 \in 1 .. Beyond
  BY FileIs, Zenon
<1>2. \A q \in Cells : Padded(f)[q] = IF q <= Len(f) THEN f[q] ELSE Nul
  BY DEF Padded
<1>3. \A q \in p .. Len(f) : q \in Cells /\ q \in p .. BufferSize /\ q \in 1 .. Len(f) /\ q <= Len(f)
  BY <1>1, Bounds
<1>4. Len(f) + 1 # Beyond =>
        Len(f) + 1 \in Cells /\ Len(f) + 1 \in p .. BufferSize /\ ~ (Len(f) + 1 <= Len(f))
  BY <1>1, Bounds
<1> QED BY <1>1, <1>2, <1>3, <1>4, Zenon DEF Ahead

\* A scan within the file.
LEMMA ScanIs ==
  ASSUME NEW f \in Seq(Symbols), Len(f) <= BufferSize, NEW p \in 1 .. Len(f) + 1, Ahead(f, p),
         NEW symbols, Nul \notin symbols
  PROVE  /\ PastAll(p, symbols) \in p .. Len(f) + 1
         /\ Len(f) < BufferSize => PastAll(p, symbols) # Beyond
         /\ \A i \in p .. PastAll(p, symbols) - 1 : i \in 1 .. Len(f) /\ f[i] \in symbols
         /\ PastAll(p, symbols) # Len(f) + 1 =>
              PastAll(p, symbols) \in 1 .. Len(f) /\ f[PastAll(p, symbols)] \notin symbols
<1> DEFINE n == Len(f)
           q == PastAll(p, symbols)
<1>1. n \in Nat /\ n <= BufferSize /\ n + 1 \in 1 .. Beyond
  BY FileIs, Zenon
<1>2. (\A i \in p .. n : src[i] = f[i]) /\ (n + 1 # Beyond => src[n + 1] = Nul)
  BY AheadIs, Zenon
<1>3. /\ q \in p .. Beyond
      /\ q = Beyond \/ src[q] \notin symbols
      /\ \A i \in p .. q - 1 : src[i] \in symbols
  <2>1. p \in 1 .. Beyond
    BY <1>1, Bounds
  <2> QED BY <2>1, PastAllIs, Zenon
<1> HIDE DEF q
<1>4. q \in p .. n + 1
  <2>1. n + 1 # Beyond => n + 1 \notin p .. q - 1
    BY <1>2, <1>3, Zenon
  <2> QED BY <1>1, <1>3, <2>1, Bounds
<1>5. n < BufferSize => q # Beyond
  BY <1>1, <1>4, Bounds
<1>6. \A i \in p .. q - 1 : i \in p .. n /\ i \in 1 .. n
  BY <1>1, <1>4
<1>7. q # n + 1 => q \in p .. n /\ q \in 1 .. n /\ q # Beyond
  BY <1>1, <1>4, Bounds
<1> QED BY <1>2, <1>3, <1>4, <1>5, <1>6, <1>7, Zenon DEF q

\* Characters that leave the kind as it is.
LEMMA RunIs ==
  ASSUME NEW f \in Seq(Symbols), Len(f) <= BufferSize, NEW k \in KindNames,
         NEW a \in 1 .. Len(f) + 1, NEW b \in a .. Len(f) + 1,
         a < b => Kinds(f)[a] = k,
         \A i \in a + 1 .. b - 1 : Kind(k, f[i]) = k
  PROVE  \A i \in a .. b - 1 : Kinds(f)[i] = k
<1> DEFINE wrong == { i \in a .. b - 1 : Kinds(f)[i] # k }
<1>1. SUFFICES ASSUME wrong # {} PROVE FALSE
  OBVIOUS
<1>2. Len(f) \in Nat /\ \A i \in 1 .. Len(f) : Kinds(f)[i] = Kind(Kinds(f)[i - 1], f[i])
  BY FileIs, Zenon
<1>3. wrong \subseteq Nat
  BY <1>2
<1>4. PICK m \in wrong : \A j \in wrong : m <= j
  <2> HIDE DEF wrong
  <2> QED BY <1>1, <1>3, LeastExists
<1>5. m \in a .. b - 1 /\ Kinds(f)[m] # k
  OBVIOUS
<1>6. m \in a + 1 .. b - 1 /\ m - 1 \in a .. b - 1 /\ m \in 1 .. Len(f) /\ ~ (m <= m - 1)
  <2>1. m # a
    <3>1. a < b
      BY <1>2, <1>5
    <3> QED BY <1>5, <3>1
  <2>2. ASSUME NEW n \in Nat, NEW x \in 1 .. n + 1, NEW y \in x .. n + 1, NEW z \in x .. y - 1, z # x
        PROVE  z \in x + 1 .. y - 1 /\ z - 1 \in x .. y - 1 /\ z \in 1 .. n /\ ~ (z <= z - 1)
    BY <2>2
  <2> QED BY <1>2, <1>5, <2>1, <2>2, Zenon
<1>7. Kinds(f)[m - 1] = k
  BY <1>4, <1>6
<1>8. Kinds(f)[m] = Kind(k, f[m])
  BY <1>2, <1>6, <1>7, Zenon
<1> QED BY <1>5, <1>6, <1>8, Zenon

\* Going on within a line, the parts before it grow.
LEMMA PartsGrow ==
  ASSUME NEW f \in Seq(Symbols), Len(f) <= BufferSize,
         NEW a \in 1 .. Len(f) + 1, NEW b \in a .. Len(f) + 1,
         \A i \in a .. b - 1 : i \notin LineEndsOf(f, Kinds(f))
  PROVE  LET count(p) == Cardinality(PartsBefore(f, Kinds(f), p))
         IN  /\ count(a) \in Nat /\ count(b) \in Nat
             /\ count(a) <= count(b)
             /\ \A h \in a .. b - 1 : h \in Starts(Kinds(f)) => count(a) + 1 <= count(b)
<1> DEFINE n == Len(f)
           kind == Kinds(f)
           P(p) == PartsBefore(f, kind, p)
<1>1. n \in Nat /\ DOMAIN kind = 0 .. n
  <2>1. kind \in [0 .. n -> KindNames] /\ n \in Nat
    BY FileIs, Zenon
  <2> QED BY <2>1
<1> HIDE DEF n, kind
<1>2. \A p : P(p) \subseteq 1 .. n /\ IsFiniteSet(P(p)) /\ Cardinality(P(p)) \in Nat
  <2> TAKE p
  <2>1. P(p) \subseteq 1 .. n
    BY <1>1 DEF PartsBefore, Starts
  <2>2. IsFiniteSet(1 .. n)
    BY <1>1, FS_Interval
  <2> QED BY <2>1, <2>2, FS_Subset, FS_CardinalityType
<1>3. P(a) \subseteq P(b)
  <2>1. SUFFICES ASSUME NEW i \in P(a) PROVE i \in P(b)
    OBVIOUS
  <2>2. i \in Starts(kind) /\ i < a /\ i \in 1 .. n /\ \A e \in LineEndsOf(f, kind) : e < a => e < i
    BY <1>2 DEF PartsBefore
  <2>3. i < b
    BY <1>1, <2>2 DEF n
  <2>4. ASSUME NEW e \in LineEndsOf(f, kind), e < b PROVE e < i
    <3>1. e \in 1 .. n
      BY DEF LineEndsOf, n
    <3>2. e \notin a .. b - 1
      BY <2>4, Zenon DEF kind
    <3>3. e < a
      BY <1>1, <2>4, <3>1, <3>2 DEF n
    <3> QED BY <2>2, <3>3
  <2> QED BY <2>2, <2>3, <2>4 DEF PartsBefore
<1>4. ASSUME NEW h \in a .. b - 1, h \in Starts(kind) PROVE h \in P(b) /\ h \notin P(a)
  <2>1. h < b /\ ~ (h < a)
    BY <1>1 DEF n
  <2>2. ASSUME NEW e \in LineEndsOf(f, kind), e < b PROVE e < h
    <3>1. e \in 1 .. n
      BY DEF LineEndsOf, n
    <3>2. e \notin a .. b - 1
      BY <2>2, Zenon DEF kind
    <3> QED BY <1>1, <2>2, <3>1, <3>2 DEF n
  <2> QED BY <1>4, <2>1, <2>2 DEF PartsBefore
<1> HIDE DEF P
<1>5. Cardinality(P(a)) <= Cardinality(P(b))
  BY <1>2, <1>3, FS_Subset
<1>6. ASSUME NEW h \in a .. b - 1, h \in Starts(kind) PROVE Cardinality(P(a)) + 1 <= Cardinality(P(b))
  <2>1. h \in P(b) /\ h \notin P(a)
    BY <1>4, <1>6
  <2>2. P(a) \subseteq P(b) \ {h}
    BY <1>3, <2>1
  <2>3. /\ IsFiniteSet(P(b) \ {h})
        /\ Cardinality(P(b) \ {h}) = Cardinality(P(b)) - 1
    BY <1>2, <2>1, FS_RemoveElement
  <2>4. Cardinality(P(a)) <= Cardinality(P(b) \ {h})
    BY <2>2, <2>3, FS_Subset
  <2> QED BY <1>2, <2>3, <2>4
<1> QED BY <1>2, <1>5, <1>6, Zenon DEF P, kind

-----------------------------------------------------------------------------
(* What the parser meets in a well-formed file *)

\* Where a part or a line may begin, the character alone decides.
LEMMA NextIs ==
  ASSUME NEW f \in Seq(Symbols), Len(f) <= BufferSize, NEW h \in 1 .. Len(f), BetweenParts(f, Kinds(f), h)
  PROVE  /\ Kinds(f)[h - 1] \in {"blank", "id"}
         /\ Kinds(f)[h - 1] = "id" => f[h] \notin IdChars
         /\ Kinds(f)[h] = OutOfParts(f[h])
         /\ f[h] # "illegal" =>
              (f[h] \in IdChars \ Quotes <=> f[h] \notin Quotes \cup Whitespace \cup {Newline, "#"})
<1>1. /\ f[h] \in Symbols /\ Kinds(f)[h - 1] \in KindNames
      /\ Kinds(f)[h] = Kind(Kinds(f)[h - 1], f[h])
      /\ Len(f) \in Nat
  BY FileIs, Zenon
<1>2. Kinds(f)[h - 1] = "blank" \/ (Kinds(f)[h - 1] = "id" /\ f[h] \notin IdChars)
  <2>1. h # Len(f) + 1
    BY <1>1
  <2> QED BY <2>1, Zenon DEF BetweenParts
<1>3. Kinds(f)[h] = OutOfParts(f[h])
  BY <1>1, <1>2, KindIs, Zenon
<1>4. f[h] # "illegal" => (f[h] \in IdChars \ Quotes <=> f[h] \notin Quotes \cup Whitespace \cup {Newline, "#"})
  BY <1>1 DEF Symbols, IdChars, Alnum, Quotes, Whitespace, Newline
<1> QED BY <1>2, <1>3, <1>4

\* The blanks before it change nothing.
LEMMA SpacesAre ==
  ASSUME NEW f \in Seq(Symbols), Len(f) <= BufferSize, NEW p \in 1 .. Len(f) + 1, Ahead(f, p),
         BetweenParts(f, Kinds(f), p)
  PROVE  LET h == PastAll(p, Whitespace)
         IN  /\ h \in p .. Len(f) + 1 /\ (Len(f) < BufferSize => h # Beyond)
             /\ BetweenParts(f, Kinds(f), h)
             /\ h # Len(f) + 1 => h \in 1 .. Len(f) /\ f[h] \notin Whitespace
             /\ \A i \in p .. h - 1 : i \notin LineEndsOf(f, Kinds(f)) /\ i \notin Starts(Kinds(f))
<1> DEFINE n == Len(f)
           h == PastAll(p, Whitespace)
<1>1. Nul \notin Whitespace /\ Newline \notin Whitespace /\ Whitespace \subseteq Symbols
  BY DEF Nul, Newline, Whitespace, Symbols
<1>2. /\ h \in p .. n + 1 /\ (n < BufferSize => h # Beyond)
      /\ \A i \in p .. h - 1 : i \in 1 .. n /\ f[i] \in Whitespace
      /\ h # n + 1 => h \in 1 .. n /\ f[h] \notin Whitespace
  BY <1>1, ScanIs, Zenon
<1>3. n \in Nat
  BY FileIs, Zenon
<1> HIDE DEF h
<1>4. \A i \in p .. h - 1 : i \notin LineEndsOf(f, Kinds(f))
  BY <1>1, <1>2, Zenon DEF LineEndsOf
<1>5. CASE h = p
  <2>1. p .. h - 1 = {}
    BY <1>3, <1>5
  <2>2. BetweenParts(f, Kinds(f), h)
    BY <1>5, Zenon
  <2> QED BY <1>2, <2>1, <2>2, Zenon DEF h
<1>6. CASE h # p
  <2>1. p \in p .. h - 1 /\ p < h /\ h - 1 \in p .. h - 1 /\ p + 1 .. h - 1 \subseteq p .. h - 1
    BY <1>2, <1>3, <1>6
  <2>2. Kinds(f)[p] = "blank"
    <3>1. p \in 1 .. n /\ f[p] \in Whitespace
      BY <1>2, <2>1, Zenon
    <3>2. Kinds(f)[p] = OutOfParts(f[p])
      BY <3>1, NextIs, Zenon
    <3> QED BY <1>1, <3>1, <3>2, CharacterIs
  <2>3. "blank" \in KindNames /\ \A i \in p + 1 .. h - 1 : Kind("blank", f[i]) = "blank"
    <3>1. "blank" \in KindNames
      BY DEF KindNames
    <3>2. ASSUME NEW i \in p + 1 .. h - 1 PROVE Kind("blank", f[i]) = "blank"
      <4>1. f[i] \in Whitespace /\ f[i] \in Symbols
        BY <1>1, <1>2, <2>1
      <4>2. Kind("blank", f[i]) = OutOfParts(f[i])
        BY <3>1, <4>1, KindIs, Zenon
      <4> QED BY <4>1, <4>2, CharacterIs
    <3> QED BY <3>1, <3>2
  <2>4. \A i \in p .. h - 1 : Kinds(f)[i] = "blank"
    <3>1. p \in 1 .. n + 1
      OBVIOUS
    <3>2. h \in p .. n + 1 /\ (p < h => Kinds(f)[p] = "blank")
      BY <1>2, <2>2
    <3> QED BY <2>3, <3>1, <3>2, RunIs
  <2>5. BetweenParts(f, Kinds(f), h)
    BY <2>1, <2>4, Zenon DEF BetweenParts
  <2>6. \A i \in p .. h - 1 : i \notin Starts(Kinds(f))
    <3>1. "blank" # "id" /\ "blank" # "string"
      OBVIOUS
    <3> QED BY <2>4, <3>1, Zenon DEF Starts
  <2> QED BY <1>2, <1>4, <2>5, <2>6, Zenon DEF h
<1> QED BY <1>5, <1>6

\* An id.
LEMMA IdIs ==
  ASSUME NEW f \in Seq(Symbols), Len(f) <= BufferSize, NEW h \in 1 .. Len(f), Ahead(f, h),
         BetweenParts(f, Kinds(f), h), 
         f[h] \notin Quotes \cup Whitespace \cup {Newline, "#", "illegal"}
  PROVE  LET e == PastAll(h, IdChars)
         IN  /\ h \in Starts(Kinds(f)) /\ e \in h + 1 .. Len(f) + 1
             /\ (Len(f) < BufferSize => e # Beyond)
             /\ BetweenParts(f, Kinds(f), e)
             /\ \A i \in h .. e - 1 : i \notin LineEndsOf(f, Kinds(f)) /\ (i # h => i \notin Starts(Kinds(f)))
             /\ Kinds(f)[h] = "id" /\ \A i \in h .. e - 1 : Kinds(f)[i] = "id"
             /\ e # Len(f) + 1 => e \in 1 .. Len(f) /\ f[e] \notin IdChars
<1> DEFINE n == Len(f)
           e == PastAll(h, IdChars)
<1>1. Nul \notin IdChars /\ Newline \notin IdChars /\ IdChars \subseteq Symbols
  BY DEF Nul, Newline, IdChars, Alnum, Symbols
<1>2. n \in Nat /\ h \in 1 .. n + 1
  <2>1. n \in Nat
    BY FileIs, Zenon
  <2> QED BY <2>1
<1>3. /\ e \in h .. n + 1 /\ (n < BufferSize => e # Beyond)
      /\ \A i \in h .. e - 1 : i \in 1 .. n /\ f[i] \in IdChars
      /\ e # n + 1 => e \in 1 .. n /\ f[e] \notin IdChars
  BY <1>1, <1>2, ScanIs, Zenon
<1>4. f[h] \in IdChars /\ f[h] \in Symbols /\ Kinds(f)[h] = "id" /\ Kinds(f)[h - 1] # "id"
  <2>1. /\ f[h] \in IdChars \ Quotes /\ Kinds(f)[h] = OutOfParts(f[h])
        /\ Kinds(f)[h - 1] = "id" => f[h] \notin IdChars
    <3>1. f[h] # "illegal" /\ f[h] \notin Quotes \cup Whitespace \cup {Newline, "#"}
      OBVIOUS
    <3> QED BY <3>1, NextIs, Zenon
  <2>2. OutOfParts(f[h]) = "id"
    BY <1>1, <2>1, CharacterIs
  <2> QED BY <1>1, <2>1, <2>2
<1> HIDE DEF e
<1>5. e \in h + 1 .. n + 1 /\ h < e /\ e - 1 \in h .. e - 1 /\ h + 1 .. e - 1 \subseteq h .. e - 1
  BY <1>2, <1>3, <1>4
<1>6. "id" \in KindNames /\ \A i \in h + 1 .. e - 1 : Kind("id", f[i]) = "id"
  <2>1. "id" \in KindNames
    BY DEF KindNames
  <2>2. ASSUME NEW i \in h + 1 .. e - 1 PROVE Kind("id", f[i]) = "id"
    <3>1. f[i] \in IdChars /\ f[i] \in Symbols
      BY <1>1, <1>3, <1>5
    <3> QED BY <2>1, <3>1, KindIs, Zenon
  <2> QED BY <2>1, <2>2
<1>7. \A i \in h .. e - 1 : Kinds(f)[i] = "id"
  BY <1>2, <1>3, <1>4, <1>6, RunIs, Zenon
<1>8. BetweenParts(f, Kinds(f), e)
  BY <1>3, <1>5, <1>7, Zenon DEF BetweenParts
<1>9. h \in Starts(Kinds(f))
  <2>1. Kinds(f) \in [0 .. n -> KindNames]
    BY FileIs, Zenon
  <2>2. h \in DOMAIN Kinds(f) \ {0}
    BY <1>2, <2>1
  <2> QED BY <1>4, <2>2, Zenon DEF Starts
<1>10. \A i \in h .. e - 1 : i \notin LineEndsOf(f, Kinds(f))
  BY <1>1, <1>3, Zenon DEF LineEndsOf
<1>11. \A i \in h .. e - 1 : i # h => i \notin Starts(Kinds(f))
  <2>1. ASSUME NEW i \in h .. e - 1, i # h, i \in Starts(Kinds(f)) PROVE FALSE
    <3>1. i - 1 \in h .. e - 1
      BY <1>3, <2>1
    <3>2. Kinds(f)[i] = "id" /\ Kinds(f)[i - 1] = "id" /\ "id" # "string"
      BY <1>7, <3>1, Zenon
    <3> QED BY <2>1, <3>2, Zenon DEF Starts
  <2> QED BY <2>1
<1> QED BY <1>3, <1>4, <1>5, <1>7, <1>8, <1>9, <1>10, <1>11, Zenon DEF e

\* A comment, and the newline it takes with it.
LEMMA CommentIs ==
  ASSUME NEW f \in Seq(Symbols), Len(f) <= BufferSize, NEW h \in 1 .. Len(f), Ahead(f, h),
         BetweenParts(f, Kinds(f), h), f[h] = "#"
  PROVE  LET e == Over(PastAll(h + 1, Symbols \ LineEnds), {Newline})
         IN  /\ e \in h + 1 .. Len(f) + 1
             /\ BetweenParts(f, Kinds(f), e)
             /\ \A i \in h .. e - 1 : i \notin LineEndsOf(f, Kinds(f)) /\ i \notin Starts(Kinds(f))
<1> DEFINE n == Len(f)
           q == PastAll(h + 1, Symbols \ LineEnds)
           e == Over(q, {Newline})
<1>1. n \in Nat /\ h + 1 \in 1 .. n + 1 /\ Nul \notin Symbols \ LineEnds
  <2>1. n \in Nat
    BY FileIs, Zenon
  <2> QED BY <2>1 DEF LineEnds
<1>2. Ahead(f, h + 1)
  BY <1>1 DEF Ahead
<1>3. /\ q \in h + 1 .. n + 1 /\ (n < BufferSize => q # Beyond)
      /\ \A i \in h + 1 .. q - 1 : i \in 1 .. n /\ f[i] \in Symbols \ LineEnds
      /\ q # n + 1 => q \in 1 .. n /\ f[q] \notin Symbols \ LineEnds
  BY <1>1, <1>2, ScanIs, Zenon
<1>4. Kinds(f)[h] = "comment" /\ Kinds(f)[h - 1] \in {"blank", "id"} /\ "#" # Newline
  <2>1. Kinds(f)[h] = OutOfParts(f[h]) /\ Kinds(f)[h - 1] \in {"blank", "id"}
    BY NextIs, Zenon
  <2>2. "#" \in Symbols /\ "#" # Newline
    BY DEF Symbols, Newline
  <2> QED BY <2>1, <2>2, CharacterIs
<1> HIDE DEF q
<1>5. q \in h .. n + 1 /\ h \in 1 .. n + 1 /\ h < q /\ q - 1 \in h .. q - 1
  BY <1>1, <1>3
<1>6. "comment" \in KindNames /\ \A i \in h + 1 .. q - 1 : Kind("comment", f[i]) = "comment"
  <2>1. "comment" \in KindNames
    BY DEF KindNames
  <2>2. ASSUME NEW i \in h + 1 .. q - 1 PROVE Kind("comment", f[i]) = "comment"
    <3>1. f[i] \in Symbols /\ f[i] # Newline
      BY <1>3 DEF LineEnds
    <3> QED BY <2>1, <3>1, KindIs, Zenon
  <2> QED BY <2>1, <2>2
<1>7. \A i \in h .. q - 1 : Kinds(f)[i] = "comment"
  BY <1>4, <1>5, <1>6, RunIs, Zenon
<1>8. \A i \in h .. q - 1 : i \notin LineEndsOf(f, Kinds(f))
  <2>1. ASSUME NEW i \in h .. q - 1 PROVE f[i] # Newline
    <3>1. i = h \/ i \in h + 1 .. q - 1
      BY <1>1, <1>3
    <3> QED BY <1>3, <1>4, <3>1 DEF LineEnds
  <2> QED BY <2>1, Zenon DEF LineEndsOf
<1>9. (\A i \in h .. n : src[i] = f[i]) /\ (n + 1 # Beyond => src[n + 1] = Nul) /\ Nul # Newline
  <2>1. Nul # Newline
    BY DEF Nul, Newline
  <2> QED BY <1>5, <2>1, AheadIs, Zenon
<1>12. \A i \in h .. q - 1 : i \notin Starts(Kinds(f))
  <2>1. "comment" # "id" /\ "comment" # "string"
    OBVIOUS
  <2> QED BY <1>7, <2>1, Zenon DEF Starts
<1>10. CASE q = n + 1
  <2>1. e = n + 1
    <3>1. q = Beyond \/ src[q] \notin {Newline}
      BY <1>9, <1>10
    <3> QED BY <1>10, <3>1, Zenon DEF Over
  <2>2. Kinds(f)[e - 1] = "comment"
    BY <1>5, <1>7, <1>10, <2>1, Zenon
  <2>3. BetweenParts(f, Kinds(f), e)
    BY <2>1, <2>2, Zenon DEF BetweenParts
  <2> QED BY <1>3, <1>8, <1>10, <1>12, <2>1, <2>3, Zenon DEF q
<1>11. CASE q # n + 1
  <2>1. q \in 1 .. n /\ q \in h .. n /\ f[q] = Newline
    <3>1. q \in 1 .. n /\ f[q] \in Symbols /\ f[q] # Nul
      BY <1>3, <1>11, FileIs, Zenon
    <3>2. f[q] = Newline
      BY <1>3, <1>11, <3>1 DEF LineEnds
    <3> QED BY <1>1, <1>5, <3>1, <3>2
  <2>2. e = q + 1
    <3>1. src[q] \in {Newline} /\ q # Beyond
      BY <1>1, <1>9, <2>1, Bounds
    <3> QED BY <3>1, Zenon DEF Over
  <2>3. Kinds(f)[q] = "blank" /\ Kinds(f)[q - 1] = "comment"
    <3>1. Kinds(f)[q] = Kind(Kinds(f)[q - 1], f[q]) /\ f[q] \in Symbols
      BY <2>1, FileIs, Zenon
    <3>2. Kinds(f)[q - 1] = "comment"
      BY <1>5, <1>7, Zenon
    <3> QED BY <1>6, <2>1, <3>1, <3>2, KindIs, Zenon
  <2>4. q \notin LineEndsOf(f, Kinds(f)) /\ q \notin Starts(Kinds(f))
    BY <2>3 DEF LineEndsOf, Starts
  <2>5. e \in h + 1 .. n + 1 /\ e - 1 = q /\ \A i \in h .. e - 1 : i = q \/ i \in h .. q - 1
    <3>1. ASSUME NEW m \in Nat, NEW x \in 1 .. m, NEW y \in x + 1 .. m
          PROVE  /\ y + 1 \in x + 1 .. m + 1 /\ (y + 1) - 1 = y
                 /\ \A i \in x .. (y + 1) - 1 : i = y \/ i \in x .. y - 1
      BY <3>1
    <3>2. q \in h + 1 .. n
      BY <1>1, <1>3, <2>1
    <3> HIDE DEF n, e
    <3>3. /\ q + 1 \in h + 1 .. n + 1 /\ (q + 1) - 1 = q
          /\ \A i \in h .. (q + 1) - 1 : i = q \/ i \in h .. q - 1
      BY <1>1, <3>1, <3>2, Zenon DEF n
    <3> QED BY <2>2, <3>3, Zenon
  <2>6. BetweenParts(f, Kinds(f), e)
    BY <2>3, <2>5, Zenon DEF BetweenParts
  <2> QED BY <1>8, <1>12, <2>4, <2>5, <2>6, Zenon DEF q
<1> QED BY <1>10, <1>11

\* Along a string, a backslash takes the next character exactly if none has
\* taken the backslash itself.
LEMMA EscapedStep ==
  ASSUME NEW start \in Nat \ {0}, NEW q \in Nat, start <= q
  PROVE  /\ ~ Escaped(start, start)
         /\ Escaped(start, q + 1) <=> src[q] = "\\" /\ ~ Escaped(start, q)
<1> DEFINE Slashes(r, x) == \A i \in r .. x - 1 : src[i] = "\\"
           Begins(r) == r = start \/ src[r - 1] # "\\"
<1>1. ~ Escaped(start, start)
  <2>1. start .. start - 1 = {}
    OBVIOUS
  <2> QED BY <2>1, Zenon DEF Escaped
<1>2. \A x : Escaped(start, x) <=> \E r \in start .. x - 1 : Slashes(r, x) /\ Begins(r) /\ (x - r) % 2 = 1
  BY Zenon DEF Escaped
<1>3. ASSUME NEW n \in Nat, (n + 1) % 2 = 1 PROVE n % 2 # 1
  BY <1>3
<1>4. ASSUME NEW n \in Nat, (n + 1) % 2 # 1 PROVE n % 2 = 1 /\ n # 0
  BY <1>4
<1>5. ASSUME Escaped(start, q + 1) PROVE src[q] = "\\" /\ ~ Escaped(start, q)
  <2>1. PICK r \in start .. (q + 1) - 1 : Slashes(r, q + 1) /\ Begins(r) /\ ((q + 1) - r) % 2 = 1
    BY <1>2, <1>5, Zenon
  <2>2. r \in start .. q /\ r \in Nat /\ (q + 1) - 1 = q /\ q - r \in Nat /\ (q + 1) - r = (q - r) + 1
    BY <2>1
  <2>3. src[q] = "\\"
    <3>1. q \in r .. (q + 1) - 1
      BY <2>2
    <3> QED BY <2>1, <3>1, Zenon
  <2>4. ASSUME Escaped(start, q) PROVE FALSE
    <3>1. PICK s \in start .. q - 1 : Slashes(s, q) /\ Begins(s) /\ (q - s) % 2 = 1
      BY <1>2, <2>4, Zenon
    <3>2. ~ (s < r)
      <4>1. SUFFICES ASSUME s < r PROVE FALSE
        OBVIOUS
      <4>2. r # start /\ r - 1 \in s .. q - 1
        BY <2>2, <3>1, <4>1
      <4> QED BY <2>1, <3>1, <4>2, Zenon
    <3>3. ~ (r < s)
      <4>1. SUFFICES ASSUME r < s PROVE FALSE
        OBVIOUS
      <4>2. s # start /\ s - 1 \in r .. (q + 1) - 1
        BY <2>2, <3>1, <4>1
      <4> QED BY <2>1, <3>1, <4>2, Zenon
    <3>4. s = r
      BY <2>2, <3>1, <3>2, <3>3
    <3>5. ((q - r) + 1) % 2 = 1 /\ (q - r) % 2 = 1
      BY <2>1, <2>2, <3>1, <3>4, Zenon
    <3> QED BY <1>3, <2>2, <3>5, Zenon
  <2> QED BY <2>3, <2>4
<1>6. ASSUME src[q] = "\\", ~ Escaped(start, q) PROVE Escaped(start, q + 1)
  <2> DEFINE R == { r \in start .. q : Slashes(r, q + 1) }
  <2>1. q \in R /\ R \subseteq Nat
    <3>1. q \in start .. q /\ q .. (q + 1) - 1 = {q}
      OBVIOUS
    <3>2. q \in R
      BY <1>6, <3>1
    <3> QED BY <3>2
  <2>2. PICK r \in R : \A s \in R : r <= s
    <3> HIDE DEF R
    <3> QED BY <2>1, LeastExists
  <2>3. r \in start .. q /\ Slashes(r, q + 1)
    OBVIOUS
  <2>4. Begins(r)
    <3>1. SUFFICES ASSUME r # start, src[r - 1] = "\\" PROVE FALSE
      OBVIOUS
    <3>2. r - 1 \in start .. q /\ ~ (r <= r - 1) /\ \A i \in (r - 1) .. (q + 1) - 1 : i = r - 1 \/ i \in r .. (q + 1) - 1
      BY <2>3, <3>1
    <3>3. Slashes(r - 1, q + 1)
      BY <2>3, <3>1, <3>2, Zenon
    <3>4. r - 1 \in R
      BY <3>2, <3>3
    <3> HIDE DEF R
    <3> QED BY <2>2, <3>2, <3>4, Zenon
  <2> HIDE DEF R
  <2>5. q - r \in Nat /\ (q + 1) - r = (q - r) + 1 /\ r \in start .. (q + 1) - 1
        /\ (q - r # 0 => r \in start .. q - 1)
    BY <2>3
  <2>6. CASE ((q + 1) - r) % 2 = 1
    BY <1>2, <2>3, <2>4, <2>5, <2>6, Zenon
  <2>7. CASE ((q + 1) - r) % 2 # 1
    <3>1. (q - r) % 2 = 1 /\ r \in start .. q - 1
      BY <1>4, <2>5, <2>7
    <3>2. Slashes(r, q)
      <4>1. \A i \in r .. q - 1 : i \in r .. (q + 1) - 1
        BY <2>3
      <4> QED BY <2>3, <4>1, Zenon
    <3>3. Escaped(start, q)
      BY <1>2, <2>4, <3>1, <3>2, Zenon
    <3> QED BY <1>6, <3>3
  <2> QED BY <2>6, <2>7
<1> QED BY <1>1, <1>5, <1>6, Zenon

\* A string, up to the character that ends it.
LEMMA StringRuns ==
  ASSUME NEW f \in Seq(Symbols), Len(f) <= BufferSize, NEW h \in 1 .. Len(f), Ahead(f, h),
         BetweenParts(f, Kinds(f), h), f[h] \in Quotes
  PROVE  LET e == StringEnd(h + 1)
         IN  /\ h \in Starts(Kinds(f)) /\ Kinds(f)[h] = "string" /\ e \in h + 1 .. Len(f) + 1
             /\ \A i \in h .. e - 1 : /\ i \in 1 .. Len(f) /\ Kinds(f)[i] \in {"string", "escape"}
                                      /\ i \notin LineEndsOf(f, Kinds(f))
                                      /\ i # h => i \notin Starts(Kinds(f))
             /\ e # Len(f) + 1 =>
                  /\ e \in 1 .. Len(f) /\ src[e] = f[e] /\ Kinds(f)[e - 1] = "string"
                  /\ f[e] \in Quotes \/ Kinds(f)[e] = "bad"
                  /\ f[e] \in Quotes => /\ Kinds(f)[e] = "blank"
                                        /\ e \notin LineEndsOf(f, Kinds(f)) /\ e \notin Starts(Kinds(f))
<1> DEFINE n == Len(f)
           kind == Kinds(f)
           start == h + 1
           e == StringEnd(start)
<1>1. /\ n \in Nat /\ n + 1 \in 1 .. Beyond /\ n <= BufferSize /\ start \in 2 .. n + 1 /\ start \in 1 .. Beyond
      /\ h \in Nat /\ h = start - 1 /\ h \in 1 .. n + 1
  <2>1. n \in Nat /\ n + 1 \in 1 .. Beyond
    BY FileIs, Zenon
  <2> QED BY <2>1, Bounds
<1>2. /\ \A i \in 1 .. n : /\ f[i] \in Symbols /\ f[i] # Nul
                           /\ kind[i - 1] \in KindNames /\ kind[i] = Kind(kind[i - 1], f[i])
      /\ kind \in [0 .. n -> KindNames]
  BY FileIs, Zenon
<1>3. (\A i \in h .. n : src[i] = f[i]) /\ (n + 1 # Beyond => src[n + 1] = Nul)
  BY <1>1, AheadIs, Zenon
<1>4. /\ e \in start .. Beyond /\ EndsString(start, e)
      /\ \A i \in start .. e - 1 : ~ EndsString(start, i)
  BY <1>1, StringEndIs, Zenon
<1>5. kind[h] = "string" /\ kind[h - 1] \in {"blank", "id"}
  <2>1. kind[h] = OutOfParts(f[h]) /\ kind[h - 1] \in {"blank", "id"}
    BY NextIs, Zenon
  <2>2. f[h] \in Symbols
    BY <1>2
  <2> QED BY <2>1, <2>2, CharacterIs
<1>6. h \in Starts(kind)
  <2>1. h \in DOMAIN kind \ {0}
    BY <1>1, <1>2
  <2> QED BY <1>5, <2>1, Zenon DEF Starts
<1> HIDE DEF e, kind, start
<1> DEFINE Inside(i) == /\ i \in 1 .. n /\ kind[i] \in {"string", "escape"}
                        /\ kind[i] = "escape" <=> Escaped(start, i + 1)
<1>7. Inside(h)
  <2>1. start \in Nat \ {0} /\ h + 1 = start
    BY <1>1
  <2>2. ~ Escaped(start, h + 1)
    <3>1. start <= start /\ start \in Nat
      BY <2>1
    <3> QED BY <2>1, <3>1, EscapedStep, Zenon
  <2> QED BY <1>5, <2>2, Zenon
\* The next character, and whether it ends the string.
<1>8. ASSUME NEW i \in start .. n, Inside(i - 1)
      PROVE  /\ EndsString(start, i) =>
                  /\ kind[i - 1] = "string"
                  /\ (f[i] \in Quotes /\ kind[i] = "blank") \/ (f[i] \notin Quotes /\ kind[i] = "bad")
             /\ ~ EndsString(start, i) => Inside(i)
  <2>1. /\ i \in 1 .. n /\ i \in h .. n /\ i # Beyond /\ (i - 1) + 1 = i /\ i \in Nat /\ start <= i
        /\ start \in Nat \ {0}
    BY <1>1, Bounds
  <2>2. /\ f[i] \in Symbols /\ f[i] # Nul /\ src[i] = f[i]
        /\ kind[i - 1] \in KindNames /\ kind[i] = Kind(kind[i - 1], f[i])
    BY <1>2, <1>3, <2>1, Zenon
  <2>3. EndsString(start, i) <=> f[i] \in Quotes \cup {Newline} /\ ~ Escaped(start, i)
    BY <2>1, <2>2, Zenon DEF EndsString
  <2>4. Escaped(start, i + 1) <=> f[i] = "\\" /\ ~ Escaped(start, i)
    BY <2>1, <2>2, EscapedStep, Zenon
  <2>5. kind[i - 1] \in {"string", "escape"} /\ (kind[i - 1] = "escape" <=> Escaped(start, i))
    BY <1>8, <2>1, Zenon
  <2> HIDE DEF Inside
  <2>6. CASE kind[i - 1] = "escape"
    <3>1. kind[i] = "string"
      BY <2>2, <2>6, KindIs, Zenon
    <3>2. ~ EndsString(start, i) /\ ~ Escaped(start, i + 1)
      BY <2>3, <2>4, <2>5, <2>6, Zenon
    <3> QED BY <2>1, <3>1, <3>2, Zenon DEF Inside
  <2>7. CASE kind[i - 1] = "string"
    <3>1. kind[i] = InString(f[i]) /\ ~ Escaped(start, i)
      <4>1. kind[i] = InString(f[i])
        BY <2>2, <2>7, KindIs, Zenon
      <4>2. kind[i - 1] # "escape"
        BY <2>7
      <4> QED BY <2>5, <4>1, <4>2, Zenon
    <3>2. CASE f[i] \in Quotes \cup {Newline}
      <4>1. EndsString(start, i)
        BY <2>3, <3>1, <3>2, Zenon
      <4>2. (f[i] \in Quotes /\ kind[i] = "blank") \/ (f[i] \notin Quotes /\ kind[i] = "bad")
        <5>1. Newline \notin Quotes
          BY DEF Newline, Quotes
        <5> QED BY <2>2, <3>1, <3>2, <5>1, CharacterIs
      <4> QED BY <2>7, <4>1, <4>2, Zenon
    <3>3. CASE f[i] \notin Quotes \cup {Newline}
      <4>1. ~ EndsString(start, i)
        BY <2>3, <3>3, Zenon
      <4>2. kind[i] \in {"string", "escape"} /\ (kind[i] = "escape" <=> f[i] = "\\")
        BY <2>2, <3>1, <3>3, CharacterIs
      <4> QED BY <2>1, <2>4, <3>1, <4>1, <4>2, Zenon DEF Inside
    <3> QED BY <3>2, <3>3
  <2> QED BY <2>5, <2>6, <2>7
<1> HIDE DEF Inside
\* It goes on to the end, which is at the latest the end of the file.
<1>9. \A i \in h .. e - 1 : Inside(i)
  <2> DEFINE wrong == { i \in h .. e - 1 : ~ Inside(i) }
  <2>1. SUFFICES ASSUME wrong # {} PROVE FALSE
    OBVIOUS
  <2>2. wrong \subseteq Nat
    BY <1>1
  <2>3. PICK m \in wrong : \A j \in wrong : m <= j
    <3> HIDE DEF wrong
    <3> QED BY <2>1, <2>2, LeastExists
  <2>4. m \in h .. e - 1 /\ ~ Inside(m)
    BY <2>3
  <2>5. m # h
    BY <1>7, <2>4
  <2>6. m \in start .. e - 1 /\ m - 1 \in h .. e - 1 /\ ~ (m <= m - 1) /\ m \in Nat
    BY <1>1, <1>4, <2>4, <2>5, Bounds
  <2>7. Inside(m - 1)
    BY <2>3, <2>6
  <2>8. ~ EndsString(start, m)
    BY <1>4, <2>6, Zenon
  <2>9. m \in start .. n
    <3>1. m - 1 \in 1 .. n
      BY <2>7, Zenon DEF Inside
    <3>2. m # n + 1
      <4>1. SUFFICES ASSUME m = n + 1 PROVE FALSE
        OBVIOUS
      <4>2. m = Beyond \/ src[m] = Nul
        BY <1>3, <4>1
      <4> QED BY <2>8, <4>2, Zenon DEF EndsString
    <3> QED BY <1>1, <2>6, <3>1, <3>2
  <2> QED BY <1>8, <2>4, <2>7, <2>8, <2>9, Zenon
<1>10. h \in h .. e - 1 /\ e - 1 \in h .. e - 1 /\ e \in Nat /\ e - 1 \in Nat /\ (e - 1) + 1 = e
  BY <1>1, <1>4, Bounds
<1>11. e \in start .. n + 1
  <2>1. e - 1 \in 1 .. n
    BY <1>9, <1>10, Zenon DEF Inside
  <2> QED BY <1>1, <1>4, <1>10, <2>1, Bounds
<1>12. \A i \in h .. e - 1 : i \in 1 .. n /\ kind[i] \in {"string", "escape"}
  BY <1>9, Zenon DEF Inside
<1>13. ASSUME NEW i \in h .. e, i # h PROVE i - 1 \in h .. e - 1 /\ kind[i - 1] \in {"string", "escape"}
  <2>1. i - 1 \in h .. e - 1
    BY <1>1, <1>10, <1>13
  <2> QED BY <1>12, <2>1, Zenon
<1>14. \A i \in h .. e : i # h => i \notin LineEndsOf(f, kind) /\ i \notin Starts(kind)
  <2>1. ASSUME NEW i \in h .. e, i # h, i \in LineEndsOf(f, kind) PROVE FALSE
    <3>1. kind[i - 1] \in {"blank", "id"} /\ kind[i - 1] \in {"string", "escape"}
      BY <1>13, <2>1, Zenon DEF LineEndsOf
    <3> QED BY <3>1
  <2>2. ASSUME NEW i \in h .. e, i # h, kind[i] \in {"string", "escape", "blank"}, i \in Starts(kind) PROVE FALSE
    <3>1. kind[i] = "string" /\ kind[i - 1] \in {"blank", "id"}
      <4>1. \/ kind[i] = "id" /\ kind[i - 1] # "id"
            \/ kind[i] = "string" /\ kind[i - 1] \in {"blank", "id"}
        BY <2>2, Zenon DEF Starts
      <4> QED BY <2>2, <4>1
    <3>2. kind[i - 1] \in {"string", "escape"}
      BY <1>13, <2>2, Zenon
    <3> QED BY <3>1, <3>2
  <2>3. ASSUME NEW i \in h .. e, i # h, i \in Starts(kind) PROVE kind[i] \in {"string", "escape", "blank"}
    <3>1. kind[i - 1] \in {"string", "escape"} /\ i \in 1 .. n
      <4>1. i \in DOMAIN kind \ {0} /\ DOMAIN kind = 0 .. n
        BY <1>2, <2>3 DEF Starts
      <4> QED BY <1>1, <1>13, <2>3, <4>1
    <3>2. \/ kind[i] = "id" /\ kind[i - 1] # "id"
          \/ kind[i] = "string" /\ kind[i - 1] \in {"blank", "id"}
      BY <2>3, Zenon DEF Starts
    <3>3. kind[i] # "id"
      <4>1. kind[i] = Kind(kind[i - 1], f[i]) /\ f[i] \in Symbols
        BY <1>2, <3>1, Zenon
      <4> QED BY <3>1, <4>1, KindIs, CharacterIs DEF KindNames
    <3> QED BY <3>2, <3>3
  <2> QED BY <2>1, <2>2, <2>3, Zenon
<1>15. h \notin LineEndsOf(f, kind)
  <2>1. f[h] # Newline
    BY DEF Newline, Quotes
  <2> QED BY <2>1, Zenon DEF LineEndsOf
<1>16. ASSUME e # n + 1
       PROVE  /\ e \in 1 .. n /\ src[e] = f[e] /\ kind[e - 1] = "string"
              /\ f[e] \in Quotes \/ kind[e] = "bad"
              /\ f[e] \in Quotes => /\ kind[e] = "blank" /\ e \notin LineEndsOf(f, kind) /\ e \notin Starts(kind)
  <2>1. e \in start .. n /\ e \in 1 .. n /\ e \in h .. n /\ e \in h .. e /\ e # h
    BY <1>1, <1>11, <1>16
  <2>2. Inside(e - 1)
    BY <1>9, <1>10, Zenon
  <2>3. /\ kind[e - 1] = "string"
        /\ (f[e] \in Quotes /\ kind[e] = "blank") \/ (f[e] \notin Quotes /\ kind[e] = "bad")
    BY <1>4, <1>8, <2>1, <2>2, Zenon
  <2> QED BY <1>3, <1>14, <2>1, <2>3, Zenon
<1>17. \A i \in h .. e - 1 : i \in h .. e
  BY <1>1, <1>10
<1>18. \A i \in h .. e - 1 : i \notin LineEndsOf(f, kind) /\ (i # h => i \notin Starts(kind))
  BY <1>14, <1>15, <1>17, Zenon
<1>19. e \in h + 1 .. n + 1
  BY <1>11, Zenon DEF start
<1> QED BY <1>5, <1>6, <1>12, <1>16, <1>18, <1>19, Zenon DEF e, kind, start

\* A string of a well-formed file ends at a quote.
LEMMA StringIs ==
  ASSUME NEW f \in Seq(Symbols), WellFormed(f), NEW h \in 1 .. Len(f), Ahead(f, h),
         BetweenParts(f, Kinds(f), h), f[h] \in Quotes
  PROVE  LET e == StringEnd(h + 1)
         IN  /\ h \in Starts(Kinds(f)) /\ e \in h + 1 .. Len(f) /\ e # Beyond
             /\ src[e] \in Quotes /\ Kinds(f)[e] = "blank"
             /\ ~ Overruns(h + 1, e)
             /\ \A i \in h .. e : i \notin LineEndsOf(f, Kinds(f))
<1> DEFINE n == Len(f)
           kind == Kinds(f)
           e == StringEnd(h + 1)
<1>1. /\ n \in Nat /\ n + 1 \in Cells /\ n <= BufferSize /\ n < BufferSize
      /\ kind[n] \in {"blank", "id", "comment"} /\ \A i \in 1 .. n : kind[i] # "bad"
  BY WellFormedIs, Zenon
<1>2. \A i \in 1 .. n : f[i] \in Symbols /\ kind[i - 1] \in KindNames /\ kind[i] = Kind(kind[i - 1], f[i])
  BY <1>1, FileIs, Zenon
<1>3. (\A i \in h .. n : src[i] = f[i])
  BY <1>1, AheadIs
<1>4. /\ h \in Starts(kind) /\ e \in h + 1 .. n + 1
      /\ \A i \in h .. e - 1 : i \in 1 .. n /\ kind[i] \in {"string", "escape"} /\ i \notin LineEndsOf(f, kind)
      /\ e # n + 1 => /\ e \in 1 .. n /\ src[e] = f[e] /\ kind[e - 1] = "string"
                      /\ f[e] \in Quotes \/ kind[e] = "bad"
                      /\ f[e] \in Quotes => kind[e] = "blank" /\ e \notin LineEndsOf(f, kind)
  BY <1>1, StringRuns, Zenon
<1> HIDE DEF e, kind
<1>5. e # n + 1
  <2>1. SUFFICES ASSUME e = n + 1 PROVE FALSE
    OBVIOUS
  <2>2. n \in h .. e - 1
    BY <1>1, <2>1
  <2> QED BY <1>1, <1>4, <2>2
<1>6. /\ e \in 1 .. n /\ src[e] = f[e] /\ kind[e - 1] = "string" /\ f[e] \in Quotes /\ kind[e] = "blank"
      /\ e \notin LineEndsOf(f, kind)
  BY <1>1, <1>4, <1>5, Zenon
<1>7. e \in h + 1 .. n /\ e # Beyond /\ \A i \in h .. e : i = e \/ i \in h .. e - 1
  BY <1>1, <1>4, <1>5, <1>6, Bounds
<1>8. ~ Overruns(h + 1, e)
  <2>1. SUFFICES ASSUME Overruns(h + 1, e) PROVE FALSE
    OBVIOUS
  <2>2. h + 1 < e /\ src[e - 1] = "\\" /\ src[(e - 1) + 1] \in DOMAIN Escapes
    BY <2>1, Zenon DEF Overruns, EscapeAt
  <2>3. /\ e - 1 \in 1 .. n /\ e - 1 \in h .. n /\ (e - 1) + 1 = e /\ (e - 1) - 1 = e - 2
        /\ e - 2 \in h .. e - 1 /\ e \in 3 .. n
    BY <1>1, <1>6, <1>7, <2>2
  <2>4. f[e] = "\""
    <3>1. f[e] \in DOMAIN Escapes
      BY <1>6, <2>2, <2>3, Zenon
    <3> QED BY <1>6, <3>1 DEF Escapes, Quotes
  <2>5. f[e - 1] = "\\"
    BY <1>3, <2>2, <2>3, Zenon
  <2>6. kind[e - 2] = "escape"
    <3>1. kind[e - 2] \in {"string", "escape"}
      BY <1>4, <2>3, Zenon
    <3>2. SUFFICES ASSUME kind[e - 2] = "string" PROVE FALSE
      BY <3>1
    <3>3. kind[e - 1] = Kind("string", f[e - 1]) /\ f[e - 1] \in Symbols
      BY <1>2, <2>3, <3>2, Zenon
    <3>4. kind[e - 1] = "escape"
      BY <2>5, <3>3, KindIs, CharacterIs DEF KindNames
    <3> QED BY <1>6, <3>4
  <2>7. ~ \E i \in 3 .. n : f[i] = "\"" /\ kind[i] = "blank" /\ f[i - 1] = "\\" /\ kind[i - 2] = "escape"
    BY Zenon DEF WellFormed, kind
  <2> QED BY <1>6, <2>3, <2>4, <2>5, <2>6, <2>7, Zenon
<1> QED BY <1>4, <1>6, <1>7, <1>8, Zenon DEF e, kind

-----------------------------------------------------------------------------
(* The steps of the parser on a well-formed file *)

\* How many parts of its line precede the place p.
PartsAt(p) == Cardinality(PartsBefore(file, Kinds(file), p))

LEMMA PartsAtIs ==
  ASSUME WellFormed(file), file \in Seq(Symbols), NEW p \in 1 .. Len(file) + 1
  PROVE  PartsAt(p) \in Nat
<1>1. Len(file) \in Nat /\ Len(file) <= BufferSize
  BY WellFormedIs, Zenon
<1>2. p .. p - 1 = {} /\ p \in p .. Len(file) + 1
  BY <1>1
<1> QED BY <1>1, <1>2, PartsGrow, Zenon DEF PartsAt

\* There is room for the parts of a line of a well-formed file, and for the
\* entry that is looked at behind the last.
LEMMA Room ==
  ASSUME WellFormed(file), file \in Seq(Symbols), NEW p \in 1 .. Len(file) + 1,
         NEW c \in Nat, c <= PartsAt(p)
  PROVE  c < PartsSize /\ 3 * c <= 2 * PartsSize - 2
<1> DEFINE m == PartsAt(p)
<1>1. m \in Nat
  BY PartsAtIs, Zenon
<1>2. m <= (2 * PartsSize - 2) \div 3
  BY Zenon DEF WellFormed, PartsAt
<1> HIDE DEF m
<1>3. m \in Nat /\ c \in Nat /\ c <= m /\ PartsSize \in Nat /\ PartsSize >= 1
  BY <1>1, Bounds DEF m
<1>4. ASSUME NEW x \in Nat, NEW d \in Nat, d <= x \div 3 PROVE 3 * d <= x
  BY <1>4
<1>5. 3 * m <= 2 * PartsSize - 2
  BY <1>2, <1>3, <1>4
<1> QED BY <1>3, <1>5

\* The state while a well-formed file is read.
LEMMA ReadingIs ==
  ASSUME IInv, WellFormed(file), Reading, pc # "done"
  PROVE  /\ file \in Seq(Symbols) /\ at \in 1 .. Len(file) + 1 /\ Len(file) + 1 \in Cells
         /\ Len(file) \in Nat /\ Len(file) <= BufferSize /\ Len(file) < BufferSize
         /\ Ahead(file, at) /\ BetweenParts(file, Kinds(file), at)
         /\ Len(parts) \in Nat /\ Len(parts) <= PartsAt(at)
         /\ damage = "none" /\ err \in {0, 991} /\ mode = "single"
         /\ src[Len(file) + 1] = Nul
<1>1. file \in Seq(Symbols) /\ Len(parts) \in Nat
  BY DEF IInv, TypeOK
<1>2. /\ Len(file) \in Nat /\ Len(file) + 1 \in Cells /\ Len(file) <= BufferSize /\ Len(file) < BufferSize
      /\ Len(file) + 1 # Beyond
  <2>1. Len(file) \in Nat /\ Len(file) + 1 \in Cells /\ Len(file) <= BufferSize /\ Len(file) < BufferSize
    BY <1>1, WellFormedIs, Zenon
  <2> QED BY <2>1, Bounds
<1>3. /\ at \in 1 .. Len(file) + 1 /\ Ahead(file, at) /\ BetweenParts(file, Kinds(file), at)
      /\ Len(parts) <= PartsAt(at) /\ damage = "none" /\ err \in {0, 991} /\ mode = "single"
  BY DEF Reading, Ahead, PartsAt
<1>4. src[Len(file) + 1] = Nul
  BY <1>1, <1>2, <1>3, AheadIs
<1> QED BY <1>1, <1>2, <1>3, <1>4

\* Where a loop of parseLine stands after the blanks.
LEMMA HereReading ==
  ASSUME IInv, WellFormed(file), Reading, pc = "line"
  PROVE  /\ here \in at .. Len(file) + 1 /\ here \in 1 .. Len(file) + 1 /\ here # Beyond
         /\ here \in Cells
         /\ Ahead(file, here) /\ BetweenParts(file, Kinds(file), here)
         /\ \A i \in at .. here - 1 : i \notin LineEndsOf(file, Kinds(file))
         /\ here # Len(file) + 1 =>
              here \in 1 .. Len(file) /\ src[here] = file[here] /\ file[here] \notin Whitespace \cup {Nul}
         /\ here = Len(file) + 1 => src[here] = Nul
<1>1. /\ file \in Seq(Symbols) /\ at \in 1 .. Len(file) + 1 /\ Len(file) + 1 \in Cells
      /\ Len(file) \in Nat /\ Len(file) <= BufferSize /\ Len(file) < BufferSize
      /\ Ahead(file, at) /\ BetweenParts(file, Kinds(file), at)
      /\ src[Len(file) + 1] = Nul
  BY ReadingIs
<1>2. /\ here \in at .. Len(file) + 1 /\ here # Beyond /\ BetweenParts(file, Kinds(file), here)
      /\ here # Len(file) + 1 => here \in 1 .. Len(file) /\ file[here] \notin Whitespace
      /\ \A i \in at .. here - 1 : i \notin LineEndsOf(file, Kinds(file))
  BY <1>1, SpacesAre, Zenon DEF here
<1>3. here \in 1 .. Len(file) + 1 /\ here \in Cells
  BY <1>1, <1>2, Bounds
<1>4. Ahead(file, here)
  <2>1. \A q \in here .. BufferSize : q \in at .. BufferSize
    BY <1>1, <1>2, Bounds
  <2> QED BY <1>1, <2>1, Zenon DEF Ahead
<1>5. here # Len(file) + 1 => src[here] = file[here] /\ file[here] # Nul
  <2>1. SUFFICES ASSUME here # Len(file) + 1 PROVE src[here] = file[here] /\ file[here] # Nul
    OBVIOUS
  <2>2. here \in here .. Len(file) /\ here \in 1 .. Len(file)
    BY <1>1, <1>2, <2>1
  <2>3. \A q \in here .. Len(file) : src[q] = file[q]
    BY <1>1, <1>3, <1>4, AheadIs, Zenon
  <2>4. file[here] # Nul
    BY <1>1, <2>2, WellFormedIs, Zenon
  <2> QED BY <2>2, <2>3, <2>4, Zenon
<1> QED BY <1>1, <1>2, <1>3, <1>4, <1>5

\* Going on in a line, with at most the parts it has so far.
LEMMA LineGoesOn ==
  ASSUME UNCHANGED file, pc' = "line", damage' = "none", err' \in {0, 991}, mode' = "single",
         at' \in 1 .. Len(file) + 1, \A p \in at' .. BufferSize : src'[p] = Padded(file)[p],
         BetweenParts(file, Kinds(file), at'), Len(parts') <= PartsAt(at')
  PROVE  WellFormedInv'
<1>1. Kinds(file)' = Kinds(file)
  BY Zenon
<1>2. pc' # "file"
  OBVIOUS
<1>3. Reading'
  BY DEF Reading, PartsAt
<1> QED BY <1>3, Zenon DEF WellFormedInv

LEMMA RunEnds ==
  ASSUME pc' = "done", damage' = "none", err' \in {0, 991}, mode' = "single"
  PROVE  WellFormedInv'
<1>1. pc' # "file"
  OBVIOUS
<1>2. Reading'
  BY <1>1, Zenon DEF Reading
<1> QED BY <1>2, Zenon DEF WellFormedInv

\* What a part and a comment do to the count.
LEMMA CountGoesOn ==
  ASSUME IInv, WellFormed(file), Reading, pc = "line",
         NEW e \in here + 1 .. Len(file) + 1,
         \A i \in here .. e - 1 : i \notin LineEndsOf(file, Kinds(file))
  PROVE  /\ e \in 1 .. Len(file) + 1 /\ Len(parts) <= PartsAt(e)
         /\ here \in Starts(Kinds(file)) =>
              /\ Len(parts) + 1 <= PartsAt(e)
              /\ Len(parts) + 1 < PartsSize /\ 3 * (Len(parts) + 1) <= 2 * PartsSize - 2
<1>1. /\ file \in Seq(Symbols) /\ at \in 1 .. Len(file) + 1 /\ Len(file) \in Nat
      /\ Len(file) <= BufferSize
      /\ Len(parts) \in Nat /\ Len(parts) <= PartsAt(at)
  BY ReadingIs
<1>2. /\ here \in at .. Len(file) + 1 /\ here \in 1 .. Len(file) + 1
      /\ \A i \in at .. here - 1 : i \notin LineEndsOf(file, Kinds(file))
  BY HereReading
<1>3. /\ e \in 1 .. Len(file) + 1 /\ e \in at .. Len(file) + 1 /\ here \in at .. e - 1
      /\ \A i \in at .. e - 1 : i \in at .. here - 1 \/ i \in here .. e - 1
  BY <1>1, <1>2
<1>4. \A i \in at .. e - 1 : i \notin LineEndsOf(file, Kinds(file))
  BY <1>2, <1>3, Zenon
<1>5. /\ PartsAt(at) \in Nat /\ PartsAt(e) \in Nat /\ PartsAt(at) <= PartsAt(e)
      /\ here \in Starts(Kinds(file)) => PartsAt(at) + 1 <= PartsAt(e)
  BY <1>1, <1>3, <1>4, PartsGrow, Zenon DEF PartsAt
<1>6. here \in Starts(Kinds(file)) => Len(parts) + 1 <= PartsAt(e)
  BY <1>1, <1>5
<1>7. Len(parts) + 1 \in Nat
  BY <1>1
<1>8. here \in Starts(Kinds(file)) =>
        Len(parts) + 1 < PartsSize /\ 3 * (Len(parts) + 1) <= 2 * PartsSize - 2
  BY <1>1, <1>3, <1>6, <1>7, Room, Zenon
<1> QED BY <1>1, <1>3, <1>5, <1>6, <1>8

\* A part for which there is room is taken.
LEMMA PartFits ==
  ASSUME parts \in Seq(Slices), damage = "none", NEW s, AddPart(s),
         Len(parts) + 1 < PartsSize, 3 * (Len(parts) + 1) <= 2 * PartsSize - 2
  PROVE  parts' = Append(parts, s) /\ Len(parts') = Len(parts) + 1
         /\ pc' = pc /\ err' = err /\ damage' = "none"
<1>1. Len(parts) \in Nat /\ PartsSize \in Nat
  BY Bounds
<1>2. ~ (PartsSize <= Len(parts) + 1) /\ EntryFits(Len(parts) + 1)
  BY <1>1 DEF EntryFits
<1>3. damage' = "none" /\ parts' = Append(parts, s) /\ pc' = pc /\ err' = err
  BY <1>2, Zenon DEF AddPart
<1>4. Len(Append(parts, s)) = Len(parts) + 1
  BY <1>1
<1> QED BY <1>3, <1>4

LEMMA IdReads ==
  ASSUME IInv, WellFormed(file), Reading, Id
  PROVE  WellFormedInv'
<1>1. /\ pc = "line" /\ ~ CurIn(LineEnds \cup Quotes \cup {"#"})
      /\ at' = PastAll(here, IdChars) /\ AddPart(slice(here, at'))
      /\ UNCHANGED <<file, src, mode, commands>>
  BY Zenon DEF Id
<1>2. /\ here # Beyond /\ here \in 1 .. Len(file) + 1
      /\ Ahead(file, here) /\ BetweenParts(file, Kinds(file), here)
      /\ here # Len(file) + 1 =>
           here \in 1 .. Len(file) /\ src[here] = file[here] /\ file[here] \notin Whitespace \cup {Nul}
      /\ here = Len(file) + 1 => src[here] = Nul
  BY <1>1, HereReading
<1>3. /\ file \in Seq(Symbols) /\ Len(file) \in Nat /\ Len(file) <= BufferSize /\ parts \in Seq(Slices) /\ damage = "none"
      /\ err \in {0, 991} /\ mode = "single" /\ Len(file) + 1 \in Cells
  BY <1>1, ReadingIs DEF IInv, TypeOK
<1>4. src[here] \notin LineEnds \cup Quotes \cup {"#"}
  BY <1>1, <1>2, Zenon DEF CurIn
<1>5. here \in 1 .. Len(file) /\ file[here] \notin Quotes \cup Whitespace \cup {Newline, "#", "illegal"}
  <2>1. here \in 1 .. Len(file) /\ file[here] \notin Quotes \cup Whitespace \cup {Newline, "#"}
    BY <1>2, <1>4 DEF LineEnds
  <2>2. file[here] \in Symbols /\ Kinds(file)[here] # "bad"
    <3>1. Len(file) <= BufferSize /\ \A i \in 1 .. Len(file) : file[i] \in Symbols
      BY <1>3, WellFormedIs, FileIs
    <3>2. \A i \in 1 .. Len(file) : Kinds(file)[i] # "bad"
      BY <1>3, WellFormedIs
    <3> QED BY <2>1, <3>1, <3>2, Zenon
  <2>3. Kinds(file)[here] = OutOfParts(file[here])
    BY <1>2, <1>3, <2>1, NextIs
  <2>4. file[here] # "illegal"
    BY <2>2, <2>3, CharacterIs, Zenon
  <2> QED BY <2>1, <2>4
<1> DEFINE e == PastAll(here, IdChars)
<1>6. /\ here \in Starts(Kinds(file)) /\ e \in here + 1 .. Len(file) + 1
      /\ BetweenParts(file, Kinds(file), e)
      /\ \A i \in here .. e - 1 : i \notin LineEndsOf(file, Kinds(file))
  BY <1>2, <1>3, <1>5, IdIs
<1> HIDE DEF e
<1>7. /\ e \in 1 .. Len(file) + 1 /\ Len(parts) + 1 <= PartsAt(e)
      /\ Len(parts) + 1 < PartsSize /\ 3 * (Len(parts) + 1) <= 2 * PartsSize - 2
  BY <1>1, <1>6, CountGoesOn, Zenon
<1>8. Len(parts') = Len(parts) + 1 /\ pc' = "line" /\ err' \in {0, 991} /\ damage' = "none"
  BY <1>1, <1>3, <1>7, PartFits
<1>9. \A p \in e .. BufferSize : src'[p] = Padded(file)[p]
  <2>1. \A p \in e .. BufferSize : p \in here .. BufferSize
    BY <1>2, <1>3, <1>6, Bounds
  <2> QED BY <1>1, <1>2, <2>1, Zenon DEF Ahead
<1>10. at' = e
  BY <1>1, Zenon DEF e
<1>11. /\ at' \in 1 .. Len(file) + 1 /\ \A p \in at' .. BufferSize : src'[p] = Padded(file)[p]
       /\ BetweenParts(file, Kinds(file), at') /\ Len(parts') <= PartsAt(at')
  BY <1>6, <1>7, <1>8, <1>9, <1>10
<1>12. UNCHANGED file /\ pc' = "line" /\ damage' = "none" /\ err' \in {0, 991} /\ mode' = "single"
  BY <1>1, <1>3, <1>8
<1> QED BY <1>11, <1>12, LineGoesOn

LEMMA CommentReads ==
  ASSUME IInv, WellFormed(file), Reading, Comment
  PROVE  WellFormedInv'
<1>1. /\ pc = "line" /\ CurIn({"#"})
      /\ at' = Over(PastAll(here + 1, Symbols \ LineEnds), {Newline})
      /\ UNCHANGED <<file, src, mode, parts, commands, err, pc, damage>>
  BY Zenon DEF Comment
<1>2. /\ here \in 1 .. Len(file) + 1
      /\ Ahead(file, here) /\ BetweenParts(file, Kinds(file), here)
      /\ here # Len(file) + 1 => here \in 1 .. Len(file) /\ src[here] = file[here]
      /\ here = Len(file) + 1 => src[here] = Nul
  BY <1>1, HereReading
<1>3. /\ file \in Seq(Symbols) /\ Len(file) \in Nat /\ Len(file) <= BufferSize /\ damage = "none"
      /\ err \in {0, 991} /\ mode = "single" /\ Len(file) + 1 \in Cells
  BY <1>1, ReadingIs
<1>4. here \in 1 .. Len(file) /\ file[here] = "#"
  <2>1. src[here] = "#" /\ "#" # Nul
    BY <1>1 DEF CurIn, Nul
  <2> QED BY <1>2, <2>1
<1> DEFINE e == Over(PastAll(here + 1, Symbols \ LineEnds), {Newline})
<1>5. /\ e \in here + 1 .. Len(file) + 1 /\ BetweenParts(file, Kinds(file), e)
      /\ \A i \in here .. e - 1 : i \notin LineEndsOf(file, Kinds(file))
  BY <1>2, <1>3, <1>4, CommentIs, Zenon
<1> HIDE DEF e
<1>6. e \in 1 .. Len(file) + 1 /\ Len(parts) <= PartsAt(e)
  BY <1>1, <1>5, CountGoesOn, Zenon
<1>7. \A p \in e .. BufferSize : src'[p] = Padded(file)[p]
  <2>1. \A p \in e .. BufferSize : p \in here .. BufferSize
    BY <1>2, <1>3, <1>5, Bounds
  <2> QED BY <1>1, <1>2, <2>1, Zenon DEF Ahead
<1>8. at' = e
  BY <1>1, Zenon DEF e
<1>9. pc' = "line" /\ damage' = "none" /\ err' \in {0, 991} /\ mode' = "single" /\ parts' = parts
  BY <1>1, <1>3
<1>10. /\ at' \in 1 .. Len(file) + 1 /\ \A p \in at' .. BufferSize : src'[p] = Padded(file)[p]
       /\ BetweenParts(file, Kinds(file), at') /\ Len(parts') <= PartsAt(at')
  <2>1. Len(parts') = Len(parts)
    BY <1>9
  <2> QED BY <1>5, <1>6, <1>7, <1>8, <2>1, Zenon
<1> QED BY <1>1, <1>9, <1>10, LineGoesOn

LEMMA StrReads ==
  ASSUME IInv, WellFormed(file), Reading, Str \/ StrOverruns
  PROVE  WellFormedInv'
<1>1. pc = "line" /\ CurIn(Quotes)
  BY Zenon DEF Str, StrOverruns
<1>2. /\ here \in 1 .. Len(file) + 1 /\ here # Beyond
      /\ Ahead(file, here) /\ BetweenParts(file, Kinds(file), here)
      /\ here # Len(file) + 1 => here \in 1 .. Len(file) /\ src[here] = file[here]
      /\ here = Len(file) + 1 => src[here] = Nul
  BY <1>1, HereReading
<1>3. /\ file \in Seq(Symbols) /\ Len(file) \in Nat /\ parts \in Seq(Slices) /\ damage = "none"
      /\ err \in {0, 991} /\ mode = "single" /\ Len(file) + 1 \in Cells
      /\ src \in [Cells -> Symbols \cup {Nul}]
  BY <1>1, ReadingIs DEF IInv, TypeOK
<1>4. here \in 1 .. Len(file) /\ file[here] \in Quotes
  <2>1. src[here] \in Quotes /\ Nul \notin Quotes
    BY <1>1 DEF CurIn, Nul, Quotes
  <2> QED BY <1>2, <2>1
<1> DEFINE start == here + 1
           e     == StringEnd(start)
           text  == shrinkConv(start, e)
           Text(p) == p \in start .. start + Len(text) - 1
<1>5. /\ here \in Starts(Kinds(file)) /\ e \in here + 1 .. Len(file) /\ src[e] \in Quotes
      /\ Kinds(file)[e] = "blank" /\ ~ Overruns(start, e)
      /\ \A i \in here .. e : i \notin LineEndsOf(file, Kinds(file))
  BY <1>2, <1>3, <1>4, StringIs
<1>6. /\ src' = [p \in Cells |-> IF Text(p) THEN text[p - start + 1] ELSE src[p]]
      /\ at' = e + 1 /\ AddPart(slice(start, start + Len(text)))
      /\ UNCHANGED <<file, mode, commands>>
  <2>1. Str
    BY <1>5, Zenon DEF StrOverruns
  <2> QED BY <1>5, <2>1 DEF Str
<1>7. start \in Cells /\ e \in start .. BufferSize /\ e \in Nat
  <2> HIDE DEF e
  <2> QED BY <1>3, <1>4, <1>5, Bounds
<1>8. Len(text) \in 0 .. e - start
  BY <1>3, <1>7, ShrunkIs, Zenon
<1> HIDE DEF e, text
<1>9. /\ e + 1 \in here + 1 .. Len(file) + 1 /\ (e + 1) - 1 = e /\ e + 1 # 0
  BY <1>3, <1>4, <1>5
<1>10. BetweenParts(file, Kinds(file), e + 1)
  BY <1>5, <1>9, Zenon DEF BetweenParts
<1>11. /\ e + 1 \in 1 .. Len(file) + 1 /\ Len(parts) + 1 <= PartsAt(e + 1)
       /\ Len(parts) + 1 < PartsSize /\ 3 * (Len(parts) + 1) <= 2 * PartsSize - 2
  BY <1>1, <1>5, <1>9, CountGoesOn, Zenon
<1>12. Len(parts') = Len(parts) + 1 /\ pc' = "line" /\ err' \in {0, 991} /\ damage' = "none"
  BY <1>1, <1>3, <1>6, <1>11, PartFits
<1>13. ASSUME NEW p \in e + 1 .. BufferSize PROVE src'[p] = Padded(file)[p]
  <2>1. p \in Cells /\ p \in here .. BufferSize /\ ~ Text(p)
    BY <1>3, <1>4, <1>7, <1>8, Bounds
  <2> HIDE DEF Text
  <2>2. src'[p] = src[p]
    BY <1>6, <2>1, Zenon
  <2> QED BY <1>2, <2>1, <2>2, Zenon DEF Ahead
<1>14. /\ at' \in 1 .. Len(file) + 1 /\ \A p \in at' .. BufferSize : src'[p] = Padded(file)[p]
       /\ BetweenParts(file, Kinds(file), at') /\ Len(parts') <= PartsAt(at')
  <2>1. \A p \in e + 1 .. BufferSize : src'[p] = Padded(file)[p]
    BY <1>13
  <2>2. Len(parts') <= PartsAt(e + 1)
    BY <1>11, <1>12
  <2>3. at' = e + 1
    BY <1>6, Zenon
  <2> HIDE DEF Text
  <2> QED BY <1>10, <1>11, <2>1, <2>2, <2>3
<1>15. UNCHANGED file /\ mode' = "single"
  BY <1>3, <1>6
<1> QED BY <1>12, <1>14, <1>15, LineGoesOn

\* A newline between parts ends a line.
LEMMA NewlineEnds ==
  ASSUME file \in Seq(Symbols), Len(file) <= BufferSize, NEW p \in 1 .. Len(file),
         BetweenParts(file, Kinds(file), p), file[p] = Newline
  PROVE  p \in LineEndsOf(file, Kinds(file)) /\ Kinds(file)[p] = "blank"
<1>1. /\ Len(file) \in Nat /\ Kinds(file)[p] = Kind(Kinds(file)[p - 1], Newline)
  BY FileIs
<1>2. p # Len(file) + 1 /\ "comment" # "blank"
  BY <1>1
<1>3. Kinds(file)[p - 1] \in {"blank", "id"}
  BY <1>2, Zenon DEF BetweenParts
<1>4. Newline \notin IdChars /\ OutOfParts(Newline) = "blank"
  <2>1. Newline \in Symbols /\ Newline \in Whitespace \cup {Newline}
    BY DEF Symbols
  <2>2. Newline \notin IdChars
    BY DEF IdChars, Alnum, Newline
  <2> QED BY <2>1, <2>2, CharacterIs
<1>5. Kinds(file)[p] = "blank"
  BY <1>1, <1>3, <1>4 DEF Kind
<1> QED BY <1>3, <1>5 DEF LineEndsOf

\* The next line begins where one has ended.
LEMMA LineEnded ==
  ASSUME file \in Seq(Symbols), WellFormed(file),
         UNCHANGED file, pc' = "file", damage' = "none", err' \in {0, 991}, mode' = "single",
         at' \in 1 .. Len(file) + 1, \A p \in at' .. BufferSize : src'[p] = Padded(file)[p],
         BetweenParts(file, Kinds(file), at'), parts' = <<>>,
         at' = Len(file) + 1 \/ at' - 1 \in LineEndsOf(file, Kinds(file))
  PROVE  WellFormedInv'
<1>1. Kinds(file)' = Kinds(file)
  BY Zenon
<1>2. PartsAt(at') \in Nat
  BY PartsAtIs
<1>3. Len(parts') <= PartsAt(at')
  BY <1>2
<1>4. Reading'
  BY <1>1, <1>3 DEF Reading, PartsAt
<1> QED BY <1>4, Zenon DEF WellFormedInv

\* The end of the last line of a file is the end of the file, any other is a
\* newline; an empty line behind it goes with it.
LEMMA LineEndReads ==
  ASSUME IInv, WellFormed(file), Reading, EndOfLine
  PROVE  WellFormedInv'
<1>1. /\ pc = "line" /\ CurIn(LineEnds) /\ AppendCommand
      /\ at' = Over(nextChar(here), {Newline}) /\ pc' = "file"
      /\ UNCHANGED <<file, mode, err, damage>>
  BY Zenon DEF EndOfLine
<1>2. /\ here \in at .. Len(file) + 1 /\ here \in 1 .. Len(file) + 1 /\ here # Beyond
      /\ Ahead(file, here) /\ BetweenParts(file, Kinds(file), here)
      /\ here # Len(file) + 1 =>
           here \in 1 .. Len(file) /\ src[here] = file[here] /\ file[here] # Nul
      /\ here = Len(file) + 1 => src[here] = Nul
  BY <1>1, HereReading
<1>3. /\ file \in Seq(Symbols) /\ Len(file) \in Nat /\ Len(file) <= BufferSize /\ damage = "none" /\ at \in 1 .. Len(file) + 1
      /\ err \in {0, 991} /\ mode = "single" /\ Len(file) + 1 \in Cells
      /\ TypeOK /\ PartsBehind
  BY <1>1, ReadingIs DEF IInv
<1>4. /\ parts' = <<>> /\ \A p \in Cells : src'[p] = src[p] \/ (src'[p] = Nul /\ p <= at)
  BY <1>1, <1>3, AppendKeeps
<1>5. /\ UNCHANGED file /\ pc' = "file" /\ damage' = "none" /\ err' \in {0, 991}
      /\ mode' = "single" /\ parts' = <<>>
  BY <1>1, <1>3, <1>4
<1>6. CASE here = Len(file) + 1
  <2>1. nextChar(here) = here /\ Over(here, {Newline}) = here
    BY <1>2, <1>6 DEF nextChar, Over, Nul, Newline
  <2>2. at' = Len(file) + 1
    BY <1>1, <1>6, <2>1
  <2>3. \A p \in at' .. BufferSize : src'[p] = Padded(file)[p]
    <3>1. SUFFICES ASSUME NEW p \in Len(file) + 1 .. BufferSize PROVE src'[p] = Padded(file)[p]
      BY <2>2
    <3>2. p \in Cells /\ p \in here .. BufferSize /\ ~ (p <= Len(file))
      BY <1>3, <1>6, Bounds
    <3>3. Padded(file)[p] = Nul
      BY <3>2 DEF Padded
    <3>4. src[p] = Padded(file)[p]
      BY <1>2, <3>2, Zenon DEF Ahead
    <3> QED BY <1>4, <3>2, <3>3, <3>4, Zenon
  <2>4. BetweenParts(file, Kinds(file), at') /\ at' \in 1 .. Len(file) + 1
    BY <1>2, <1>3, <1>6, <2>2, Zenon
  <2> QED BY <1>3, <1>5, <2>2, <2>3, <2>4, LineEnded
<1>7. CASE here # Len(file) + 1
  <2>1. here \in 1 .. Len(file) /\ file[here] = Newline /\ src[here] = Newline /\ Newline # Nul
    BY <1>1, <1>2, <1>7 DEF CurIn, LineEnds, Nul, Newline
  <2>2. here \in LineEndsOf(file, Kinds(file)) /\ Kinds(file)[here] = "blank"
    BY <1>2, <1>3, <2>1, NewlineEnds
  <2>3. nextChar(here) = here + 1
    BY <2>1, Zenon DEF nextChar
  <2>4. /\ here + 1 \in 1 .. Len(file) + 1 /\ here + 1 # Beyond /\ here + 1 \in Cells
        /\ (here + 1) - 1 = here /\ here + 1 > at
    BY <1>2, <1>3, <2>1, Bounds
  <2>5. \A p \in here + 1 .. BufferSize : src'[p] = Padded(file)[p]
    <3>1. SUFFICES ASSUME NEW p \in here + 1 .. BufferSize PROVE src'[p] = Padded(file)[p]
      OBVIOUS
    <3>2. p \in Cells /\ p \in here .. BufferSize /\ ~ (p <= at)
      BY <1>2, <1>3, <2>1, <2>4, Bounds
    <3> QED BY <1>2, <1>4, <3>2, Zenon DEF Ahead
  <2>6. CASE src[here + 1] # Newline
    <3>1. at' = here + 1
      BY <1>1, <2>3, <2>6 DEF Over
    <3>2. BetweenParts(file, Kinds(file), here + 1)
      BY <2>2, <2>4, Zenon DEF BetweenParts
    <3>3. /\ at' \in 1 .. Len(file) + 1 /\ \A p \in at' .. BufferSize : src'[p] = Padded(file)[p]
          /\ BetweenParts(file, Kinds(file), at') /\ at' - 1 \in LineEndsOf(file, Kinds(file))
      BY <2>2, <2>4, <2>5, <3>1, <3>2, Zenon
    <3> QED BY <1>3, <1>5, <3>3, LineEnded
  <2>7. CASE src[here + 1] = Newline
    <3>1. at' = (here + 1) + 1
      BY <1>1, <2>3, <2>4, <2>7 DEF Over
    <3>2. here + 1 \in here .. BufferSize
      BY <2>1, <2>4, Bounds
    <3>3. Padded(file)[here + 1] = Newline
      BY <1>2, <2>7, <3>2, Zenon DEF Ahead
    <3>4. here + 1 \in 1 .. Len(file) /\ file[here + 1] = Newline
      BY <1>3, <2>1, <2>4, <3>3 DEF Padded, Nul, Newline
    <3>5. BetweenParts(file, Kinds(file), here + 1)
      BY <2>2, <2>4, Zenon DEF BetweenParts
    <3>6. here + 1 \in LineEndsOf(file, Kinds(file)) /\ Kinds(file)[here + 1] = "blank"
      BY <1>3, <3>4, <3>5, NewlineEnds
    <3>7. /\ at' \in 1 .. Len(file) + 1 /\ at' - 1 = here + 1
          /\ \A p \in at' .. BufferSize : p \in here + 1 .. BufferSize
      BY <1>3, <2>1, <3>1, <3>4, Bounds
    <3>8. BetweenParts(file, Kinds(file), at')
      BY <3>6, <3>7, Zenon DEF BetweenParts
    <3>9. \A p \in at' .. BufferSize : src'[p] = Padded(file)[p]
      BY <2>5, <3>7, Zenon
    <3>10. at' - 1 \in LineEndsOf(file, Kinds(file))
      BY <3>6, <3>7, Zenon
    <3>11. at' \in 1 .. Len(file) + 1
      BY <3>7, Zenon
    <3> QED BY <1>3, <1>5, <3>8, <3>9, <3>10, <3>11, LineEnded
  <2> QED BY <2>6, <2>7
<1> QED BY <1>6, <1>7

\* The steps that end a run refuse a well-formed file for want of memory only.
LEMMA ReadingEnds ==
  ASSUME IInv, WellFormed(file), Reading,
         NoContext \/ EndOfFile \/ EndOfLineFails
  PROVE  WellFormedInv'
<1>1. /\ pc # "done" /\ pc' = "done" /\ (err' = err \/ err' = 991)
      /\ UNCHANGED <<mode, damage>>
  <2>1. CASE NoContext \/ EndOfFile
    BY <2>1 DEF NoContext, EndOfFile, Fail
  <2>2. CASE EndOfLineFails
    BY <2>2 DEF EndOfLineFails, Fail
  <2> QED BY <2>1, <2>2
<1>2. damage = "none" /\ err \in {0, 991} /\ mode = "single"
  BY <1>1, ReadingIs
<1>3. pc' = "done" /\ damage' = "none" /\ err' \in {0, 991} /\ mode' = "single"
  BY <1>1, <1>2
<1> QED BY <1>3, RunEnds, Zenon

\* A line begins where the last has ended.
LEMMA LineBegins ==
  ASSUME IInv, WellFormed(file), Reading, BeginLine
  PROVE  WellFormedInv'
<1>1. /\ pc = "file" /\ pc' = "line"
      /\ UNCHANGED <<file, src, at, mode, parts, err, damage>>
  BY Zenon DEF BeginLine
<1>2. /\ at \in 1 .. Len(file) + 1 /\ Ahead(file, at) /\ BetweenParts(file, Kinds(file), at)
      /\ Len(parts) <= PartsAt(at)
      /\ damage = "none" /\ err \in {0, 991} /\ mode = "single"
  BY <1>1, ReadingIs
<1>3. /\ at' \in 1 .. Len(file) + 1 /\ \A p \in at' .. BufferSize : src'[p] = Padded(file)[p]
      /\ BetweenParts(file, Kinds(file), at') /\ Len(parts') <= PartsAt(at')
  BY <1>1, <1>2 DEF Ahead
<1>4. UNCHANGED file /\ pc' = "line" /\ damage' = "none" /\ err' \in {0, 991} /\ mode' = "single"
  BY <1>1, <1>2
<1> QED BY <1>3, <1>4, LineGoesOn

\* What a well-formed file never comes to: a directive, the end of the buffer,
\* a part behind the room for parts, an escape across the end of its string.
LEMMA NoDirective ==
  ASSUME IInv, WellFormed(file), Reading
  PROVE  ~ AtQuesMark
<1> SUFFICES ASSUME AtQuesMark PROVE FALSE
  OBVIOUS
<1>1. pc = "file" /\ src[at] = "?" /\ "?" # Nul
  BY DEF AtQuesMark, Nul
<1>2. /\ file \in Seq(Symbols) /\ at \in 1 .. Len(file) + 1 /\ Len(file) \in Nat
      /\ Len(file) <= BufferSize
      /\ Ahead(file, at) /\ src[Len(file) + 1] = Nul
  BY <1>1, ReadingIs
<1>3. at = Len(file) + 1 \/ at - 1 \in LineEndsOf(file, Kinds(file)) \cup {0}
  BY <1>1 DEF Reading
<1>4. at # Len(file) + 1
  BY <1>1, <1>2
<1>5. at \in 1 .. Len(file) /\ at \in at .. Len(file)
  BY <1>2, <1>4
<1>6. file[at] = "?"
  BY <1>1, <1>2, <1>5, AheadIs
<1>7. at \in Directives(file, Kinds(file))
  BY <1>3, <1>4, <1>5, <1>6, Zenon DEF Directives
<1> QED BY <1>7, Zenon DEF WellFormed

LEMMA NotBeyond ==
  ASSUME IInv, WellFormed(file), Reading
  PROVE  ~ ReadBeyond
<1>1. ~ AtQuesMark
  BY NoDirective, Zenon
<1>2. ASSUME pc = "file" PROVE at # Beyond
  <2>1. at \in 1 .. Len(file) + 1 /\ Len(file) + 1 \in Cells
    BY <1>2, ReadingIs
  <2> QED BY <2>1, Bounds
<1>3. ASSUME pc = "line" PROVE here # Beyond
  BY <1>3, HereReading, Zenon
<1>4. ASSUME pc = "line", CurIn(Quotes) PROVE StringEnd(here + 1) # Beyond
  <2>1. /\ file \in Seq(Symbols)
        /\ here \in 1 .. Len(file) + 1 /\ Ahead(file, here) /\ BetweenParts(file, Kinds(file), here)
        /\ here # Len(file) + 1 => here \in 1 .. Len(file) /\ src[here] = file[here]
        /\ here = Len(file) + 1 => src[here] = Nul
    BY <1>4, ReadingIs, HereReading
  <2>2. here \in 1 .. Len(file) /\ file[here] \in Quotes
    <3>1. src[here] \in Quotes /\ Nul \notin Quotes
      BY <1>4 DEF CurIn, Nul, Quotes
    <3> QED BY <2>1, <3>1
  <2> QED BY <2>1, <2>2, StringIs
<1> QED BY <1>1, <1>2, <1>3, <1>4, Zenon DEF ReadBeyond

LEMMA NoOverrun ==
  ASSUME IInv, WellFormed(file), Reading, pc = "line"
  PROVE  ~ CountLeavesBlock
<1>1. /\ file \in Seq(Symbols) /\ at \in 1 .. Len(file) + 1
      /\ Len(parts) \in Nat /\ Len(parts) <= PartsAt(at)
  BY ReadingIs
<1>2. 3 * Len(parts) <= 2 * PartsSize - 2
  BY <1>1, Room
<1>3. SliceFits(Len(parts) + 1)
  BY <1>1, <1>2, Bounds DEF SliceFits
<1> QED BY <1>3 DEF CountLeavesBlock

-----------------------------------------------------------------------------
(* The theorem on well-formed files *)

LEMMA InitReading == Init => WellFormedInv
<1> SUFFICES ASSUME Init, WellFormed(file) PROVE Reading
  BY DEF WellFormedInv
<1>1. /\ file \in Seq(Symbols) /\ src = Padded(file) /\ at = 1 /\ mode = "single"
      /\ parts = <<>> /\ err = 0 /\ pc = "file" /\ damage = "none"
  BY Pl2ParserAssumption DEF Init
<1>2. Len(file) \in Nat /\ Kinds(file)[0] = "blank"
  BY <1>1, WellFormedIs, FileIs, Zenon
<1>3. 1 \in 1 .. Len(file) + 1 /\ 1 - 1 = 0
  BY <1>2
<1>4. PartsAt(1) \in Nat
  BY <1>1, <1>3, PartsAtIs
<1>5. Len(parts) <= PartsAt(at)
  BY <1>1, <1>4
<1>6. BetweenParts(file, Kinds(file), at)
  BY <1>1, <1>2, <1>3 DEF BetweenParts
<1> QED BY <1>1, <1>3, <1>5, <1>6 DEF Reading, PartsAt

LEMMA NextReading == IInv /\ WellFormedInv /\ [Next]_vars => WellFormedInv'
<1> SUFFICES ASSUME IInv, WellFormedInv, [Next]_vars PROVE WellFormedInv'
  OBVIOUS
<1>1. \/ NoContext \/ EndOfFile \/ BeginLine \/ ReadBeyond \/ QuesAlone
      \/ EndOfLineOverruns \/ StrOverruns \/ UNCHANGED vars
      \/ EndOfLineFails \/ EndOfLineInBlock \/ Comment
      \/ QuesBegin \/ QuesEnd \/ QuesUnknown \/ EndOfLine \/ Id \/ Str
  BY StepsAre, Zenon DEF StandingSteps, LineSteps, QuesSteps
<1>2. file' = file
  <2>1. CASE \/ NoContext \/ EndOfFile \/ BeginLine
             \/ EndOfLineFails \/ EndOfLineInBlock \/ Comment
    BY <2>1, Zenon DEF NoContext, EndOfFile, BeginLine, EndOfLineFails, EndOfLineInBlock, Comment
  <2>2. CASE ReadBeyond \/ QuesAlone \/ EndOfLineOverruns \/ StrOverruns \/ UNCHANGED vars
    BY <2>2, Zenon DEF ReadBeyond, QuesAlone, EndOfLineOverruns, StrOverruns, Undefined, vars
  <2>3. CASE QuesBegin \/ QuesEnd \/ QuesUnknown \/ EndOfLine \/ Id \/ Str
    BY <2>3, Zenon DEF QuesBegin, QuesEnd, QuesUnknown, QuesMark, EndOfLine, Id, Str
  <2> QED BY <1>1, <2>1, <2>2, <2>3, Zenon
<1>3. WellFormed(file)' = WellFormed(file)
  BY <1>2, Zenon
<1>4. CASE ~ WellFormed(file)
  BY <1>3, <1>4, Zenon DEF WellFormedInv
<1>5. CASE WellFormed(file)
  <2>1. Reading
    BY <1>5, Zenon DEF WellFormedInv
  <2>2. ~ AtQuesMark /\ ~ ReadBeyond
    BY <1>5, <2>1, NoDirective, NotBeyond, Zenon
  <2>3. ~ QuesAlone /\ ~ QuesBegin /\ ~ QuesEnd /\ ~ QuesUnknown
    BY <2>2, Zenon DEF QuesAlone, QuesBegin, QuesEnd, QuesUnknown, QuesMark
  <2>4. ~ EndOfLineInBlock
    <3>1. SUFFICES ASSUME EndOfLineInBlock PROVE FALSE
      OBVIOUS
    <3>2. pc = "line" /\ mode = "multi"
      BY <3>1, Zenon DEF EndOfLineInBlock
    <3>3. mode = "single"
      BY <2>1, Zenon DEF Reading
    <3> QED BY <3>2, <3>3
  <2>5. ~ EndOfLineOverruns
    BY <1>5, <2>1, NoOverrun, Zenon DEF EndOfLineOverruns
  <2>6. CASE UNCHANGED vars
    <3>1. UNCHANGED <<file, src, at, mode, parts, err, pc, damage>>
      BY <2>6 DEF vars
    <3>2. Reading'
      BY <2>1, <3>1 DEF Reading
    <3> QED BY <3>2, Zenon DEF WellFormedInv
  <2> QED BY <1>1, <1>5, <2>1, <2>2, <2>3, <2>4, <2>5, <2>6, ReadingEnds, LineBegins,
          LineEndReads, IdReads, CommentReads, StrReads, Zenon
<1> QED BY <1>4, <1>5

\* A file that leaves room for a terminator, closes its strings, none of them
\* with an escaped backslash, has no directive and not too many parts in a
\* command is read without undefined behaviour, and refused only for want of
\* memory (pl2b.c:210-234, 353-358, 393-394, 489-510).
THEOREM ReadsWellFormed == Spec => []WellFormedIsRead
<1>1. WellFormedInv => WellFormedIsRead
  BY DEF WellFormedInv, WellFormedIsRead, Reading
<1>2. Spec => []WellFormedInv
  BY InitReading, NextReading, Invariance, PTL DEF Spec
<1> QED BY <1>1, <1>2, PTL

-----------------------------------------------------------------------------
(* Parts and texts that were taken *)

\* The first terminator from p on, in the text s.
FirstNul(s, p) ==
  CHOOSE q \in p .. Beyond : (q = Beyond \/ s[q] = Nul) /\ \A i \in p .. q - 1 : s[i] # Nul

LEMMA FirstNulIs ==
  ASSUME NEW s, NEW p \in Cells, NEW e \in p .. BufferSize,
         s[e] = Nul, \A i \in p .. e - 1 : s[i] # Nul
  PROVE  FirstNul(s, p) = e
<1> DEFINE Here(q) == (q = Beyond \/ s[q] = Nul) /\ \A i \in p .. q - 1 : s[i] # Nul
<1>1. e \in p .. Beyond /\ Here(e)
  BY Bounds
<1>2. ASSUME NEW q \in p .. Beyond, Here(q) PROVE q = e
  <2>1. ~ (q < e)
    <3>1. SUFFICES ASSUME q < e PROVE FALSE
      OBVIOUS
    <3>2. q \in p .. e - 1 /\ q # Beyond
      BY <3>1, Bounds
    <3> QED BY <1>2, <3>2
  <2>2. ~ (e < q)
    <3>1. SUFFICES ASSUME e < q PROVE FALSE
      OBVIOUS
    <3>2. e \in p .. q - 1
      BY <3>1, Bounds
    <3> QED BY <1>2, <3>2
  <2> QED BY <2>1, <2>2, Bounds
<1> HIDE DEF Here
<1>3. FirstNul(s, p) = CHOOSE q \in p .. Beyond : Here(q)
  BY Zenon DEF FirstNul, Here
<1> QED BY <1>1, <1>2, <1>3, Zenon

\* Two texts that agree up to the terminator hold the same string.
LEMMA SameText ==
  ASSUME NEW s \in [Cells -> Symbols \cup {Nul}], NEW t \in [Cells -> Symbols \cup {Nul}],
         NEW p \in Cells, NEW b \in p .. BufferSize, s[b] = Nul,
         \A e \in p .. b : (\A i \in p .. e - 1 : s[i] # Nul) => t[e] = s[e]
  PROVE  SubSeq(t, p, FirstNul(t, p) - 1) = SubSeq(s, p, FirstNul(s, p) - 1)
<1> DEFINE Ends == { q \in p .. b : s[q] = Nul }
<1>1. Ends \subseteq Nat /\ b \in Ends
  BY Bounds
<1>2. PICK e \in Ends : \A i \in Ends : e <= i
  <2> HIDE DEF Ends
  <2> QED BY <1>1, LeastExists
<1>3. e \in p .. b /\ s[e] = Nul /\ e \in p .. BufferSize
  BY Bounds
<1>4. \A i \in p .. e - 1 : s[i] # Nul
  <2> TAKE i \in p .. e - 1
  <2>1. i \in p .. b /\ ~ (e <= i)
    BY <1>3, Bounds
  <2> QED BY <1>2, <2>1
<1> HIDE DEF Ends
<1>5. ASSUME NEW x \in p .. e PROVE t[x] = s[x]
  <2>1. x \in p .. b /\ \A i \in p .. x - 1 : i \in p .. e - 1
    BY <1>3, Bounds
  <2> QED BY <1>4, <2>1, Zenon
<1>6. e \in p .. e
  BY <1>3, Bounds
<1>7. FirstNul(s, p) = e
  BY <1>3, <1>4, FirstNulIs, Zenon
<1>8. FirstNul(t, p) = e
  <2>1. t[e] = Nul
    BY <1>3, <1>5, <1>6, Zenon
  <2>2. \A i \in p .. e - 1 : i \in p .. e
    BY <1>3, Bounds
  <2>3. \A i \in p .. e - 1 : t[i] # Nul
    BY <1>4, <1>5, <2>2, Zenon
  <2> QED BY <1>3, <2>1, <2>3, FirstNulIs, Zenon
<1>9. SubSeq(t, p, e - 1) = SubSeq(s, p, e - 1)
  <2>1. p \in 1 .. BufferSize + 1 /\ e - 1 \in p - 1 .. BufferSize /\ BufferSize \in Nat
    BY <1>3, Bounds
  <2>2. \A x \in p .. e - 1 : t[x] = s[x]
    BY <1>3, <1>5, Bounds
  <2>3. /\ s \in Seq(Symbols \cup {Nul}) /\ t \in Seq(Symbols \cup {Nul})
        /\ Len(s) = BufferSize /\ Len(t) = BufferSize
    BY Bounds
  <2> QED BY <2>1, <2>2, <2>3
<1> QED BY <1>7, <1>8, <1>9, Zenon

LEMMA NullIs == NullSlice \in Slices /\ isNullSlice(NullSlice)
BY DEF Slices, NullSlice, isNullSlice

\* The parts of a line are places in the text, in the order they stand there.
LEMMA PartIs ==
  ASSUME TypeOK, PartsBehind, NEW k \in DOMAIN parts
  PROVE  /\ parts[k] \in Slices /\ parts[k].to \in Nat /\ parts[k].from \in Nat
         /\ parts[k].to <= at
         /\ ~ isNullSlice(parts[k]) =>
              parts[k].from \in Cells /\ parts[k].to \in 2 .. Beyond /\ parts[k].from < parts[k].to
         /\ isNullSlice(parts[k]) => parts[k].from = parts[k].to
<1>1. parts[k] \in Slices
  BY DEF TypeOK
<1>2. parts[k].to <= at
  BY Zenon DEF PartsBehind
<1> QED BY <1>1, <1>2, Bounds DEF Slices, NullSlice, isNullSlice

\* p is the end of a part of the line.
EndsPart(p) == \E k \in DOMAIN parts : ~ isNullSlice(parts[k]) /\ parts[k].to = p

\* A step that writes only what is ahead of the parser, or terminates parts.
WritesAhead ==
  /\ src' \in [Cells -> Symbols \cup {Nul}]
  /\ \A p \in Cells : src'[p] = src[p] \/ at < p \/ (src'[p] = Nul /\ EndsPart(p))

LEMMA PartsRemain ==
  ASSUME TypeOK, PartsBehind, PartsApart, WritesAhead,
         NEW k \in DOMAIN parts, NEW p \in parts[k].from .. parts[k].to - 1
  PROVE  src'[p] = src[p]
<1>1. parts \in Seq(Slices) /\ DOMAIN parts \subseteq Nat /\ at \in 1 .. Beyond
  BY DEF TypeOK
<1>2. ~ isNullSlice(parts[k]) /\ parts[k].to \in Nat /\ parts[k].from \in Cells /\ parts[k].to <= at
  BY PartIs
<1>3. p \in Cells /\ ~ (at < p) /\ p < parts[k].to /\ parts[k].from <= p
  BY <1>1, <1>2, Bounds
<1>4. ASSUME NEW m \in DOMAIN parts, ~ isNullSlice(parts[m]), parts[m].to = p PROVE FALSE
  <2>1. /\ m \in Nat /\ k \in Nat /\ parts[m].from \in Cells /\ parts[m].from < parts[m].to
        /\ m < k => parts[m].to < parts[k].from
        /\ k < m => parts[k].to < parts[m].from
    BY <1>1, <1>2, <1>4, PartIs DEF PartsApart
  <2>2. CASE m = k
    BY <1>2, <1>3, <1>4, <2>2, Bounds
  <2>3. CASE m < k
    BY <1>2, <1>3, <1>4, <2>1, <2>3, Bounds
  <2>4. CASE k < m
    BY <1>2, <1>3, <1>4, <2>1, <2>4, Bounds
  <2> QED BY <2>1, <2>2, <2>3, <2>4
<1> QED BY <1>3, <1>4, Zenon DEF WritesAhead, EndsPart

LEMMA TextRemains ==
  ASSUME TypeOK, WritesAhead, NEW c \in Cells, Ended(c, at),
         \A k \in DOMAIN parts : isNullSlice(parts[k]) \/ Ended(c, parts[k].to)
  PROVE  SubSeq(src', c, FirstNul(src', c) - 1) = SubSeq(src, c, FirstNul(src, c) - 1)
<1>1. src \in [Cells -> Symbols \cup {Nul}] /\ src' \in [Cells -> Symbols \cup {Nul}] /\ at \in 1 .. Beyond
  BY DEF TypeOK, WritesAhead
<1>2. PICK b \in c .. at : b # Beyond /\ src[b] = Nul
  BY Zenon DEF Ended
<1>3. b \in c .. BufferSize /\ b <= at
  BY <1>1, <1>2, Bounds
<1>4. ASSUME NEW e \in c .. b, \A i \in c .. e - 1 : src[i] # Nul PROVE src'[e] = src[e]
  <2>1. e \in Cells /\ ~ (at < e)
    BY <1>1, <1>3, Bounds
  <2>2. ASSUME NEW k \in DOMAIN parts, ~ isNullSlice(parts[k]), parts[k].to = e PROVE src[e] = Nul
    <3>1. PICK q \in c .. e : src[q] = Nul
      BY <2>2, Zenon DEF Ended
    <3>2. q = e \/ q \in c .. e - 1
      BY <1>3, Bounds
    <3> QED BY <1>4, <3>1, <3>2, Zenon
  <2> QED BY <2>1, <2>2, Zenon DEF WritesAhead, EndsPart
<1> QED BY <1>1, <1>2, <1>3, <1>4, SameText, Zenon

\* Such a step keeps every part and every text.
LEMMA StepKeeps ==
  ASSUME TypeOK, PartsBehind, TextsInv, WritesAhead,
         \A i \in DOMAIN commands : commands'[i] = commands[i]
  PROVE  KeepsTexts
<1>1. PartsApart /\ TextsEnded
  BY DEF TextsInv
<1>2. ASSUME NEW i \in DOMAIN commands, NEW j \in DOMAIN commands[i]
      PROVE  TextAt(commands[i][j])' = TextAt(commands[i][j])
  <2>1. PICK c \in Cells : c = commands[i][j]
    BY DEF TypeOK
  <2>2. Ended(c, at) /\ \A k \in DOMAIN parts : isNullSlice(parts[k]) \/ Ended(c, parts[k].to)
    BY <1>1, <2>1, Zenon DEF TextsEnded
  <2>3. SubSeq(src', c, FirstNul(src', c) - 1) = SubSeq(src, c, FirstNul(src, c) - 1)
    BY <2>2, TextRemains, Zenon
  <2>4. commands'[i][j] = c
    BY <2>1, Zenon
  <2>5. TextAt(commands[i][j]) = SubSeq(src, c, FirstNul(src, c) - 1)
    BY <2>1, Zenon DEF TextAt, FirstNul
  <2>6. TextAt(commands[i][j])' = SubSeq(src', c, FirstNul(src', c) - 1)
    BY <2>4, Zenon DEF TextAt, FirstNul
  <2> QED BY <2>3, <2>5, <2>6, Zenon
<1>3. \A i \in DOMAIN parts : \A p \in parts[i].from .. parts[i].to - 1 : src'[p] = src[p]
  BY <1>1, PartsRemain, Zenon
<1> QED BY <1>2, <1>3, Zenon DEF KeepsTexts

\* Terminators behind the parser stay.
LEMMA StillEnded ==
  ASSUME at \in 1 .. Beyond, \A p \in Cells : p <= at => (src'[p] = src[p] \/ src'[p] = Nul),
         NEW c \in Cells, NEW b \in Nat, (Ended(c, b) /\ b <= at) \/ (Ended(c, at) /\ at <= b)
  PROVE  \E q \in c .. b : q # Beyond /\ src'[q] = Nul
<1>1. PICK q \in c .. b : q <= at /\ q # Beyond /\ src[q] = Nul
  <2>1. CASE Ended(c, b) /\ b <= at
    <3>1. PICK q \in c .. b : q # Beyond /\ src[q] = Nul
      BY <2>1, Zenon DEF Ended
    <3> QED BY <2>1, <3>1, Bounds
  <2>2. CASE Ended(c, at) /\ at <= b
    <3>1. PICK q \in c .. at : q # Beyond /\ src[q] = Nul
      BY <2>2, Zenon DEF Ended
    <3> QED BY <2>2, <3>1, Bounds
  <2> QED BY <2>1, <2>2
<1>2. q \in Cells
  BY <1>1, Bounds
<1> QED BY <1>1, <1>2, Zenon

\* What is kept by a step that finishes no command and takes at most one part,
\* which begins behind the others.
LEMMA PartAdded ==
  ASSUME TypeOK, PartsBehind, TextsInv, UNCHANGED commands, at' \in at .. Beyond,
         \A p \in Cells : p <= at => src'[p] = src[p],
         NEW s \in Slices, parts' \in {parts, <<>>, Append(parts, s)},
         \/ isNullSlice(s)
         \/ /\ at < s.to
            /\ \A k \in DOMAIN parts : isNullSlice(parts[k]) \/ parts[k].to < s.from
            /\ s.to < at' \/ at' = Beyond \/ src'[at'] \notin IdChars
  PROVE  TextsInv'
<1>1. /\ parts \in Seq(Slices) /\ at \in 1 .. Beyond /\ at' \in 1 .. Beyond /\ at <= at'
      /\ PartsEnded /\ PartsApart /\ TextsEnded
  BY Bounds DEF TypeOK, TextsInv
<1>2. ASSUME NEW k \in DOMAIN parts'
      PROVE  (k \in DOMAIN parts /\ parts'[k] = parts[k]) \/ (parts'[k] = s /\ k = Len(parts) + 1)
  <2>1. CASE parts' = <<>> \/ parts' = parts
    BY <1>1, <1>2, <2>1
  <2>2. CASE parts' = Append(parts, s)
    <3>1. Len(parts) \in Nat /\ k \in 1 .. Len(parts) + 1
      BY <1>1, <1>2, <2>2
    <3>2. CASE k = Len(parts) + 1
      BY <1>1, <2>2, <3>2
    <3>3. CASE k # Len(parts) + 1
      BY <1>1, <2>2, <3>1, <3>3
    <3> QED BY <3>2, <3>3
  <2> QED BY <2>1, <2>2
<1>3. s.to \in Nat
  BY Bounds DEF Slices, NullSlice
<1>4. ASSUME NEW k \in DOMAIN parts, ~ isNullSlice(parts[k])
      PROVE  parts[k].to < at' \/ at' = Beyond \/ src'[at'] \notin IdChars
  <2>1. parts[k].to <= at /\ parts[k].to \in Nat
    BY PartIs
  <2>2. CASE at' = at
    <3>1. at' # Beyond => at \in Cells /\ src'[at'] = src[at]
      BY <1>1, <2>2, Bounds
    <3>2. parts[k].to < at \/ at = Beyond \/ src[at] \notin IdChars
      BY <1>1, <1>4, Zenon DEF PartsEnded
    <3> QED BY <2>2, <3>1, <3>2
  <2>3. CASE at' # at
    BY <1>1, <2>1, <2>3, Bounds
  <2> QED BY <2>2, <2>3
<1>5. PartsEnded'
  <2>1. ASSUME NEW k \in DOMAIN parts'
        PROVE  isNullSlice(parts'[k]) \/ parts'[k].to < at' \/ at' = Beyond \/ src'[at'] \notin IdChars
    BY <1>2, <1>4, Zenon
  <2> QED BY <2>1, Zenon DEF PartsEnded, isNullSlice
<1>6. PartsApart'
  <2>1. ASSUME NEW i \in DOMAIN parts', NEW k \in DOMAIN parts', i < k
        PROVE  isNullSlice(parts'[i]) \/ isNullSlice(parts'[k]) \/ parts'[i].to < parts'[k].from
    <3>1. i \in DOMAIN parts /\ parts'[i] = parts[i]
      <4>1. k \in 1 .. Len(parts) + 1 /\ Len(parts) \in Nat /\ i \in Nat
        BY <1>1
      <4>2. i # Len(parts) + 1
        BY <2>1, <4>1
      <4> QED BY <1>2, <4>2
    <3>2. CASE k \in DOMAIN parts /\ parts'[k] = parts[k]
      BY <1>1, <2>1, <3>1, <3>2, Zenon DEF PartsApart
    <3>3. CASE parts'[k] = s
      BY <3>1, <3>3, Zenon
    <3> QED BY <1>2, <3>2, <3>3
  <2> QED BY <2>1, Zenon DEF PartsApart, isNullSlice
<1>7. TextsEnded'
  <2>1. ASSUME NEW c \in Cells, Ended(c, at),
               \A k \in DOMAIN parts : isNullSlice(parts[k]) \/ Ended(c, parts[k].to)
        PROVE  /\ \E q \in c .. at' : q # Beyond /\ src'[q] = Nul
               /\ \A k \in DOMAIN parts' :
                    isNullSlice(parts'[k]) \/ \E q \in c .. parts'[k].to : q # Beyond /\ src'[q] = Nul
    <3>1. \E q \in c .. at' : q # Beyond /\ src'[q] = Nul
      <4>1. at' \in Nat
        BY <1>1, Bounds
      <4> QED BY <1>1, <2>1, <4>1, StillEnded
    <3>2. ASSUME NEW k \in DOMAIN parts', ~ isNullSlice(parts'[k])
          PROVE  \E q \in c .. parts'[k].to : q # Beyond /\ src'[q] = Nul
      <4>1. CASE k \in DOMAIN parts /\ parts'[k] = parts[k]
        <5>1. parts[k].to \in Nat /\ parts[k].to <= at /\ Ended(c, parts[k].to)
          BY <2>1, <3>2, <4>1, PartIs
        <5>2. PICK b \in Nat : b = parts[k].to
          BY <5>1
        <5>3. \E q \in c .. b : q # Beyond /\ src'[q] = Nul
          BY <1>1, <5>1, <5>2, StillEnded
        <5> QED BY <4>1, <5>2, <5>3, Zenon
      <4>2. CASE parts'[k] = s
        <5>1. at <= s.to
          BY <1>1, <1>3, <3>2, <4>2, Bounds
        <5>2. \E q \in c .. s.to : q # Beyond /\ src'[q] = Nul
          BY <1>1, <1>3, <2>1, <5>1, StillEnded
        <5> QED BY <4>2, <5>2, Zenon
      <4> QED BY <1>2, <4>1, <4>2
    <3> QED BY <3>1, <3>2, Zenon
  <2>2. ASSUME NEW i \in DOMAIN commands', NEW j \in DOMAIN commands'[i]
        PROVE  /\ \E q \in commands'[i][j] .. at' : q # Beyond /\ src'[q] = Nul
               /\ \A k \in DOMAIN parts' :
                    \/ isNullSlice(parts'[k])
                    \/ \E q \in commands'[i][j] .. parts'[k].to : q # Beyond /\ src'[q] = Nul
    <3>1. i \in DOMAIN commands /\ j \in DOMAIN commands[i] /\ commands'[i][j] = commands[i][j]
      OBVIOUS
    <3>2. PICK c \in Cells : c = commands[i][j]
      BY <3>1 DEF TypeOK
    <3>3. Ended(c, at) /\ \A k \in DOMAIN parts : isNullSlice(parts[k]) \/ Ended(c, parts[k].to)
      BY <1>1, <3>1, <3>2, Zenon DEF TextsEnded
    <3> QED BY <2>1, <3>1, <3>2, <3>3, Zenon
  <2> QED BY <2>2, Zenon DEF TextsEnded, Ended, isNullSlice
<1> QED BY <1>5, <1>6, <1>7, Zenon DEF TextsInv

\* A step that touches neither the text nor the commands.
LEMMA StandingTexts ==
  ASSUME TypeOK, PartsBehind, TextsInv, UNCHANGED <<src, commands>>, at' \in at .. Beyond,
         parts' \in {parts, <<>>}
  PROVE  TextsInv' /\ KeepsTexts
<1>1. NullSlice \in Slices /\ isNullSlice(NullSlice)
  BY NullIs
<1>2. parts' \in {parts, <<>>, Append(parts, NullSlice)} /\ UNCHANGED commands
  OBVIOUS
<1>3. \A p \in Cells : p <= at => src'[p] = src[p]
  OBVIOUS
<1>4. TextsInv'
  BY <1>1, <1>2, <1>3, PartAdded, Zenon
<1>5. WritesAhead /\ \A i \in DOMAIN commands : commands'[i] = commands[i]
  BY DEF WritesAhead, TypeOK
<1> QED BY <1>4, <1>5, StepKeeps, Zenon

\* A '?' operator puts its terminator ahead.
LEMMA QuesTexts ==
  ASSUME TypeOK, PartsBehind, TextsInv, QuesSteps
  PROVE  TextsInv' /\ KeepsTexts
<1>1. /\ UNCHANGED <<file, parts, commands>>
      /\ at \in Cells /\ WordEnd \in Cells /\ at < WordEnd /\ at' = WordEnd
      /\ src' = [src EXCEPT ![WordEnd] = Nul]
  BY QuesGoes, Zenon
<1>2. src \in [Cells -> Symbols \cup {Nul}]
  BY DEF TypeOK
<1> DEFINE w == WordEnd
<1>3. /\ src' \in [Cells -> Symbols \cup {Nul}]
      /\ \A p \in Cells : p # w => src'[p] = src[p]
  <2> HIDE DEF w
  <2>1. src' = [src EXCEPT ![w] = Nul] /\ w \in Cells
    BY <1>1, Zenon DEF w
  <2> QED BY <1>2, <2>1
<1>4. at' \in at .. Beyond
  <2> HIDE DEF w
  <2>1. w \in Cells /\ at < w /\ at' = w
    BY <1>1, Zenon DEF w
  <2> QED BY <1>1, <2>1, Bounds
<1>5. \A p \in Cells : p <= at => src'[p] = src[p]
  <2> HIDE DEF w
  <2>1. w \in Cells /\ at < w
    BY <1>1, Zenon DEF w
  <2> QED BY <1>1, <1>3, <2>1, Bounds
<1>6. WritesAhead
  <2>1. \A p \in Cells : src'[p] = src[p] \/ at < p
    BY <1>1, <1>3, Zenon
  <2> QED BY <1>3, <2>1, Zenon DEF WritesAhead
<1>7. NullSlice \in Slices /\ isNullSlice(NullSlice)
  BY NullIs
<1>8. parts' \in {parts, <<>>, Append(parts, NullSlice)} /\ UNCHANGED commands
  BY <1>1, Zenon
<1>9. TextsInv'
  BY <1>4, <1>5, <1>7, <1>8, PartAdded, Zenon
<1> QED BY <1>6, <1>8, <1>9, StepKeeps, Zenon

\* An id begins where the parser stands, and the part before it ended there only
\* if no id could go on.
LEMMA IdTexts ==
  ASSUME TypeOK, PartsBehind, TextsInv, Id
  PROVE  TextsInv' /\ KeepsTexts
<1>1. /\ at' = PastAll(here, IdChars) /\ AddPart(slice(here, at'))
      /\ UNCHANGED <<file, src, mode, commands>>
      /\ here \in Cells /\ here \in at .. Beyond /\ at' \in here .. Beyond
      /\ at' \in at .. Beyond /\ at' \in 1 .. Beyond
      /\ slice(here, at') \in Slices
  BY IdGoes, Zenon
<1>2. at \in 1 .. Beyond /\ PartsEnded
  BY DEF TypeOK, TextsInv
<1>3. here \in 1 .. Beyond
  BY <1>1, Bounds
<1>4. /\ at' = Beyond \/ src'[at'] \notin IdChars
      /\ \A i \in here .. at' - 1 : src[i] \in IdChars
  BY <1>1, <1>3, PastAllIs
<1>5. parts' \in {parts, <<>>, Append(parts, slice(here, at'))}
  BY <1>1 DEF AddPart
<1>6. ASSUME at' # here
      PROVE  /\ slice(here, at') = [from |-> here, to |-> at'] /\ at < at'
             /\ \A k \in DOMAIN parts : isNullSlice(parts[k]) \/ parts[k].to < here
  <2>1. slice(here, at') = [from |-> here, to |-> at']
    BY <1>6, Zenon DEF slice
  <2>2. at < at' /\ here \in here .. at' - 1
    BY <1>1, <1>2, <1>6, Bounds
  <2>3. src[here] \in IdChars
    BY <1>4, <2>2
  <2>4. ASSUME NEW k \in DOMAIN parts, ~ isNullSlice(parts[k]) PROVE parts[k].to < here
    <3>1. parts[k].to \in Nat /\ parts[k].to <= at
      BY PartIs
    <3>2. parts[k].to < at \/ at = Beyond \/ src[at] \notin IdChars
      BY <1>2, <2>4, Zenon DEF PartsEnded
    <3>3. at = here => parts[k].to < at
      BY <1>1, <2>3, <3>2, Bounds
    <3> QED BY <1>1, <1>2, <3>1, <3>3, Bounds
  <2> QED BY <2>1, <2>2, <2>4
<1>7. \/ isNullSlice(slice(here, at'))
      \/ /\ at < slice(here, at').to
         /\ \A k \in DOMAIN parts : isNullSlice(parts[k]) \/ parts[k].to < slice(here, at').from
         /\ slice(here, at').to < at' \/ at' = Beyond \/ src'[at'] \notin IdChars
  <2>1. CASE at' = here
    BY <2>1 DEF slice, NullSlice, isNullSlice
  <2>2. CASE at' # here
    BY <1>4, <1>6, <2>2
  <2> QED BY <2>1, <2>2
<1>8. UNCHANGED commands /\ \A p \in Cells : p <= at => src'[p] = src[p]
  BY <1>1
<1>9. TextsInv'
  BY <1>1, <1>5, <1>7, <1>8, PartAdded, Zenon
<1>10. WritesAhead /\ \A i \in DOMAIN commands : commands'[i] = commands[i]
  BY <1>1 DEF WritesAhead, TypeOK
<1> QED BY <1>9, <1>10, StepKeeps, Zenon

\* A string is shrunk ahead of the parser, and ends before its quote.
LEMMA StrTexts ==
  ASSUME TypeOK, PartsBehind, TextsInv, Str
  PROVE  TextsInv' /\ KeepsTexts
<1>1. PICK start \in Cells, end \in Cells, n \in Nat :
        /\ at < start /\ start + n <= end
        /\ at' \in end .. Beyond /\ at' \in at .. Beyond /\ at' \in 1 .. Beyond
        /\ src' \in [Cells -> Symbols \cup {Nul}]
        /\ \A p \in Cells : p < start \/ p >= end => src'[p] = src[p]
        /\ \/ at' = end + 1 /\ AddPart(slice(start, start + n))
           \/ at' = end /\ Fail(984) /\ UNCHANGED parts
        /\ UNCHANGED <<file, mode, commands>>
  BY StrGoes, Zenon
<1>2. at \in 1 .. Beyond
  BY DEF TypeOK
<1>3. \A p \in Cells : p <= at => src'[p] = src[p]
  BY <1>1, <1>2, Bounds
<1>4. WritesAhead
  <2>1. \A p \in Cells : src'[p] = src[p] \/ at < p
    BY <1>1, <1>2, Bounds
  <2> QED BY <1>1, <2>1, Zenon DEF WritesAhead
<1>5. TextsInv'
  <2>1. CASE at' = end + 1 /\ AddPart(slice(start, start + n))
    <3> DEFINE s == slice(start, start + n)
    <3>1. start \in 1 .. Beyond /\ start + n \in start .. Beyond /\ start + n < at'
      BY <1>1, <2>1, Bounds
    <3>2. s \in Slices
      BY <3>1, SliceIs, Zenon
    <3>3. parts' \in {parts, <<>>, Append(parts, s)}
      BY <2>1 DEF AddPart
    <3>4. isNullSlice(s) \/ (s = [from |-> start, to |-> start + n] /\ n # 0)
      BY <3>1, Bounds DEF slice, isNullSlice, NullSlice
    <3>5. ASSUME n # 0 PROVE at < start + n
      BY <1>1, <1>2, <3>5, Bounds
    <3>6. \A k \in DOMAIN parts : parts[k].to < start
      <4> TAKE k \in DOMAIN parts
      <4>1. parts[k].to \in Nat /\ parts[k].to <= at
        BY PartIs
      <4> QED BY <1>1, <1>2, <4>1, Bounds
    <3> HIDE DEF s
    <3>7. \/ isNullSlice(s)
          \/ /\ at < s.to
             /\ \A k \in DOMAIN parts : isNullSlice(parts[k]) \/ parts[k].to < s.from
             /\ s.to < at' \/ at' = Beyond \/ src'[at'] \notin IdChars
      BY <3>1, <3>4, <3>5, <3>6
    <3> QED BY <1>1, <1>3, <3>2, <3>3, <3>7, PartAdded, Zenon
  <2>2. CASE UNCHANGED parts
    <3>1. NullSlice \in Slices /\ isNullSlice(NullSlice)
      BY NullIs
    <3>2. parts' \in {parts, <<>>, Append(parts, NullSlice)}
      BY <2>2
    <3> QED BY <1>1, <1>3, <3>1, <3>2, PartAdded, Zenon
  <2> QED BY <1>1, <2>1, <2>2
<1>6. \A i \in DOMAIN commands : commands'[i] = commands[i]
  BY <1>1
<1> QED BY <1>4, <1>5, <1>6, StepKeeps, Zenon

\* The end of a line terminates the parts where they end, and nothing else.
LEMMA EndOfLineTexts ==
  ASSUME TypeOK, PartsBehind, TextsInv, EndOfLine
  PROVE  TextsInv' /\ KeepsTexts
<1>1. /\ AppendCommand /\ at' \in at .. Beyond
      /\ at \in Cells /\ at \in 1 .. Beyond
      /\ parts \in Seq(Slices) /\ commands \in Seq(Seq(Cells))
  BY EndOfLineGoes DEF TypeOK
<1>2. /\ src' \in [Cells -> Symbols \cup {Nul}]
      /\ \A p \in Cells : src'[p] = src[p] \/ (src'[p] = Nul /\ p <= at)
      /\ parts' = <<>>
  BY <1>1, AppendKeeps, Zenon
<1>3. PICK n \in 0 .. Len(parts) :
        n = PartCount /\ \A i \in 1 .. n : i \in DOMAIN parts /\ ~ isNullSlice(parts[i])
  BY <1>1, PartCountIs, Zenon
<1> DEFINE c == [i \in 1 .. n |-> parts[i].from]
           Ends(p) == \E i \in 1 .. n : parts[i].to = p
<1>4. /\ src' = [p \in Cells |-> IF Ends(p) THEN Nul ELSE src[p]]
      /\ commands' = IF parts = <<>> THEN commands ELSE Append(commands, c)
  BY <1>1, <1>3 DEF AppendCommand
<1>5. WritesAhead
  <2>1. \A p \in Cells : Ends(p) => EndsPart(p)
    BY <1>3, Zenon DEF EndsPart
  <2> HIDE DEF Ends
  <2>2. \A p \in Cells : src'[p] = IF Ends(p) THEN Nul ELSE src[p]
    BY <1>4
  <2> QED BY <1>2, <2>1, <2>2, Zenon DEF WritesAhead
<1>6. \A i \in DOMAIN commands : commands'[i] = commands[i]
  <2> HIDE DEF c
  <2> QED BY <1>1, <1>4
<1>7. \A i \in DOMAIN commands' :
        (i \in DOMAIN commands /\ commands'[i] = commands[i]) \/ commands'[i] = c
  <2> HIDE DEF c
  <2> QED BY <1>1, <1>4
<1>8. ASSUME NEW j \in DOMAIN c
      PROVE  \E q \in c[j] .. at' : q # Beyond /\ src'[q] = Nul
  <2>1. /\ j \in 1 .. n /\ j \in DOMAIN parts /\ ~ isNullSlice(parts[j]) /\ c[j] = parts[j].from
    BY <1>3
  <2>2. /\ parts[j].to <= at /\ parts[j].from < parts[j].to /\ parts[j].from \in Cells
        /\ parts[j].to \in 2 .. Beyond
    BY <2>1, PartIs
  <2>3. PICK q \in Nat : q = parts[j].to
    BY <2>2, Bounds
  <2>4. parts[j].from < q /\ q <= at /\ parts[j].from \in Nat
    BY <2>2, <2>3, Bounds
  <2>5. q # Beyond
    BY <1>1, <2>4, Bounds
  <2>6. q \in Cells /\ q \in parts[j].from .. at'
    BY <1>1, <2>2, <2>3, <2>4, <2>5, Bounds
  <2>7. Ends(q)
    BY <2>1, <2>3, Zenon
  <2> HIDE DEF Ends, c
  <2>8. src'[q] = Nul
    BY <1>4, <2>6, <2>7
  <2> QED BY <2>1, <2>5, <2>6, <2>8, Zenon
<1>9. ASSUME NEW i \in DOMAIN commands, NEW j \in DOMAIN commands[i]
      PROVE  \E q \in commands[i][j] .. at' : q # Beyond /\ src'[q] = Nul
  <2>1. PICK p \in Cells : p = commands[i][j]
    BY DEF TypeOK
  <2>2. Ended(p, at)
    BY <2>1, Zenon DEF TextsInv, TextsEnded
  <2>3. PICK b \in Nat : b = at' /\ at <= b
    BY <1>1, Bounds
  <2>4. \A x \in Cells : x <= at => src'[x] = src[x] \/ src'[x] = Nul
    BY <1>2, Zenon
  <2>5. \E q \in p .. b : q # Beyond /\ src'[q] = Nul
    BY <1>1, <2>2, <2>3, <2>4, StillEnded
  <2> QED BY <2>1, <2>3, <2>5, Zenon
<1>10. TextsEnded'
  <2>1. \A i \in DOMAIN commands' : \A j \in DOMAIN commands'[i] :
          \E q \in commands'[i][j] .. at' : q # Beyond /\ src'[q] = Nul
    <3> HIDE DEF c
    <3> QED BY <1>7, <1>8, <1>9, Zenon
  <2>2. DOMAIN parts' = {}
    BY <1>2
  <2> QED BY <2>1, <2>2, Zenon DEF TextsEnded, Ended
<1>11. PartsEnded' /\ PartsApart'
  BY <1>2 DEF PartsEnded, PartsApart
<1>12. TextsInv'
  BY <1>10, <1>11, Zenon DEF TextsInv
<1> QED BY <1>5, <1>6, <1>12, StepKeeps, Zenon

LEMMA NextTexts ==
  ASSUME IInv, TextsInv, [Next]_vars
  PROVE  TextsInv' /\ KeepsTexts
<1>1. TypeOK /\ PartsBehind /\ at \in 1 .. Beyond
  BY DEF IInv, TypeOK
<1>2. StandingSteps \/ LineSteps \/ QuesSteps \/ EndOfLine \/ Id \/ Str
  BY StepsAre
<1>3. CASE StandingSteps
  <2>1. UNCHANGED <<src, at, parts, commands>>
    BY <1>3, Stands, Zenon
  <2>2. UNCHANGED <<src, commands>> /\ at' \in at .. Beyond /\ parts' \in {parts, <<>>}
    BY <1>1, <2>1, Bounds
  <2> QED BY <1>1, <2>2, StandingTexts, Zenon
<1>4. CASE LineSteps
  <2>1. UNCHANGED <<src, commands>> /\ at' \in at .. Beyond /\ parts' \in {parts, <<>>}
    BY <1>1, <1>4, LineGoes
  <2> QED BY <1>1, <2>1, StandingTexts, Zenon
<1> QED BY <1>1, <1>2, <1>3, <1>4, QuesTexts, EndOfLineTexts, IdTexts, StrTexts, Zenon

\* Unescaping and terminating in the text that is read changes no part and no
\* command that was taken from it (pl2b.c:52-53, 389-418, 489-510).
THEOREM TextsAreKept == Spec => TextsStay
<1>1. Init => TextsInv
  BY DEF Init, TextsInv, PartsEnded, PartsApart, TextsEnded
<1>2. IInv /\ TextsInv /\ [Next]_vars => TextsInv' /\ [damage = "none" => KeepsTexts]_vars
  BY NextTexts, Zenon
<1> QED BY <1>1, <1>2, Invariance, PTL DEF Spec, TextsStay

-----------------------------------------------------------------------------
(* The parts and the commands of a file *)

\* The places of a set, counted off.
LEMMA RankIs ==
  ASSUME NEW n \in Nat, NEW S, S \subseteq 0 .. n, NEW p \in S
  PROVE  /\ Cardinality({ q \in S : q <= p }) \in 1 .. Cardinality(S)
         /\ Nth(Cardinality({ q \in S : q <= p }), S) = p
<1> DEFINE Below(x) == { q \in S : q <= x }
           k == Cardinality(Below(p))
<1>1. IsFiniteSet(S) /\ S \subseteq Nat
  <2>1. n \in Int /\ 0 \in Int
    OBVIOUS
  <2>2. IsFiniteSet(0 .. n)
    BY <2>1, FS_Interval
  <2>3. S \in SUBSET (0 .. n) /\ S \subseteq Nat
    OBVIOUS
  <2> QED BY <2>2, <2>3, FS_Subset, Zenon
<1>2. \A x \in S : IsFiniteSet(Below(x)) /\ Cardinality(Below(x)) \in Nat /\ Below(x) \subseteq S /\ x \in Below(x)
  <2> TAKE x \in S
  <2>1. Below(x) \subseteq S /\ x \in Below(x)
    BY <1>1
  <2> QED BY <1>1, <2>1, FS_Subset, FS_CardinalityType
<1>3. k \in 1 .. Cardinality(S)
  <2>1. k <= Cardinality(S) /\ Cardinality(S) \in Nat
    BY <1>1, <1>2, FS_Subset, FS_CardinalityType
  <2>2. k # 0
    <3>1. Below(p) # {} /\ IsFiniteSet(Below(p))
      BY <1>2
    <3> HIDE DEF Below
    <3>2. Cardinality(Below(p)) # 0
      BY <3>1, FS_EmptySet, Zenon
    <3> QED BY <3>2
  <2> QED BY <1>2, <2>1, <2>2
<1>4. ASSUME NEW x \in S, NEW y \in S, x < y PROVE Cardinality(Below(x)) # Cardinality(Below(y))
  <2>1. Below(x) \subseteq Below(y) \ {y}
    <3>1. x \in Nat /\ y \in Nat
      BY <1>1
    <3>2. \A q \in S : q <= x => q <= y /\ q # y
      BY <1>1, <1>4, <3>1
    <3> QED BY <3>2, Zenon
  <2> HIDE DEF Below
  <2>2. /\ IsFiniteSet(Below(y) \ {y})
        /\ Cardinality(Below(y) \ {y}) = Cardinality(Below(y)) - 1
    BY <1>2, FS_RemoveElement
  <2>3. Cardinality(Below(x)) <= Cardinality(Below(y) \ {y})
    BY <2>1, <2>2, FS_Subset
  <2> QED BY <1>2, <2>2, <2>3
<1>5. ASSUME NEW x \in S, Cardinality(Below(x)) = k PROVE x = p
  BY <1>1, <1>4, <1>5
<1>6. Nth(k, S) = CHOOSE x \in S : Cardinality(Below(x)) = k
  BY Zenon DEF Nth
<1> HIDE DEF Below
<1>7. Nth(k, S) = p
  BY <1>5, <1>6
<1> QED BY <1>3, <1>7, Zenon DEF Below

\* A place behind all of them is counted last.
CountedLast(S, h) ==
  /\ IsFiniteSet(S) /\ Cardinality(S) \in Nat /\ Cardinality(S \cup {h}) = Cardinality(S) + 1
  /\ Nth(Cardinality(S) + 1, S \cup {h}) = h
  /\ \A k \in 1 .. Cardinality(S) : Nth(k, S \cup {h}) = Nth(k, S)
LEMMA LastIs ==
  ASSUME NEW n \in Nat, NEW S, S \subseteq 0 .. n, NEW h \in 0 .. n, \A q \in S : q < h
  PROVE  CountedLast(S, h)
<1> DEFINE T == S \cup {h}
<1>1. IsFiniteSet(S) /\ S \subseteq Nat /\ h \notin S
  <2>1. n \in Int /\ 0 \in Int
    OBVIOUS
  <2>2. IsFiniteSet(0 .. n)
    BY <2>1, FS_Interval
  <2>3. h \notin S /\ S \subseteq Nat
    OBVIOUS
  <2> QED BY <2>2, <2>3, FS_Subset
<1>2. Cardinality(S) \in Nat /\ Cardinality(T) = Cardinality(S) + 1
  BY <1>1, FS_AddElement, FS_CardinalityType
<1>3. T \subseteq 0 .. n /\ h \in T
  OBVIOUS
<1>4. Nth(Cardinality(S) + 1, T) = h
  <2>1. { q \in T : q <= h } = T
    <3>1. \A q \in S : q <= h
      BY <1>1
    <3>2. h <= h
      OBVIOUS
    <3> QED BY <3>1, <3>2, Zenon
  <2>2. Nth(Cardinality({ q \in T : q <= h }), T) = h
    <3> HIDE DEF T
    <3> QED BY <1>3, RankIs
  <2> QED BY <1>2, <2>1, <2>2, Zenon
<1>5. ASSUME NEW k \in 1 .. Cardinality(S) PROVE Nth(k, T) = Nth(k, S)
  <2>1. Nth(k, S) \in S /\ Cardinality({ q \in S : q <= Nth(k, S) }) = k
    BY NthIs
  <2> DEFINE p == Nth(k, S)
  <2> HIDE DEF p
  <2>2. p \in S /\ p \in T /\ { q \in T : q <= p } = { q \in S : q <= p }
    <3>1. p \in S
      BY <2>1 DEF p
    <3> QED BY <1>1, <3>1
  <2>3. Nth(Cardinality({ q \in T : q <= p }), T) = p
    <3> HIDE DEF T
    <3> QED BY <1>3, <2>2, RankIs
  <2> QED BY <2>1, <2>2, <2>3, Zenon DEF p
<1> QED BY <1>1, <1>2, <1>4, <1>5, Zenon DEF CountedLast

\* The parts before a place of the line.
LEMMA PartsOver ==
  ASSUME NEW f \in Seq(Symbols), Len(f) <= BufferSize,
         NEW a \in 1 .. Len(f) + 1, NEW b \in a .. Len(f) + 1,
         \A i \in a .. b - 1 : i \notin LineEndsOf(f, Kinds(f))
  PROVE  /\ PartsBefore(f, Kinds(f), a) \subseteq 1 .. Len(f)
         /\ \A i \in PartsBefore(f, Kinds(f), a) : i < a
         /\ PartsBefore(f, Kinds(f), b)
              = PartsBefore(f, Kinds(f), a) \cup { i \in a .. b - 1 : i \in Starts(Kinds(f)) }
<1> DEFINE n == Len(f)
           kind == Kinds(f)
           P(p) == PartsBefore(f, kind, p)
<1>1. n \in Nat /\ DOMAIN kind = 0 .. n
  <2>1. kind \in [0 .. n -> KindNames] /\ n \in Nat
    BY FileIs, Zenon
  <2> QED BY <2>1
<1> HIDE DEF n, kind
<1>2. Starts(kind) \subseteq 1 .. n /\ LineEndsOf(f, kind) \subseteq 1 .. n
  BY <1>1 DEF Starts, LineEndsOf, n
<1>3. \A p, i : i \in P(p) <=> i \in Starts(kind) /\ i < p /\ \A e \in LineEndsOf(f, kind) : e < p => e < i
  BY DEF PartsBefore
<1> HIDE DEF P
<1>4. a \in Nat /\ b \in Nat /\ a <= b
  BY <1>1 DEF n
<1>5. \A e \in LineEndsOf(f, kind) : e < b <=> e < a
  <2> TAKE e \in LineEndsOf(f, kind)
  <2>1. e \in Nat
    BY <1>1, <1>2
  <2>2. e \notin a .. b - 1
    BY Zenon DEF kind
  <2> QED BY <1>4, <2>1, <2>2
<1>6. ASSUME NEW i \in Starts(kind) PROVE i \in P(b) <=> i \in P(a) \/ i \in a .. b - 1
  <2>1. i \in Nat
    BY <1>1, <1>2
  <2>2. CASE i < a
    <3>1. i < b /\ i \notin a .. b - 1
      BY <1>4, <2>1, <2>2
    <3> QED BY <1>3, <1>5, <2>2, <3>1, Zenon
  <2>3. CASE ~ (i < a)
    <3>1. i < b <=> i \in a .. b - 1
      BY <1>4, <2>1, <2>3
    <3>2. \A e \in LineEndsOf(f, kind) : e < a => e < i
      <4>1. \A e \in LineEndsOf(f, kind) : e \in Nat
        BY <1>1, <1>2
      <4> QED BY <1>4, <2>1, <2>3, <4>1
    <3> QED BY <1>3, <1>5, <2>3, <3>1, <3>2, Zenon
  <2> QED BY <2>2, <2>3
<1>7. P(b) = P(a) \cup { i \in a .. b - 1 : i \in Starts(kind) }
  BY <1>3, <1>6
<1>8. P(a) \subseteq 1 .. n /\ \A i \in P(a) : i < a
  BY <1>2, <1>3
<1> QED BY <1>7, <1>8, Zenon DEF P, kind, n

\* A line begins without parts.
LEMMA PartsBegin ==
  ASSUME NEW f \in Seq(Symbols), Len(f) <= BufferSize, NEW p \in 1 .. Len(f) + 1,
         p - 1 \in LineEndsOf(f, Kinds(f)) \cup {0}
  PROVE  PartsBefore(f, Kinds(f), p) = {}
<1>1. SUFFICES ASSUME NEW i \in PartsBefore(f, Kinds(f), p) PROVE FALSE
  OBVIOUS
<1>2. i \in 1 .. Len(f) /\ Len(f) \in Nat /\ i < p
  <2>1. p .. p - 1 = {} /\ p \in p .. Len(f) + 1 /\ Len(f) \in Nat
    BY FileIs
  <2> QED BY <2>1, PartsOver
<1>3. \A e \in LineEndsOf(f, Kinds(f)) : e < p => e < i
  BY DEF PartsBefore
<1>4. p - 1 < p /\ ~ (p - 1 < i) /\ p - 1 # 0
  BY <1>2
<1> QED BY <1>3, <1>4

\* The ends of the commands before a place.
EndsBy(f, p) == { e \in CommandEnds(f, Kinds(f)) : e < p }

LEMMA EndsAre ==
  ASSUME NEW f \in Seq(Symbols), Len(f) <= BufferSize
  PROVE  /\ CommandEnds(f, Kinds(f)) \subseteq 1 .. Len(f) + 1
         /\ CommandEnds(f, Kinds(f)) \subseteq LineEndsOf(f, Kinds(f)) \cup {Len(f) + 1}
         /\ LineEndsOf(f, Kinds(f)) \subseteq 1 .. Len(f)
         /\ \A p : /\ EndsBy(f, p) \subseteq CommandEnds(f, Kinds(f))
                   /\ IsFiniteSet(EndsBy(f, p)) /\ Cardinality(EndsBy(f, p)) \in Nat
         /\ IsFiniteSet(CommandEnds(f, Kinds(f))) /\ Cardinality(CommandEnds(f, Kinds(f))) \in Nat
<1>1. Len(f) \in Nat
  BY FileIs, Zenon
<1>2. CommandEnds(f, Kinds(f)) \subseteq LineEndsOf(f, Kinds(f)) \cup {Len(f) + 1}
  BY DEF CommandEnds, ClosedLines
<1>3. LineEndsOf(f, Kinds(f)) \subseteq 1 .. Len(f)
  BY DEF LineEndsOf
<1>4. CommandEnds(f, Kinds(f)) \subseteq 1 .. Len(f) + 1
  BY <1>1, <1>2, <1>3
<1>5. IsFiniteSet(CommandEnds(f, Kinds(f)))
  <2>1. 1 \in Int /\ Len(f) + 1 \in Int
    BY <1>1
  <2>2. IsFiniteSet(1 .. Len(f) + 1)
    BY <2>1, FS_Interval
  <2>3. CommandEnds(f, Kinds(f)) \in SUBSET (1 .. Len(f) + 1)
    BY <1>4, Zenon
  <2> QED BY <2>2, <2>3, FS_Subset, Zenon
<1>6. \A p : EndsBy(f, p) \subseteq CommandEnds(f, Kinds(f))
  BY DEF EndsBy
<1> QED BY <1>2, <1>3, <1>4, <1>5, <1>6, FS_Subset, FS_CardinalityType

LEMMA EndsOver ==
  ASSUME NEW f \in Seq(Symbols), Len(f) <= BufferSize,
         NEW a \in 1 .. Len(f) + 1, NEW b \in a .. Len(f) + 1,
         \A i \in a .. b - 1 : i \notin LineEndsOf(f, Kinds(f))
  PROVE  EndsBy(f, b) = EndsBy(f, a)
<1>1. /\ CommandEnds(f, Kinds(f)) \subseteq LineEndsOf(f, Kinds(f)) \cup {Len(f) + 1}
      /\ LineEndsOf(f, Kinds(f)) \subseteq 1 .. Len(f) /\ Len(f) \in Nat
  BY EndsAre, FileIs
<1>2. \A e \in CommandEnds(f, Kinds(f)) : e < b <=> e < a
  <2> TAKE e \in CommandEnds(f, Kinds(f))
  <2>1. e = Len(f) + 1 \/ (e \in 1 .. Len(f) /\ e \notin a .. b - 1)
    BY <1>1
  <2> QED BY <1>1, <2>1
<1> QED BY <1>2 DEF EndsBy

\* A line's end counts its command, if it has one.
LEMMA EndsPlus ==
  ASSUME NEW f \in Seq(Symbols), Len(f) <= BufferSize, NEW e \in CommandEnds(f, Kinds(f))
  PROVE  /\ Cardinality(EndsBy(f, e)) + 1 <= Cardinality(CommandEnds(f, Kinds(f)))
         /\ Nth(Cardinality(EndsBy(f, e)) + 1, CommandEnds(f, Kinds(f))) = e
         /\ Cardinality(EndsBy(f, e) \cup {e}) = Cardinality(EndsBy(f, e)) + 1
<1> DEFINE C == CommandEnds(f, Kinds(f))
           B == EndsBy(f, e)
<1>1. /\ C \subseteq 1 .. Len(f) + 1 /\ Len(f) \in Nat /\ IsFiniteSet(B) /\ Cardinality(B) \in Nat
  BY EndsAre, FileIs
<1>2. B = { q \in C : q < e }
  BY DEF EndsBy
<1> HIDE DEF C, B
<1>3. e \in C /\ C \subseteq 0 .. Len(f) + 1
  BY <1>1 DEF C
<1>4. { q \in C : q <= e } = B \cup {e} /\ e \notin B
  <2>1. e \in Nat /\ \A q \in C : q \in Nat /\ (q <= e <=> (q < e \/ q = e))
    BY <1>1, <1>3
  <2>2. ~ (e < e)
    BY <2>1
  <2> QED BY <1>2, <1>3, <2>1, <2>2, Zenon
<1>5. Cardinality(B \cup {e}) = Cardinality(B) + 1
  BY <1>1, <1>4, FS_AddElement
<1>6. /\ Cardinality({ q \in C : q <= e }) \in 1 .. Cardinality(C)
      /\ Nth(Cardinality({ q \in C : q <= e }), C) = e
  <2>1. Len(f) + 1 \in Nat
    BY <1>1
  <2> QED BY <1>3, <2>1, RankIs
<1>7. Cardinality(B) + 1 \in 1 .. Cardinality(C) /\ Nth(Cardinality(B) + 1, C) = e
  BY <1>4, <1>5, <1>6, Zenon
<1>8. Cardinality(B) + 1 <= Cardinality(C)
  BY <1>7
<1> QED BY <1>5, <1>7, <1>8, Zenon DEF C, B

\* Two texts that agree from a to b.
LEMMA SameSlice ==
  ASSUME NEW X, NEW s \in Seq(X), NEW t \in Seq(X), NEW a \in Nat, NEW b \in Nat,
         a >= 1, b <= Len(s), b <= Len(t), \A x \in a .. b : s[x] = t[x]
  PROVE  SubSeq(s, a, b) = SubSeq(t, a, b)
BY Z3

\* A part ends where its kind does.
LEMMA PartEndIs ==
  ASSUME NEW f \in Seq(Symbols), Len(f) <= BufferSize, NEW i \in 1 .. Len(f), NEW j \in i .. Len(f),
         \A k \in i .. j : Kinds(f)[k] \in Alike(Kinds(f)[i]),
         j = Len(f) \/ Kinds(f)[j + 1] \notin Alike(Kinds(f)[i])
  PROVE  PartEnd(f, Kinds(f), i) = j
<1> DEFINE n == Len(f)
           In(k) == Kinds(f)[k] \in Alike(Kinds(f)[i])
           Ends(x) == (\A k \in i .. x : In(k)) /\ (x = n \/ ~ In(x + 1))
<1>1. n \in Nat
  BY FileIs, Zenon
<1>2. j \in i .. n /\ Ends(j)
  BY Zenon
<1>3. PartEnd(f, Kinds(f), i) = CHOOSE x \in i .. n : Ends(x)
  BY Zenon DEF PartEnd
<1>4. ASSUME NEW x \in i .. n, Ends(x) PROVE x = j
  <2> HIDE DEF n, In
  <2>1. ~ (x < j)
    <3>1. SUFFICES ASSUME x < j PROVE FALSE
      OBVIOUS
    <3>2. x + 1 \in i .. j /\ x # n
      BY <1>1, <1>2, <3>1
    <3> QED BY <1>2, <1>4, <3>2, Zenon
  <2>2. ~ (j < x)
    <3>1. SUFFICES ASSUME j < x PROVE FALSE
      OBVIOUS
    <3>2. j + 1 \in i .. x /\ j # n
      BY <1>1, <1>2, <3>1
    <3> QED BY <1>2, <1>4, <3>2, Zenon
  <2> QED BY <1>1, <2>1, <2>2
<1> HIDE DEF Ends, n
<1> QED BY <1>2, <1>3, <1>4, Zenon

\* The text of an id is what the parser finds there.
LEMMA IdText ==
  ASSUME src \in [Cells -> Symbols \cup {Nul}],
         NEW f \in Seq(Symbols), Len(f) <= BufferSize, NEW h \in 1 .. Len(f), Ahead(f, h),
         BetweenParts(f, Kinds(f), h),
         f[h] \notin Quotes \cup Whitespace \cup {Newline, "#", "illegal"}
  PROVE  /\ PartText(f, Kinds(f), h) = SubSeq(src, h, PastAll(h, IdChars) - 1)
         /\ SubSeq(src, h, PastAll(h, IdChars) - 1) # <<>>
<1> DEFINE n == Len(f)
           e == PastAll(h, IdChars)
<1>1. /\ e \in h + 1 .. n + 1 /\ Kinds(f)[h] = "id" /\ \A i \in h .. e - 1 : Kinds(f)[i] = "id"
      /\ e # n + 1 => e \in 1 .. n /\ f[e] \notin IdChars
  BY IdIs, Zenon
<1>2. /\ n \in Nat /\ n <= BufferSize /\ \A i \in 1 .. n : /\ f[i] \in Symbols
                                         /\ Kinds(f)[i] = Kind(Kinds(f)[i - 1], f[i])
  BY FileIs, Zenon
<1>3. \A i \in h .. n : src[i] = f[i]
  <2>1. h \in 1 .. n + 1
    BY <1>2
  <2> QED BY <2>1, AheadIs, Zenon
<1> HIDE DEF e
<1>4. e - 1 \in h .. n /\ e - 1 \in Nat /\ h \in Nat /\ h >= 1 /\ (e - 1) + 1 = e
  BY <1>1, <1>2
<1>5. ASSUME e # n + 1 PROVE Kinds(f)[e] # "id"
  <2>1. e \in 1 .. n /\ f[e] \in Symbols /\ f[e] \notin IdChars
    BY <1>1, <1>2, <1>5
  <2>2. Kinds(f)[e] = Kind("id", f[e])
    <3>1. e - 1 \in h .. e - 1
      BY <1>4
    <3> QED BY <1>1, <1>2, <2>1, <3>1, Zenon
  <2>3. Kinds(f)[e] = OutOfParts(f[e])
    <3>1. "id" \in KindNames
      BY DEF KindNames
    <3> QED BY <2>1, <2>2, <3>1, KindIs, Zenon
  <2> QED BY <2>1, <2>3 DEF OutOfParts, Symbols, IdChars, Quotes, Whitespace, Alnum, Newline
<1>6. PartEnd(f, Kinds(f), h) = e - 1
  <2>1. Alike(Kinds(f)[h]) = {"id"}
    BY <1>1, Zenon DEF Alike
  <2>2. \A k \in h .. e - 1 : Kinds(f)[k] \in Alike(Kinds(f)[h])
    BY <1>1, <2>1
  <2>3. e - 1 = n \/ Kinds(f)[(e - 1) + 1] \notin Alike(Kinds(f)[h])
    BY <1>2, <1>4, <1>5, <2>1
  <2> QED BY <1>4, <2>2, <2>3, PartEndIs, Zenon
<1>7. PartText(f, Kinds(f), h) = SubSeq(f, h, e - 1)
  BY <1>1, <1>6, Zenon DEF PartText
<1>8. /\ src \in Seq(Symbols \cup {Nul}) /\ f \in Seq(Symbols \cup {Nul})
      /\ Len(src) = BufferSize /\ e - 1 <= BufferSize /\ e - 1 <= n
  BY <1>2, <1>4, Bounds
<1>9. \A x \in h .. e - 1 : src[x] = f[x]
  BY <1>2, <1>3, <1>4
<1>10. SubSeq(src, h, e - 1) = SubSeq(f, h, e - 1)
  BY <1>4, <1>8, <1>9, SameSlice
<1>11. SubSeq(f, h, e - 1) # <<>>
  <2>1. Len(SubSeq(f, h, e - 1)) = (e - 1) - h + 1
    BY <1>2, <1>4
  <2>2. Len(SubSeq(f, h, e - 1)) # 0
    BY <1>4, <2>1
  <2>3. Len(<<>>) = 0
    OBVIOUS
  <2> QED BY <2>2, <2>3, Zenon
<1> QED BY <1>7, <1>10, <1>11, Zenon DEF e

\* Without a doubled backslash, the backslashes of a string are its escapes.
LEMMA SlashIs ==
  ASSUME NEW f \in Seq(Symbols), Len(f) <= BufferSize, ~ DoubledBackslash(f),
         NEW x \in 1 .. Len(f), Kinds(f)[x - 1] \in {"string", "escape"}, Kinds(f)[x] \in {"string", "escape"}
  PROVE  Kinds(f)[x] = "escape" <=> f[x] = "\\"
<1>1. f[x] \in Symbols /\ Kinds(f)[x] = Kind(Kinds(f)[x - 1], f[x]) /\ {"string", "escape"} \subseteq KindNames
  BY FileIs DEF KindNames
<1>2. CASE Kinds(f)[x - 1] = "string"
  <2>1. Kinds(f)[x] = InString(f[x])
    BY <1>1, <1>2, KindIs
  <2> QED BY <2>1 DEF InString, Newline, Quotes
<1>3. CASE Kinds(f)[x - 1] = "escape"
  <2>1. Kinds(f)[x] = "string"
    BY <1>1, <1>3, KindIs
  <2>2. f[x] # "\\"
    BY <1>3, Zenon DEF DoubledBackslash
  <2> QED BY <2>1, <2>2
<1> QED BY <1>2, <1>3

\* The text of a string is what shrinkConv makes of it.
LEMMA StrText ==
  ASSUME NEW f \in Seq(Symbols), Len(f) <= BufferSize, NEW h \in 1 .. Len(f), Ahead(f, h),
         BetweenParts(f, Kinds(f), h), f[h] \in Quotes, ~ DoubledBackslash(f),
         StringEnd(h + 1) # Len(f) + 1, f[StringEnd(h + 1)] \in Quotes
  PROVE  PartText(f, Kinds(f), h) = shrinkConv(h + 1, StringEnd(h + 1))
<1> DEFINE n == Len(f)
           start == h + 1
           e == StringEnd(start)
           kind == Kinds(f)
<1>1. /\ kind[h] = "string" /\ e \in h + 1 .. n + 1
      /\ \A i \in h .. e - 1 : i \in 1 .. n /\ kind[i] \in {"string", "escape"}
      /\ e \in 1 .. n /\ kind[e] = "blank"
  BY StringRuns, Zenon
<1>2. n \in Nat /\ n <= BufferSize
  BY FileIs, Zenon
<1>3. \A i \in h .. n : src[i] = f[i]
  <2>1. h \in 1 .. n + 1
    BY <1>2
  <2> QED BY <2>1, AheadIs, Zenon
<1> HIDE DEF e
<1>4. e - 1 \in h .. n /\ (e - 1) + 1 = e /\ start \in 2 .. n /\ start <= e /\ e <= n
  BY <1>1, <1>2
<1>5. PartEnd(f, kind, h) = e - 1
  <2>1. Alike(kind[h]) = {"string", "escape"}
    BY <1>1 DEF Alike
  <2>2. \A k \in h .. e - 1 : kind[k] \in Alike(kind[h])
    BY <1>1, <2>1, Zenon
  <2>3. kind[(e - 1) + 1] \notin Alike(kind[h])
    BY <1>1, <1>4, <2>1
  <2> QED BY <1>4, <2>2, <2>3, PartEndIs, Zenon
<1>6. ASSUME NEW x \in start .. e - 1
      PROVE  /\ src[x] = f[x] /\ src[x + 1] = f[x + 1] /\ x + 1 # Beyond
             /\ kind[x] = "escape" <=> f[x] = "\\"
             /\ EscapeAt(x) <=> Converted(f, kind, x)
             /\ Shrunk(x) = Unescaped(f, kind, x)
  <2>1. /\ x \in h .. n /\ x + 1 \in h .. n /\ x + 1 # Beyond
        /\ x \in h .. e - 1 /\ x - 1 \in h .. e - 1 /\ x \in 1 .. n
    BY <1>2, <1>4, Bounds
  <2>2. src[x] = f[x] /\ src[x + 1] = f[x + 1]
    BY <1>3, <2>1, Zenon
  <2>3. kind[x] = "escape" <=> f[x] = "\\"
    BY <1>1, <2>1, SlashIs, Zenon
  <2>4. EscapeAt(x) <=> Converted(f, kind, x)
    BY <2>1, <2>2, <2>3, Zenon DEF EscapeAt, Converted
  <2>5. Shrunk(x) = Unescaped(f, kind, x)
    BY <2>2, <2>4, Zenon DEF Shrunk, Unescaped
  <2> QED BY <2>1, <2>2, <2>3, <2>4, <2>5, Zenon
<1> DEFINE kept == { p \in h + 1 .. e - 1 : ~ Converted(f, kind, p - 1) }
<1>7. kept = Kept(start, e)
  <2>1. ASSUME NEW p \in start .. e - 1 PROVE ~ Converted(f, kind, p - 1) <=> (p = start \/ ~ EscapeAt(p - 1))
    <3>1. CASE p = start
      <4>1. p - 1 = h
        BY <1>4, <3>1
      <4>2. ~ Converted(f, kind, p - 1)
        BY <1>1, <4>1 DEF Converted
      <4> QED BY <3>1, <4>2
    <3>2. CASE p # start
      <4>1. p - 1 \in start .. e - 1
        BY <1>4, <3>2
      <4> QED BY <1>6, <3>2, <4>1, Zenon
    <3> QED BY <3>1, <3>2
  <2> QED BY <2>1, Zenon DEF Kept
<1>8. PartText(f, kind, h) = [k \in 1 .. Cardinality(kept) |-> Unescaped(f, kind, Nth(k, kept))]
  <2>1. kind[h] # "id"
    BY <1>1
  <2> QED BY <1>5, <2>1, Zenon DEF PartText
<1>9. shrinkConv(start, e) = [k \in 1 .. Cardinality(kept) |-> Shrunk(Nth(k, kept))]
  BY <1>7, Zenon DEF shrinkConv
<1>10. ASSUME NEW k \in 1 .. Cardinality(kept) PROVE Shrunk(Nth(k, kept)) = Unescaped(f, kind, Nth(k, kept))
  <2>1. kept \subseteq 0 .. n /\ kept \subseteq start .. e - 1
    BY <1>2, <1>4
  <2> HIDE DEF kept
  <2>2. Nth(k, kept) \in kept
    BY <1>2, <2>1, NthIs, Zenon
  <2> QED BY <1>6, <2>1, <2>2, Zenon
<1> HIDE DEF kept
<1>11. PartText(f, kind, h) = shrinkConv(start, e)
  BY <1>8, <1>9, <1>10, Zenon
<1> QED BY <1>11, Zenon DEF e, kind

\* An empty slice holds no text.
LEMMA EmptySlice ==
  ASSUME NEW X, NEW s \in Seq(X), NEW a \in Int
  PROVE  SubSeq(s, a, a - 1) = <<>>
OBVIOUS

\* A slice of a text.
LEMMA SliceOf ==
  ASSUME NEW X, NEW s \in Seq(X), NEW a \in Nat, NEW b \in Nat, a >= 1, a - 1 <= b, b <= Len(s)
  PROVE  /\ SubSeq(s, a, b) \in Seq(X) /\ Len(SubSeq(s, a, b)) = b - a + 1
         /\ \A i \in 1 .. b - a + 1 : SubSeq(s, a, b)[i] = s[a + i - 1]
         /\ \A m \in 0 .. b - a + 1 : SubSeq(SubSeq(s, a, b), 1, m) = SubSeq(s, a, a + m - 1)
OBVIOUS

\* A sequence up to the first c.
LEMMA UntilIs ==
  ASSUME NEW s, Len(s) \in Nat, NEW c, NEW n \in 0 .. Len(s), n = Len(s) \/ s[n + 1] = c,
         \A i \in 1 .. n : s[i] # c
  PROVE  Until(s, c) = SubSeq(s, 1, n)
<1> DEFINE Ends(x) == (x = Len(s) \/ s[x + 1] = c) /\ \A i \in 1 .. x : s[i] # c
<1>1. n \in 0 .. Len(s) /\ Ends(n)
  OBVIOUS
<1>2. Until(s, c) = SubSeq(s, 1, CHOOSE x \in 0 .. Len(s) : Ends(x))
  BY Zenon DEF Until
<1>3. ASSUME NEW x \in 0 .. Len(s), Ends(x) PROVE x = n
  <2>1. ~ (x < n)
    <3>1. SUFFICES ASSUME x < n PROVE FALSE
      OBVIOUS
    <3>2. x + 1 \in 1 .. n /\ x # Len(s)
      BY <3>1
    <3> QED BY <1>1, <1>3, <3>2, Zenon
  <2>2. ~ (n < x)
    <3>1. SUFFICES ASSUME n < x PROVE FALSE
      OBVIOUS
    <3>2. n + 1 \in 1 .. x /\ n # Len(s)
      BY <3>1
    <3> QED BY <1>1, <1>3, <3>2, Zenon
  <2> QED BY <2>1, <2>2
<1> HIDE DEF Ends
<1> QED BY <1>1, <1>2, <1>3, Zenon

\* The C string that begins a terminated part.
LEMMA TextOfPart ==
  ASSUME NEW s \in [Cells -> Symbols \cup {Nul}], NEW a \in Cells, NEW b \in Cells, a <= b, s[b] = Nul
  PROVE  SubSeq(s, a, FirstNul(s, a) - 1) = Until(SubSeq(s, a, b - 1), Nul)
<1> DEFINE Ends == { q \in a .. b : s[q] = Nul }
           t == SubSeq(s, a, b - 1)
<1>1. Ends \subseteq Nat /\ b \in Ends
  BY Bounds
<1>2. PICK e \in Ends : \A i \in Ends : e <= i
  <2> HIDE DEF Ends
  <2> QED BY <1>1, LeastExists
<1>3. e \in a .. b /\ s[e] = Nul /\ e \in a .. BufferSize
  BY Bounds
<1>4. \A i \in a .. e - 1 : s[i] # Nul
  <2> TAKE i \in a .. e - 1
  <2>1. i \in a .. b /\ ~ (e <= i)
    BY <1>3, Bounds
  <2> QED BY <1>2, <2>1
<1> HIDE DEF Ends
<1>5. FirstNul(s, a) = e
  BY <1>3, <1>4, FirstNulIs, Zenon
<1>6. /\ s \in Seq(Symbols \cup {Nul}) /\ Len(s) = BufferSize
      /\ a \in Nat /\ b - 1 \in Nat /\ a >= 1 /\ a - 1 <= b - 1 /\ b - 1 <= Len(s)
      /\ (b - 1) - a + 1 = b - a
  BY Bounds
<1>7. /\ Len(t) = b - a
      /\ \A i \in 1 .. b - a : t[i] = s[a + i - 1]
      /\ \A m \in 0 .. b - a : SubSeq(t, 1, m) = SubSeq(s, a, a + m - 1)
  BY <1>6, SliceOf
<1> HIDE DEF t
<1>8. e - a \in 0 .. Len(t) /\ Len(t) \in Nat /\ a + (e - a) - 1 = e - 1 /\ e - a \in 0 .. b - a
  BY <1>3, <1>6, <1>7
<1>9. e - a = Len(t) \/ t[(e - a) + 1] = Nul
  <2>1. SUFFICES ASSUME e - a # Len(t) PROVE t[(e - a) + 1] = Nul
    OBVIOUS
  <2>2. (e - a) + 1 \in 1 .. b - a /\ a + ((e - a) + 1) - 1 = e
    BY <1>3, <1>6, <1>7, <2>1
  <2> QED BY <1>3, <1>7, <2>2
<1>10. \A i \in 1 .. e - a : t[i] # Nul
  <2> TAKE i \in 1 .. e - a
  <2>1. i \in 1 .. b - a /\ a + i - 1 \in a .. e - 1
    BY <1>3, <1>6
  <2> QED BY <1>4, <1>7, <2>1
<1>11. Until(t, Nul) = SubSeq(t, 1, e - a)
  BY <1>8, <1>9, <1>10, UntilIs, Zenon
<1>12. SubSeq(t, 1, e - a) = SubSeq(s, a, e - 1)
  BY <1>7, <1>8
<1> QED BY <1>5, <1>11, <1>12, Zenon DEF t

\* Where the parts of a command stop.
LEMMA PartsCounted ==
  ASSUME parts \in Seq(Slices), NEW texts, Len(texts) = Len(parts),
         \A k \in 1 .. Len(parts) : isNullSlice(parts[k]) <=> texts[k] = <<>>
  PROVE  Until(texts, <<>>) = SubSeq(texts, 1, PartCount)
<1>1. /\ PartCount \in 0 .. Len(parts)
      /\ PartCount = Len(parts) \/ isNullSlice(parts[PartCount + 1])
      /\ \A i \in 1 .. PartCount : i \in DOMAIN parts /\ ~ isNullSlice(parts[i])
  BY PartCountIs
<1>2. Len(parts) \in Nat /\ DOMAIN parts = 1 .. Len(parts)
  OBVIOUS
<1>3. PICK n \in 0 .. Len(parts) : n = PartCount
  BY <1>1
<1>4. \A i \in 1 .. n : texts[i] # <<>>
  BY <1>1, <1>2, <1>3, Zenon
<1>5. n = Len(texts) \/ texts[n + 1] = <<>>
  <2>1. n # Len(parts) => n + 1 \in 1 .. Len(parts)
    BY <1>2, <1>3
  <2> QED BY <1>1, <1>3, <2>1, Zenon
<1> QED BY <1>2, <1>3, <1>4, <1>5, UntilIs, Zenon

-----------------------------------------------------------------------------
(* The parts and the commands that are taken *)

Ends(f)      == CommandEnds(f, Kinds(f))
Before(f, p) == PartsBefore(f, Kinds(f), p)
Fits         == file \in Seq(Symbols) /\ Len(file) <= BufferSize

\* In the text s: the C string at p, the first commands of a file, the parts of
\* a line of it before p.
TextIn(s, p) == SubSeq(s, p, FirstNul(s, p) - 1)
AreCommands(f, s, cs) ==
  /\ Len(cs) <= Cardinality(Ends(f))
  /\ \A l \in DOMAIN cs :
       [j \in DOMAIN cs[l] |-> TextIn(s, cs[l][j])] = CommandOf(f, Kinds(f), Nth(l, Ends(f)))
AreParts(f, s, ps, p) ==
  /\ Len(ps) = Cardinality(Before(f, p))
  /\ \A k \in DOMAIN ps :
       SubSeq(s, ps[k].from, ps[k].to - 1) = PartText(f, Kinds(f), Nth(k, Before(f, p)))

LEMMA WrittenIs ==
  /\ Written <=> /\ AreCommands(file, src, commands)
                 /\ pc = "done" /\ err = 0 => Len(commands) = Cardinality(Ends(file))
  /\ Written' <=> /\ AreCommands(file', src', commands')
                  /\ pc' = "done" /\ err' = 0 => Len(commands') = Cardinality(Ends(file'))
  /\ PartsRead <=> AreParts(file, src, parts, at)
  /\ PartsRead' <=> AreParts(file', src', parts', at')
<1>1. Written <=> /\ AreCommands(file, src, commands)
                  /\ pc = "done" /\ err = 0 => Len(commands) = Cardinality(Ends(file))
  BY Zenon DEF Written, AreCommands, Ends, TextAt, TextIn, FirstNul
<1>2. Written' <=> /\ AreCommands(file', src', commands')
                   /\ pc' = "done" /\ err' = 0 => Len(commands') = Cardinality(Ends(file'))
  BY Zenon DEF Written, AreCommands, Ends, TextAt, TextIn, FirstNul
<1>3. PartsRead <=> AreParts(file, src, parts, at)
  BY Zenon DEF PartsRead, AreParts, Before
<1>4. PartsRead' <=> AreParts(file', src', parts', at')
  BY Zenon DEF PartsRead, AreParts, Before
<1> QED BY <1>1, <1>2, <1>3, <1>4

\* The parts of a file before a place of it can be counted.
LEMMA BeforeIs ==
  ASSUME NEW f \in Seq(Symbols), Len(f) <= BufferSize, NEW p \in 1 .. Len(f) + 1
  PROVE  /\ Before(f, p) \subseteq 1 .. Len(f) /\ \A i \in Before(f, p) : i < p
         /\ IsFiniteSet(Before(f, p)) /\ Cardinality(Before(f, p)) \in Nat
         /\ Cardinality(Before(f, p)) = 0 <=> Before(f, p) = {}
<1>1. p .. p - 1 = {} /\ p \in p .. Len(f) + 1 /\ Len(f) \in Nat
  BY FileIs
<1>2. Before(f, p) \subseteq 1 .. Len(f) /\ \A i \in Before(f, p) : i < p
  BY <1>1, PartsOver, Zenon DEF Before
<1>3. IsFiniteSet(1 .. Len(f))
  <2>1. 1 \in Int /\ Len(f) \in Int
    BY <1>1
  <2> QED BY <2>1, FS_Interval
<1>4. IsFiniteSet(Before(f, p))
  <2>1. Before(f, p) \in SUBSET (1 .. Len(f))
    BY <1>2, Zenon
  <2> QED BY <1>3, <2>1, FS_Subset, Zenon
<1> QED BY <1>2, <1>4, FS_CardinalityType, FS_EmptySet, Zenon

\* What is left alone is what it was.
LEMMA CommandsKept ==
  ASSUME commands \in Seq(Seq(Cells)), KeepsTexts, UNCHANGED <<file, commands>>,
         AreCommands(file, src, commands)
  PROVE  AreCommands(file', src', commands')
<1>1. ASSUME NEW l \in DOMAIN commands, NEW j \in DOMAIN commands[l]
      PROVE  TextIn(src', commands[l][j]) = TextIn(src, commands[l][j])
  <2>1. TextAt(commands[l][j])' = TextAt(commands[l][j])
    BY Zenon DEF KeepsTexts
  <2> QED BY <2>1, Zenon DEF TextAt, TextIn, FirstNul
<1>2. \A l \in DOMAIN commands :
        [j \in DOMAIN commands[l] |-> TextIn(src', commands[l][j])]
          = [j \in DOMAIN commands[l] |-> TextIn(src, commands[l][j])]
  BY <1>1, Zenon
<1> QED BY <1>2, Zenon DEF AreCommands

\* Going on within a line.
LEMMA LineOver ==
  ASSUME NEW f \in Seq(Symbols), Len(f) <= BufferSize,
         NEW a \in 1 .. Len(f) + 1, NEW b \in a .. Len(f) + 1,
         \A i \in a .. b - 1 : i \notin LineEndsOf(f, Kinds(f))
  PROVE  /\ EndsBy(f, b) = EndsBy(f, a)
         /\ (\A d \in Directives(f, Kinds(f)) : a < d) => (\A d \in Directives(f, Kinds(f)) : b < d)
         /\ (\A i \in a .. b - 1 : i \notin Starts(Kinds(f))) => Before(f, b) = Before(f, a)
<1>1. EndsBy(f, b) = EndsBy(f, a)
  BY EndsOver, Zenon
<1>2. ASSUME NEW d \in Directives(f, Kinds(f)), a < d PROVE b < d
  <2>1. d \in 1 .. Len(f) /\ Len(f) \in Nat /\ d - 1 \in LineEndsOf(f, Kinds(f)) \cup {0}
    BY FileIs DEF Directives
  <2>2. SUFFICES ASSUME ~ (b < d) PROVE FALSE
    OBVIOUS
  <2>3. d - 1 \in a .. b - 1 /\ d - 1 # 0
    BY <1>2, <2>1, <2>2
  <2> QED BY <2>1, <2>3, Zenon
<1>3. Before(f, b) = Before(f, a) \cup { i \in a .. b - 1 : i \in Starts(Kinds(f)) }
  BY PartsOver, Zenon DEF Before
<1>4. ASSUME \A i \in a .. b - 1 : i \notin Starts(Kinds(f)) PROVE Before(f, b) = Before(f, a)
  <2>1. { i \in a .. b - 1 : i \in Starts(Kinds(f)) } = {}
    BY <1>4, Zenon
  <2> QED BY <1>3, <2>1
<1> QED BY <1>1, <1>2, <1>4, Zenon

\* The state while a file is read.
LEMMA TrackIs ==
  ASSUME IInv, Fits, OnTrack
  PROVE  /\ file \in Seq(Symbols) /\ Len(file) \in Nat /\ Len(file) <= BufferSize
         /\ at \in 1 .. Len(file) + 1 /\ Len(file) + 1 \in 1 .. Beyond
         /\ Ahead(file, at) /\ BetweenParts(file, Kinds(file), at) /\ mode = "single"
         /\ \A q \in at .. Len(file) : src[q] = file[q]
         /\ Len(file) + 1 # Beyond => src[Len(file) + 1] = Nul
         /\ at # Beyond /\ at # Len(file) + 1 => at \in 1 .. Len(file) /\ src[at] = file[at] /\ file[at] # Nul
         /\ src \in [Cells -> Symbols \cup {Nul}] /\ parts \in Seq(Slices)
         /\ commands \in Seq(Seq(Cells)) /\ Len(commands) \in Nat
         /\ TypeOK /\ PartsBehind
<1>1. /\ file \in Seq(Symbols) /\ Len(file) <= BufferSize /\ TypeOK /\ PartsBehind
      /\ at \in 1 .. Len(file) + 1 /\ mode = "single" /\ BetweenParts(file, Kinds(file), at)
      /\ Ahead(file, at)
  BY Zenon DEF IInv, Fits, OnTrack, Ahead
<1>2. /\ src \in [Cells -> Symbols \cup {Nul}] /\ parts \in Seq(Slices)
      /\ commands \in Seq(Seq(Cells)) /\ Len(commands) \in Nat
  BY <1>1 DEF TypeOK
<1>3. Len(file) \in Nat /\ Len(file) + 1 \in 1 .. Beyond
  BY <1>1, FileIs, Zenon
<1>4. /\ \A q \in at .. Len(file) : src[q] = file[q]
      /\ Len(file) + 1 # Beyond => src[Len(file) + 1] = Nul
  BY <1>1, AheadIs, Zenon
<1>5. at # Len(file) + 1 => at \in 1 .. Len(file) /\ at \in at .. Len(file)
  BY <1>1, <1>3
<1>6. at # Len(file) + 1 => src[at] = file[at] /\ file[at] # Nul
  BY <1>1, <1>4, <1>5, FileIs, Zenon
<1> QED BY <1>1, <1>2, <1>3, <1>4, <1>5, <1>6, Zenon

\* Where a loop of parseLine stands after the blanks.
LEMMA HereTrack ==
  ASSUME IInv, Fits, OnTrack, pc = "line", here # Beyond
  PROVE  /\ here \in at .. Len(file) + 1 /\ here \in 1 .. Len(file) + 1 /\ here \in Cells
         /\ Ahead(file, here) /\ BetweenParts(file, Kinds(file), here)
         /\ here # Len(file) + 1 =>
              here \in 1 .. Len(file) /\ src[here] = file[here] /\ file[here] \notin Whitespace \cup {Nul}
         /\ here = Len(file) + 1 => src[here] = Nul
         /\ AreParts(file, src, parts, here)
         /\ \A d \in Directives(file, Kinds(file)) : here < d
         /\ Len(commands) = Cardinality(EndsBy(file, here))
<1>1. /\ file \in Seq(Symbols) /\ Len(file) \in Nat /\ Len(file) <= BufferSize
      /\ at \in 1 .. Len(file) + 1 /\ Len(file) + 1 \in 1 .. Beyond
      /\ Ahead(file, at) /\ BetweenParts(file, Kinds(file), at)
      /\ Len(file) + 1 # Beyond => src[Len(file) + 1] = Nul
  BY TrackIs
<1>2. /\ here \in at .. Len(file) + 1 /\ BetweenParts(file, Kinds(file), here)
      /\ here # Len(file) + 1 => here \in 1 .. Len(file) /\ file[here] \notin Whitespace
      /\ \A i \in at .. here - 1 : i \notin LineEndsOf(file, Kinds(file)) /\ i \notin Starts(Kinds(file))
  BY <1>1, SpacesAre, Zenon DEF here
<1>3. here \in 1 .. Len(file) + 1 /\ here \in Cells
  BY <1>1, <1>2, Bounds
<1>4. Ahead(file, here)
  <2>1. \A q \in here .. BufferSize : q \in at .. BufferSize
    BY <1>1, <1>2, Bounds
  <2> QED BY <1>1, <2>1, Zenon DEF Ahead
<1>5. here # Len(file) + 1 => src[here] = file[here] /\ file[here] # Nul
  <2>1. SUFFICES ASSUME here # Len(file) + 1 PROVE src[here] = file[here] /\ file[here] # Nul
    OBVIOUS
  <2>2. here \in here .. Len(file) /\ here \in 1 .. Len(file)
    BY <1>1, <1>2, <2>1
  <2>3. \A q \in here .. Len(file) : src[q] = file[q]
    BY <1>1, <1>3, <1>4, AheadIs, Zenon
  <2>4. file[here] # Nul
    BY <1>1, <2>2, FileIs, Zenon
  <2> QED BY <2>2, <2>3, <2>4, Zenon
<1>6. /\ AreParts(file, src, parts, at) /\ \A d \in Directives(file, Kinds(file)) : at < d
      /\ Len(commands) = Cardinality(EndsBy(file, at))
  BY WrittenIs, Zenon DEF OnTrack, EndsBy
<1>7. /\ EndsBy(file, here) = EndsBy(file, at) /\ Before(file, here) = Before(file, at)
      /\ \A d \in Directives(file, Kinds(file)) : here < d
  BY <1>1, <1>2, <1>6, LineOver, Zenon
<1>8. AreParts(file, src, parts, here)
  BY <1>6, <1>7, Zenon DEF AreParts
<1> QED BY <1>1, <1>2, <1>3, <1>4, <1>5, <1>6, <1>7, <1>8, Zenon

\* Going on in a line, with the parts it has so far.
LEMMA TrackGoesOn ==
  ASSUME Fits, UNCHANGED <<file, commands>>, pc' = "line", mode' = "single",
         at' \in 1 .. Len(file) + 1, \A p \in at' .. BufferSize : src'[p] = Padded(file)[p],
         BetweenParts(file, Kinds(file), at'), AreParts(file, src', parts', at'),
         \A d \in Directives(file, Kinds(file)) : at' < d,
         Len(commands) = Cardinality(EndsBy(file, at'))
  PROVE  OnTrack'
<1>1. pc' # "file" /\ file' = file /\ commands' = commands
  OBVIOUS
<1>2. PartsRead'
  BY <1>1, WrittenIs, Zenon
<1>3. Len(commands') = Cardinality({ e \in CommandEnds(file', Kinds(file')) : e < at' })
  BY <1>1, Zenon DEF EndsBy
<1> QED BY <1>1, <1>2, <1>3, Zenon DEF OnTrack

\* A step that keeps the commands keeps what they are.
LEMMA WrittenStays ==
  ASSUME IInv, Written, KeepsTexts, UNCHANGED <<file, commands>>,
         pc' = "done" /\ err' = 0 => Len(commands) = Cardinality(Ends(file))
  PROVE  Written'
<1>1. commands \in Seq(Seq(Cells)) /\ AreCommands(file, src, commands)
  BY WrittenIs DEF IInv, TypeOK
<1>2. AreCommands(file', src', commands')
  BY <1>1, CommandsKept, Zenon
<1>3. file' = file /\ commands' = commands
  OBVIOUS
<1> QED BY <1>2, <1>3, WrittenIs, Zenon

\* The text of a part stays.
LEMMA PartKept ==
  ASSUME TypeOK, PartsBehind, src' \in [Cells -> Symbols \cup {Nul}], KeepsTexts, NEW k \in DOMAIN parts
  PROVE  SubSeq(src', parts[k].from, parts[k].to - 1) = SubSeq(src, parts[k].from, parts[k].to - 1)
<1>1. /\ src \in Seq(Symbols \cup {Nul}) /\ src' \in Seq(Symbols \cup {Nul})
      /\ Len(src) = BufferSize /\ Len(src') = BufferSize
  BY Bounds DEF TypeOK
<1>2. CASE isNullSlice(parts[k])
  <2>1. parts[k].from = parts[k].to /\ parts[k].to \in Int
    BY <1>2, PartIs
  <2> QED BY <1>1, <2>1, EmptySlice
<1>3. CASE ~ isNullSlice(parts[k])
  <2>1. PICK a, b \in Nat : a = parts[k].from /\ b = parts[k].to - 1 /\ a >= 1 /\ b <= BufferSize
    <3>1. parts[k].from \in Cells /\ parts[k].to \in 2 .. Beyond
      BY <1>3, PartIs
    <3>2. parts[k].from \in Nat /\ parts[k].to - 1 \in Nat /\ parts[k].from >= 1 /\ parts[k].to - 1 <= BufferSize
      BY <3>1, Bounds
    <3> QED BY <3>2
  <2>2. \A p \in a .. b : src'[p] = src[p]
    BY <2>1, Zenon DEF KeepsTexts
  <2>3. SubSeq(src', a, b) = SubSeq(src, a, b)
    BY <1>1, <2>1, <2>2, SameSlice
  <2> QED BY <2>1, <2>3
<1> QED BY <1>2, <1>3

LEMMA PartsKept ==
  ASSUME TypeOK, PartsBehind, src' \in [Cells -> Symbols \cup {Nul}], KeepsTexts,
         NEW p, AreParts(file, src, parts, p)
  PROVE  AreParts(file, src', parts, p)
BY PartKept, Zenon DEF AreParts

\* Going over one part, it is counted last.
LEMMA OnePart ==
  ASSUME NEW f \in Seq(Symbols), Len(f) <= BufferSize,
         NEW h \in 1 .. Len(f), NEW e \in h + 1 .. Len(f) + 1, h \in Starts(Kinds(f)),
         \A i \in h .. e - 1 : i \notin LineEndsOf(f, Kinds(f)),
         \A i \in h .. e - 1 : i # h => i \notin Starts(Kinds(f))
  PROVE  Before(f, e) = Before(f, h) \cup {h} /\ CountedLast(Before(f, h), h)
<1>1. /\ Len(f) \in Nat /\ h \in 1 .. Len(f) + 1 /\ e \in h .. Len(f) + 1 /\ h \in h .. e - 1
      /\ h \in 0 .. Len(f)
  <2>1. Len(f) \in Nat
    BY FileIs
  <2> QED BY <2>1
<1>2. Before(f, h) \subseteq 1 .. Len(f) /\ (\A i \in Before(f, h) : i < h)
  BY <1>1, BeforeIs, Zenon
<1>3. Before(f, e) = Before(f, h) \cup { i \in h .. e - 1 : i \in Starts(Kinds(f)) }
  BY <1>1, PartsOver, Zenon DEF Before
<1>4. Before(f, e) = Before(f, h) \cup {h}
  <2>1. { i \in h .. e - 1 : i \in Starts(Kinds(f)) } = {h}
    BY <1>1, Zenon
  <2> QED BY <1>3, <2>1, Zenon
<1> DEFINE B == Before(f, h)
<1>5. B \subseteq 0 .. Len(f) /\ \A i \in B : i < h
  BY <1>1, <1>2
<1> HIDE DEF B
<1>6. CountedLast(B, h)
  BY <1>1, <1>5, LastIs, Zenon
<1> QED BY <1>4, <1>6, Zenon DEF B

\* A part is taken.
LEMMA PartsPlus ==
  ASSUME TypeOK, PartsBehind, Fits, src' \in [Cells -> Symbols \cup {Nul}], KeepsTexts,
         NEW h \in 1 .. Len(file), NEW e \in h + 1 .. Len(file) + 1, h \in Starts(Kinds(file)),
         \A i \in h .. e - 1 : /\ i \notin LineEndsOf(file, Kinds(file))
                               /\ i # h => i \notin Starts(Kinds(file)),
         AreParts(file, src, parts, h), NEW s, parts' = Append(parts, s),
         SubSeq(src', s.from, s.to - 1) = PartText(file, Kinds(file), h)
  PROVE  AreParts(file, src', parts', e)
<1> DEFINE B == Before(file, h)
           C == Before(file, e)
           c == Cardinality(B)
<1>1. /\ file \in Seq(Symbols) /\ Len(file) \in Nat /\ Len(file) <= BufferSize
      /\ h \in 1 .. Len(file) + 1 /\ e \in h .. Len(file) + 1 /\ h \in h .. e - 1 /\ h \in 0 .. Len(file)
  <2>1. file \in Seq(Symbols) /\ Len(file) <= BufferSize
    BY DEF Fits
  <2>2. Len(file) \in Nat
    BY <2>1, FileIs
  <2> QED BY <2>1, <2>2
<1>2. /\ \A i \in h .. e - 1 : i \notin LineEndsOf(file, Kinds(file))
      /\ \A i \in h .. e - 1 : i # h => i \notin Starts(Kinds(file))
  BY Zenon
<1>6. /\ c \in Nat /\ Cardinality(C) = c + 1 /\ Nth(c + 1, C) = h
      /\ \A k \in 1 .. c : Nth(k, C) = Nth(k, B)
  <2>1. C = B \cup {h} /\ CountedLast(B, h)
    BY <1>1, <1>2, OnePart, Zenon
  <2> HIDE DEF B, C
  <2> QED BY <2>1, Zenon DEF CountedLast
<1> HIDE DEF B, C
<1>7. AreParts(file, src', parts, h)
  BY PartsKept, Zenon
<1>8. Len(parts) = c /\ DOMAIN parts = 1 .. c /\ parts \in Seq(Slices)
  <2>1. Len(parts) = c
    BY <1>7, Zenon DEF AreParts, B
  <2>2. parts \in Seq(Slices)
    BY DEF TypeOK
  <2> QED BY <2>1, <2>2
<1> HIDE DEF c
<1>9. /\ Len(parts') = c + 1 /\ DOMAIN parts' = 1 .. c + 1 /\ parts'[c + 1] = s
      /\ \A k \in 1 .. c : parts'[k] = parts[k]
  BY <1>6, <1>8
<1>10. ASSUME NEW k \in DOMAIN parts'
       PROVE  SubSeq(src', parts'[k].from, parts'[k].to - 1) = PartText(file, Kinds(file), Nth(k, C))
  <2>1. k = c + 1 \/ k \in 1 .. c
    BY <1>6, <1>9
  <2>2. CASE k = c + 1
    BY <1>6, <1>9, <2>2
  <2>3. CASE k \in 1 .. c
    <3>1. SubSeq(src', parts[k].from, parts[k].to - 1) = PartText(file, Kinds(file), Nth(k, B))
      BY <1>7, <1>8, <2>3, Zenon DEF AreParts, B
    <3> QED BY <1>6, <1>9, <2>3, <3>1
  <2> QED BY <2>1, <2>2, <2>3
<1> QED BY <1>6, <1>9, <1>10, Zenon DEF AreParts, C

\* A line begins, without parts.
LEMMA BeginTrack ==
  ASSUME IInv, Fits, OnTrack, BeginLine
  PROVE  OnTrack'
<1>1. /\ pc = "file" /\ pc' = "line" /\ at # Beyond /\ src[at] \notin {Nul, "?"}
      /\ UNCHANGED <<file, src, at, mode, parts, commands, err, damage>>
  BY Zenon DEF BeginLine
<1>2. /\ file \in Seq(Symbols) /\ Len(file) \in Nat /\ Len(file) <= BufferSize
      /\ at \in 1 .. Len(file) + 1 /\ mode = "single"
      /\ Ahead(file, at) /\ BetweenParts(file, Kinds(file), at)
      /\ Len(file) + 1 # Beyond => src[Len(file) + 1] = Nul
      /\ at # Beyond /\ at # Len(file) + 1 => at \in 1 .. Len(file) /\ src[at] = file[at] /\ file[at] # Nul
  BY TrackIs
<1>3. at # Len(file) + 1 /\ file[at] # "?" /\ at \in 1 .. Len(file)
  BY <1>1, <1>2
<1>4. /\ parts = <<>> /\ at - 1 \in LineEndsOf(file, Kinds(file)) \cup {0}
      /\ \A d \in Directives(file, Kinds(file)) : at <= d
      /\ Len(commands) = Cardinality({ e \in CommandEnds(file, Kinds(file)) : e < at \/ at = Len(file) + 1 })
  BY <1>1, <1>3, Zenon DEF OnTrack
<1>5. Len(commands) = Cardinality(EndsBy(file, at))
  BY <1>3, <1>4, Zenon DEF EndsBy
<1>6. \A d \in Directives(file, Kinds(file)) : at < d
  <2> TAKE d \in Directives(file, Kinds(file))
  <2>1. d \in 1 .. Len(file) /\ file[d] = "?" /\ at <= d
    BY <1>4 DEF Directives
  <2> QED BY <1>2, <1>3, <2>1
<1>7. AreParts(file, src, parts, at)
  <2>1. Before(file, at) = {}
    BY <1>2, <1>4, PartsBegin, Zenon DEF Before
  <2>2. Len(parts) = 0 /\ DOMAIN parts = {}
    BY <1>4
  <2> QED BY <2>1, <2>2, FS_EmptySet, Zenon DEF AreParts
<1>8. \A p \in at' .. BufferSize : src'[p] = Padded(file)[p]
  BY <1>1, <1>2 DEF Ahead
<1>9. /\ at' = at /\ src' = src /\ parts' = parts /\ mode' = "single"
      /\ UNCHANGED <<file, commands>>
  BY <1>1, <1>2
<1> QED BY <1>1, <1>2, <1>5, <1>6, <1>7, <1>8, <1>9, TrackGoesOn, Zenon

\* A comment takes no part.
LEMMA CommentTrack ==
  ASSUME IInv, Fits, OnTrack, Comment
  PROVE  OnTrack'
<1>1. /\ pc = "line" /\ CurIn({"#"}) /\ here # Beyond
      /\ at' = Over(PastAll(here + 1, Symbols \ LineEnds), {Newline})
      /\ UNCHANGED <<file, src, mode, parts, commands, err, pc, damage>>
  BY Zenon DEF Comment, CurIn
<1>2. /\ here \in 1 .. Len(file) + 1
      /\ Ahead(file, here) /\ BetweenParts(file, Kinds(file), here)
      /\ here # Len(file) + 1 => here \in 1 .. Len(file) /\ src[here] = file[here]
      /\ here = Len(file) + 1 => src[here] = Nul
      /\ AreParts(file, src, parts, here)
      /\ \A d \in Directives(file, Kinds(file)) : here < d
      /\ Len(commands) = Cardinality(EndsBy(file, here))
  BY <1>1, HereTrack, Zenon
<1>3. /\ file \in Seq(Symbols) /\ Len(file) \in Nat /\ Len(file) <= BufferSize /\ mode = "single"
  BY TrackIs
<1>4. here \in 1 .. Len(file) /\ file[here] = "#"
  <2>1. src[here] = "#" /\ "#" # Nul
    BY <1>1 DEF CurIn, Nul
  <2> QED BY <1>2, <2>1
<1> DEFINE e == Over(PastAll(here + 1, Symbols \ LineEnds), {Newline})
<1>5. /\ e \in here + 1 .. Len(file) + 1 /\ BetweenParts(file, Kinds(file), e)
      /\ \A i \in here .. e - 1 : i \notin LineEndsOf(file, Kinds(file)) /\ i \notin Starts(Kinds(file))
  BY <1>2, <1>3, <1>4, CommentIs, Zenon
<1> HIDE DEF e
<1>6. e \in 1 .. Len(file) + 1 /\ e \in here .. Len(file) + 1
  BY <1>3, <1>4, <1>5
<1>7. /\ EndsBy(file, e) = EndsBy(file, here) /\ Before(file, e) = Before(file, here)
      /\ \A d \in Directives(file, Kinds(file)) : e < d
  BY <1>2, <1>3, <1>5, <1>6, LineOver, Zenon
<1>8. \A p \in e .. BufferSize : src'[p] = Padded(file)[p]
  <2>1. \A p \in e .. BufferSize : p \in here .. BufferSize
    BY <1>2, <1>3, <1>5, Bounds
  <2> QED BY <1>1, <1>2, <2>1, Zenon DEF Ahead
<1>9. at' = e /\ src' = src /\ parts' = parts /\ mode' = "single" /\ pc' = "line" /\ UNCHANGED <<file, commands>>
  BY <1>1, <1>3 DEF e
<1>10. AreParts(file, src, parts, e)
  BY <1>2, <1>7, Zenon DEF AreParts
<1>11. /\ at' \in 1 .. Len(file) + 1 /\ \A p \in at' .. BufferSize : src'[p] = Padded(file)[p]
       /\ BetweenParts(file, Kinds(file), at') /\ AreParts(file, src', parts', at')
       /\ \A d \in Directives(file, Kinds(file)) : at' < d
       /\ Len(commands) = Cardinality(EndsBy(file, at'))
  BY <1>2, <1>5, <1>6, <1>7, <1>8, <1>9, <1>10, Zenon
<1> QED BY <1>9, <1>11, TrackGoesOn, Zenon

\* A part is taken, or the run refuses it.
LEMMA PartGoesOn ==
  ASSUME damage = "none", damage' = "none", pc = "line", NEW s, AddPart(s)
  PROVE  \/ parts' = Append(parts, s) /\ pc' = "line"
         \/ pc' = "done" /\ err' = 984
BY DEF AddPart, Fail

\* An id, or a character that begins nothing and holds the parser up.
LEMMA IdTrack ==
  ASSUME IInv, Fits, OnTrack, KeepsTexts, Id, damage = "none", damage' = "none"
  PROVE  \/ OnTrack' \/ HeldUp'
         \/ pc' = "done" /\ err' = 984
<1>1. /\ pc = "line" /\ here # Beyond /\ ~ CurIn(LineEnds \cup Quotes \cup {"#"})
      /\ at' = PastAll(here, IdChars) /\ AddPart(slice(here, at'))
      /\ UNCHANGED <<file, src, mode, commands>>
  BY Zenon DEF Id
<1>2. /\ here \in 1 .. Len(file) + 1 /\ here \in Cells
      /\ Ahead(file, here) /\ BetweenParts(file, Kinds(file), here)
      /\ here # Len(file) + 1 =>
           here \in 1 .. Len(file) /\ src[here] = file[here] /\ file[here] \notin Whitespace \cup {Nul}
      /\ here = Len(file) + 1 => src[here] = Nul
      /\ AreParts(file, src, parts, here)
      /\ \A d \in Directives(file, Kinds(file)) : here < d
      /\ Len(commands) = Cardinality(EndsBy(file, here))
  BY <1>1, HereTrack, Zenon
<1>3. /\ file \in Seq(Symbols) /\ Len(file) \in Nat /\ Len(file) <= BufferSize /\ mode = "single"
      /\ src \in [Cells -> Symbols \cup {Nul}] /\ TypeOK /\ PartsBehind
  BY TrackIs
<1>4. src[here] \notin LineEnds \cup Quotes \cup {"#"}
  BY <1>1, Zenon DEF CurIn
<1>5. /\ here \in 1 .. Len(file) /\ src[here] = file[here]
      /\ file[here] \notin Quotes \cup Whitespace \cup {Newline, "#"}
  BY <1>2, <1>4 DEF LineEnds
<1>6. SUFFICES ASSUME parts' = Append(parts, slice(here, at')), pc' = "line" PROVE OnTrack' \/ HeldUp'
  BY <1>1, PartGoesOn
<1>7. CASE file[here] = "illegal"
  <2> DEFINE e == PastAll(here, IdChars)
  <2>1. e \in here .. Beyond /\ \A i \in here .. e - 1 : src[i] \in IdChars
    <3>1. here \in 1 .. Beyond
      BY <1>2, Bounds
    <3> QED BY <3>1, PastAllIs, Zenon
  <2> HIDE DEF e
  <2>2. e = here
    <3>1. here \notin here .. e - 1
      <4>1. src[here] \notin IdChars
        BY <1>5, <1>7 DEF IdChars, Alnum
      <4> QED BY <2>1, <4>1
    <3> QED BY <1>2, <2>1, <3>1, Bounds
  <2>3. at' = here /\ src' = src /\ file' = file
    BY <1>1, <2>2 DEF e
  <2> QED BY <1>5, <1>6, <1>7, <2>3, Zenon DEF HeldUp
<1>8. CASE file[here] # "illegal"
  <2> DEFINE e == PastAll(here, IdChars)
  <2>1. file[here] \notin Quotes \cup Whitespace \cup {Newline, "#", "illegal"}
    BY <1>5, <1>8
  <2>2. /\ here \in Starts(Kinds(file)) /\ e \in here + 1 .. Len(file) + 1
        /\ BetweenParts(file, Kinds(file), e)
        /\ \A i \in here .. e - 1 : /\ i \notin LineEndsOf(file, Kinds(file))
                                    /\ i # here => i \notin Starts(Kinds(file))
    BY <1>2, <1>3, <1>5, <2>1, IdIs, Zenon
  <2>3. PartText(file, Kinds(file), here) = SubSeq(src, here, e - 1)
    BY <1>2, <1>3, <1>5, <2>1, IdText, Zenon
  <2>4. at' = e
    BY <1>1
  <2> HIDE DEF e
  <2>5. e \in 1 .. Len(file) + 1 /\ e \in here .. Len(file) + 1 /\ e # here
    BY <1>3, <1>5, <2>2
  <2>6. slice(here, at').from = here /\ slice(here, at').to = e
    BY <2>4, <2>5 DEF slice
  <2>7. AreParts(file, src', parts', e)
    <3>1. src' = src
      BY <1>1
    <3>2. SubSeq(src', slice(here, at').from, slice(here, at').to - 1) = PartText(file, Kinds(file), here)
      BY <2>3, <2>6, <3>1, Zenon
    <3>3. src' \in [Cells -> Symbols \cup {Nul}]
      BY <1>3, <3>1, Zenon
    <3> HIDE DEF PartText
    <3> QED BY <1>2, <1>3, <1>5, <1>6, <2>2, <3>2, <3>3, PartsPlus, Zenon
  <2>8. EndsBy(file, e) = EndsBy(file, here) /\ \A d \in Directives(file, Kinds(file)) : e < d
    BY <1>2, <1>3, <2>2, <2>5, LineOver, Zenon
  <2>9. \A p \in e .. BufferSize : src'[p] = Padded(file)[p]
    <3>1. \A p \in e .. BufferSize : p \in here .. BufferSize
      BY <1>2, <1>3, <2>2, Bounds
    <3> QED BY <1>1, <1>2, <3>1, Zenon DEF Ahead
  <2>10. mode' = "single" /\ UNCHANGED <<file, commands>>
    BY <1>1, <1>3
  <2>11. /\ at' \in 1 .. Len(file) + 1 /\ \A p \in at' .. BufferSize : src'[p] = Padded(file)[p]
         /\ BetweenParts(file, Kinds(file), at') /\ AreParts(file, src', parts', at')
         /\ \A d \in Directives(file, Kinds(file)) : at' < d
         /\ Len(commands) = Cardinality(EndsBy(file, at'))
    BY <1>2, <2>2, <2>4, <2>5, <2>7, <2>8, <2>9, Zenon
  <2> QED BY <1>6, <2>10, <2>11, TrackGoesOn, Zenon
<1> QED BY <1>7, <1>8

\* The text that was put where a string began.
LEMMA TextPut ==
  ASSUME NEW X, NEW s \in Seq(X), NEW t \in Seq(X), NEW a \in Nat, a >= 1, a + Len(t) - 1 <= Len(s),
         \A p \in a .. a + Len(t) - 1 : s[p] = t[p - a + 1]
  PROVE  SubSeq(s, slice(a, a + Len(t)).from, slice(a, a + Len(t)).to - 1) = t
<1>1. CASE Len(t) = 0
  <2>1. slice(a, a + Len(t)).from = 0 /\ slice(a, a + Len(t)).to = 0
    BY <1>1 DEF slice, NullSlice
  <2>2. SubSeq(s, 0, 0 - 1) = <<>>
    <3>1. 0 \in Int
      OBVIOUS
    <3> QED BY <3>1, EmptySlice
  <2>3. t = <<>>
    BY <1>1
  <2> QED BY <2>1, <2>2, <2>3, Zenon
<1>2. CASE Len(t) # 0
  <2>1. Len(t) \in Nat
    OBVIOUS
  <2>2. slice(a, a + Len(t)).from = a /\ slice(a, a + Len(t)).to = a + Len(t)
    BY <1>2, <2>1 DEF slice
  <2> DEFINE b == a + Len(t) - 1
             u == SubSeq(s, a, b)
  <2>3. b \in Nat /\ a - 1 <= b /\ b <= Len(s) /\ b - a + 1 = Len(t)
    BY <2>1
  <2> HIDE DEF b
  <2>4. u \in Seq(X) /\ Len(u) = Len(t) /\ \A i \in 1 .. Len(t) : u[i] = s[a + i - 1]
    BY <2>3, SliceOf
  <2> HIDE DEF u
  <2>5. ASSUME NEW i \in 1 .. Len(t) PROVE u[i] = t[i]
    <3>1. a + i - 1 \in a .. a + Len(t) - 1 /\ (a + i - 1) - a + 1 = i
      BY <2>1
    <3> QED BY <2>4, <3>1
  <2>6. u = t
    BY <2>4, <2>5
  <2>7. slice(a, a + Len(t)).to - 1 = b
    BY <2>1, <2>2 DEF b
  <2> QED BY <2>2, <2>6, <2>7, Zenon DEF u
<1> QED BY <1>1, <1>2

\* A string: its part is what it is shrunk to.
LEMMA StrTrack ==
  ASSUME IInv, Fits, OnTrack, KeepsTexts, ~ DoubledBackslash(file), Str, damage = "none", damage' = "none"
  PROVE  OnTrack' \/ (pc' = "done" /\ err' = 984)
<1> DEFINE start == here + 1
           e     == StringEnd(start)
           text  == shrinkConv(start, e)
           Text(p) == p \in start .. start + Len(text) - 1
<1>1. /\ pc = "line" /\ CurIn(Quotes) /\ here # Beyond /\ e # Beyond
      /\ src' = [p \in Cells |-> IF Text(p) THEN text[p - start + 1] ELSE src[p]]
      /\ \/ src[e] \in Quotes /\ at' = e + 1 /\ AddPart(slice(start, start + Len(text)))
         \/ pc' = "done" /\ err' = 984
      /\ UNCHANGED <<file, mode, commands>>
  BY DEF Str, CurIn, Fail
<1>2. /\ here \in 1 .. Len(file) + 1 /\ here \in Cells
      /\ Ahead(file, here) /\ BetweenParts(file, Kinds(file), here)
      /\ here # Len(file) + 1 => here \in 1 .. Len(file) /\ src[here] = file[here]
      /\ here = Len(file) + 1 => src[here] = Nul
      /\ AreParts(file, src, parts, here)
      /\ \A d \in Directives(file, Kinds(file)) : here < d
      /\ Len(commands) = Cardinality(EndsBy(file, here))
  BY <1>1, HereTrack, Zenon
<1>3. /\ file \in Seq(Symbols) /\ Len(file) \in Nat /\ Len(file) <= BufferSize /\ mode = "single"
      /\ src \in [Cells -> Symbols \cup {Nul}] /\ TypeOK /\ PartsBehind /\ Len(file) + 1 \in 1 .. Beyond
      /\ Len(file) + 1 # Beyond => src[Len(file) + 1] = Nul
  BY TrackIs
<1>4. here \in 1 .. Len(file) /\ file[here] \in Quotes
  <2>1. src[here] \in Quotes /\ Nul \notin Quotes
    BY <1>1 DEF CurIn, Nul, Quotes
  <2> QED BY <1>2, <2>1
<1>5. SUFFICES ASSUME src[e] \in Quotes, at' = e + 1, AddPart(slice(start, start + Len(text)))
               PROVE  OnTrack' \/ (pc' = "done" /\ err' = 984)
  BY <1>1
<1>6. SUFFICES ASSUME parts' = Append(parts, slice(start, start + Len(text))), pc' = "line" PROVE OnTrack'
  BY <1>1, <1>5, PartGoesOn
<1>7. /\ here \in Starts(Kinds(file)) /\ e \in here + 1 .. Len(file) + 1
      /\ \A i \in here .. e - 1 : /\ i \notin LineEndsOf(file, Kinds(file))
                                  /\ i # here => i \notin Starts(Kinds(file))
      /\ e # Len(file) + 1 =>
           /\ e \in 1 .. Len(file) /\ src[e] = file[e]
           /\ file[e] \in Quotes => /\ Kinds(file)[e] = "blank"
                                    /\ e \notin LineEndsOf(file, Kinds(file)) /\ e \notin Starts(Kinds(file))
  BY <1>2, <1>3, <1>4, StringRuns, Zenon
<1>8. e # Len(file) + 1 /\ file[e] \in Quotes
  <2>1. Nul \notin Quotes
    BY DEF Nul, Quotes
  <2>2. e # Len(file) + 1
    <3> HIDE DEF e
    <3>1. SUFFICES ASSUME e = Len(file) + 1 PROVE FALSE
      OBVIOUS
    <3>2. src[e] = Nul
      BY <1>1, <1>3, <3>1, Zenon
    <3> QED BY <1>5, <2>1, <3>2, Zenon
  <2> HIDE DEF e
  <2> QED BY <1>5, <1>7, <2>2
<1>9. PartText(file, Kinds(file), here) = text
  BY <1>2, <1>3, <1>4, <1>8, StrText, Zenon
<1>10. start \in Cells /\ start \in Nat /\ start >= 1 /\ e \in start .. BufferSize /\ e \in Nat
  <2> HIDE DEF e
  <2> QED BY <1>3, <1>4, <1>7, <1>8, Bounds
<1>11. text \in Seq(Symbols \cup {Nul}) /\ Len(text) \in 0 .. e - start
  BY <1>3, <1>10, ShrunkIs, Zenon
<1> HIDE DEF e, text
<1>12. /\ e + 1 \in here + 1 .. Len(file) + 1 /\ (e + 1) - 1 = e /\ e + 1 \in 1 .. Len(file) + 1
       /\ e + 1 \in here .. Len(file) + 1
       /\ \A i \in here .. (e + 1) - 1 : i = e \/ i \in here .. e - 1
  BY <1>3, <1>4, <1>7, <1>8
<1>13. BetweenParts(file, Kinds(file), e + 1)
  BY <1>7, <1>8, <1>12, Zenon DEF BetweenParts
<1>14. \A i \in here .. (e + 1) - 1 : /\ i \notin LineEndsOf(file, Kinds(file))
                                      /\ i # here => i \notin Starts(Kinds(file))
  BY <1>7, <1>8, <1>12, Zenon
<1>15. src' \in [Cells -> Symbols \cup {Nul}]
  <2>1. \A p \in Cells : Text(p) => text[p - start + 1] \in Symbols \cup {Nul}
    BY <1>4, <1>10, <1>11, Bounds
  <2> HIDE DEF Text
  <2> QED BY <1>1, <1>3, <2>1
<1>16. SubSeq(src', slice(start, start + Len(text)).from, slice(start, start + Len(text)).to - 1) = text
  <2>1. src' \in Seq(Symbols \cup {Nul}) /\ Len(src') = BufferSize
    BY <1>15, Bounds
  <2>2. start + Len(text) - 1 <= Len(src') /\ \A p \in start .. start + Len(text) - 1 : p \in Cells /\ Text(p)
    BY <1>10, <1>11, <2>1, Bounds
  <2>3. \A p \in start .. start + Len(text) - 1 : src'[p] = text[p - start + 1]
    <3> HIDE DEF start, Text
    <3>1. \A p \in Cells : Text(p) => src'[p] = text[p - start + 1]
      BY <1>1, Zenon
    <3> QED BY <2>2, <3>1, Zenon
  <2> HIDE DEF Text, start
  <2> QED BY <1>10, <1>11, <2>1, <2>2, <2>3, TextPut, Zenon
<1>17. AreParts(file, src', parts', e + 1)
  <2> HIDE DEF start
  <2> QED BY <1>2, <1>3, <1>4, <1>6, <1>7, <1>9, <1>12, <1>14, <1>15, <1>16, PartsPlus, Zenon
<1>18. EndsBy(file, e + 1) = EndsBy(file, here) /\ \A d \in Directives(file, Kinds(file)) : e + 1 < d
  <2>1. \A i \in here .. (e + 1) - 1 : i \notin LineEndsOf(file, Kinds(file))
    BY <1>14, Zenon
  <2> QED BY <1>2, <1>3, <1>12, <2>1, LineOver, Zenon
<1>19. \A p \in e + 1 .. BufferSize : src'[p] = Padded(file)[p]
  <2> TAKE p \in e + 1 .. BufferSize
  <2>1. p \in Cells /\ p \in here .. BufferSize /\ ~ Text(p)
    BY <1>3, <1>4, <1>10, <1>11, Bounds
  <2> HIDE DEF Text
  <2>2. src'[p] = src[p]
    BY <1>1, <2>1, Zenon
  <2> QED BY <1>2, <2>1, <2>2, Zenon DEF Ahead
<1>20. mode' = "single" /\ UNCHANGED <<file, commands>>
  BY <1>1, <1>3
<1>21. /\ at' \in 1 .. Len(file) + 1 /\ \A p \in at' .. BufferSize : src'[p] = Padded(file)[p]
       /\ BetweenParts(file, Kinds(file), at') /\ AreParts(file, src', parts', at')
       /\ \A d \in Directives(file, Kinds(file)) : at' < d
       /\ Len(commands) = Cardinality(EndsBy(file, at'))
  <2> HIDE DEF Text
  <2> QED BY <1>2, <1>5, <1>12, <1>13, <1>17, <1>18, <1>19, Zenon
<1> HIDE DEF Text
<1> QED BY <1>6, <1>20, <1>21, TrackGoesOn, Zenon

-----------------------------------------------------------------------------
(* A line is finished *)

NewCommand == [i \in 1 .. PartCount |-> parts[i].from]

\* The texts of the parts of a line.
LEMMA LineTexts ==
  ASSUME IInv, NEW h, AreParts(file, src, parts, h),
         NEW T, T = [k \in 1 .. Cardinality(Before(file, h)) |-> PartText(file, Kinds(file), Nth(k, Before(file, h)))]
  PROVE  /\ Len(T) = Len(parts) /\ DOMAIN T = 1 .. Len(parts)
         /\ \A k \in 1 .. Len(parts) :
              /\ T[k] = SubSeq(src, parts[k].from, parts[k].to - 1)
              /\ isNullSlice(parts[k]) <=> T[k] = <<>>
<1>1. /\ TypeOK /\ PartsBehind /\ src \in Seq(Symbols \cup {Nul}) /\ Len(src) = BufferSize
      /\ parts \in Seq(Slices)
  BY Bounds DEF IInv, TypeOK
<1>2. Len(parts) \in Nat /\ DOMAIN parts = 1 .. Len(parts)
  BY <1>1
<1>3. /\ Len(parts) = Cardinality(Before(file, h))
      /\ \A k \in 1 .. Len(parts) :
           SubSeq(src, parts[k].from, parts[k].to - 1) = PartText(file, Kinds(file), Nth(k, Before(file, h)))
  BY <1>2, Zenon DEF AreParts
<1>4. /\ DOMAIN T = 1 .. Len(parts)
      /\ \A k \in 1 .. Len(parts) : T[k] = SubSeq(src, parts[k].from, parts[k].to - 1)
  BY <1>3, Zenon
<1>5. Len(T) = Len(parts)
  <2> DEFINE X == { T[k] : k \in 1 .. Len(parts) }
             m == Len(parts)
  <2>1. T = [k \in 1 .. m |-> T[k]] /\ \A k \in 1 .. m : T[k] \in X
    BY <1>3
  <2>3. m \in Nat
    BY <1>2
  <2> HIDE DEF X, m
  <2>4. [k \in 1 .. m |-> T[k]] \in Seq(X) /\ Len([k \in 1 .. m |-> T[k]]) = m
    BY <2>1, <2>3
  <2>2. T \in Seq(X) /\ Len(T) = m
    BY <2>1, <2>4, Zenon
  <2> QED BY <2>2 DEF m
<1>6. ASSUME NEW k \in 1 .. Len(parts) PROVE isNullSlice(parts[k]) <=> T[k] = <<>>
  <2>1. k \in DOMAIN parts
    BY <1>2
  <2>2. CASE isNullSlice(parts[k])
    <3>1. parts[k].from = parts[k].to /\ parts[k].to \in Int
      BY <1>1, <2>1, <2>2, PartIs
    <3>2. T[k] = <<>>
      BY <1>1, <1>4, <3>1, EmptySlice
    <3> QED BY <2>2, <3>2
  <2>3. CASE ~ isNullSlice(parts[k])
    <3>1. parts[k].from \in Cells /\ parts[k].to \in 2 .. Beyond /\ parts[k].from < parts[k].to
      BY <1>1, <2>1, <2>3, PartIs
    <3>2. PICK a, b \in Nat : /\ a = parts[k].from /\ b = parts[k].to - 1
                              /\ a >= 1 /\ a <= b /\ b <= BufferSize
      <4>1. /\ parts[k].from \in Nat /\ parts[k].to - 1 \in Nat /\ parts[k].from >= 1
            /\ parts[k].from <= parts[k].to - 1 /\ parts[k].to - 1 <= BufferSize
        BY <3>1, Bounds
      <4> QED BY <4>1
    <3>3. Len(SubSeq(src, a, b)) = b - a + 1
      BY <1>1, <3>2, SliceOf
    <3>4. Len(SubSeq(src, a, b)) # 0
      BY <3>2, <3>3
    <3>5. Len(<<>>) = 0
      OBVIOUS
    <3> QED BY <1>4, <2>3, <3>2, <3>4, <3>5, Zenon
  <2> QED BY <2>2, <2>3
<1> QED BY <1>4, <1>5, <1>6

\* The command that is appended is that of the file.
LEMMA CommandIs ==
  ASSUME IInv, KeepsTexts, AppendCommand, at \in Cells,
         NEW h, AreParts(file, src, parts, h)
  PROVE  [j \in DOMAIN NewCommand |-> TextIn(src', NewCommand[j])] = CommandOf(file, Kinds(file), h)
<1> DEFINE T == [k \in 1 .. Cardinality(Before(file, h)) |-> PartText(file, Kinds(file), Nth(k, Before(file, h)))]
           m == PartCount
<1>1. /\ TypeOK /\ PartsBehind /\ parts \in Seq(Slices)
  BY DEF IInv, TypeOK
<1>2. /\ Len(T) = Len(parts) /\ DOMAIN T = 1 .. Len(parts)
      /\ \A k \in 1 .. Len(parts) : /\ T[k] = SubSeq(src, parts[k].from, parts[k].to - 1)
                                    /\ isNullSlice(parts[k]) <=> T[k] = <<>>
  <2> DEFINE S == T
  <2>1. S = [k \in 1 .. Cardinality(Before(file, h)) |-> PartText(file, Kinds(file), Nth(k, Before(file, h)))]
    OBVIOUS
  <2> HIDE DEF S
  <2>2. /\ Len(S) = Len(parts) /\ DOMAIN S = 1 .. Len(parts)
        /\ \A k \in 1 .. Len(parts) : /\ S[k] = SubSeq(src, parts[k].from, parts[k].to - 1)
                                      /\ isNullSlice(parts[k]) <=> S[k] = <<>>
    BY <2>1, LineTexts, Zenon
  <2> QED BY <2>2, Zenon DEF S
<1>3. CommandOf(file, Kinds(file), h) = [k \in DOMAIN Until(T, <<>>) |-> Until(Until(T, <<>>)[k], Nul)]
  BY Zenon DEF CommandOf, Before
<1> HIDE DEF T
<1>4. Until(T, <<>>) = SubSeq(T, 1, m)
  BY <1>1, <1>2, PartsCounted, Zenon
<1>5. /\ m \in 0 .. Len(parts) /\ Len(parts) \in Nat
      /\ \A i \in 1 .. m : i \in 1 .. Len(parts) /\ i \in DOMAIN parts /\ ~ isNullSlice(parts[i])
  <2>1. /\ m \in 0 .. Len(parts)
        /\ \A i \in 1 .. m : i \in DOMAIN parts /\ ~ isNullSlice(parts[i])
    BY <1>1, PartCountIs, Zenon
  <2> HIDE DEF m
  <2> QED BY <1>1, <2>1
<1>6. DOMAIN SubSeq(T, 1, m) = 1 .. m /\ \A k \in 1 .. m : SubSeq(T, 1, m)[k] = T[k]
  <2> DEFINE X == { T[k] : k \in 1 .. Len(parts) }
             n == Len(parts)
  <2>1. T = [k \in 1 .. n |-> T[k]] /\ \A k \in 1 .. n : T[k] \in X
    <3>1. T = [k \in 1 .. Cardinality(Before(file, h)) |-> T[k]]
      BY DEF T
    <3>2. n = Cardinality(Before(file, h))
      BY DEF AreParts
    <3> QED BY <3>1, <3>2
  <2> HIDE DEF X, n, m
  <2>2. T \in Seq(X)
    BY <1>2, <1>5, <2>1 DEF n
  <2> QED BY <1>2, <1>5, <2>2
<1>7. /\ DOMAIN NewCommand = 1 .. m /\ \A j \in 1 .. m : NewCommand[j] = parts[j].from
  BY Zenon DEF NewCommand
<1>8. src' \in [Cells -> Symbols \cup {Nul}]
  BY <1>1, AppendKeeps, Zenon
<1>9. ASSUME NEW j \in 1 .. m PROVE TextIn(src', NewCommand[j]) = Until(T[j], Nul)
  <2> DEFINE a == parts[j].from
             b == parts[j].to
  <2>1. j \in 1 .. Len(parts) /\ j \in DOMAIN parts /\ ~ isNullSlice(parts[j])
    BY <1>5, Zenon
  <2>2. a \in Cells /\ b \in 2 .. Beyond /\ a < b
    BY <1>1, <2>1, PartIs
  <2>3. b <= at
    BY <2>1, Zenon DEF IInv, PartsBehind
  <2> HIDE DEF a, b
  <2>4. b \in Cells /\ a <= b
    BY <2>2, <2>3, Bounds
  <2>5. src'[b] = Nul
    <3>1. src' = [p \in Cells |-> IF \E i \in 1 .. m : parts[i].to = p THEN Nul ELSE src[p]]
      BY Zenon DEF AppendCommand
    <3>2. \E i \in 1 .. m : parts[i].to = b
      BY Zenon DEF b
    <3> QED BY <2>4, <3>1, <3>2, Zenon
  <2>6. TextIn(src', a) = Until(SubSeq(src', a, b - 1), Nul)
    BY <1>8, <2>2, <2>4, <2>5, TextOfPart, Zenon DEF TextIn
  <2>7. SubSeq(src', a, b - 1) = SubSeq(src, a, b - 1)
    BY <1>1, <1>8, <2>1, PartKept, Zenon DEF a, b
  <2>8. T[j] = SubSeq(src, a, b - 1)
    BY <1>2, <2>1, Zenon DEF a, b
  <2> QED BY <1>7, <2>6, <2>7, <2>8, Zenon DEF a
<1> HIDE DEF m
<1>10. CommandOf(file, Kinds(file), h) = [k \in 1 .. m |-> Until(T[k], Nul)]
  <2>1. CommandOf(file, Kinds(file), h) = [k \in 1 .. m |-> Until(SubSeq(T, 1, m)[k], Nul)]
    BY <1>3, <1>4, <1>6, Zenon
  <2> QED BY <1>6, <2>1, Zenon
<1> QED BY <1>7, <1>9, <1>10, Zenon

\* The end of a line counts for what is behind it, if the line has parts.
LEMMA EndsBehind ==
  ASSUME NEW f \in Seq(Symbols), Len(f) <= BufferSize, NEW h \in 1 .. Len(f) + 1
  PROVE  /\ h \in Ends(f) => EndsBy(f, h + 1) = EndsBy(f, h) \cup {h}
         /\ h \notin Ends(f) => EndsBy(f, h + 1) = EndsBy(f, h)
         /\ h = Len(f) + 1 => EndsBy(f, h + 1) = Ends(f)
<1>1. Ends(f) \subseteq 1 .. Len(f) + 1 /\ Len(f) \in Nat
  BY EndsAre, FileIs DEF Ends
<1>2. \A p : EndsBy(f, p) = { e \in Ends(f) : e < p }
  BY DEF EndsBy, Ends
<1>3. \A e \in Ends(f) : /\ e < h + 1 <=> (e < h \/ e = h)
                         /\ h = Len(f) + 1 => e < h + 1
  BY <1>1
<1>4. ~ (h < h)
  BY <1>1
<1> DEFINE E == Ends(f)
<1>5. h \in E => { e \in E : e < h + 1 } = { e \in E : e < h } \cup {h}
  <2> HIDE DEF E
  <2> QED BY <1>3 DEF E
<1>6. h \notin E => { e \in E : e < h + 1 } = { e \in E : e < h }
  <2> HIDE DEF E
  <2> QED BY <1>3 DEF E
<1>7. h = Len(f) + 1 => EndsBy(f, h + 1) = Ends(f)
  <2> SUFFICES ASSUME h = Len(f) + 1 PROVE EndsBy(f, h + 1) = Ends(f)
    OBVIOUS
  <2>1. \A e \in Ends(f) : e < h + 1
    BY <1>3
  <2>2. { e \in Ends(f) : e < h + 1 } = Ends(f)
    BY <2>1, Zenon
  <2> QED BY <1>2, <2>2, Zenon
<1> QED BY <1>2, <1>5, <1>6, <1>7, Zenon

\* An empty line counts for nothing.
LEMMA NoEnd ==
  ASSUME NEW f \in Seq(Symbols), Len(f) <= BufferSize, NEW h \in 1 .. Len(f) + 1,
         h - 1 \in LineEndsOf(f, Kinds(f))
  PROVE  /\ h \notin Ends(f)
         /\ { e \in Ends(f) : e < h \/ h = Len(f) + 1 } = EndsBy(f, h)
<1>1. PartsBefore(f, Kinds(f), h) = {}
  BY PartsBegin
<1>2. h \notin Ends(f)
  BY <1>1, Zenon DEF Ends, CommandEnds
<1>3. Ends(f) \subseteq 1 .. Len(f) + 1 /\ Len(f) \in Nat
  BY EndsAre, FileIs DEF Ends
<1>4. \A e \in Ends(f) : (e < h \/ h = Len(f) + 1) <=> e < h
  BY <1>2, <1>3
<1> QED BY <1>2, <1>4, Zenon DEF EndsBy, Ends

\* A line is finished: its command is the next of the file.
LEMMA LineAppended ==
  ASSUME IInv, Fits, KeepsTexts, AppendCommand, UNCHANGED file, at \in Cells,
         NEW h \in 1 .. Len(file) + 1, AreParts(file, src, parts, h),
         h \in ClosedLines(file, Kinds(file)), \A d \in Directives(file, Kinds(file)) : h < d,
         AreCommands(file, src, commands), Len(commands) = Cardinality(EndsBy(file, h))
  PROVE  AreCommands(file', src', commands') /\ Len(commands') = Cardinality(EndsBy(file, h + 1))
<1>1. /\ file \in Seq(Symbols) /\ Len(file) <= BufferSize /\ TypeOK /\ parts \in Seq(Slices)
      /\ commands \in Seq(Seq(Cells)) /\ Len(commands) \in Nat /\ file' = file
  BY DEF Fits, IInv, TypeOK
<1>2. h \in Ends(file) <=> parts # <<>>
  <2>1. h \in Ends(file) <=> Before(file, h) # {}
    BY Zenon DEF Ends, CommandEnds, Before
  <2>2. Before(file, h) = {} <=> Len(parts) = 0
    BY <1>1, BeforeIs, Zenon DEF AreParts
  <2>3. Len(parts) = 0 <=> parts = <<>>
    BY <1>1
  <2> QED BY <2>1, <2>2, <2>3
<1>3. /\ commands' = IF parts = <<>> THEN commands ELSE Append(commands, NewCommand)
  BY Zenon DEF AppendCommand, NewCommand
<1>4. /\ h \in Ends(file) => EndsBy(file, h + 1) = EndsBy(file, h) \cup {h}
      /\ h \notin Ends(file) => EndsBy(file, h + 1) = EndsBy(file, h)
  BY <1>1, EndsBehind, Zenon
<1>5. CASE parts = <<>>
  <2>1. UNCHANGED <<file, commands>>
    BY <1>1, <1>3, <1>5
  <2>2. AreCommands(file', src', commands')
    BY <1>1, <2>1, CommandsKept, Zenon
  <2> QED BY <1>2, <1>4, <1>5, <2>1, <2>2
<1>6. CASE parts # <<>>
  <2> DEFINE c == Cardinality(EndsBy(file, h))
             w == NewCommand
             e == Ends(file)
  <2>1. /\ c + 1 <= Cardinality(e) /\ Nth(c + 1, e) = h
        /\ Cardinality(EndsBy(file, h + 1)) = c + 1
    <3>1. h \in CommandEnds(file, Kinds(file))
      BY <1>2, <1>6 DEF Ends
    <3>2. EndsBy(file, h + 1) = EndsBy(file, h) \cup {h}
      BY <1>2, <1>4, <1>6
    <3> HIDE DEF c
    <3>3. /\ Cardinality(EndsBy(file, h)) + 1 <= Cardinality(CommandEnds(file, Kinds(file)))
          /\ Nth(Cardinality(EndsBy(file, h)) + 1, CommandEnds(file, Kinds(file))) = h
          /\ Cardinality(EndsBy(file, h) \cup {h}) = Cardinality(EndsBy(file, h)) + 1
      BY <1>1, <3>1, EndsPlus, Zenon
    <3> QED BY <3>2, <3>3, Zenon DEF c, Ends
  <2>2. [j \in DOMAIN w |-> TextIn(src', w[j])] = CommandOf(file, Kinds(file), h)
    BY CommandIs, Zenon
  <2>3. Len(commands) = c /\ commands' = Append(commands, w)
    BY <1>3, <1>6
  <2> HIDE DEF c, w, e
  <2>4. /\ Len(commands') = c + 1 /\ DOMAIN commands' = 1 .. c + 1 /\ commands'[c + 1] = w
        /\ \A l \in 1 .. c : commands'[l] = commands[l] /\ l \in DOMAIN commands
    <3>1. w \in Seq(Cells)
      <4>1. commands' \in Seq(Seq(Cells))
        BY <1>1, AppendKeeps DEF IInv
      <4>2. /\ PartCount \in 0 .. Len(parts)
            /\ \A i \in 1 .. PartCount : i \in DOMAIN parts /\ ~ isNullSlice(parts[i])
        BY <1>1, PartCountIs
      <4>3. PICK n \in Nat : n = PartCount
        BY <1>1, <4>2
      <4>4. \A i \in 1 .. n : parts[i].from \in Cells
        <5> TAKE i \in 1 .. n
        <5>1. i \in DOMAIN parts /\ ~ isNullSlice(parts[i]) /\ parts[i] \in Slices
          BY <1>1, <4>2, <4>3
        <5> QED BY <5>1, NotNull
      <4>5. w = [i \in 1 .. n |-> parts[i].from]
        BY <4>3, Zenon DEF w, NewCommand
      <4> QED BY <4>3, <4>4, <4>5
    <3> QED BY <1>1, <2>3, <3>1
  <2>5. ASSUME NEW l \in DOMAIN commands'
        PROVE  [j \in DOMAIN commands'[l] |-> TextIn(src', commands'[l][j])]
                 = CommandOf(file, Kinds(file), Nth(l, e))
    <3>1. CASE l = c + 1
      BY <2>1, <2>2, <2>4, <3>1, Zenon
    <3>2. CASE l # c + 1
      <4>1. l \in 1 .. c /\ commands'[l] = commands[l] /\ l \in DOMAIN commands
        BY <1>1, <2>3, <2>4, <3>2
      <4>2. \A j \in DOMAIN commands[l] : TextIn(src', commands[l][j]) = TextIn(src, commands[l][j])
        <5> TAKE j \in DOMAIN commands[l]
        <5>1. TextAt(commands[l][j])' = TextAt(commands[l][j])
          <6>1. commands'[l][j] = commands[l][j]
            BY <4>1
          <6> QED BY <4>1, <6>1, Zenon DEF KeepsTexts
        <5>2. commands'[l][j] = commands[l][j]
          BY <4>1
        <5>3. TextAt(commands[l][j])' = TextIn(src', commands[l][j])
          BY <5>2, Zenon DEF TextAt, TextIn, FirstNul
        <5> QED BY <5>1, <5>3, Zenon DEF TextAt, TextIn, FirstNul
      <4>3. [j \in DOMAIN commands[l] |-> TextIn(src, commands[l][j])] = CommandOf(file, Kinds(file), Nth(l, e))
        BY <4>1, Zenon DEF AreCommands, e
      <4> QED BY <4>1, <4>2, <4>3, Zenon
    <3> QED BY <3>1, <3>2
  <2>6. Len(commands') <= Cardinality(e)
    BY <2>1, <2>4
  <2> QED BY <1>1, <2>1, <2>4, <2>5, <2>6, Zenon DEF AreCommands, e
<1> QED BY <1>5, <1>6

\* Between two lines.
LEMMA LineTrack ==
  ASSUME Fits, UNCHANGED file, pc' = "file", mode' = "single", parts' = <<>>,
         at' \in 1 .. Len(file) + 1, \A p \in at' .. BufferSize : src'[p] = Padded(file)[p],
         BetweenParts(file, Kinds(file), at'),
         at' = Len(file) + 1 \/ at' - 1 \in LineEndsOf(file, Kinds(file)),
         \A d \in Directives(file, Kinds(file)) : at' <= d,
         Len(commands') = Cardinality({ e \in Ends(file) : e < at' \/ at' = Len(file) + 1 })
  PROVE  OnTrack'
<1>1. pc' # "line" /\ file' = file
  OBVIOUS
<1>2. at' = Len(file) + 1 \/ at' - 1 \in LineEndsOf(file, Kinds(file)) \cup {0}
  BY Zenon
<1>3. Len(commands') = Cardinality({ e \in CommandEnds(file', Kinds(file')) : e < at' \/ at' = Len(file') + 1 })
  BY <1>1, Zenon DEF Ends
<1> QED BY <1>1, <1>2, <1>3, Zenon DEF OnTrack

\* The end of a line, be it a newline or the end of the file, finishes its
\* command; an empty line behind it goes with it.
LEMMA EndOfLineTrack ==
  ASSUME IInv, Fits, OnTrack, Written, KeepsTexts, EndOfLine
  PROVE  OnTrack' /\ Written'
<1>1. /\ pc = "line" /\ CurIn(LineEnds) /\ here # Beyond /\ AppendCommand
      /\ at' = Over(nextChar(here), {Newline}) /\ pc' = "file"
      /\ UNCHANGED <<file, mode, err, damage>>
  BY Zenon DEF EndOfLine, CurIn
<1>2. /\ here \in at .. Len(file) + 1 /\ here \in 1 .. Len(file) + 1 /\ here \in Cells
      /\ Ahead(file, here) /\ BetweenParts(file, Kinds(file), here)
      /\ here # Len(file) + 1 =>
           here \in 1 .. Len(file) /\ src[here] = file[here] /\ file[here] # Nul
      /\ here = Len(file) + 1 => src[here] = Nul
      /\ AreParts(file, src, parts, here)
      /\ \A d \in Directives(file, Kinds(file)) : here < d
      /\ Len(commands) = Cardinality(EndsBy(file, here))
  BY <1>1, HereTrack
<1>3. /\ file \in Seq(Symbols) /\ Len(file) \in Nat /\ Len(file) <= BufferSize
      /\ at \in 1 .. Len(file) + 1 /\ mode = "single" /\ TypeOK /\ PartsBehind
  BY TrackIs
<1>4. at \in Cells
  BY <1>2, <1>3, Bounds
<1>5. /\ parts' = <<>> /\ \A p \in Cells : src'[p] = src[p] \/ (src'[p] = Nul /\ p <= at)
  BY <1>1, <1>3, AppendKeeps
<1>6. Kinds(file)[here - 1] \in {"blank", "id", "comment"}
  BY <1>2, Zenon DEF BetweenParts
<1>7. AreCommands(file, src, commands)
  BY WrittenIs, Zenon
<1>8. ASSUME here \in ClosedLines(file, Kinds(file))
      PROVE  Written' /\ Len(commands') = Cardinality(EndsBy(file, here + 1))
  <2>1. UNCHANGED file
    BY <1>1
  <2>2. AreCommands(file', src', commands') /\ Len(commands') = Cardinality(EndsBy(file, here + 1))
    BY <1>1, <1>2, <1>4, <1>7, <1>8, <2>1, LineAppended, Zenon
  <2>3. pc' # "done"
    BY <1>1
  <2> QED BY <2>2, <2>3, WrittenIs, Zenon
<1>9. UNCHANGED file /\ pc' = "file" /\ mode' = "single" /\ parts' = <<>>
  BY <1>1, <1>3, <1>5
<1>10. CASE here = Len(file) + 1
  <2>1. nextChar(here) = here /\ Over(here, {Newline}) = here
    BY <1>2, <1>10 DEF nextChar, Over, Nul, Newline
  <2>2. at' = Len(file) + 1
    BY <1>1, <1>10, <2>1
  <2>3. \A p \in at' .. BufferSize : src'[p] = Padded(file)[p]
    <3>1. SUFFICES ASSUME NEW p \in Len(file) + 1 .. BufferSize PROVE src'[p] = Padded(file)[p]
      BY <2>2
    <3>2. p \in Cells /\ p \in here .. BufferSize /\ ~ (p <= Len(file))
      BY <1>3, <1>10, Bounds
    <3>3. Padded(file)[p] = Nul
      BY <3>2 DEF Padded
    <3>4. src[p] = Padded(file)[p]
      BY <1>2, <3>2, Zenon DEF Ahead
    <3> QED BY <1>5, <3>2, <3>3, <3>4, Zenon
  <2>4. BetweenParts(file, Kinds(file), at') /\ at' \in 1 .. Len(file) + 1
    BY <1>2, <1>3, <1>10, <2>2, Zenon
  <2>5. here \in ClosedLines(file, Kinds(file))
    <3>1. here - 1 = Len(file)
      BY <1>3, <1>10
    <3> QED BY <1>6, <1>10, <3>1 DEF ClosedLines
  <2>6. Len(commands') = Cardinality({ e \in Ends(file) : e < at' \/ at' = Len(file) + 1 })
    <3>1. EndsBy(file, here + 1) = Ends(file)
      BY <1>2, <1>3, <1>10, EndsBehind, Zenon
    <3>2. { e \in Ends(file) : e < at' \/ at' = Len(file) + 1 } = Ends(file)
      BY <2>2, Zenon
    <3> QED BY <1>8, <2>5, <3>1, <3>2, Zenon
  <2>7. \A d \in Directives(file, Kinds(file)) : at' <= d
    <3> TAKE d \in Directives(file, Kinds(file))
    <3>1. here < d /\ d \in 1 .. Len(file)
      BY <1>2 DEF Directives
    <3> QED BY <1>3, <1>10, <3>1
  <2>8. OnTrack'
    BY <1>9, <2>2, <2>3, <2>4, <2>6, <2>7, LineTrack, Zenon
  <2> QED BY <1>8, <2>5, <2>8
<1>11. CASE here # Len(file) + 1
  <2>1. here \in 1 .. Len(file) /\ file[here] = Newline /\ src[here] = Newline /\ Newline # Nul
    BY <1>1, <1>2, <1>11 DEF CurIn, LineEnds, Nul, Newline
  <2>2. here \in LineEndsOf(file, Kinds(file)) /\ Kinds(file)[here] = "blank"
    BY <1>2, <1>3, <2>1, NewlineEnds
  <2>3. nextChar(here) = here + 1
    BY <2>1, Zenon DEF nextChar
  <2>4. /\ here + 1 \in 1 .. Len(file) + 1 /\ (here + 1) - 1 = here /\ here + 1 > at
    BY <1>2, <1>3, <2>1
  <2>5. \A p \in here + 1 .. BufferSize : src'[p] = Padded(file)[p]
    <3>1. SUFFICES ASSUME NEW p \in here + 1 .. BufferSize PROVE src'[p] = Padded(file)[p]
      OBVIOUS
    <3>2. p \in Cells /\ p \in here .. BufferSize /\ ~ (p <= at)
      BY <1>2, <1>3, <2>1, <2>4, Bounds
    <3> QED BY <1>2, <1>5, <3>2, Zenon DEF Ahead
  <2>6. Written' /\ Len(commands') = Cardinality(EndsBy(file, here + 1))
    <3>1. here \in ClosedLines(file, Kinds(file))
      BY <2>2 DEF ClosedLines
    <3> QED BY <1>8, <3>1
  <2>7. here + 1 \notin Ends(file) /\ { e \in Ends(file) : e < here + 1 \/ here + 1 = Len(file) + 1 } = EndsBy(file, here + 1)
    <3>1. (here + 1) - 1 \in LineEndsOf(file, Kinds(file))
      BY <2>2, <2>4, Zenon
    <3> QED BY <1>3, <2>4, <3>1, NoEnd, Zenon
  <2>8. CASE here + 1 = Beyond \/ src[here + 1] # Newline
    <3>1. at' = here + 1
      BY <1>1, <2>3, <2>8 DEF Over
    <3>2. BetweenParts(file, Kinds(file), here + 1)
      BY <2>2, <2>4, Zenon DEF BetweenParts
    <3>3. \A d \in Directives(file, Kinds(file)) : here + 1 <= d
      <4> TAKE d \in Directives(file, Kinds(file))
      <4>1. here < d /\ d \in 1 .. Len(file)
        BY <1>2 DEF Directives
      <4> QED BY <2>1, <4>1
    <3>4. /\ at' \in 1 .. Len(file) + 1 /\ \A p \in at' .. BufferSize : src'[p] = Padded(file)[p]
          /\ BetweenParts(file, Kinds(file), at') /\ at' - 1 \in LineEndsOf(file, Kinds(file))
          /\ \A d \in Directives(file, Kinds(file)) : at' <= d
          /\ Len(commands') = Cardinality({ e \in Ends(file) : e < at' \/ at' = Len(file) + 1 })
      BY <2>2, <2>4, <2>5, <2>6, <2>7, <3>1, <3>2, <3>3, Zenon
    <3>5. OnTrack'
      BY <1>9, <3>4, LineTrack, Zenon
    <3> QED BY <2>6, <3>5
  <2>9. CASE here + 1 # Beyond /\ src[here + 1] = Newline
    <3>1. at' = (here + 1) + 1
      BY <1>1, <2>3, <2>9 DEF Over
    <3>2. here + 1 \in here .. BufferSize /\ here + 1 \in Cells
      BY <1>2, <1>3, <2>1, <2>9, Bounds
    <3>3. Padded(file)[here + 1] = Newline
      BY <1>2, <2>9, <3>2, Zenon DEF Ahead
    <3>4. here + 1 \in 1 .. Len(file) /\ file[here + 1] = Newline
      BY <1>3, <2>1, <3>2, <3>3 DEF Padded, Nul, Newline
    <3>5. BetweenParts(file, Kinds(file), here + 1)
      BY <2>2, <2>4, Zenon DEF BetweenParts
    <3>6. here + 1 \in LineEndsOf(file, Kinds(file)) /\ Kinds(file)[here + 1] = "blank"
      BY <1>3, <3>4, <3>5, NewlineEnds
    <3>7. /\ at' \in 1 .. Len(file) + 1 /\ at' - 1 = here + 1
          /\ \A p \in at' .. BufferSize : p \in here + 1 .. BufferSize
      BY <1>3, <2>1, <3>1, <3>4, Bounds
    <3>8. BetweenParts(file, Kinds(file), at')
      BY <3>6, <3>7, Zenon DEF BetweenParts
    <3>9. \A p \in at' .. BufferSize : src'[p] = Padded(file)[p]
      BY <2>5, <3>7, Zenon
    <3>10. at' - 1 \in LineEndsOf(file, Kinds(file))
      BY <3>6, <3>7, Zenon
    <3>11. \A d \in Directives(file, Kinds(file)) : at' <= d
      <4> TAKE d \in Directives(file, Kinds(file))
      <4>1. here < d /\ d \in 1 .. Len(file) /\ file[d] = "?" /\ "?" # Newline
        BY <1>2 DEF Directives, Newline
      <4> QED BY <2>1, <3>1, <3>4, <4>1
    <3>12. Len(commands') = Cardinality({ e \in Ends(file) : e < at' \/ at' = Len(file) + 1 })
      <4>1. (here + 1) + 1 \in 1 .. Len(file) + 1 /\ ((here + 1) + 1) - 1 \in LineEndsOf(file, Kinds(file))
        BY <3>1, <3>7, <3>10, Zenon
      <4>2. { e \in Ends(file) : e < (here + 1) + 1 \/ (here + 1) + 1 = Len(file) + 1 } = EndsBy(file, (here + 1) + 1)
        BY <1>3, <4>1, NoEnd, Zenon
      <4>3. EndsBy(file, (here + 1) + 1) = EndsBy(file, here + 1)
        BY <1>3, <2>4, <2>7, EndsBehind, Zenon
      <4> QED BY <2>6, <3>1, <4>2, <4>3, Zenon
    <3>13. OnTrack'
      BY <1>9, <3>7, <3>8, <3>9, <3>10, <3>11, <3>12, LineTrack, Zenon
    <3> QED BY <2>6, <3>13
  <2> QED BY <2>8, <2>9
<1> QED BY <1>10, <1>11

-----------------------------------------------------------------------------
(* The theorem on the commands of a file *)

\* Where nothing more is read.
LEMMA StopIs ==
  ASSUME IInv, Fits, HeldUp \/ BehindOperator
  PROVE  /\ at \in Cells /\ here = at
         /\ HeldUp => src[at] = "illegal" /\ src[at] \notin LineEnds \cup Quotes \cup {"#"} /\ pc = "line"
         /\ BehindOperator => src[at] = Nul /\ src[at] \notin Quotes \cup {"#"}
<1>1. at \in Cells /\ at \in 1 .. Beyond
  BY FileIs, Bounds DEF HeldUp, BehindOperator, Fits
<1>2. src[at] \in {"illegal", Nul} /\ src[at] \notin Whitespace
  BY DEF HeldUp, BehindOperator, Nul, Whitespace
<1>3. here = at
  <2>1. here \in at .. Beyond /\ \A i \in at .. here - 1 : src[i] \in Whitespace
    BY <1>1, PastAllIs, Zenon DEF here
  <2>2. at \notin at .. here - 1
    BY <1>2, <2>1
  <2> QED BY <1>1, <2>1, <2>2, Bounds
<1> QED BY <1>1, <1>3 DEF HeldUp, BehindOperator, LineEnds, Quotes, Nul, Newline

\* A character that begins nothing takes the parser no further.
LEMMA IdStops ==
  ASSUME IInv, Fits, HeldUp \/ BehindOperator, Id, damage = "none", damage' = "none"
  PROVE  HeldUp' \/ (pc' = "done" /\ err' = 984)
<1>1. /\ pc = "line" /\ ~ CurIn(LineEnds \cup Quotes \cup {"#"}) /\ here # Beyond
      /\ at' = PastAll(here, IdChars) /\ AddPart(slice(here, at'))
      /\ UNCHANGED <<file, src, mode, commands>>
  BY Zenon DEF Id
<1>2. at \in Cells /\ here = at /\ (BehindOperator => src[at] = Nul)
  BY StopIs
<1>3. HeldUp
  BY <1>1, <1>2, Zenon DEF CurIn, LineEnds
<1>4. at' = at
  <2> DEFINE e == PastAll(here, IdChars)
  <2>1. e \in here .. Beyond /\ \A i \in here .. e - 1 : src[i] \in IdChars
    <3>1. here \in 1 .. Beyond
      BY <1>2, Bounds
    <3> QED BY <3>1, PastAllIs, Zenon
  <2> HIDE DEF e
  <2>2. here \notin here .. e - 1
    <3>1. src[here] \notin IdChars
      BY <1>2, <1>3 DEF HeldUp, IdChars, Alnum
    <3> QED BY <2>1, <3>1
  <2>3. e = here
    BY <1>2, <2>1, <2>2, Bounds
  <2> QED BY <1>1, <1>2, <2>3 DEF e
<1>5. \/ parts' = Append(parts, slice(here, at')) /\ pc' = "line"
      \/ pc' = "done" /\ err' = 984
  BY <1>1, PartGoesOn
<1> QED BY <1>1, <1>3, <1>4, <1>5, Zenon DEF HeldUp

\* Behind a '?' operator no line has anything to finish.
LEMMA EndOfLineStops ==
  ASSUME IInv, Fits, HeldUp \/ BehindOperator, Written, KeepsTexts, EndOfLine
  PROVE  BehindOperator' /\ Written'
<1>1. /\ mode = "single" /\ CurIn(LineEnds) /\ AppendCommand /\ pc' = "file"
      /\ at' = Over(nextChar(here), {Newline})
      /\ UNCHANGED <<file, mode, err, damage>>
  BY Zenon DEF EndOfLine
<1>2. /\ at \in Cells /\ here = at /\ (BehindOperator => src[at] = Nul)
      /\ HeldUp => src[at] \notin LineEnds \cup Quotes \cup {"#"}
  BY StopIs
<1>3. BehindOperator /\ src[at] = Nul
  BY <1>1, <1>2 DEF CurIn
<1>4. parts = <<>>
  BY <1>1, <1>3 DEF BehindOperator
<1>5. at' = at
  BY <1>1, <1>2, <1>3 DEF nextChar, Over, Nul, Newline
<1>6. parts' = <<>> /\ commands' = commands /\ src'[at] = Nul
  <2>1. parts' = <<>> /\ \A p \in Cells : src'[p] = src[p] \/ (src'[p] = Nul /\ p <= at)
    BY <1>1, AppendKeeps DEF IInv
  <2>2. commands' = commands
    BY <1>1, <1>4, Zenon DEF AppendCommand
  <2> QED BY <1>2, <1>3, <2>1, <2>2
<1>7. BehindOperator'
  <2>1. Len(commands) = Cardinality(CommandEnds(file, Kinds(file)))
    BY <1>3, Zenon DEF BehindOperator
  <2>2. file' = file /\ commands' = commands /\ mode' = "single"
    BY <1>1, <1>6
  <2> QED BY <1>2, <1>5, <1>6, <2>1, <2>2, Zenon DEF BehindOperator
<1>8. UNCHANGED <<file, commands>> /\ pc' # "done"
  BY <1>1, <1>6
<1> QED BY <1>7, <1>8, WrittenStays, Zenon

\* At a '?' operator all commands have been taken.
LEMMA QuesTrack ==
  ASSUME IInv, Fits, OnTrack, QuesBegin \/ QuesEnd
  PROVE  BehindOperator'
<1>1. /\ pc = "file" /\ at # Beyond /\ src[at] = "?" /\ pc' = "line"
      /\ mode' \in {"single", "multi"}
      /\ UNCHANGED <<file, parts, commands>>
  BY DEF QuesBegin, QuesEnd, QuesMark, AtQuesMark
<1>2. WordEnd \in Cells /\ at' = WordEnd /\ src' = [src EXCEPT ![WordEnd] = Nul]
  BY QuesGoes, Zenon DEF QuesSteps, IInv
<1>3. /\ Len(file) \in Nat /\ at \in 1 .. Len(file) + 1
      /\ Len(file) + 1 # Beyond => src[Len(file) + 1] = Nul
      /\ at # Beyond /\ at # Len(file) + 1 => at \in 1 .. Len(file) /\ src[at] = file[at]
      /\ src \in [Cells -> Symbols \cup {Nul}]
  BY TrackIs
<1>4. at \in 1 .. Len(file) /\ file[at] = "?" /\ at # Len(file) + 1
  <2>1. "?" # Nul
    BY DEF Nul
  <2> QED BY <1>1, <1>3, <2>1
<1>5. /\ parts = <<>> /\ at - 1 \in LineEndsOf(file, Kinds(file)) \cup {0}
      /\ Len(commands) = Cardinality({ e \in CommandEnds(file, Kinds(file)) : e < at \/ at = Len(file) + 1 })
  BY <1>1, <1>4, Zenon DEF OnTrack
<1>6. at \in Directives(file, Kinds(file))
  BY <1>4, <1>5, Zenon DEF Directives
<1>7. { e \in CommandEnds(file, Kinds(file)) : e < at \/ at = Len(file) + 1 } = CommandEnds(file, Kinds(file))
  <2>1. \A e \in CommandEnds(file, Kinds(file)) : e < at
    BY <1>6, Zenon DEF CommandEnds
  <2> QED BY <2>1, Zenon
<1>8. at' \in Cells /\ src'[at'] = Nul
  <2> DEFINE w == WordEnd
  <2>1. w \in Cells /\ at' = w /\ src' = [src EXCEPT ![w] = Nul]
    BY <1>2
  <2> HIDE DEF w
  <2> QED BY <1>3, <2>1
<1>9. Len(commands') = Cardinality(CommandEnds(file', Kinds(file')))
  BY <1>1, <1>5, <1>7, Zenon
<1>10. parts' = <<>>
  BY <1>1, <1>5
<1> QED BY <1>1, <1>8, <1>9, <1>10 DEF BehindOperator

LEMMA FileStays == [Next]_vars => UNCHANGED file
<1> SUFFICES ASSUME [Next]_vars PROVE UNCHANGED file
  OBVIOUS
<1>1. StandingSteps \/ LineSteps \/ QuesSteps \/ EndOfLine \/ Id \/ Str
  BY StepsAre
<1> QED BY <1>1, Stands, Zenon DEF LineSteps, EndOfLineFails, EndOfLineInBlock, Comment,
           QuesSteps, QuesBegin, QuesEnd, QuesUnknown, QuesMark, EndOfLine, Id, Str

\* Undefined behaviour is never undone.
LEMMA DamageStays ==
  ASSUME [Next]_vars, damage' = "none"
  PROVE  /\ damage = "none" /\ file' = file
         /\ ~ ReadBeyond /\ ~ QuesAlone /\ ~ EndOfLineOverruns /\ ~ StrOverruns
<1>1. \/ NoContext \/ EndOfFile \/ BeginLine \/ ReadBeyond \/ QuesAlone
      \/ EndOfLineOverruns \/ StrOverruns \/ UNCHANGED vars
      \/ EndOfLineFails \/ EndOfLineInBlock \/ Comment
      \/ QuesBegin \/ QuesEnd \/ QuesUnknown \/ EndOfLine \/ Id \/ Str
  BY StepsAre, Zenon DEF StandingSteps, LineSteps, QuesSteps
<1>2. ~ ReadBeyond /\ ~ QuesAlone /\ ~ EndOfLineOverruns /\ ~ StrOverruns
  BY DEF ReadBeyond, QuesAlone, EndOfLineOverruns, StrOverruns, Undefined
<1>3. ASSUME \/ NoContext \/ EndOfFile \/ BeginLine \/ EndOfLineFails \/ EndOfLineInBlock \/ Comment
             \/ QuesBegin \/ QuesEnd \/ QuesUnknown \/ EndOfLine
      PROVE  damage' = damage
  BY <1>3, Zenon DEF NoContext, EndOfFile, BeginLine, EndOfLineFails, EndOfLineInBlock, Comment,
               QuesBegin, QuesEnd, QuesUnknown, EndOfLine, Fail
<1>4. file' = file
  BY FileStays, Zenon
<1>5. ASSUME NEW s, AddPart(s) PROVE damage = "none"
  BY <1>5 DEF AddPart, Fail
<1>6. CASE Id
  <2>1. AddPart(slice(here, at'))
    BY <1>6, Zenon DEF Id
  <2> QED BY <1>2, <1>4, <1>5, <2>1
<1>7. CASE Str
  <2>1. (\E s : AddPart(s)) \/ UNCHANGED damage
    BY <1>7, Zenon DEF Str, Fail
  <2> QED BY <1>2, <1>4, <1>5, <2>1
<1>8. CASE UNCHANGED vars
  BY <1>2, <1>8 DEF vars
<1> QED BY <1>1, <1>2, <1>3, <1>4, <1>6, <1>7, <1>8

\* The steps that end the run: with all commands, or with an error.
LEMMA EndTrack ==
  ASSUME IInv, Fits, Written, KeepsTexts, OnTrack \/ HeldUp \/ BehindOperator,
         NoContext \/ EndOfFile \/ EndOfLineFails \/ EndOfLineInBlock \/ QuesUnknown
  PROVE  pc' = "done" /\ Written'
<1>1. UNCHANGED <<file, commands>>
  BY DEF NoContext, EndOfFile, EndOfLineFails, EndOfLineInBlock, QuesUnknown, QuesMark
<1>2. CASE NoContext \/ EndOfLineFails \/ QuesUnknown
  <2>1. pc' = "done" /\ err' # 0
    BY <1>2 DEF NoContext, EndOfLineFails, QuesUnknown, Fail
  <2> QED BY <1>1, <2>1, WrittenStays, Zenon
<1>3. CASE EndOfFile
  <2>1. pc = "file" /\ pc' = "done" /\ at # Beyond /\ src[at] = Nul
    BY <1>3 DEF EndOfFile
  <2>2. ~ HeldUp
    BY <2>1 DEF HeldUp
  <2>3. CASE OnTrack
    <3>1. at = Len(file) + 1
      <4>1. at # Beyond /\ at # Len(file) + 1 => src[at] = file[at] /\ file[at] # Nul
        BY <2>3, TrackIs
      <4> QED BY <2>1, <4>1
    <3>2. Len(commands) = Cardinality({ e \in CommandEnds(file, Kinds(file)) : e < at \/ at = Len(file) + 1 })
      BY <2>1, <2>3, Zenon DEF OnTrack
    <3>3. Len(commands) = Cardinality(Ends(file))
      <4>1. { e \in CommandEnds(file, Kinds(file)) : e < at \/ at = Len(file) + 1 } = CommandEnds(file, Kinds(file))
        BY <3>1, Zenon
      <4> QED BY <3>2, <4>1, Zenon DEF Ends
    <3> QED BY <1>1, <2>1, <3>3, WrittenStays, Zenon
  <2>4. CASE BehindOperator
    <3>1. Len(commands) = Cardinality(Ends(file))
      BY <2>4, Zenon DEF BehindOperator, Ends
    <3> QED BY <1>1, <2>1, <3>1, WrittenStays, Zenon
  <2> QED BY <2>2, <2>3, <2>4
<1>4. CASE EndOfLineInBlock
  <2>1. mode = "multi" /\ CurIn(LineEnds) /\ (src[here] = Nul => Fail(984))
    BY <1>4, Zenon DEF EndOfLineInBlock
  <2>2. ~ OnTrack
    BY <2>1 DEF OnTrack
  <2>3. src[here] = Nul
    <3>1. HeldUp => src[here] \notin LineEnds
      BY StopIs
    <3>2. BehindOperator => src[here] = Nul
      BY StopIs
    <3> QED BY <2>1, <2>2, <3>1, <3>2 DEF CurIn
  <2>4. pc' = "done" /\ err' # 0
    BY <2>1, <2>3 DEF Fail
  <2> QED BY <1>1, <2>4, WrittenStays, Zenon
<1> QED BY <1>2, <1>3, <1>4

LEMMA InitWritten == Init => Fits /\ WrittenInv
<1> SUFFICES ASSUME Init PROVE Fits /\ Written /\ OnTrack
  BY DEF WrittenInv, Placed
<1>1. /\ file \in Seq(Symbols) /\ Len(file) <= BufferSize
      /\ src = Padded(file) /\ at = 1 /\ mode = "single"
      /\ parts = <<>> /\ commands = <<>> /\ err = 0 /\ pc = "file" /\ damage = "none"
  BY Pl2ParserAssumption DEF Init
<1>2. Len(file) \in Nat /\ Kinds(file)[0] = "blank"
  BY <1>1, FileIs, Zenon
<1>3. 1 \in 1 .. Len(file) + 1 /\ 1 - 1 = 0
  BY <1>2
<1>4. BetweenParts(file, Kinds(file), 1)
  BY <1>2, <1>3, Zenon DEF BetweenParts
<1> DEFINE E == CommandEnds(file, Kinds(file))
<1>5. E \subseteq 1 .. Len(file) + 1 /\ Cardinality(E) \in Nat
  BY <1>1, EndsAre, Zenon
<1>6. { e \in E : e < 1 \/ 1 = Len(file) + 1 } = {}
  <2>1. ASSUME NEW e \in E PROVE ~ (e < 1) /\ 1 # Len(file) + 1
    <3>1. e \in 1 .. Len(file) + 1
      BY <1>5
    <3>2. e \notin { 0 } /\ ~ (e < 1)
      BY <3>1
    <3>3. ASSUME Len(file) = 0 PROVE FALSE
      <4>1. 1 - 1 \in LineEndsOf(file, Kinds(file)) \cup {0}
        BY <1>3
      <4>2. PartsBefore(file, Kinds(file), 1) = {}
        BY <1>1, <1>3, <4>1, PartsBegin, Zenon
      <4>3. e = 1
        BY <3>1, <3>3
      <4> QED BY <4>2, <4>3, Zenon DEF CommandEnds
    <3> QED BY <1>2, <3>2, <3>3
  <2> HIDE DEF E
  <2> QED BY <2>1, Zenon
<1>7. Len(commands) = Cardinality({ e \in E : e < 1 \/ 1 = Len(file) + 1 }) /\ DOMAIN commands = {}
  <2>1. Len(commands) = 0 /\ DOMAIN commands = {}
    BY <1>1
  <2> HIDE DEF E
  <2> QED BY <1>6, <2>1, FS_EmptySet, Zenon
<1>8. Written
  <2>1. Len(commands) <= Cardinality(E)
    <3> HIDE DEF E
    <3> QED BY <1>1, <1>5
  <2>2. pc # "done"
    BY <1>1
  <2> QED BY <1>7, <2>1, <2>2, Zenon DEF Written
<1>9. OnTrack
  <2>1. /\ at \in 1 .. Len(file) + 1 /\ \A p \in at .. BufferSize : src[p] = Padded(file)[p]
        /\ BetweenParts(file, Kinds(file), at)
    BY <1>1, <1>3, <1>4
  <2>2. pc # "line" /\ mode = "single" /\ parts = <<>>
    BY <1>1
  <2>3. at - 1 \in LineEndsOf(file, Kinds(file)) \cup {0}
    BY <1>1
  <2>4. Len(commands) = Cardinality({ e \in E : e < at \/ at = Len(file) + 1 })
    BY <1>1, <1>7
  <2>5. \A d \in Directives(file, Kinds(file)) : at <= d
    BY <1>1, <1>2 DEF Directives
  <2> QED BY <2>1, <2>2, <2>3, <2>4, <2>5, Zenon DEF OnTrack
<1> QED BY <1>1, <1>8, <1>9 DEF Fits

LEMMA NextWritten == IInv /\ TextsInv /\ Fits /\ WrittenInv /\ [Next]_vars => WrittenInv'
<1> SUFFICES ASSUME IInv, TextsInv, Fits, WrittenInv, [Next]_vars,
                    damage' = "none", ~ DoubledBackslash(file')
             PROVE  Written' /\ Placed'
  BY Zenon DEF WrittenInv
<1>1. /\ damage = "none" /\ file' = file
      /\ ~ ReadBeyond /\ ~ QuesAlone /\ ~ EndOfLineOverruns /\ ~ StrOverruns
  BY DamageStays
<1>2. KeepsTexts
  BY NextTexts
<1>3. ~ DoubledBackslash(file) /\ Written /\ Placed
  BY <1>1, Zenon DEF WrittenInv
<1>4. \/ NoContext \/ EndOfFile \/ BeginLine \/ UNCHANGED vars
      \/ EndOfLineFails \/ EndOfLineInBlock \/ Comment
      \/ QuesBegin \/ QuesEnd \/ QuesUnknown \/ EndOfLine \/ Id \/ Str
  BY <1>1, StepsAre, Zenon DEF StandingSteps, LineSteps, QuesSteps
<1>5. CASE UNCHANGED vars
  <2>1. UNCHANGED <<file, src, at, mode, parts, commands, err, pc, damage>>
    BY <1>5 DEF vars
  <2>2. UNCHANGED <<file, commands>> /\ (pc' = "done" /\ err' = 0 => Len(commands) = Cardinality(Ends(file)))
    BY <1>3, <2>1, WrittenIs, Zenon
  <2>3. Written'
    BY <1>2, <1>3, <2>2, WrittenStays, Zenon
  <2>4. Placed'
    BY <1>3, <2>1 DEF Placed, OnTrack, PartsRead, HeldUp, BehindOperator
  <2> QED BY <2>3, <2>4
<1>6. ASSUME ~ UNCHANGED vars PROVE pc # "done"
  BY <1>4, <1>6 DEF NoContext, EndOfFile, BeginLine, EndOfLineFails, EndOfLineInBlock, Comment,
                    QuesBegin, QuesEnd, QuesUnknown, QuesMark, AtQuesMark, EndOfLine, Id, Str
<1>7. SUFFICES ASSUME ~ UNCHANGED vars, OnTrack \/ HeldUp \/ BehindOperator PROVE Written' /\ Placed'
  BY <1>3, <1>5, <1>6 DEF Placed
<1>8. CASE NoContext \/ EndOfFile \/ EndOfLineFails \/ EndOfLineInBlock \/ QuesUnknown
  <2>1. pc' = "done" /\ Written'
    BY <1>2, <1>3, <1>7, <1>8, EndTrack, Zenon
  <2> QED BY <2>1, Zenon DEF Placed
<1>9. ASSUME UNCHANGED <<file, commands>>, pc' # "done" \/ err' # 0 PROVE Written'
  BY <1>2, <1>3, <1>9, WrittenStays, Zenon
<1>10. CASE BeginLine
  <2>1. pc = "file" /\ pc' = "line" /\ src[at] # Nul /\ UNCHANGED <<file, commands>>
    BY <1>10 DEF BeginLine
  <2>2. OnTrack
    BY <1>7, <2>1 DEF HeldUp, BehindOperator
  <2>3. OnTrack' /\ pc' # "done"
    BY <1>10, <2>1, <2>2, BeginTrack
  <2> QED BY <1>9, <2>1, <2>3, Zenon DEF Placed
<1>11. CASE Comment
  <2>1. pc = "line" /\ pc' = "line" /\ src[here] = "#" /\ UNCHANGED <<file, commands>>
    BY <1>11 DEF Comment, CurIn
  <2>2. OnTrack
    BY <1>7, <2>1, StopIs
  <2>3. OnTrack' /\ pc' # "done"
    BY <1>11, <2>1, <2>2, CommentTrack
  <2> QED BY <1>9, <2>1, <2>3, Zenon DEF Placed
<1>12. CASE Id
  <2>1. UNCHANGED <<file, commands>> /\ pc = "line"
    BY <1>12 DEF Id
  <2>2. \/ pc' # "done" /\ (OnTrack' \/ HeldUp')
        \/ pc' = "done" /\ err' # 0
    <3>1. OnTrack' \/ HeldUp' \/ (pc' = "done" /\ err' = 984)
      BY <1>1, <1>2, <1>7, <1>12, IdTrack, IdStops, Zenon
    <3>2. pc' = "line" \/ (pc' = "done" /\ err' = 984)
      <4>1. AddPart(slice(here, at'))
        BY <1>12, Zenon DEF Id
      <4> QED BY <1>1, <2>1, <4>1, PartGoesOn, Zenon
    <3> QED BY <3>1, <3>2
  <2> QED BY <1>9, <2>1, <2>2, Zenon DEF Placed
<1>13. CASE Str
  <2>1. UNCHANGED <<file, commands>> /\ src[here] \in Quotes /\ pc = "line"
    BY <1>13 DEF Str, CurIn
  <2>2. OnTrack
    <3>1. HeldUp \/ BehindOperator => here = at /\ src[at] \notin Quotes
      BY StopIs
    <3> QED BY <1>7, <2>1, <3>1
  <2>3. OnTrack' \/ (pc' = "done" /\ err' = 984)
    BY <1>1, <1>2, <1>3, <1>13, <2>2, StrTrack, Zenon
  <2>4. pc' = "line" \/ (pc' = "done" /\ err' = 984)
    <3>1. (\E s : AddPart(s)) \/ (pc' = "done" /\ err' = 984)
      BY <1>13, Zenon DEF Str, Fail
    <3> QED BY <1>1, <2>1, <3>1, PartGoesOn, Zenon
  <2>5. \/ pc' # "done" /\ OnTrack'
        \/ pc' = "done" /\ err' # 0
    BY <2>3, <2>4
  <2> QED BY <1>9, <2>1, <2>5, Zenon DEF Placed
<1>14. CASE EndOfLine
  <2>1. (OnTrack' \/ BehindOperator') /\ Written'
    BY <1>2, <1>3, <1>7, <1>14, EndOfLineTrack, EndOfLineStops, Zenon
  <2> QED BY <2>1, Zenon DEF Placed
<1>15. CASE QuesBegin \/ QuesEnd
  <2>1. pc = "file" /\ pc' = "line" /\ src[at] = "?" /\ UNCHANGED <<file, commands>>
    BY <1>15 DEF QuesBegin, QuesEnd, QuesMark, AtQuesMark
  <2>2. OnTrack
    BY <1>7, <2>1 DEF HeldUp, BehindOperator, Nul
  <2>3. BehindOperator' /\ pc' # "done"
    BY <1>15, <2>1, <2>2, QuesTrack
  <2> QED BY <1>9, <2>1, <2>3, Zenon DEF Placed
<1> QED BY <1>4, <1>7, <1>8, <1>10, <1>11, <1>12, <1>13, <1>14, <1>15, Zenon

\* The commands read from a file, whatever it holds, are those it writes, with
\* the texts it gives them, as far as the parser has come: '?' operators,
\* comments, empty strings and NULs included (pl2b.c:389-444, 489-510).
THEOREM ReadsAsWritten == Spec => []CommandsAsWritten
<1>1. Init => TextsInv
  BY DEF Init, TextsInv, PartsEnded, PartsApart, TextsEnded
<1>2. IInv /\ TextsInv /\ [Next]_vars => TextsInv'
  BY NextTexts, Zenon
<1>3. Fits /\ [Next]_vars => Fits'
  BY FileStays, Zenon DEF Fits
<1>4. WrittenInv => CommandsAsWritten
  BY DEF WrittenInv, CommandsAsWritten
<1>5. Spec => [](Fits /\ WrittenInv)
  BY <1>1, <1>2, <1>3, InitWritten, NextWritten, Invariance, PTL DEF Spec
<1> QED BY <1>4, <1>5, PTL
=============================================================================
