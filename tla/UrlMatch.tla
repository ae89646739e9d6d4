------------------------------ MODULE UrlMatch ------------------------------
(***************************************************************************)
(* The string comparisons of src/src/util.c and the HTTP-method lookup of  *)
(* src/src/http.c.                                                         *)
(*                                                                         *)
(* A C string is the sequence of its characters; its terminator is what    *)
(* CharAt returns one place after the last one.  Reading further is        *)
(* outside the domain of the terminated sequence, so an overread shows as  *)
(* an evaluation error and not as a value.  Every loop of the source       *)
(* advances both of its pointers together: a loop is a function of that    *)
(* common offset.                                                          *)
(***************************************************************************)
EXTENDS Naturals, Sequences

CONSTANTS
  Char,       \* the characters a string may hold
  ToLower,    \* tolower(), a function on Char
  Nul         \* the string terminator

ASSUME UrlMatchAssumption ==
  /\ Nul \notin Char /\ "!" \in Char
  /\ ToLower \in [Char -> Char]

\* *(s + i - 1): the terminator is the last readable character.
CharAt(s, i) == Append(s, Nul)[i]

lower(c) == IF c = Nul THEN Nul ELSE ToLower[c]

-----------------------------------------------------------------------------
\* strcmp_icase, util.c:26.  The loop tests lhs alone, twice.
strcmp_icase(lhs, rhs) ==
  LET rest[i \in 1 .. Len(lhs) + 1] ==
        IF CharAt(lhs, i) # Nul
        THEN lower(CharAt(lhs, i)) = lower(CharAt(rhs, i)) /\ rest[i + 1]
        ELSE CharAt(rhs, i) = Nul
  IN  rest[1]

\* Mutated slicecmp_icase: the end of the slice is not asked for.
slicecmp_prefix(slice, rhs) ==
  LET rest[i \in 1 .. Len(slice) + 1] ==
        IF i <= Len(slice) /\ CharAt(rhs, i) # Nul
        THEN lower(slice[i]) = lower(CharAt(rhs, i)) /\ rest[i + 1]
        ELSE CharAt(rhs, i) = Nul
  IN  rest[1]

\* slicecmp_icase, util.c:37: the slice [begin, end) against a C string.
slicecmp_icase(slice, rhs) ==
  LET atEnd(i) == i = Len(slice) + 1
      rest[i \in 1 .. Len(slice) + 1] ==
        IF ~ atEnd(i) /\ CharAt(rhs, i) # Nul
        THEN lower(slice[i]) = lower(CharAt(rhs, i)) /\ rest[i + 1]
        ELSE atEnd(i) /\ CharAt(rhs, i) = Nul
  IN  rest[1]

\* Mutated patternIsPrefix: either string may run out first.
eitherIsPrefix(icase, url, pattern) ==
  LET same(a, b) == IF icase THEN lower(a) = lower(b) ELSE a = b
      rest[i \in 1 .. Len(url) + 1] ==
        IF CharAt(url, i) # Nul /\ CharAt(pattern, i) # Nul
        THEN same(CharAt(url, i), CharAt(pattern, i)) /\ rest[i + 1]
        ELSE TRUE
  IN  rest[1]

\* The loop urlcmp and urlcmp_icase share: pattern must run out first.
patternIsPrefix(icase, url, pattern) ==
  LET same(a, b) == IF icase THEN lower(a) = lower(b) ELSE a = b
      rest[i \in 1 .. Len(url) + 1] ==
        IF CharAt(url, i) # Nul /\ CharAt(pattern, i) # Nul
        THEN same(CharAt(url, i), CharAt(pattern, i)) /\ rest[i + 1]
        ELSE CharAt(pattern, i) = Nul
  IN  rest[1]

\* urlcmp, util.c:48.  A leading '!' asks for an exact match (strcmp).
urlcmp(url, pattern) ==
  IF CharAt(pattern, 1) = "!"
  THEN url = Tail(pattern)
  ELSE patternIsPrefix(FALSE, url, pattern)

\* urlcmp_icase, util.c:68.
urlcmp_icase(url, pattern) ==
  IF CharAt(pattern, 1) = "!"
  THEN strcmp_icase(url, Tail(pattern))
  ELSE patternIsPrefix(TRUE, url, pattern)

\* The comparison routeAndHandle picks, main.c:265.
urlCompare(ignoreCase, url, pattern) ==
  IF ignoreCase THEN urlcmp_icase(url, pattern) ELSE urlcmp(url, pattern)

-----------------------------------------------------------------------------
\* parseHttpMethodSlice, http.c:53: the first name that equals the slice, in
\* the order of the source; no name is a parse error.
parseHttpMethodSlice(slice, names) ==
  LET hit(i) == slicecmp_icase(slice, names[i])
      hits   == {i \in 1 .. Len(names) : hit(i)}
  IN  IF hits = {}
      THEN [error |-> TRUE,  method |-> 1]
      ELSE [error |-> FALSE, method |-> CHOOSE i \in hits : \A j \in hits : i <= j]
=============================================================================
