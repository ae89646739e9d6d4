------------------------------ MODULE Pl2Reading ------------------------------
(***************************************************************************)
(* A configuration file read at once: what each of its characters is, from *)
(* those before it, where its lines end and its parts begin, which         *)
(* commands it holds, and which files Pl2Parser is to read.                *)
(***************************************************************************)
EXTENDS Pl2Parser

InString(c) ==
  CASE c = Newline   -> "bad"
    [] c \in Quotes  -> "blank"
    [] c = "\\"      -> "escape"
    [] OTHER         -> "string"
OutOfParts(c) ==
  CASE c \in Whitespace \cup {Newline} -> "blank"
    [] c \in Quotes                    -> "string"
    [] c = "#"                         -> "comment"
    [] c = "illegal"                   -> "bad"
    [] OTHER                           -> "id"

Kind(before, c) ==
  CASE before = "bad"                      -> "bad"
    [] before = "escape"                   -> "string"
    [] before = "string"                   -> InString(c)
    [] before = "comment"                  -> IF c = Newline THEN "blank" ELSE "comment"
    [] before = "id" /\ c \in IdChars      -> "id"
    [] before = "id" /\ c \notin IdChars   -> OutOfParts(c)
    [] before = "blank"                    -> OutOfParts(c)

Kinds(f) ==
  LET kind[i \in 0 .. Len(f)] == IF i = 0 THEN "blank" ELSE Kind(kind[i - 1], f[i])
  IN  kind

\* Positions at which a line ends; a newline in a string or comment ends none.
LineEndsOf(f, kind) == { i \in 1 .. Len(f) : f[i] = Newline /\ kind[i - 1] \in {"blank", "id"} }
Directives(f, kind) == { i \in 1 .. Len(f) : f[i] = "?" /\ i - 1 \in LineEndsOf(f, kind) \cup {0} }

\* Where the parts begin.
Starts(kind) ==
  { i \in DOMAIN kind \ {0} :
      \/ kind[i] = "id" /\ kind[i - 1] # "id"
      \/ kind[i] = "string" /\ kind[i - 1] \in {"blank", "id"} }

\* The parts of the line p is in that begin before it.
PartsBefore(f, kind, p) == { i \in Starts(kind) : i < p /\ \A e \in LineEndsOf(f, kind) : e < p => e < i }

-----------------------------------------------------------------------------
(* The commands of a file *)

\* The places behind the lines, the end of the last one included.
ClosedLines(f, kind) ==
  LineEndsOf(f, kind) \cup { p \in {Len(f) + 1} : kind[Len(f)] \in {"blank", "id", "comment"} }

\* Those behind a line that has parts and is read: before the first '?' operator.
CommandEnds(f, kind) ==
  { e \in ClosedLines(f, kind) :
      PartsBefore(f, kind, e) # {} /\ \A d \in Directives(f, kind) : e < d }

\* The last character of the part that begins at i, without its closing quote.
Alike(k) == IF k = "id" THEN {"id"} ELSE {"string", "escape"}
PartEnd(f, kind, i) ==
  CHOOSE j \in i .. Len(f) :
    /\ \A k \in i .. j : kind[k] \in Alike(kind[i])
    /\ j = Len(f) \/ kind[j + 1] \notin Alike(kind[i])

\* The text of that part: an escape that is known becomes one character.
Converted(f, kind, p) == kind[p] = "escape" /\ f[p + 1] \in DOMAIN Escapes
Unescaped(f, kind, p) == IF Converted(f, kind, p) THEN Escapes[f[p + 1]] ELSE f[p]
PartText(f, kind, i) ==
  LET end  == PartEnd(f, kind, i)
      kept == { p \in i + 1 .. end : ~ Converted(f, kind, p - 1) }
  IN  IF kind[i] = "id" THEN SubSeq(f, i, end)
      ELSE [k \in 1 .. Cardinality(kept) |-> Unescaped(f, kind, Nth(k, kept))]

\* The parts of the line that ends at e.  An empty part, and all after it, is
\* lost, and a C string stops at its first NUL.
Until(s, c) ==
  SubSeq(s, 1, CHOOSE n \in 0 .. Len(s) : (n = Len(s) \/ s[n + 1] = c) /\ \A i \in 1 .. n : s[i] # c)
CommandOf(f, kind, e) ==
  LET begins == PartsBefore(f, kind, e)
      texts  == Until([k \in 1 .. Cardinality(begins) |-> PartText(f, kind, Nth(k, begins))], <<>>)
  IN  [k \in DOMAIN texts |-> Until(texts[k], Nul)]

DoubledBackslash(f) ==
  LET kind == Kinds(f) IN \E i \in 1 .. Len(f) : kind[i - 1] = "escape" /\ f[i] = "\\"

-----------------------------------------------------------------------------
(* Properties *)

\* A file that leaves room for a terminator, closes its strings, none of them
\* with an escaped backslash, and has at most (2 * PartsSize - 2) \div 3 parts
\* in a command is read without undefined behaviour, and refused only for
\* want of memory (pl2b.c:210-234, 353-358, 393-394, 489-510).
WellFormed(f) ==
  LET kind == Kinds(f)
  IN  /\ Len(f) < BufferSize
      /\ kind[Len(f)] \in {"blank", "id", "comment"}
      /\ Directives(f, kind) = {}
      /\ ~ \E i \in 3 .. Len(f) :
           f[i] = "\"" /\ kind[i] = "blank" /\ f[i - 1] = "\\" /\ kind[i - 2] = "escape"
      /\ \A p \in 1 .. Len(f) + 1 : Cardinality(PartsBefore(f, kind, p)) <= (2 * PartsSize - 2) \div 3

WellFormedIsRead == WellFormed(file) => damage = "none" /\ err \in {0, 991}

\* At every moment the texts of the commands are the first commands of the
\* file, and at the end all of them: later terminators and escapes, in the
\* same buffer, change none (pl2b.c:389-444).  A comment takes the newline
\* with it; an empty string ends the arguments.  The text behind a '?'
\* operator is not read, and a doubled backslash has no meaning of its own.
Written ==
  LET kind == Kinds(file)
      ends == CommandEnds(file, kind)
  IN  /\ Len(commands) <= Cardinality(ends)
      /\ \A l \in DOMAIN commands :
           [j \in DOMAIN commands[l] |-> TextAt(commands[l][j])] = CommandOf(file, kind, Nth(l, ends))
      /\ pc = "done" /\ err = 0 => Len(commands) = Cardinality(ends)
CommandsAsWritten == damage = "none" /\ ~ DoubledBackslash(file) => Written

-----------------------------------------------------------------------------
(* The inductive invariant *)

\* Neither in a string or comment nor within an id.
BetweenParts(f, kind, p) ==
  \/ kind[p - 1] = "blank"
  \/ kind[p - 1] = "id" /\ (p = Len(f) + 1 \/ f[p] \notin IdChars)
  \/ kind[p - 1] = "comment" /\ p = Len(f) + 1

\* While the parser reads a well-formed file, it is where a part or a line may
\* begin, the text from there on is as it was, and it has no more parts than
\* the line has before that place.
Reading ==
  LET kind == Kinds(file)
  IN  /\ damage = "none" /\ err \in {0, 991} /\ mode = "single"
      /\ pc # "done" =>
           /\ at \in 1 .. Len(file) + 1
           /\ \A p \in at .. BufferSize : src[p] = Padded(file)[p]
           /\ BetweenParts(file, kind, at)
           /\ Len(parts) <= Cardinality(PartsBefore(file, kind, at))
      /\ pc = "file" =>
           /\ parts = <<>>
           /\ at = Len(file) + 1 \/ at - 1 \in LineEndsOf(file, kind) \cup {0}

WellFormedInv == WellFormed(file) => Reading

\* While the parser reads any file, as far as it can be read: the same, and it
\* has exactly the parts and the commands that end before that place, with
\* their texts, and has come to no '?' operator.
PartsRead ==
  LET kind   == Kinds(file)
      before == PartsBefore(file, kind, at)
  IN  /\ Len(parts) = Cardinality(before)
      /\ \A k \in DOMAIN parts :
           SubSeq(src, parts[k].from, parts[k].to - 1) = PartText(file, kind, Nth(k, before))
OnTrack ==
  LET kind == Kinds(file)
      ends == CommandEnds(file, kind)
  IN  /\ at \in 1 .. Len(file) + 1 /\ mode = "single"
      /\ \A p \in at .. BufferSize : src[p] = Padded(file)[p]
      /\ BetweenParts(file, kind, at)
      /\ pc = "line" =>
           /\ PartsRead
           /\ \A d \in Directives(file, kind) : at < d
           /\ Len(commands) = Cardinality({ e \in ends : e < at })
      /\ pc = "file" =>
           /\ parts = <<>>
           /\ at = Len(file) + 1 \/ at - 1 \in LineEndsOf(file, kind) \cup {0}
           /\ \A d \in Directives(file, kind) : at <= d
           /\ Len(commands) = Cardinality({ e \in ends : e < at \/ at = Len(file) + 1 })

\* It may also be held up by a character that begins nothing, or be behind a
\* '?' operator, at the terminator it has put there.
HeldUp == pc = "line" /\ at \in 1 .. Len(file) /\ src[at] = "illegal"
BehindOperator ==
  /\ at \in Cells /\ src[at] = Nul
  /\ Len(commands) = Cardinality(CommandEnds(file, Kinds(file)))
  /\ \/ mode = "multi" /\ pc = "line"
     \/ mode = "single" /\ parts = <<>>

Placed == pc # "done" => OnTrack \/ HeldUp \/ BehindOperator
WrittenInv == damage = "none" /\ ~ DoubledBackslash(file) => Written /\ Placed
===============================================================================
