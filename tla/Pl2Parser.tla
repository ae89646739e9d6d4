----------------------------- MODULE Pl2Parser -----------------------------
(***************************************************************************)
(* pl2b_parse of src/pl2/pl2b.c: the text of a configuration file becomes  *)
(* a list of commands, in one pass and in place.  Strings are unescaped    *)
(* where they stand, and the parts of a command are terminated where they  *)
(* end, once its line is finished.                                         *)
(*                                                                         *)
(* The text is the buffer main reads the file into.  A cell holds a symbol *)
(* for each kind of character the parser tells apart; a word that is an    *)
(* operator after '?' is one symbol.  A pointer into the text is a         *)
(* position, 0 is NULL.                                                    *)
(***************************************************************************)
EXTENDS Integers, Sequences, FiniteSets

CONSTANTS
  Files,        \* the texts a configuration file may hold
  BufferSize,   \* cells of main's buffer (65536 in main.c)
  PartsSize     \* parseBufferSize (4096 in main.c)

Nul        == "nul"
Newline    == "newline"
Alnum      == {"n", "0", "begin", "end"}
Quotes     == {"\"", "'"}
Whitespace == {" "}
IdChars    == Alnum \cup {"'", "\\", "?"}
LineEnds   == {Nul, Newline}
Symbols    == IdChars \cup Quotes \cup Whitespace \cup {Newline, "#", "illegal"}

\* What follows a backslash, and what the pair becomes; r, f, v, t and a are
\* like n.
Escapes == [c \in {"n", "0", "\""} |-> IF c = "n" THEN Newline ELSE IF c = "0" THEN Nul ELSE c]

ASSUME Pl2ParserAssumption ==
  /\ BufferSize \in Nat \ {0} /\ PartsSize \in Nat \ {0}
  /\ Files \subseteq Seq(Symbols)
  /\ \A f \in Files : Len(f) <= BufferSize

VARIABLES
  file,       \* history: the text as it was read
  src,        \* the text, which the parser changes
  at,         \* srcIdx
  mode,       \* "single" or "multi"
  parts,      \* the used entries of parseBuffer: slices of src
  commands,   \* the program: for each part its position in src
  err,        \* error->errCode, 0 for none
  pc,         \* in pl2b_parse ("file"), in parseLine ("line"), "done"
  damage      \* undefined behaviour that ended the run, or "none"

vars == <<file, src, at, mode, parts, commands, err, pc, damage>>

Beyond == BufferSize + 1
Cells  == 1 .. BufferSize
Padded(f) == [i \in Cells |-> IF i <= Len(f) THEN f[i] ELSE Nul]

\* Slices, [from, to).  slice() makes an empty one a null slice.
NullSlice == [from |-> 0, to |-> 0]
slice(from, to) == IF from = to THEN NullSlice ELSE [from |-> from, to |-> to]
isNullSlice(s) == s.from = s.to

\* The C string at position p.
TextAt(p) ==
  LET end == CHOOSE q \in p .. Beyond :
               (q = Beyond \/ src[q] = Nul) /\ \A i \in p .. q - 1 : src[i] # Nul
  IN  SubSeq(src, p, end - 1)

Init ==
  /\ file \in Files
  /\ src = Padded(file)
  /\ at = 1
  /\ mode = "single"
  /\ parts = <<>>
  /\ commands = <<>>
  /\ err = 0
  /\ pc = "file"
  /\ damage = "none"

-----------------------------------------------------------------------------
(* Scanning *)

\* The first position from p on that holds none of the symbols.
PastAll(p, symbols) ==
  CHOOSE q \in p .. Beyond :
    /\ q = Beyond \/ src[q] \notin symbols
    /\ \A i \in p .. q - 1 : src[i] \in symbols

\* nextChar stays on the terminator.
nextChar(p) == IF src[p] = Nul THEN p ELSE p + 1
Over(p, symbols) == IF p # Beyond /\ src[p] \in symbols THEN p + 1 ELSE p

\* Every loop of parseLine begins with skipWhitespace.
here == PastAll(at, Whitespace)
CurIn(symbols) == here # Beyond /\ src[here] \in symbols

\* Mutated StringEnd: a backslash protects nothing.
StringEndAtQuote(start) == PastAll(start, Symbols \ (Quotes \cup LineEnds))

\* The character at q is taken along by a backslash that none takes along: an
\* odd number of them stands before it.
Escaped(start, q) ==
  \E r \in start .. q - 1 :
    /\ \A i \in r .. q - 1 : src[i] = "\\"
    /\ r = start \/ src[r - 1] # "\\"
    /\ (q - r) % 2 = 1

\* The position parseStr stops at: a quote of either kind or the line's end.
\* A backslash takes the next character along, even a newline.
EndsString(start, q) ==
  \/ q = Beyond \/ src[q] = Nul
  \/ src[q] \in Quotes \cup {Newline} /\ ~ Escaped(start, q)
StringEnd(start) ==
  CHOOSE q \in start .. Beyond :
    /\ EndsString(start, q)
    /\ \A i \in start .. q - 1 : ~ EndsString(start, i)

\* shrinkConv: an escape it knows becomes one character; any other backslash is
\* copied alone, and what follows it is looked at again.
EscapeAt(p) == src[p] = "\\" /\ p + 1 # Beyond /\ src[p + 1] \in DOMAIN Escapes
Shrunk(p) == IF EscapeAt(p) THEN Escapes[src[p + 1]] ELSE src[p]
Kept(start, end) == { p \in start .. end - 1 : p = start \/ ~ EscapeAt(p - 1) }
Nth(k, S) == CHOOSE p \in S : Cardinality({ q \in S : q <= p }) = k

shrinkConv(start, end) ==
  [k \in 1 .. Cardinality(Kept(start, end)) |-> Shrunk(Nth(k, Kept(start, end)))]

\* Its loop ends only at `end` exactly; an escape across it is never stopped.
Overruns(start, end) == start < end /\ EscapeAt(end - 1)

-----------------------------------------------------------------------------
(* Ends of the run *)

Fail(code) == err' = code /\ pc' = "done" /\ UNCHANGED damage
Undefined(what) ==
  /\ damage' = what
  /\ pc' = "done"
  /\ UNCHANGED <<file, src, at, mode, parts, commands, err>>

\* createParseContext fails.
NoContext ==
  /\ pc = "file" /\ at = 1
  /\ Fail(991)
  /\ UNCHANGED <<file, src, at, mode, parts, commands>>

EndOfFile ==
  /\ pc = "file" /\ at # Beyond /\ src[at] = Nul
  /\ pc' = "done"
  /\ UNCHANGED <<file, src, at, mode, parts, commands, err, damage>>

-----------------------------------------------------------------------------
(* Commands *)

\* Mutated PartCount: null slices count.
AllParts == Len(parts)

\* How many parts cmdFromSlices4 counts: up to the first null slice.
PartCount ==
  CHOOSE n \in 0 .. Len(parts) :
    /\ n = Len(parts) \/ isNullSlice(parts[n + 1])
    /\ \A i \in 1 .. n : ~ isNullSlice(parts[i])

\* The block has room for PartsSize slices, but its entries are slices with a
\* flag: three words where two were counted.  The slice of the entry behind
\* the last part is looked at too.
EntryFits(i) == 3 * i <= 2 * PartsSize
SliceFits(i) == 3 * (i - 1) + 2 <= 2 * PartsSize
CountLeavesBlock == PartCount = Len(parts) /\ ~ SliceFits(PartCount + 1)

\* Mutated AppendCommand: the parts are not terminated.
AppendUnended ==
  /\ commands' = IF parts = <<>> THEN commands
                 ELSE Append(commands, [i \in 1 .. PartCount |-> parts[i].from])
  /\ parts' = <<>>
  /\ UNCHANGED src

\* Without parts there is no command, without a first part one without a name.
AppendCommand ==
  /\ commands' = IF parts = <<>> THEN commands
                 ELSE Append(commands, [i \in 1 .. PartCount |-> parts[i].from])
  /\ src' = [p \in Cells |->
              IF \E i \in 1 .. PartCount : parts[i].to = p THEN Nul ELSE src[p]]
  /\ parts' = <<>>

-----------------------------------------------------------------------------
(* parseLine *)

BeginLine ==
  /\ pc = "file" /\ at # Beyond /\ src[at] \notin {Nul, "?"}
  /\ pc' = "line"
  /\ UNCHANGED <<file, src, at, mode, parts, commands, err, damage>>

\* parseQuesMark puts a terminator behind the word, where it then goes on.
WordEnd == PastAll(at + 1, Alnum)
Word == SubSeq(src, at + 1, WordEnd - 1)
AtQuesMark == pc = "file" /\ at # Beyond /\ src[at] = "?"
QuesMark ==
  /\ AtQuesMark
  /\ WordEnd # Beyond
  /\ at' = WordEnd
  /\ src' = [src EXCEPT ![WordEnd] = Nul]
  /\ UNCHANGED file

QuesBegin ==
  /\ QuesMark /\ Word = <<"begin">>
  /\ mode' = "multi"
  /\ pc' = "line"
  /\ UNCHANGED <<parts, commands, err, damage>>

\* finishLine has nothing to finish: no line leaves parts behind.
QuesEnd ==
  /\ QuesMark /\ Word = <<"end">>
  /\ mode' = "single"
  /\ pc' = "line"
  /\ UNCHANGED <<parts, commands, err, damage>>

QuesUnknown ==
  /\ QuesMark /\ Word \notin {<<>>, <<"begin">>, <<"end">>}
  /\ Fail(987)
  /\ UNCHANGED <<mode, parts, commands>>

\* The NULL an empty word becomes is handed to strcmp().
QuesAlone ==
  /\ AtQuesMark
  /\ WordEnd = at + 1
  /\ Undefined("no-word")

\* Mutated EndOfLine: the terminator of the last part is read as the next line.
EndOfLineStays ==
  /\ pc = "line" /\ mode = "single" /\ CurIn(LineEnds)
  /\ ~ CountLeavesBlock
  /\ AppendCommand
  /\ at' = here
  /\ pc' = "file"
  /\ UNCHANGED <<file, mode, err, damage>>

\* finishLine, and after it, if there was an empty line, that line too.
EndOfLine ==
  /\ pc = "line" /\ mode = "single" /\ CurIn(LineEnds)
  /\ ~ CountLeavesBlock
  /\ AppendCommand
  /\ at' = Over(nextChar(here), {Newline})
  /\ pc' = "file"
  /\ UNCHANGED <<file, mode, err, damage>>

EndOfLineOverruns ==
  /\ pc = "line" /\ mode = "single" /\ CurIn(LineEnds)
  /\ CountLeavesBlock
  /\ Undefined("parts-overread")

\* malloc() fails: the program keeps the commands before.
EndOfLineFails ==
  /\ pc = "line" /\ mode = "single" /\ CurIn(LineEnds)
  /\ parts # <<>> /\ ~ CountLeavesBlock
  /\ at' = Over(nextChar(here), {Newline})
  /\ parts' = <<>>
  /\ Fail(991)
  /\ UNCHANGED <<file, src, mode, commands>>

\* In a block a line's end separates nothing.  The terminator behind "begin"
\* is taken for the end of the file.
EndOfLineInBlock ==
  /\ pc = "line" /\ mode = "multi" /\ CurIn(LineEnds)
  /\ at' = Over(here, {Newline})
  /\ IF src[here] = Nul THEN Fail(984) ELSE pc' = "file" /\ UNCHANGED <<err, damage>>
  /\ UNCHANGED <<file, src, mode, parts, commands>>

\* Mutated Comment: the newline is left for the line it ends.
CommentOnly ==
  /\ pc = "line" /\ CurIn({"#"})
  /\ at' = PastAll(here + 1, Symbols \ LineEnds)
  /\ UNCHANGED <<file, src, mode, parts, commands, err, pc, damage>>

\* The newline belongs to the comment, and the loop of the line goes on.
Comment ==
  /\ pc = "line" /\ CurIn({"#"})
  /\ at' = Over(PastAll(here + 1, Symbols \ LineEnds), {Newline})
  /\ UNCHANGED <<file, src, mode, parts, commands, err, pc, damage>>

-----------------------------------------------------------------------------
(* parsePart *)

\* checkBufferSize, and the entry.  An entry that does not fit is written
\* behind the block, which ends the process or goes unnoticed.
AddPart(s) ==
  \/ /\ PartsSize <= Len(parts) + 1
     /\ Fail(984)
     /\ UNCHANGED parts
  \/ /\ PartsSize > Len(parts) + 1
     /\ damage' = IF EntryFits(Len(parts) + 1) THEN damage ELSE "parts-overwritten"
     /\ \/ parts' = Append(parts, s) /\ UNCHANGED pc
        \/ damage' # damage /\ pc' = "done" /\ UNCHANGED parts
     /\ UNCHANGED err

\* Mutated Id: an empty id is no part.
IdUnlessEmpty ==
  /\ pc = "line" /\ here # Beyond /\ ~ CurIn(LineEnds \cup Quotes \cup {"#"})
  /\ at' = PastAll(here, IdChars)
  /\ IF at' = here THEN UNCHANGED <<parts, err, pc, damage>> ELSE AddPart(slice(here, at'))
  /\ UNCHANGED <<file, src, mode, commands>>

\* A character that can begin nothing gives an empty id and no progress.
Id ==
  /\ pc = "line" /\ here # Beyond /\ ~ CurIn(LineEnds \cup Quotes \cup {"#"})
  /\ at' = PastAll(here, IdChars)
  /\ AddPart(slice(here, at'))
  /\ UNCHANGED <<file, src, mode, commands>>

Str ==
  /\ pc = "line" /\ CurIn(Quotes)
  /\ LET start == here + 1
         end   == StringEnd(start)
         text  == shrinkConv(start, end)
     IN  /\ end # Beyond /\ ~ Overruns(start, end)
         /\ src' = [p \in Cells |-> IF p \in start .. start + Len(text) - 1
                                   THEN text[p - start + 1] ELSE src[p]]
         /\ IF src[end] \in Quotes
            THEN at' = end + 1 /\ AddPart(slice(start, start + Len(text)))
            ELSE at' = end /\ Fail(984) /\ UNCHANGED parts
  /\ UNCHANGED <<file, mode, commands>>

StrOverruns ==
  /\ pc = "line" /\ CurIn(Quotes)
  /\ StringEnd(here + 1) # Beyond
  /\ Overruns(here + 1, StringEnd(here + 1))
  /\ Undefined("string-overwritten")

\* A file that fills the buffer leaves no terminator: every scan that passes
\* its last character reads behind the block.
ReadBeyond ==
  /\ \/ pc = "file" /\ at = Beyond
     \/ AtQuesMark /\ WordEnd = Beyond
     \/ pc = "line" /\ here = Beyond
     \/ pc = "line" /\ CurIn(Quotes) /\ StringEnd(here + 1) = Beyond
  /\ Undefined("text-overread")

-----------------------------------------------------------------------------
parseQuesMark == QuesBegin \/ QuesEnd \/ QuesUnknown \/ QuesAlone
finishLine    == EndOfLine \/ EndOfLineOverruns \/ EndOfLineFails \/ EndOfLineInBlock
parsePart     == Id \/ Str \/ StrOverruns
parseLine     == BeginLine \/ parseQuesMark \/ finishLine \/ Comment \/ parsePart

Next == NoContext \/ EndOfFile \/ ReadBeyond \/ parseLine
Spec == Init /\ [][Next]_vars /\ WF_vars(Next)

-----------------------------------------------------------------------------
(* Properties *)

Slices == {NullSlice} \cup { s \in [from : Cells, to : 2 .. Beyond] : s.from < s.to }
Errors == {0, 984, 987, 991}
Damages == {"none", "text-overread", "parts-overread", "parts-overwritten",
            "string-overwritten", "no-word"}

\* Every slice and every part of a command is a place in the text: a command
\* holds no NULL, although parts may (pl2b.c:393-418).
TypeOK ==
  /\ file \in Seq(Symbols)
  /\ src \in [Cells -> Symbols \cup {Nul}]
  /\ at \in 1 .. Beyond
  /\ mode \in {"single", "multi"}
  /\ parts \in Seq(Slices) /\ Len(parts) < PartsSize
  /\ commands \in Seq(Seq(Cells))
  /\ err \in Errors
  /\ pc \in {"file", "line", "done"}
  /\ damage \in Damages

\* Unescaping and terminating in place (pl2b.c:52-53, 489-510) never touch what
\* is still to be read, except that a '?' operator ends the text at the cell
\* behind it (pl2b.c:279).
AheadIntact ==
  \A p \in at .. BufferSize :
    \/ src[p] = Padded(file)[p]
    \/ p = at /\ src[p] = Nul /\ \E q \in 1 .. p - 1 :
         file[q] = "?" /\ \A i \in q + 1 .. p - 1 : file[i] \in Alnum

\* Whatever the file holds, pl2b_parse comes to an end (pl2b.c:198-203),
\* also at a character that begins nothing and takes it no further.
ParseEnds == <>(pc = "done")

\* The parts whose ends AppendCommand will overwrite lie behind the parser: what
\* AheadIntact rests on.
PartsBehind == \A i \in DOMAIN parts : parts[i].to <= at

\* The inductive invariant.
IInv ==
  /\ TypeOK
  /\ PartsBehind
  /\ AheadIntact

KeepsTexts ==
  /\ \A i \in DOMAIN parts : \A p \in parts[i].from .. parts[i].to - 1 : src'[p] = src[p]
  /\ \A i \in DOMAIN commands :
       /\ commands'[i] = commands[i]
       /\ \A j \in DOMAIN commands[i] : TextAt(commands[i][j])' = TextAt(commands[i][j])

\* Neither a string unescaped in place nor a terminator changes a part that was
\* taken, nor the text of a command that was finished (pl2b.c:52-53, 389-418,
\* 489-510): the parts of a line lie apart, and every earlier text ends
\* before them.
TextsStay == [][damage = "none" => KeepsTexts]_vars

\* What TextsStay rests on: a part ends before the parser or where no id goes
\* on, the parts of a line lie apart, and the text of a command ends before
\* the parser and before the end of any part of the line being read.
PartsEnded ==
  \A k \in DOMAIN parts :
    isNullSlice(parts[k]) \/ parts[k].to < at \/ at = Beyond \/ src[at] \notin IdChars
PartsApart ==
  \A i, k \in DOMAIN parts :
    i < k => isNullSlice(parts[i]) \/ isNullSlice(parts[k]) \/ parts[i].to < parts[k].from
Ended(p, b) == \E q \in p .. b : q # Beyond /\ src[q] = Nul
TextsEnded ==
  \A i \in DOMAIN commands : \A j \in DOMAIN commands[i] :
    /\ Ended(commands[i][j], at)
    /\ \A k \in DOMAIN parts : isNullSlice(parts[k]) \/ Ended(commands[i][j], parts[k].to)
TextsInv == PartsEnded /\ PartsApart /\ TextsEnded

\* include/pl2b.h:65 calls error 984 "unclosed ?begin block".
BlockIsUnclosed ==
  err = 984 /\ mode = "multi" =>
    ~ \E p \in 2 .. Len(file) - 1 :
        file[p - 1] = Newline /\ file[p] = "?" /\ file[p + 1] = "end"
=============================================================================
