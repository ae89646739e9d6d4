---------------------------- MODULE MCPl2Parser ----------------------------
(***************************************************************************)
(* Pl2Parser on short files, against a reading of the whole file at once.  *)
(***************************************************************************)
EXTENDS Pl2Reading, SequencesExt

\* Every text of up to four symbols, every string literal around three, and
\* everything made of up to three of the pieces.
Pieces ==
  { <<"n">>, <<"n", " ">>, <<"n", "'", "0">>, <<Newline>>, <<"n", Newline>>, <<"#", "n">>,
    <<"\"", "n", "\"">>, <<"'", "n", "'", " ">>, <<"\"", "\"">>, <<"\"", "\\", "\\", "\"">>,
    <<"\"", "n", "\\", "0", "n", "\"">>, <<"n", " ", "n", " ", "n", " ">>,
    <<"?", "begin", Newline>>, <<"?", "end", Newline>> }
Quoted == { "\"", "\\", "n", Newline, "0", "'" }
MCFiles ==
  BoundedSeq(Symbols, 4)
    \cup { <<"\"">> \o s \o <<"\"">> : s \in BoundedSeq(Quoted, 3) }
    \cup { FlattenSeq(p) : p \in BoundedSeq(Pieces, 3) }
    \cup { [i \in 1 .. BufferSize |-> c] : c \in {"n", " ", "?", "#", Newline} }
    \cup { [i \in 1 .. BufferSize |-> IF i = 1 THEN c ELSE "n"] : c \in {"?", "\""} }
=============================================================================
