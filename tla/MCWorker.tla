------------------------------ MODULE MCWorker ------------------------------
(***************************************************************************)
(* Worker on short first lines and up to three headers.  Every string over *)
(* four letters up to three is a first line, if a bad one, and a pattern   *)
(* for the string comparisons; so are targets with up to five characters   *)
(* behind the '/' first lines.                                             *)
(***************************************************************************)
EXTENDS Worker, SequencesExt

Letters   == {"a", "A", "b", "!"}
MCChar    == Letters \cup {"/", "?", "=", "&", " ", "H", "1"}
MCVersion == <<"H", "/", "1">>
MCToLower == [c \in MCChar |-> IF c = "A" THEN "a" ELSE c]
MCNames   == <<<<"a">>, <<"a", "b">>, <<"b", "a">>>>
MCLengths == {-1, 0, 1, 2}

Strings == BoundedSeq(Letters, 3)
Targets == { <<"/">> \o t : t \in BoundedSeq({"a", "?", "=", "&"}, 5) }
MCFirstLines ==
  Strings
    \cup { <<"A", " ">> \o t \o <<" ">> \o MCVersion : t \in Targets }
    \cup { m \o <<" ">> \o t \o v : m \in {<<"a", "b">>, <<"b">>, <<>>},
                                    t \in {<<>>, <<" ", "a", "/">>, <<"/", "?", "a", "=">>},
                                    v \in {<<>>, <<" ">>, <<" ">> \o MCVersion, <<" ", "a">>,
                                          <<" ", " ">> \o MCVersion \o <<"a">>} }

=============================================================================
