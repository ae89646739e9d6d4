------------------------------ MODULE MCServer ------------------------------
(***************************************************************************)
(* Server over a small configuration whose route paths are matched by the  *)
(* real comparison of UrlMatch, case ignored.                              *)
(***************************************************************************)
EXTENDS Server

CONSTANTS c1, c2

Text == INSTANCE UrlMatch WITH
          Char    <- {"a", "A", "b", "!"},
          ToLower <- [c \in {"a", "A", "b", "!"} |-> IF c = "A" THEN "a" ELSE c],
          Nul     <- "NUL"

MCUrlMatches(url, pattern) == Text!urlCompare(TRUE, url, pattern)

Route(path, method, handler, page, preloaded) ==
  [path |-> path, method |-> method, handler |-> handler,
   page |-> page, preloaded |-> preloaded]

\* The exact route serves "A", whose case differs, and not "ab"; the second
\* one shadows the third for every POST request and is passed over for GET
\* requests it matches by path.
MCRoutes ==
  << Route(<<"!", "a">>, "GET",  "INTERN", 403, FALSE),
     Route(<<"a">>,      "POST", "DCGI",   0,   FALSE),
     Route(<<"A">>,      "POST", "STATIC", 0,   FALSE) >>

Ask(path, method) == [path |-> path, method |-> method]
MCRequests  == { Ask(<<"A">>, "GET"), Ask(<<"a", "b">>, "GET"), Ask(<<"a", "b">>, "POST") }
MCDcgiCodes == {201}
=============================================================================
