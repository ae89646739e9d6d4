---------------------------- MODULE RequestLine ----------------------------
(***************************************************************************)
(* parseHttpFirstLine and parseQueryPath of src/src/http.c as functions of *)
(* the line: the method, the path, the query string and its parameters, or *)
(* where parsing gives up and what it has allocated by then.               *)
(*                                                                         *)
(* A line is the sequence of its characters without the final CRLF.  A     *)
(* pointer into the line is a position, and 0 is NULL.                     *)
(***************************************************************************)
EXTENDS UrlMatch, Integers

CONSTANTS
  MethodNames,   \* HTTP_METHOD_NAMES
  Version        \* "HTTP/1.1", which has a '/' too

ASSUME RequestLineAssumption == MethodNames \in Seq(Seq(Char))

\* strchr from position `from` on.
strchr(s, from, c) ==
  LET hits == { i \in from .. Len(s) : s[i] = c }
  IN  IF hits = {} THEN 0 ELSE CHOOSE i \in hits : \A j \in hits : i <= j

skipWhitespace(s, from) ==
  CHOOSE i \in from .. Len(s) + 1 :
    (i = Len(s) + 1 \/ s[i] # " ") /\ \A j \in from .. i - 1 : s[j] = " "

\* Mutated Params: the key is looked for up to the next '&' only.
ParamsBetween(query) ==
  LET from[i \in 1 .. Len(query) + 1] ==
        LET amp  == strchr(query, i, "&")
            end  == IF amp = 0 THEN Len(query) ELSE amp - 1
            eq   == strchr(SubSeq(query, 1, end), i, "=")
            here == [key |-> SubSeq(query, i, eq - 1), value |-> SubSeq(query, eq + 1, end)]
        IN  IF eq = 0 THEN [ok |-> FALSE, list |-> <<>>]
            ELSE IF amp = 0 THEN [ok |-> TRUE, list |-> <<here>>]
            ELSE [ok |-> from[amp + 1].ok, list |-> <<here>> \o from[amp + 1].list]
  IN  from[1]

\* The loop of parseQueryPath: a key up to '=', a value up to '&' or the end.
\* What was read before the first parameter without '=' stays in params.
Params(query) ==
  LET from[i \in 1 .. Len(query) + 1] ==
        LET eq   == strchr(query, i, "=")
            amp  == strchr(query, eq + 1, "&")
            end  == IF amp = 0 THEN Len(query) ELSE amp - 1
            here == [key |-> SubSeq(query, i, eq - 1), value |-> SubSeq(query, eq + 1, end)]
        IN  IF eq = 0 THEN [ok |-> FALSE, list |-> <<>>]
            ELSE IF amp = 0 THEN [ok |-> TRUE, list |-> <<here>>]
            ELSE [ok |-> from[amp + 1].ok, list |-> <<here>> \o from[amp + 1].list]
  IN  from[1]

\* parseQueryPath between the '/' and the second space.
parseQueryPath(target) ==
  LET mark  == strchr(target, 1, "?")
      query == SubSeq(target, mark + 1, Len(target))
  IN  IF mark = 0
      THEN [ok |-> TRUE, path |-> target, hasQuery |-> FALSE, query |-> <<>>, params |-> <<>>]
      ELSE [ok |-> Params(query).ok, path |-> SubSeq(target, 1, mark - 1),
            hasQuery |-> TRUE, query |-> query, params |-> Params(query).list]

\* The blocks parseQueryPath leaves to its caller, whatever it returns.
BlocksOf(parsed) ==
  {"path"} \cup (IF parsed.hasQuery THEN {"query"} ELSE {})
           \cup (IF parsed.params # <<>> THEN {"params"} ELSE {})

\* The positions parseHttpFirstLine finds, each from the one before.
FirstSpace(line)  == strchr(line, 1, " ")
Slash(line)       == strchr(line, skipWhitespace(line, FirstSpace(line)), "/")
SecondSpace(line) == strchr(line, Slash(line), " ")
MethodOf(line)    == parseHttpMethodSlice(SubSeq(line, 1, FirstSpace(line) - 1), MethodNames)
VersionAt(line, at) == \A k \in DOMAIN Version : CharAt(line, at + k - 1) = Version[k]
TargetOf(line)    == parseQueryPath(SubSeq(line, Slash(line), SecondSpace(line) - 1))

\* How parseHttpFirstLine ends: a line without a second space hands NULL to
\* parseQueryPath as the end of the target.
parseHttpFirstLine(line) ==
  IF FirstSpace(line) = 0 THEN "no space"
  ELSE IF MethodOf(line).error THEN "unsupported method"
  ELSE IF Slash(line) = 0 THEN "no path"
  ELSE IF SecondSpace(line) = 0 THEN "fault"
  ELSE IF ~ TargetOf(line).ok THEN "invalid query path"
  ELSE IF ~ VersionAt(line, skipWhitespace(line, SecondSpace(line))) THEN "invalid version"
  ELSE "parsed"
=============================================================================
