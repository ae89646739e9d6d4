--------------------------- MODULE RequestReader ---------------------------
(***************************************************************************)
(* readHttpRequest of src/src/http.c, from the first line to the request   *)
(* or NULL, and dropHttpRequest: what is read, what is decided, and which  *)
(* heap blocks are live when.                                              *)
(*                                                                         *)
(* The first line is parsed character by character.  A header line is the  *)
(* class of lines it belongs to, as far as the parsing functions tell them *)
(* apart; the client, or the end of the stream, is free to produce any.    *)
(***************************************************************************)
EXTENDS RequestLine

CONSTANTS
  FirstLines,  \* the lines a client may begin with
  Lengths,     \* what atoi() makes of a Content-Length value
  MaxHeaders   \* bound: header lines before the blank one

ASSUME RequestReaderAssumption ==
  /\ FirstLines \subseteq Seq(Char)
  /\ Lengths \subseteq Int
  /\ MaxHeaders \in Nat

VARIABLES
  text,           \* the client's first line, while it is not yet parsed
  pc,             \* the label of readHttpRequest reached
  line,           \* the variable `line`: NULL or the block getdelim allocated
  live,           \* allocated blocks
  headers,        \* the names read so far: a Content-Length value or Other
  contentLength,  \* as computed, and later stored in the request
  bodyRead,       \* bytes fread() put into the body
  ended,          \* history: the line that ends the headers was read
  damage          \* "none", "corrupted" (undefined behaviour survived) or "died"

rvars == <<text, pc, line, live, headers, contentLength, bodyRead, ended, damage>>

\* "params" and "headers" stand for a vector's storage and all its strings.
Blocks == {"line", "path", "query", "params", "headers", "request"}
Null == "null"
Other == "other"

Fields == [name : {"Content-Length"}, value : Lengths] \cup [name : {Other}, value : {0}]

Running == damage # "died"
Die == damage' = "died" /\ UNCHANGED <<text, pc, line, live, headers, contentLength, bodyRead, ended>>

RInit ==
  /\ text \in FirstLines
  /\ pc = "firstLine"
  /\ line = Null
  /\ live = {}
  /\ headers = <<>>
  /\ contentLength = 0
  /\ bodyRead = 0
  /\ ended = FALSE
  /\ damage = "none"

-----------------------------------------------------------------------------
(* The request line *)

FirstLineAt(label, newLine, blocks) ==
  /\ Running
  /\ pc = "firstLine"
  /\ pc' = label
  /\ line' = newLine
  /\ live' = blocks
  /\ text' = <<>>
  /\ UNCHANGED <<headers, contentLength, bodyRead, ended>>

\* End of file, a getdelim() error or a line without CRLF: return NULL.
NoFirstLine ==
  /\ FirstLineAt("rejected", Null, {})
  /\ UNCHANGED damage

\* Nothing is allocated before the target is reached.
BadFirstLine ==
  /\ \/ /\ parseHttpFirstLine(text) \in {"no space", "unsupported method", "no path"}
        /\ FirstLineAt("free_params_ret", "line", {"line"})
     \/ /\ parseHttpFirstLine(text) \in {"invalid query path", "invalid version"}
        /\ FirstLineAt("free_params_ret", "line", {"line"} \cup BlocksOf(TargetOf(text)))
  /\ UNCHANGED damage

\* The log call for a wrong version lacks its argument.  Without a second
\* space the target has no end, and the copy of its query no storage.
FatalFirstLine ==
  /\ pc = "firstLine" /\ Running
  /\ parseHttpFirstLine(text) \in {"invalid version", "fault"}
  /\ Die

\* The line's block is freed; the variable keeps its address.
GoodFirstLine ==
  /\ parseHttpFirstLine(text) = "parsed"
  /\ FirstLineAt("headerLine", "line", BlocksOf(TargetOf(text)))
  /\ UNCHANGED damage

\* The malloc() of the path, the query or a parameter is not checked.
TargetCopyFails ==
  /\ pc = "firstLine" /\ Running
  /\ parseHttpFirstLine(text) \in {"invalid query path", "invalid version", "parsed"}
  /\ Die

FirstLine == NoFirstLine \/ BadFirstLine \/ FatalFirstLine \/ TargetCopyFails \/ GoodFirstLine

-----------------------------------------------------------------------------
(* The headers *)

HeaderLineAt(label) ==
  /\ Running
  /\ pc = "headerLine"
  /\ pc' = label
  /\ UNCHANGED <<text, contentLength, bodyRead>>

NoHeaderLine ==
  /\ HeaderLineAt("free_headers_ret")
  /\ line' = Null
  /\ UNCHANGED <<live, headers, ended, damage>>

\* A line of two characters, whichever they are, ends the headers.
EndOfHeaders ==
  /\ HeaderLineAt("length")
  /\ line' = "line"
  /\ ended' = TRUE
  /\ UNCHANGED <<live, headers, damage>>

\* Mutated BadHeaderLine: the line is freed before the error is handled.
BadHeaderLineFreed ==
  /\ HeaderLineAt("free_headers_ret")
  /\ line' = "line"
  /\ UNCHANGED <<live, headers, ended, damage>>

\* No colon: the line stays allocated until free_params_ret.
BadHeaderLine ==
  /\ HeaderLineAt("free_headers_ret")
  /\ line' = "line"
  /\ live' = live \cup {"line"}
  /\ UNCHANGED <<headers, ended, damage>>

\* A name and a value: both are copied and the line is freed.
HeaderLine ==
  /\ HeaderLineAt("headerLine")
  /\ Len(headers) < MaxHeaders
  /\ line' = "line"
  /\ live' = live \cup {"headers"}
  /\ \E field \in Fields : headers' = Append(headers, field)
  /\ UNCHANGED <<ended, damage>>

\* A lone ':', which only the end of the stream can follow: the search for
\* '\r' leaves the block, and if that is survived the next line is missing.
LoneColon ==
  \/ pc = "headerLine" /\ Running /\ Die
  \/ /\ HeaderLineAt("free_headers_ret")
     /\ line' = Null
     /\ live' = live \cup {"headers"}
     /\ headers' = Append(headers, [name |-> Other, value |-> 0])
     /\ damage' = "corrupted"
     /\ UNCHANGED ended

\* The malloc() of a name or a value is not checked.
HeaderCopyFails ==
  /\ pc = "headerLine" /\ Running
  /\ Len(headers) < MaxHeaders
  /\ Die

Headers ==
  \/ NoHeaderLine \/ EndOfHeaders
  \/ BadHeaderLine \/ HeaderLine \/ HeaderCopyFails \/ LoneColon

-----------------------------------------------------------------------------
(* The body *)

Declaring(fields) == { i \in 1 .. Len(fields) : fields[i].name = "Content-Length" }
AtLeast0(n) == IF n > 0 THEN n ELSE 0

\* Mutated DeclaredLength: the loop goes on after the first Content-Length.
LastLength(fields) ==
  IF Declaring(fields) = {} THEN 0
  ELSE AtLeast0(fields[CHOOSE i \in Declaring(fields) :
                          \A j \in Declaring(fields) : j <= i].value)

\* Mutated DeclaredLength: the sign is not looked at.
SignedLength(fields) ==
  IF Declaring(fields) = {} THEN 0
  ELSE fields[CHOOSE i \in Declaring(fields) :
                 \A j \in Declaring(fields) : i <= j].value

\* The loop of http.c:156: the first Content-Length decides, and counts as 0
\* unless it is positive.
DeclaredLength(fields) ==
  IF Declaring(fields) = {} THEN 0
  ELSE AtLeast0(fields[CHOOSE i \in Declaring(fields) :
                          \A j \in Declaring(fields) : i <= j].value)

FindLength ==
  /\ Running
  /\ pc = "length"
  /\ pc' = "alloc"
  /\ contentLength' = DeclaredLength(headers)
  /\ UNCHANGED <<text, line, live, headers, bodyRead, ended, damage>>

AllocRequest ==
  /\ Running
  /\ pc = "alloc"
  /\ pc' = "body"
  /\ live' = live \cup {"request"}
  /\ UNCHANGED <<text, line, headers, contentLength, bodyRead, ended, damage>>

AllocRequestFails ==
  /\ Running
  /\ pc = "alloc"
  /\ pc' = "free_headers_ret"
  /\ UNCHANGED <<text, line, live, headers, contentLength, bodyRead, ended, damage>>

\* fread() returns less only at the end of the stream or on an error.
ReadBody ==
  /\ Running
  /\ pc = "body"
  /\ bodyRead' \in 0 .. contentLength
  /\ pc' = IF bodyRead' < contentLength THEN "free_all_ret" ELSE "accepted"
  /\ UNCHANGED <<text, line, live, headers, contentLength, ended, damage>>

Body == FindLength \/ AllocRequest \/ AllocRequestFails \/ ReadBody

-----------------------------------------------------------------------------
(* The exits *)

ExitAt(label, to) ==
  /\ Running
  /\ pc = label
  /\ pc' = to
  /\ UNCHANGED <<text, headers, contentLength, bodyRead, ended>>

FreeAll ==
  /\ ExitAt("free_all_ret", "free_headers_ret")
  /\ live' = live \ {"request"}
  /\ UNCHANGED <<line, damage>>

\* Mutated FreeHeaders: the fallthrough to the parameters is missing.
FreeHeadersOnly ==
  /\ ExitAt("free_headers_ret", "rejected")
  /\ live' = live \ {"headers"}
  /\ UNCHANGED <<line, damage>>

FreeHeaders ==
  /\ ExitAt("free_headers_ret", "free_params_ret")
  /\ live' = live \ {"headers"}
  /\ UNCHANGED <<line, damage>>

\* The last free() is of `line`, live, NULL or already freed.  The allocator
\* may abort on the latter or hand the same block out twice.
FreeParams ==
  /\ ExitAt("free_params_ret", "rejected")
  /\ live' = live \ {"path", "query", "params", "line"}
  /\ damage' \in IF line = Null \/ line \in live THEN {damage} ELSE {"corrupted", "died"}
  /\ UNCHANGED line

\* dropHttpRequest, called once the request is handled.
DropRequest ==
  /\ ExitAt("accepted", "dropped")
  /\ live' = live \ {"headers", "params", "path", "query", "request"}
  /\ UNCHANGED <<line, damage>>

Exits == FreeAll \/ FreeHeaders \/ FreeParams

readHttpRequest == FirstLine \/ Headers \/ Body \/ Exits

RSpec == RInit /\ [][readHttpRequest \/ DropRequest]_rvars

-----------------------------------------------------------------------------
(* Properties *)

Labels == {"firstLine", "headerLine", "length", "alloc", "body", "free_all_ret",
           "free_headers_ret", "free_params_ret", "rejected", "accepted", "dropped"}

\* The values of the variables of readHttpRequest.
ReaderTypeOK ==
  /\ text \in Seq(Char)
  /\ pc \in Labels
  /\ line \in {Null, "line"}
  /\ live \subseteq Blocks
  /\ headers \in Seq(Fields)
  /\ contentLength \in Nat
  /\ bodyRead \in 0 .. contentLength
  /\ ended \in BOOLEAN
  /\ damage \in {"none", "corrupted", "died"}

\* Whatever the input and wherever parsing stops, every block is owned at
\* every return (http.c:112-216, 79-95): by nobody after NULL, by the request
\* after success, and by nobody again once the request is dropped.
NothingLeaks ==
  Running =>
    /\ pc \in {"rejected", "dropped"} => live = {}
    /\ pc = "accepted" =>
         {"request", "path"} \subseteq live /\ "line" \notin live /\ damage = "none"

\* The double free needs a finished header section: any request refused
\* before that frees each block once.
FreedOnce ==
  pc \in {"free_headers_ret", "free_params_ret"} /\ ~ ended =>
     line = Null \/ line \in live

\* A request that is handed out (http.c:186-192) has the length its first
\* Content-Length declares, 0 if that is absent or not positive, and exactly
\* so many bytes of body: a second header or a short body never changes it.
BodyAsDeclared ==
  pc = "accepted" =>
    /\ ended
    /\ bodyRead = contentLength
    /\ \/ \E i \in DOMAIN headers :
            /\ headers[i].name = "Content-Length"
            /\ \A j \in 1 .. i - 1 : headers[j].name = Other
            /\ contentLength = IF headers[i].value > 0 THEN headers[i].value ELSE 0
       \/ /\ \A i \in DOMAIN headers : headers[i].name = Other
          /\ contentLength = 0

-----------------------------------------------------------------------------
(* The inductive invariant *)

\* The blocks that may be live at a label; one that is always live there is
\* named by `Needed`.
Allowed ==
  CASE pc \in {"firstLine", "rejected", "dropped"} -> {}
    [] pc \in {"headerLine", "length", "alloc"}    -> Blocks \ {"line", "request"}
    [] pc \in {"body", "accepted", "free_all_ret"} -> Blocks \ {"line"}
    [] pc = "free_headers_ret"                     -> Blocks \ {"request"}
    [] pc = "free_params_ret"                      -> Blocks \ {"request", "headers"}
Needed ==
  CASE pc \in {"headerLine", "length", "alloc"} -> {"path"}
    [] pc \in {"body", "accepted"}              -> {"path", "request"}
    [] OTHER                                    -> {}

\* What the reader knows of its variables while it goes forward.
Forward ==
  /\ pc \in {"firstLine", "headerLine", "length", "alloc", "body", "accepted"} =>
       damage # "corrupted"
  /\ pc \in {"firstLine", "headerLine"} => ~ ended
  /\ pc \in {"length", "alloc", "body", "accepted", "free_all_ret"} => ended
  /\ pc \in {"alloc", "body", "accepted"} => contentLength = DeclaredLength(headers)
  /\ pc = "accepted" => bodyRead = contentLength
  /\ pc \notin {"accepted", "dropped", "free_all_ret", "free_headers_ret",
                 "free_params_ret", "rejected"} => bodyRead = 0

ReaderInv ==
  /\ ReaderTypeOK
  /\ Needed \subseteq live /\ live \subseteq Allowed
  /\ Forward
  /\ FreedOnce
=============================================================================
