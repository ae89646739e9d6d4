------------------------------- MODULE Worker -------------------------------
(***************************************************************************)
(* httpHandler of src/src/main.c for one connection, composed of the       *)
(* request reader and the static handler: what the thread owns from        *)
(* fdopen() to fclose(), and what it has sent by then.                     *)
(*                                                                         *)
(* Routing is a choice here (a static route or none); Server has the route *)
(* table, and the other threads.  errno is the thread's: what reading the  *)
(* request leaves in it is what handleStatic finds.                        *)
(***************************************************************************)
EXTENDS RequestReader

CONSTANTS
  Sizes,      \* sizes a static file may have
  Patterns,   \* what a line is compared with
  DcgiCodes   \* a parameter of Handlers, not used here

ASSUME WorkerAssumption == Sizes \subseteq Nat /\ Patterns \subseteq Seq(Char)

VARIABLES
  wpc,     \* the step of httpHandler
  owned,   \* what httpHandler itself has to give back
  size, filePc, errno, opened, buffer, fileSize, toRead, filled, body,  \* see StaticFile
  out,     \* responses written to the connection
  err      \* error->errCode

fvars == <<size, filePc, errno, opened, buffer, fileSize, toRead, filled, body, out, err>>
vars  == <<rvars, fvars, wpc, owned>>

File == INSTANCE StaticFile WITH pc <- filePc

\* The routine has not started; its locals have no value yet.
Init ==
  /\ RInit
  /\ wpc = "fdopen"
  /\ owned = {"context", "fd"}
  /\ File!Init
  /\ ~ errno
  /\ size = CHOOSE s \in Sizes : TRUE

At(from, to) == Running /\ wpc = from /\ wpc' = to

-----------------------------------------------------------------------------
Fdopen ==
  /\ At("fdopen", "read")
  /\ errno' \in BOOLEAN
  /\ UNCHANGED <<rvars, owned, size, filePc, opened, buffer, fileSize, toRead, filled, body, out, err>>

\* A failing fdopen() is logged, and its NULL is read from.
FdopenFails ==
  /\ At("fdopen", "fdopen")
  /\ Die
  /\ UNCHANGED <<fvars, owned>>

\* The library calls of the reader may set errno; nothing resets it.
Read ==
  /\ At("read", "read")
  /\ readHttpRequest
  /\ errno' \in {errno, TRUE}
  /\ UNCHANGED <<owned, size, filePc, opened, buffer, fileSize, toRead, filled, body, out, err>>

NoRequest ==
  /\ At("read", "close_fp_ret")
  /\ pc = "rejected"
  /\ UNCHANGED <<rvars, fvars, owned>>

\* The request is logged and an Error allocated, whose malloc() is not checked.
NewError ==
  /\ pc = "accepted"
  /\ \/ At("read", "route") /\ owned' = owned \cup {"error"} /\ UNCHANGED rvars
     \/ At("read", "read") /\ Die /\ UNCHANGED owned
  /\ UNCHANGED fvars

\* The file may have any size when its route is taken.
Route ==
  /\ At("route", "handle")
  /\ size' \in Sizes
  /\ UNCHANGED <<rvars, owned, filePc, errno, opened, buffer, fileSize, toRead, filled, body, out, err>>

NoRoute ==
  /\ At("route", "drop")
  /\ err' = 404
  /\ UNCHANGED <<rvars, owned, size, filePc, errno, opened, buffer, fileSize, toRead, filled, body, out>>

\* Somebody rewrites the file while it is being served.
Rewrite ==
  /\ At("handle", "handle")
  /\ File!Rewrite
  /\ UNCHANGED <<rvars, owned>>

Handle ==
  /\ At("handle", "handle")
  /\ File!handleStatic
  /\ UNCHANGED <<rvars, owned>>

\* routeAndHandle has returned.
Drop ==
  /\ \/ At("handle", "page") /\ filePc = "return"
     \/ At("drop", "page")
  /\ DropRequest
  /\ UNCHANGED <<fvars, owned>>

\* Mutated ErrorPage: only the pages with a number of their own are sent.
NamedErrorPage ==
  /\ At("page", "dropError")
  /\ out' = out \o (IF err = 500 THEN <<>> ELSE File!ErrorPages(err))
  /\ UNCHANGED <<rvars, owned, size, filePc, errno, opened, buffer, fileSize, toRead, filled, body, err>>

ErrorPage ==
  /\ At("page", "dropError")
  /\ out' = out \o File!ErrorPages(err)
  /\ UNCHANGED <<rvars, owned, size, filePc, errno, opened, buffer, fileSize, toRead, filled, body, err>>

DropError ==
  /\ At("dropError", "close_fp_ret")
  /\ owned' = owned \ {"error"}
  /\ UNCHANGED <<rvars, fvars>>

\* fclose() also closes the descriptor.
Close ==
  /\ At("close_fp_ret", "closed")
  /\ owned' = owned \ {"fd", "context"}
  /\ UNCHANGED <<rvars, fvars>>

httpHandler ==
  \/ Fdopen \/ FdopenFails
  \/ Read \/ NoRequest \/ NewError
  \/ Route \/ NoRoute \/ Handle \/ Drop
  \/ ErrorPage \/ DropError \/ Close

Next == Rewrite \/ httpHandler
Spec == Init /\ [][Next]_vars

-----------------------------------------------------------------------------
(* Properties *)

TypeOK ==
  /\ ReaderTypeOK
  /\ wpc \in {"fdopen", "read", "route", "handle", "drop", "page", "dropError",
              "close_fp_ret", "closed"}
  /\ owned \subseteq {"context", "fd", "error"}
  /\ out \in Seq(File!Response)
  /\ err \in {0, 404, 500}

\* What the static handler leaves when it returns is what Server counts on,
\* whatever errno the request reader left behind (static.c:11-74).
OutcomeAsPromised == wpc = "handle" => File!OutcomeAsPromised

\* No byte that was not read from the file reaches the client (static.c:22-64).
NothingUninitialisedIsSent == File!NothingUninitialisedIsSent

\* A worker that has closed its connection has given back everything any part
\* of it acquired: request, file, buffer, Error and context, on each of the
\* ways out of three functions (main.c:204-256, http.c:194-215, static.c:69-73).
ClosedClean == Running /\ wpc = "closed" => live = {} /\ owned = {} /\ ~ opened /\ ~ buffer

\* A request that was read gets exactly one response, be it the file or an
\* error page, and no error page follows a file that was begun; a connection
\* without one gets none (main.c:215-249).
OneResponse ==
  wpc = "closed" =>
    IF pc = "rejected" THEN out = <<>>
    ELSE /\ Len(out) = 1
         /\ err # 0 => out[1] = File!Whole(err)

-----------------------------------------------------------------------------
(* The comparisons: functions of the line, so one look at each is enough. *)

Fresh == wpc = "fdopen" /\ Running
LowerCase(s) == [i \in DOMAIN s |-> ToLower[s[i]]]
Normal(ignoreCase, s) == IF ignoreCase THEN LowerCase(s) ELSE s
StartsWith(s, t) == Len(t) <= Len(s) /\ SubSeq(s, 1, Len(t)) = t

\* strcmp_icase and slicecmp_icase (util.c:26-46) decide equality up to letter
\* case, although the first tests only lhs for its end and the second counts
\* the end of its slice by pointer: neither accepts a proper prefix of either
\* argument and neither reads beyond a terminator.
IcaseIsEquality ==
  Fresh =>
    \A pattern \in Patterns :
      LET equal == LowerCase(text) = LowerCase(pattern)
      IN  /\ strcmp_icase(text, pattern) <=> equal
          /\ slicecmp_icase(text, pattern) <=> equal

\* A route matches (util.c:48-86) as the README says of '!' and of plain
\* paths: "!p" matches p alone, p matches whatever p is a prefix of, and
\* ignore-case compares the two in lower case.
RouteMatchIsExactOrPrefix ==
  Fresh =>
    \A pattern \in Patterns, ignoreCase \in BOOLEAN :
      LET norm(s) == Normal(ignoreCase, s)
      IN  urlCompare(ignoreCase, text, pattern)
            <=> IF pattern # <<>> /\ Head(pattern) = "!"
                THEN norm(text) = norm(Tail(pattern))
                ELSE StartsWith(norm(text), norm(pattern))

\* The parameters one after the other again.
Written(params) ==
  LET from[k \in 1 .. Len(params) + 1] ==
        IF k > Len(params) THEN <<>>
        ELSE params[k].key \o <<"=">> \o params[k].value
               \o (IF k = Len(params) THEN <<>> ELSE <<"&">>) \o from[k + 1]
  IN  from[1]

\* A query string is accepted exactly if after its last '=' there is no '&',
\* and then its parameters, written one after the other again, are the query:
\* a value may hold '=', a key may hold '&', and none is lost, also when empty
\* (http.c:323-382).
QueryIsItsParameters ==
  Fresh /\ FirstSpace(text) # 0 /\ Slash(text) # 0 /\ SecondSpace(text) # 0 =>
    LET target  == TargetOf(text)
        query   == target.query
        written == Written(target.params)
    IN  target.hasQuery =>
          /\ target.ok <=> \E i \in DOMAIN query :
               query[i] = "=" /\ \A j \in i + 1 .. Len(query) : query[j] # "&"
          /\ target.ok => written = query
          /\ \E n \in 0 .. Len(query) : written = SubSeq(query, 1, n)
          /\ \A k \in DOMAIN target.params :
               /\ \A j \in DOMAIN target.params[k].key : target.params[k].key[j] # "="
               /\ \A j \in DOMAIN target.params[k].value : target.params[k].value[j] # "&"

-----------------------------------------------------------------------------
(* The inductive invariant *)

\* What has been sent when httpHandler is done with a request.
Answered == Len(out) = 1 /\ (err # 0 => out[1] = File!Whole(err))

\* The connection before a handler or an error page has written to it.
Unserved == filePc = "open" /\ out = <<>>

\* What each step of httpHandler knows of the reader, the handler, the
\* connection and what the thread owns.
AtStep ==
  /\ wpc = "fdopen" => pc = "firstLine"
  /\ wpc = "read" => pc # "dropped"
  /\ wpc \in {"route", "handle", "drop"} => pc = "accepted"
  /\ wpc \in {"page", "dropError"} => pc = "dropped"
  /\ wpc \in {"fdopen", "read", "route", "handle"} => File!IInv
  /\ wpc \in {"fdopen", "read", "route"} => Unserved /\ err = 0
  /\ wpc = "drop" => Unserved /\ err = 404
  /\ wpc = "page" => \/ [out |-> out, err |-> err] \in File!StaticOutcomes
                     \/ out = <<>> /\ err = 404
  /\ wpc = "dropError" => Answered
  /\ wpc \in {"close_fp_ret", "closed"} =>
       \/ pc = "rejected" /\ out = <<>>
       \/ pc = "dropped" /\ Answered
  /\ wpc \in {"drop", "page", "dropError", "close_fp_ret", "closed"} => ~ opened /\ ~ buffer
  /\ owned = CASE wpc \in {"fdopen", "read", "close_fp_ret"}                -> {"context", "fd"}
               [] wpc \in {"route", "handle", "drop", "page", "dropError"} -> {"context", "fd", "error"}
               [] wpc = "closed"                                          -> {}

IInv ==
  /\ TypeOK
  /\ ReaderInv
  /\ NothingUninitialisedIsSent
  /\ AtStep
=============================================================================
