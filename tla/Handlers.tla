------------------------------ MODULE Handlers ------------------------------
(***************************************************************************)
(* What a route handler may leave behind: the responses it wrote to the    *)
(* connection and the Error it reported to routeAndHandle (0: none).       *)
(*                                                                         *)
(* Server uses these sets as the effect of a handler; StaticFile and Dcgi  *)
(* model the handlers step by step and are checked to end inside them.     *)
(***************************************************************************)
EXTENDS Integers, Sequences

CONSTANT
  DcgiCodes   \* what dcgi_main may return, an int, except 500

ASSUME DcgiCodesAssumption == DcgiCodes \subseteq Int \ {500}

\* A response on the wire: its status, and whether it was written whole, with
\* the blank line after its headers and all of the body it announces.
Response == [status : Int, whole : BOOLEAN]
Whole(status) == [status |-> status, whole |-> TRUE]

Outcome == [out : Seq(Response), err : Nat]
Wrote(resp)   == [out |-> <<resp>>, err |-> 0]
Failed(code)  == [out |-> <<>>,     err |-> code]

-----------------------------------------------------------------------------
\* handleStatic, static.c:11: nothing is written before the file is in
\* memory; after the header the body may be missing or cut short.
StaticOutcomes ==
  { Failed(500), Wrote(Whole(200)), Wrote([status |-> 200, whole |-> FALSE]) }

\* handleDCGI, dcgi.c:50.  Every code but 500, zero and negative ones too, is
\* the status of a response.  Without data from the module the headers are not
\* ended.  A module loaded for the request is unloaded after its response was
\* written, and unloadDCGIModule may then report error 500.
DcgiOutcomes(preloaded) ==
  LET written == { Wrote(resp) : resp \in [status : DcgiCodes, whole : BOOLEAN] }
      late    == { [o EXCEPT !.err = 500] : o \in written }
  IN  { Failed(500) } \cup written \cup (IF preloaded THEN {} ELSE late)

\* handleIntern, intern.c:103: the page named by the route, or 500.
InternOutcomes(page) ==
  { Failed(IF page \in {403, 404, 500} THEN page ELSE 500) }

\* What the configuration leaves of a route, config.h:42.  page stands for the
\* handlerPath of an INTERN route (0: any text but "403", "404", "500"),
\* preloaded for "extra # NULL" of a DCGI route.
IsRoute(route) ==
  /\ route.handler \in {"STATIC", "DCGI", "INTERN", "DIR"}
  /\ route.page \in {0, 403, 404, 500}
  /\ route.preloaded \in BOOLEAN

\* The switch of routeAndHandle, main.c:273-290.
HandlerOutcomes(route) ==
  CASE route.handler = "STATIC" -> StaticOutcomes
    [] route.handler = "DCGI"   -> DcgiOutcomes(route.preloaded)
    [] route.handler = "INTERN" -> InternOutcomes(route.page)
    [] route.handler = "DIR"    -> { Failed(500) }

\* httpHandler, main.c:242-249: the page sent for an error, if any.
ErrorPages(err) ==
  IF err = 0 THEN <<>>
  ELSE <<Whole(IF err \in {403, 404} THEN err ELSE 500)>>
=============================================================================
