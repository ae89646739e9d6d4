-------------------------------- MODULE Dcgi --------------------------------
(***************************************************************************)
(* handleDCGI of src/src/dcgi.c as several workers run it at once, with    *)
(* the loading and unloading of modules.                                   *)
(*                                                                         *)
(* The dynamic loader and the module's own code are external: dlopen()     *)
(* and dlclose() count references to a library, which is mapped while its  *)
(* count is positive, and dcgi_main returns any int, a negative one too,   *)
(* with any of its out parameters filled in.                               *)
(*                                                                         *)
(* loadDCGIModule never stores the handle it opened (dcgi.c:36-39), so     *)
(* unloadDCGIModule closes whatever the uninitialized member holds.        *)
(***************************************************************************)
EXTENDS Handlers, FiniteSets

CONSTANTS
  Workers,      \* threads inside handleDCGI, one request each
  Libs,         \* DCGI libraries
  DcgiRoutes,   \* routes: a library, and whether it was preloaded
  HasDealloc    \* libraries that define dcgi_dealloc

ASSUME DcgiAssumption ==
  /\ DcgiRoutes \subseteq [lib : Libs, preloaded : BOOLEAN]
  /\ IsFiniteSet(DcgiRoutes) /\ IsFiniteSet(Workers)
  /\ HasDealloc \subseteq Libs

VARIABLES
  died,    \* "no", or what ended the process
  refs,    \* the loader's reference count of each library
  stray,   \* history: references an uninitialized handle happened to close
  pc,      \* where worker w is in handleDCGI
  route,   \* the route it serves
  opened,  \* history: w's request opened a library and has not closed it itself
  owned,   \* blocks w is to release: its module and the out parameters
  res,     \* what dcgi_main returned (0 before it did)
  out,     \* responses written
  err      \* error->errCode

vars == <<died, refs, stray, pc, route, opened, owned, res, out, err>>

OutParams == {"headerDest", "dataDest", "errDest"}
Lib(w) == route[w].lib
Mapped(lib) == refs[lib] > 0
Preloads(lib) == Cardinality({r \in DcgiRoutes : r.lib = lib /\ r.preloaded})

Init ==
  /\ died = "no"
  /\ refs = [lib \in Libs |-> Preloads(lib)]
  /\ stray = [lib \in Libs |-> 0]
  /\ pc = [w \in Workers |-> "call"]
  /\ route \in [Workers -> DcgiRoutes]
  /\ opened = [w \in Workers |-> FALSE]
  /\ owned = [w \in Workers |-> {}]
  /\ res = [w \in Workers |-> 0]
  /\ out = [w \in Workers |-> <<>>]
  /\ err = [w \in Workers |-> 0]

Alive == died = "no"
Causes == {"null module", "lost handle", "out of memory", "unmapped", "module",
           "null headers", "code name", "bad handle"}

Die(w, label, cause) ==
  /\ Alive /\ pc[w] = label
  /\ died' = cause
  /\ UNCHANGED <<refs, stray, pc, route, opened, owned, res, out, err>>

Step(w, from, to) ==
  /\ Alive
  /\ pc[w] = from
  /\ pc' = [pc EXCEPT ![w] = to]
  /\ UNCHANGED <<died, route>>

Fail(w) == err' = [err EXCEPT ![w] = 500]

-----------------------------------------------------------------------------
(* loadDCGIModule *)

\* A route with a preloaded module skips the loading.
Call(w) ==
  /\ Step(w, "call", IF route[w].preloaded THEN "run" ELSE "open")
  /\ UNCHANGED <<refs, stray, opened, owned, res, out, err>>

Dlopen(w) ==
  /\ Step(w, "open", "symbols")
  /\ refs' = [refs EXCEPT ![Lib(w)] = @ + 1]
  /\ opened' = [opened EXCEPT ![w] = TRUE]
  /\ UNCHANGED <<stray, owned, res, out, err>>

DlopenFails(w) ==
  /\ Step(w, "open", "return")
  /\ Fail(w)
  /\ UNCHANGED <<refs, stray, opened, owned, res, out>>

\* Mutated NoDcgiMain: the handle is closed by the caller, too.
NoDcgiMainClosesTwice(w) ==
  /\ Step(w, "symbols", "return")
  /\ Mapped(Lib(w))
  /\ refs' = [refs EXCEPT ![Lib(w)] = @ - 2]
  /\ opened' = [opened EXCEPT ![w] = FALSE]
  /\ Fail(w)
  /\ UNCHANGED <<stray, owned, res, out>>

\* The library lacks dcgi_main: its handle is closed while it is known.
NoDcgiMain(w) ==
  /\ Step(w, "symbols", "return")
  /\ Mapped(Lib(w))
  /\ refs' = [refs EXCEPT ![Lib(w)] = @ - 1]
  /\ opened' = [opened EXCEPT ![w] = FALSE]
  /\ Fail(w)
  /\ UNCHANGED <<stray, owned, res, out>>

\* Mutated NewModule: the library is closed once its symbols are resolved.
NewModuleAndClose(w) ==
  /\ Step(w, "symbols", "run")
  /\ Mapped(Lib(w))
  /\ owned' = [owned EXCEPT ![w] = {"module"}]
  /\ refs' = [refs EXCEPT ![Lib(w)] = @ - 1]
  /\ opened' = [opened EXCEPT ![w] = FALSE]
  /\ UNCHANGED <<stray, res, out, err>>

\* The result of malloc() is not checked.
NewModule(w) ==
  /\ Step(w, "symbols", "run")
  /\ Mapped(Lib(w))
  /\ owned' = [owned EXCEPT ![w] = {"module"}]
  /\ UNCHANGED <<refs, stray, opened, res, out, err>>

NewModuleFails(w) == Die(w, "symbols", "null module")

\* The library is gone between dlopen() and dlsym(): the handle is refused,
\* also by dlclose(), which is only logged, or its use is fatal.
LostHandle(w) ==
  /\ ~ Mapped(Lib(w))
  /\ \/ /\ Step(w, "symbols", "return")
        /\ Fail(w)
        /\ UNCHANGED <<refs, stray, opened, owned, res, out>>
     \/ Die(w, "symbols", "lost handle")

-----------------------------------------------------------------------------
(* handleDCGI *)

\* The vectors of parameters and headers grow by a sentry first, and an
\* assertion of ccVecPushBack fails if they cannot.
SentryFails(w) == Die(w, "run", "out of memory")

\* Mutated Run: 500 is reported, and the response is written all the same.
RunGoesOn(w) ==
  \E code \in DcgiCodes \cup {500}, filled \in SUBSET OutParams :
    /\ Step(w, "run", "write")
    /\ Mapped(Lib(w))
    /\ res' = [res EXCEPT ![w] = code]
    /\ owned' = [owned EXCEPT ![w] = @ \cup filled]
    /\ err' = [err EXCEPT ![w] = IF code = 500 THEN 500 ELSE 0]
    /\ UNCHANGED <<refs, stray, opened, out>>

\* dcgi_main returns.  500, and 500 alone, is left to the error page.
Run(w) ==
  \E code \in DcgiCodes \cup {500}, filled \in SUBSET OutParams :
    /\ Step(w, "run", IF code = 500 THEN "errDest" ELSE "write")
    /\ Mapped(Lib(w))
    /\ res' = [res EXCEPT ![w] = code]
    /\ owned' = [owned EXCEPT ![w] = @ \cup filled]
    /\ err' = [err EXCEPT ![w] = IF code = 500 THEN 500 ELSE 0]
    /\ UNCHANGED <<refs, stray, opened, out>>

\* The status line and the module's headers; with data, the blank line and
\* the data.
Write(w) ==
  /\ Step(w, "write", "dealloc")
  /\ "headerDest" \in owned[w]
  /\ out' = [out EXCEPT ![w] =
              Append(@, [status |-> res[w], whole |-> "dataDest" \in owned[w]])]
  /\ UNCHANGED <<refs, stray, opened, owned, res, err>>

\* The header loop starts at headerDest without asking whether it is NULL.
WriteFails(w) == "headerDest" \notin owned[w] /\ Die(w, "write", "null headers")

\* httpCodeNameSafe reads outside of its table for a negative code and for one
\* above 500: a fault, unless it finds a name, or a null, there.
CodeNameFaults(w) == res[w] \notin 0 .. 500 /\ Die(w, "write", "code name")

\* dcgi_dealloc is the library's code, free() is not.
CanRelease(w) == Lib(w) \in HasDealloc => Mapped(Lib(w))

Dealloc(w) ==
  /\ Step(w, "dealloc", "errDest")
  /\ CanRelease(w)
  /\ owned' = [owned EXCEPT ![w] = @ \ {"headerDest", "dataDest"}]
  /\ UNCHANGED <<refs, stray, opened, res, out, err>>

\* Mutated DeallocErr: errDest is released only with the library's function.
DeallocErrByLib(w) ==
  /\ Step(w, "errDest", IF route[w].preloaded THEN "return" ELSE "unload")
  /\ "errDest" \in owned[w] => CanRelease(w)
  /\ owned' = [owned EXCEPT ![w] = IF Lib(w) \in HasDealloc THEN @ \ {"errDest"} ELSE @]
  /\ UNCHANGED <<refs, stray, opened, res, out, err>>

\* unload_module_ret, reached with the other out parameters still owned if
\* dcgi_main returned 500.
DeallocErr(w) ==
  /\ Step(w, "errDest", IF route[w].preloaded THEN "return" ELSE "unload")
  /\ "errDest" \in owned[w] => CanRelease(w)
  /\ owned' = [owned EXCEPT ![w] = @ \ {"errDest"}]
  /\ UNCHANGED <<refs, stray, opened, res, out, err>>

\* Code of the library is called, or returns to it, after it was unmapped.
UnmappedCode(w) ==
  \/ ~ Mapped(Lib(w)) /\ Die(w, "run", "unmapped")
  \/ ~ CanRelease(w) /\ Die(w, "dealloc", "unmapped")
  \/ ~ CanRelease(w) /\ "errDest" \in owned[w] /\ Die(w, "errDest", "unmapped")

\* The module's code crashes by itself.
ModuleFaults(w) == Mapped(Lib(w)) /\ Die(w, "run", "module")

-----------------------------------------------------------------------------
(* unloadDCGIModule *)

Unload(w) ==
  /\ Step(w, "unload", "return")
  /\ owned' = [owned EXCEPT ![w] = @ \ {"module"}]
  /\ UNCHANGED <<opened, res, out>>

\* dlclose() refuses the uninitialized handle.
UnloadRefused(w) ==
  /\ Unload(w)
  /\ Fail(w)
  /\ UNCHANGED <<refs, stray>>

\* It happens to be the handle of a library.
UnloadStray(w) ==
  /\ Unload(w)
  /\ \E lib \in Libs :
       /\ Mapped(lib)
       /\ refs' = [refs EXCEPT ![lib] = @ - 1]
       /\ stray' = [stray EXCEPT ![lib] = @ + 1]
  /\ UNCHANGED err

\* It is followed to no good.
UnloadFaults(w) == Die(w, "unload", "bad handle")

Worker(w) ==
  \/ Call(w) \/ Dlopen(w) \/ DlopenFails(w)
  \/ NoDcgiMain(w) \/ NewModule(w) \/ NewModuleFails(w) \/ LostHandle(w)
  \/ SentryFails(w) \/ Run(w) \/ ModuleFaults(w) \/ UnmappedCode(w)
  \/ Write(w) \/ WriteFails(w) \/ CodeNameFaults(w) \/ Dealloc(w) \/ DeallocErr(w)
  \/ UnloadRefused(w) \/ UnloadStray(w) \/ UnloadFaults(w)

Next == \E w \in Workers : Worker(w)
Spec == Init /\ [][Next]_vars

-----------------------------------------------------------------------------
(* Properties *)

Labels == {"call", "open", "symbols", "run", "write", "dealloc", "errDest", "unload", "return"}

\* The values of the variables; in particular no count falls below zero.
TypeOK ==
  /\ died \in {"no"} \cup Causes
  /\ refs \in [Libs -> Nat]
  /\ stray \in [Libs -> Nat]
  /\ pc \in [Workers -> Labels]
  /\ route \in [Workers -> DcgiRoutes]
  /\ opened \in [Workers -> BOOLEAN]
  /\ owned \in [Workers -> SUBSET (OutParams \cup {"module"})]
  /\ res \in [Workers -> DcgiCodes \cup {0, 500}]
  /\ out \in [Workers -> Seq(Response)]
  /\ err \in [Workers -> {0, 500}]

\* handleDCGI returns with one of the outcomes Server counts on, whichever
\* code dcgi_main returned, whichever step failed and whatever the other
\* workers did to the library meanwhile (dcgi.c:50-163).  It is the contract of
\* the code with its caller: nothing is written along with a 500, at most one
\* response otherwise, and an error after it only if the module was loaded for
\* the request.  What the README promises is DeliveredAsReturned.
OutcomeAsPromised ==
  \A w \in Workers :
    pc[w] = "return" => [out |-> out[w], err |-> err[w]] \in DcgiOutcomes(route[w].preloaded)

\* The loader's books (dcgi.c:9-48): the references a library has are those
\* of the preloaded routes and of every request that ever loaded it, less the
\* ones closed by accident.  No request closes its own on purpose.
ReferencesKept ==
  \A lib \in Libs :
    refs[lib] + stray[lib] =
      Preloads(lib) + Cardinality({w \in Workers : opened[w] /\ Lib(w) = lib})

\* Code of a library, dcgi_main or dcgi_dealloc, never runs unmapped unless
\* an uninitialized handle closed that library: other workers' requests do
\* not take it away (dcgi.c:65-163).
CodeStaysMapped ==
  \A w \in Workers :
    pc[w] \in {"run", "write", "dealloc", "errDest", "unload"} /\ stray[Lib(w)] = 0
      => Mapped(Lib(w))

\* A returning request has released its module and all the module gave it
\* (dcgi.c:126-162), except for the headers and the data of a module that
\* returned 500.
OutParamsReleased ==
  \A w \in Workers :
    pc[w] = "return" =>
      owned[w] = {} \/ (res[w] = 500 /\ owned[w] \subseteq {"headerDest", "dataDest"})

\* README.md:177-179: a response with a 5xx code is replaced by an internal
\* page, which is what an error stands for, and any other is delivered as it
\* is, so that no page may follow it.
DeliveredAsReturned ==
  \A w \in Workers :
    pc[w] = "return" =>
      /\ res[w] \in 500 .. 599 => out[w] = <<>> /\ err[w] # 0
      /\ out[w] # <<>> => err[w] = 0

\* README.md:62-63: without preload a library is unloaded after the request.
UnloadedAfterRequest ==
  (\A w \in Workers : pc[w] = "return") => \A lib \in Libs : refs[lib] <= Preloads(lib)
-----------------------------------------------------------------------------
(* The inductive invariant *)

\* A request that has loaded its module is between dlsym() and the unloading.
Loaded == {"run", "write", "dealloc", "errDest", "unload"}
Wrote1(w) == \E whole \in BOOLEAN : out[w] = <<[status |-> res[w], whole |-> whole]>>

\* dcgi_main returned 500 and nothing is written, or another code and that is.
Answered(w) ==
  \/ res[w] = 500 /\ err[w] = 500 /\ out[w] = <<>>
  \/ res[w] \in DcgiCodes /\ err[w] = 0 /\ Wrote1(w)

\* What is left of the out parameters once errDest is all there is to release.
Leftover(w) == IF res[w] = 500 THEN {"headerDest", "dataDest"} ELSE {}

\* What a worker has opened, owns, wrote and reported at each label.
WorkerInv(w) ==
  /\ pc[w] \in {"open", "symbols", "unload"} => ~ route[w].preloaded
  /\ pc[w] \in {"call", "open"} => ~ opened[w]
  /\ pc[w] = "symbols" => opened[w]
  /\ pc[w] \in Loaded => (opened[w] <=> ~ route[w].preloaded)
  /\ pc[w] \in {"call", "open", "symbols"} => owned[w] = {}
  /\ pc[w] = "run" => owned[w] \subseteq {"module"}
  /\ pc[w] \in Loaded => ("module" \in owned[w] => ~ route[w].preloaded)
  /\ pc[w] \in {"call", "open", "symbols", "run"} => out[w] = <<>> /\ err[w] = 0
  /\ pc[w] = "write" => out[w] = <<>> /\ err[w] = 0 /\ res[w] \in DcgiCodes
  /\ pc[w] = "dealloc" => res[w] \in DcgiCodes /\ err[w] = 0 /\ Wrote1(w)
  /\ pc[w] \in {"errDest", "unload"} => Answered(w)
  /\ pc[w] = "errDest" => owned[w] \subseteq {"errDest", "module"} \cup Leftover(w)
  /\ pc[w] = "unload" => owned[w] \subseteq {"module"} \cup Leftover(w)

IInv ==
  /\ TypeOK
  /\ ReferencesKept
  /\ OutcomeAsPromised
  /\ OutParamsReleased
  /\ \A w \in Workers : WorkerInv(w)
=============================================================================
