------------------------------- MODULE Server -------------------------------
(***************************************************************************)
(* The accept loop of src/src/main.c and the detached worker threads it    *)
(* starts, one per accepted connection.                                    *)
(*                                                                         *)
(* The main thread accepts a connection, allocates the worker's input      *)
(* context, starts the worker and never waits for it.  Workers share the   *)
(* process's descriptor table and read the routes and the configuration    *)
(* text that main owns.  When accept fails, main frees both and leaves     *)
(* while workers may still be running.                                     *)
(*                                                                         *)
(* A connection stands for its client, its entry in the kernel's backlog,  *)
(* the socket, and the worker thread that serves it: pc[c] says how far it *)
(* has come.  What a handler writes is in Handlers; what parsing a request *)
(* can do is in RequestReader, and is a request or Malformed here.         *)
(*                                                                         *)
(* What a worker writes goes into the buffer of its stdio stream.  The     *)
(* stream passes it on to the socket behind its descriptor when the buffer *)
(* fills, which may be at any write, and for certain at the fflush() that  *)
(* precedes fclose(); exit() flushes what other threads left open.  A      *)
(* response of which only a part has been passed on counts as buffered.    *)
(***************************************************************************)
EXTENDS Handlers, FiniteSets

CONSTANTS
  Conns,            \* connections clients may open
  Fds,              \* descriptors the process may use for connections
  MaxPending,       \* config.maxPending, the backlog given to listen()
  Routes,           \* config.routes, in configuration order
  Requests,         \* requests clients may send
  Malformed,        \* bytes readHttpRequest does not accept, or end of file
  NoInput,          \* nothing has arrived yet
  NoConn,           \* a free descriptor
  NoFd,             \* no context block allocated
  UrlMatches(_, _), \* urlCompare(url, pattern) under config.ignoreCase
  AcceptMayFail     \* whether accept() fails for reasons of its own

ASSUME ServerAssumption ==
  /\ MaxPending \in Nat
  /\ Len(Routes) \in Nat /\ DOMAIN Routes = 1 .. Len(Routes)
  /\ \A i \in DOMAIN Routes : IsRoute(Routes[i])
  /\ NoConn \notin Conns
  /\ NoFd \notin Fds
  /\ Malformed \notin Requests
  /\ NoInput \notin Requests \cup {Malformed}
  /\ AcceptMayFail \in BOOLEAN

VARIABLES
  proc,         \* "running", "exited", or what killed the process
  mainPc,       \* where the main thread is
  fdConnection, \* the local variable of the loop's body, NoFd outside
  configLive,   \* config.routes has not been destroyed
  bufferLive,   \* the configuration text, where route paths point, is allocated
  fdTab,        \* the descriptor table: whose socket a descriptor is
  ctx,          \* live input contexts: the descriptor stored in c's, NoFd if freed
  pc,           \* where connection c is
  input,        \* what c's client has sent
  idx,          \* the route c's worker looks at, 0 outside the route loop
  err,          \* the error code in c's Error, 0 once it is dropped
  buffer,       \* responses c's stream has taken and not passed on
  sent,         \* responses passed on to c's socket
  tainted       \* workers whose routing went through freed memory

mainVars == <<mainPc, fdConnection, configLive, bufferLive>>
resourceVars == <<fdTab, ctx>>
requestVars == <<input, idx, err, buffer, sent, tainted>>
vars == <<proc, mainVars, resourceVars, pc, requestVars>>

Faults == {"division", "assertion", "nullStream", "badInput", "badHandler", "useAfterFree",
           "outOfMemory"}

Running == proc = "running"
FreeFds == {f \in Fds : fdTab[f] = NoConn}
Goto(c, label) == pc' = [pc EXCEPT ![c] = label]

\* The process dies at once, with every thread in it.
Crash(fault) ==
  /\ Running
  /\ proc' = fault
  /\ UNCHANGED <<mainVars, resourceVars, pc, requestVars>>

\* Routes and the strings they point to are still there.
ConfigIntact == configLive /\ bufferLive

\* Mutated ConfigInit: the text is freed once it has been parsed.
TextFreedAfterParsing == configLive = TRUE /\ bufferLive = FALSE

ConfigInit == configLive = TRUE /\ bufferLive = TRUE

Init ==
  /\ proc = "running"
  /\ mainPc = "listen"
  /\ fdConnection = NoFd
  /\ ConfigInit
  /\ fdTab = [f \in Fds |-> NoConn]
  /\ ctx = [c \in Conns |-> NoFd]
  /\ pc = [c \in Conns |-> "client"]
  /\ input = [c \in Conns |-> NoInput]
  /\ idx = [c \in Conns |-> 0]
  /\ err = [c \in Conns |-> 0]
  /\ buffer = [c \in Conns |-> <<>>]
  /\ sent = [c \in Conns |-> <<>>]
  /\ tainted = {}

-----------------------------------------------------------------------------
(* Clients *)

\* A client connects once main listens, while the backlog has room.
Connect(c) ==
  /\ Running
  /\ mainPc # "listen"
  /\ pc[c] = "client"
  /\ Cardinality({d \in Conns : pc[d] = "queued"}) < MaxPending
  /\ Goto(c, "queued")
  /\ UNCHANGED <<proc, mainVars, resourceVars, requestVars>>

\* A client sends a request, or bytes that are none, or hangs up.
Send(c) ==
  /\ Running
  /\ pc[c] # "client" /\ input[c] = NoInput
  /\ \E i \in Requests \cup {Malformed} : input' = [input EXCEPT ![c] = i]
  /\ UNCHANGED <<proc, mainVars, resourceVars, pc, idx, err, buffer, sent, tainted>>

-----------------------------------------------------------------------------
(* The main thread *)

MainStep(from, to) ==
  /\ Running
  /\ mainPc = from
  /\ mainPc' = to
  /\ UNCHANGED <<proc, requestVars>>

\* socket(), setsockopt(), inet_aton(), bind() and listen(), none of which
\* anybody sees before the last one.
Listen ==
  /\ MainStep("listen", "accept")
  /\ UNCHANGED <<fdConnection, configLive, bufferLive, resourceVars, pc>>

\* One of the first four fails and the loop is never entered; or listen()
\* does, which goes unnoticed until the first accept() fails.
ListenFails ==
  /\ MainStep("listen", "dropConfig")
  /\ UNCHANGED <<fdConnection, configLive, bufferLive, resourceVars, pc>>

\* Mutated Accept: main joins the previous worker before it accepts again.
AcceptAfterJoin ==
  /\ MainStep("accept", "context")
  /\ \A c \in Conns : pc[c] \in {"client", "queued", "leaked", "done"}
  /\ \E c \in Conns, f \in FreeFds :
       /\ pc[c] = "queued" /\ Goto(c, "accepted")
       /\ fdTab' = [fdTab EXCEPT ![f] = c] /\ fdConnection' = f
  /\ UNCHANGED <<configLive, bufferLive, ctx>>

Accept ==
  /\ MainStep("accept", "context")
  /\ \E c \in Conns, f \in FreeFds :
       /\ pc[c] = "queued"
       /\ Goto(c, "accepted")
       /\ fdTab' = [fdTab EXCEPT ![f] = c]
       /\ fdConnection' = f
  /\ UNCHANGED <<configLive, bufferLive, ctx>>

\* accept() returns -1, with no descriptor left or for a reason of its own:
\* the loop returns to main(), whatever the workers are doing.
StopAccepting ==
  /\ MainStep("accept", "dropConfig")
  /\ UNCHANGED <<fdConnection, configLive, bufferLive, resourceVars, pc>>

AcceptWithoutFd == FreeFds = {} /\ StopAccepting
AcceptError     == AcceptMayFail /\ StopAccepting

\* malloc() of the input context and of the copy of the client's address.
AllocContext ==
  /\ MainStep("context", "spawn")
  /\ ctx' = [ctx EXCEPT ![fdTab[fdConnection]] = fdConnection]
  /\ UNCHANGED <<fdConnection, configLive, bufferLive, fdTab, pc>>

\* The malloc() of the context fails, or pthread_create() does: the loop continues without
\* closing the descriptor or freeing the context.
Abandon(label) ==
  /\ MainStep(label, "accept")
  /\ Goto(fdTab[fdConnection], "leaked")
  /\ fdConnection' = NoFd
  /\ UNCHANGED <<configLive, bufferLive, resourceVars>>

AllocContextFails == Abandon("context")
SpawnFails        == Abandon("spawn")

\* Mutated Spawn: main closes its descriptor as if after fork().
SpawnThenClose ==
  /\ MainStep("spawn", "accept")
  /\ Goto(fdTab[fdConnection], "start")
  /\ fdTab' = [fdTab EXCEPT ![fdConnection] = NoConn]
  /\ fdConnection' = NoFd
  /\ UNCHANGED <<configLive, bufferLive, ctx>>

\* pthread_create() and pthread_detach(), whose failure is only logged.
Spawn ==
  /\ MainStep("spawn", "accept")
  /\ Goto(fdTab[fdConnection], "start")
  /\ fdConnection' = NoFd
  /\ UNCHANGED <<configLive, bufferLive, resourceVars>>

DropConfig ==
  /\ MainStep("dropConfig", "freeBuffer")
  /\ configLive' = FALSE
  /\ UNCHANGED <<fdConnection, bufferLive, resourceVars, pc>>

FreeBuffer ==
  /\ MainStep("freeBuffer", "exit")
  /\ bufferLive' = FALSE
  /\ UNCHANGED <<fdConnection, configLive, resourceVars, pc>>

\* The first `n` of these responses are passed on to whatever socket c's
\* descriptor now names; the stream keeps the rest.
PassOn(c, responses, n) ==
  /\ sent' = [sent EXCEPT ![fdTab[ctx[c]]] = @ \o SubSeq(responses, 1, n)]
  /\ buffer' = [buffer EXCEPT ![c] = SubSeq(responses, n + 1, Len(responses))]

\* Returning from main() is exit(), which flushes every stream it finds open,
\* while the workers go on.
FlushAtExit(c) ==
  /\ Running
  /\ mainPc = "exit" /\ buffer[c] # <<>>
  /\ PassOn(c, buffer[c], Len(buffer[c]))
  /\ UNCHANGED <<proc, mainVars, resourceVars, pc, input, idx, err, tainted>>

\* Then every thread ends, whatever it has written since.
Exit ==
  /\ Running
  /\ mainPc = "exit"
  /\ proc' = "exited"
  /\ UNCHANGED <<mainVars, resourceVars, pc, requestVars>>

Main ==
  \/ Listen
  \/ ListenFails
  \/ Accept
  \/ AcceptWithoutFd
  \/ AllocContext
  \/ AllocContextFails
  \/ Spawn
  \/ SpawnFails
  \/ DropConfig
  \/ FreeBuffer
  \/ \E c \in Conns : FlushAtExit(c)
  \/ Exit

-----------------------------------------------------------------------------
(* A worker thread: httpHandler and routeAndHandle *)

WorkerStep(c, from, to) ==
  /\ Running
  /\ pc[c] = from
  /\ Goto(c, to)
  /\ UNCHANGED <<proc, mainVars, input>>

\* Mutated Write: what is passed on also stays in the buffer.
WriteKeeps(c, responses) ==
  /\ sent' = [sent EXCEPT ![fdTab[ctx[c]]] = @ \o buffer[c] \o responses]
  /\ buffer' = [buffer EXCEPT ![c] = @ \o responses]

\* fprintf() and fwrite() append to the stream, which passes on as much of
\* what it holds as it likes: a buffer's worth, or a large body at once.
Write(c, responses) ==
  \E n \in 0 .. Len(buffer[c] \o responses) : PassOn(c, buffer[c] \o responses, n)

Fdopen(c) ==
  /\ WorkerStep(c, "start", "read")
  /\ UNCHANGED <<resourceVars, idx, err, buffer, sent, tainted>>

\* fdopen() fails: the failure is logged and the null stream is read.
FdopenFails(c) == pc[c] = "start" /\ Crash("nullStream")

\* readHttpRequest() blocks until the client has sent or closed.
ReadRequest(c) ==
  /\ input[c] # NoInput
  /\ WorkerStep(c, "read", IF input[c] = Malformed THEN "flush" ELSE "count")
  /\ UNCHANGED <<resourceVars, idx, err, buffer, sent, tainted>>

\* Some malformed requests take the process down (see RequestReader).
ReadRequestFaults(c) == pc[c] = "read" /\ input[c] = Malformed /\ Crash("badInput")

\* ccVecLen() of the routes; a destroyed vector has element size 0.
CountRoutes(c) ==
  \/ /\ configLive
     /\ WorkerStep(c, "count", "loop")
     /\ idx' = [idx EXCEPT ![c] = 1]
     /\ UNCHANGED <<resourceVars, err, buffer, sent, tainted>>
  \/ pc[c] = "count" /\ ~ configLive /\ Crash("division")

\* ccVecNth(), which asserts that the vector is not empty.
NthRoute(c) ==
  /\ idx[c] <= Len(Routes)
  /\ \/ /\ configLive
        /\ WorkerStep(c, "loop", "compare")
        /\ UNCHANGED <<resourceVars, idx, err, buffer, sent, tainted>>
     \/ pc[c] = "loop" /\ ~ configLive /\ Crash("assertion")

\* Mutated RouteMatches: the method is not compared.
RouteMatchesAnyMethod(request, route) == UrlMatches(request.path, route.path)

RouteMatches(request, route) ==
  /\ UrlMatches(request.path, route.path)
  /\ request.method = route.method

\* Mutated Compared: the loop does not advance.
ComparedForever(c, matches) ==
  /\ WorkerStep(c, "compare", IF matches THEN "handle" ELSE "loop")
  /\ UNCHANGED <<resourceVars, idx, err, buffer, sent>>

\* Mutated Compared: the loop's body advances too.
ComparedTwice(c, matches) ==
  /\ WorkerStep(c, "compare", IF matches THEN "handle" ELSE "loop")
  /\ idx' = [idx EXCEPT ![c] = IF matches THEN @ ELSE @ + 2]
  /\ UNCHANGED <<resourceVars, err, buffer, sent>>

\* Where the comparison leads: to the handler, or to the next route.
Compared(c, matches) ==
  /\ WorkerStep(c, "compare", IF matches THEN "handle" ELSE "loop")
  /\ idx' = [idx EXCEPT ![c] = IF matches THEN @ ELSE @ + 1]
  /\ UNCHANGED <<resourceVars, err, buffer, sent>>

CompareRoute(c) ==
  /\ pc[c] = "compare" /\ ConfigIntact
  /\ Compared(c, RouteMatches(input[c], Routes[idx[c]]))
  /\ UNCHANGED tainted

\* The route, or its path, is compared after main has freed it.
CompareFreedRoute(c) ==
  /\ pc[c] = "compare" /\ ~ ConfigIntact
  /\ \/ /\ \E matches \in BOOLEAN : Compared(c, matches)
        /\ tainted' = tainted \cup {c}
     \/ Crash("useAfterFree")

NoRouteMatches(c) ==
  /\ idx[c] > Len(Routes)
  /\ WorkerStep(c, "loop", "reply")
  /\ err' = [err EXCEPT ![c] = 404]
  /\ idx' = [idx EXCEPT ![c] = 0]
  /\ UNCHANGED <<resourceVars, buffer, sent, tainted>>

\* Mutated Handled: the return after the switch is missing.
HandledAndOn(c, outcome) ==
  /\ WorkerStep(c, "handle", "loop")
  /\ Write(c, outcome.out)
  /\ err' = [err EXCEPT ![c] = outcome.err]
  /\ idx' = [idx EXCEPT ![c] = @ + 1]
  /\ UNCHANGED resourceVars

Handled(c, outcome) ==
  /\ WorkerStep(c, "handle", "reply")
  /\ Write(c, outcome.out)
  /\ err' = [err EXCEPT ![c] = outcome.err]
  /\ idx' = [idx EXCEPT ![c] = 0]
  /\ UNCHANGED resourceVars

Handle(c) ==
  /\ pc[c] = "handle" /\ ConfigIntact
  /\ \E outcome \in HandlerOutcomes(Routes[idx[c]]) : Handled(c, outcome)
  /\ UNCHANGED tainted

\* handlerType, handlerPath or extra are read after main has freed them.
HandleFreedRoute(c) ==
  /\ pc[c] = "handle" /\ ~ ConfigIntact
  /\ \/ /\ \E i \in DOMAIN Routes :
             \E outcome \in HandlerOutcomes(Routes[i]) : Handled(c, outcome)
        /\ tainted' = tainted \cup {c}
     \/ Crash("useAfterFree")

\* A module's code, or what it leaves in its out parameters, is fatal (see
\* Dcgi).
HandleFaults(c) ==
  /\ pc[c] = "handle" /\ ConfigIntact
  /\ Routes[idx[c]].handler = "DCGI"
  /\ Crash("badHandler")

\* Mutated Reply: the descriptor is closed before the stream is flushed.
ReplyClosesFd(c) ==
  /\ WorkerStep(c, "reply", "flush")
  /\ Write(c, ErrorPages(err[c]))
  /\ fdTab' = [fdTab EXCEPT ![ctx[c]] = NoConn]
  /\ err' = [err EXCEPT ![c] = 0]
  /\ UNCHANGED <<ctx, idx, tainted>>

\* The error page, if routeAndHandle left an error, which is then dropped.
Reply(c) ==
  /\ WorkerStep(c, "reply", "flush")
  /\ Write(c, ErrorPages(err[c]))
  /\ err' = [err EXCEPT ![c] = 0]
  /\ UNCHANGED <<resourceVars, idx, tainted>>

\* fflush(): everything the stream still holds goes out now.
Flush(c) ==
  /\ WorkerStep(c, "flush", "close")
  /\ PassOn(c, buffer[c], Len(buffer[c]))
  /\ UNCHANGED <<resourceVars, idx, err, tainted>>

\* Mutated Close: the stream is flushed and not closed.
CloseFlushesOnly(c) ==
  /\ WorkerStep(c, "close", "done")
  /\ ctx' = [ctx EXCEPT ![c] = NoFd]
  /\ UNCHANGED <<fdTab, idx, err, buffer, sent, tainted>>

\* fclose() gives the descriptor back; the context is freed.
Close(c) ==
  /\ WorkerStep(c, "close", "done")
  /\ fdTab' = [fdTab EXCEPT ![ctx[c]] = NoConn]
  /\ ctx' = [ctx EXCEPT ![c] = NoFd]
  /\ UNCHANGED <<idx, err, buffer, sent, tainted>>

Worker(c) ==
  \/ Fdopen(c)
  \/ FdopenFails(c)
  \/ ReadRequest(c)
  \/ ReadRequestFaults(c)
  \/ CountRoutes(c)
  \/ NthRoute(c)
  \/ CompareRoute(c)
  \/ CompareFreedRoute(c)
  \/ NoRouteMatches(c)
  \/ Handle(c)
  \/ HandleFreedRoute(c)
  \/ HandleFaults(c)
  \/ Reply(c)
  \/ Flush(c)
  \/ Close(c)

\* The malloc() of the copy of the address, of a string of the request or of
\* the worker's Error is not checked: NULL is written to.
OutOfMemory ==
  /\ mainPc = "context" \/ \E c \in Conns : pc[c] = "read" /\ input[c] # NoInput
  /\ Crash("outOfMemory")

-----------------------------------------------------------------------------
Next ==
  \/ Main
  \/ AcceptError \/ OutOfMemory
  \/ \E c \in Conns : Connect(c) \/ Send(c) \/ Worker(c)

Spec == Init /\ [][Next]_vars

\* Where a worker waits for somebody who owes it nothing: for the code of a
\* module to return, or for the client to make room in the socket.  Nothing
\* in the code bounds either wait.
Waits(c) == pc[c] \in {"handle", "reply", "flush"}

\* main has returned, and exit() may have to wait for clients as well.
Leaving == mainPc = "exit" \/ ~ Running

\* The scheduler runs every thread that can run; clients and modules owe
\* nothing.
Fairness ==
  /\ WF_vars(~ Leaving /\ Main)
  /\ \A c \in Conns : WF_vars(~ Waits(c) /\ Worker(c))
FairSpec == Spec /\ Fairness

-----------------------------------------------------------------------------
(* Properties *)

Labels == {"client", "queued", "accepted", "leaked", "start", "read", "count",
           "loop", "compare", "handle", "reply", "flush", "close", "done"}
Serving(c) == pc[c] \in {"start", "read", "count", "loop", "compare",
                         "handle", "reply", "flush", "close"}

\* The values every variable of main() and of the workers takes.
TypeOK ==
  /\ proc \in {"running", "exited"} \cup Faults
  /\ mainPc \in {"listen", "accept", "context", "spawn", "dropConfig", "freeBuffer", "exit"}
  /\ fdConnection \in Fds \cup {NoFd}
  /\ configLive \in BOOLEAN
  /\ bufferLive \in BOOLEAN
  /\ fdTab \in [Fds -> Conns \cup {NoConn}]
  /\ ctx \in [Conns -> Fds \cup {NoFd}]
  /\ pc \in [Conns -> Labels]
  /\ input \in [Conns -> Requests \cup {Malformed, NoInput}]
  /\ idx \in [Conns -> 0 .. Len(Routes) + 1]
  /\ err \in [Conns -> Nat]
  /\ buffer \in [Conns -> Seq(Response)]
  /\ sent \in [Conns -> Seq(Response)]
  /\ tainted \subseteq Conns

\* Main never closes a descriptor and forgets the ones it hands out
\* (main.c:166-199), so every worker must find its own connection behind the
\* number in its context until it closes it (main.c:208-255); and a descriptor
\* in use belongs to the connection main is accepting, to a worker that will
\* close it, or to one of the two leaks (main.c:181, main.c:192).
DescriptorAccounting ==
  /\ \A c \in Conns : Serving(c) => ctx[c] \in Fds /\ fdTab[ctx[c]] = c
  /\ \A f \in Fds : fdTab[f] # NoConn =>
       \/ mainPc \in {"context", "spawn"} /\ fdConnection = f
       \/ Serving(fdTab[f]) /\ ctx[fdTab[f]] = f
       \/ pc[fdTab[f]] = "leaked"

\* HttpService seen through this module's state.  Its answer is the transcript
\* at the moment the worker has closed its stream.
Service == INSTANCE HttpService WITH
  up       <- Running,
  stopping <- mainPc \in {"freeBuffer", "exit"},
  stage    <- [c \in Conns |->
                 CASE pc[c] = "client" -> "idle"
                   [] pc[c] = "leaked" -> "lost"
                   [] pc[c] = "done"   -> "closed"
                   [] OTHER            -> "open"],
  asked    <- input,
  answer   <- [c \in Conns |-> IF pc[c] = "done" THEN sent[c] ELSE <<>>]

\* End to end: a connection that was closed by its worker received exactly
\* what its own request is due, whatever other workers did to the shared
\* descriptor table, whenever the streams passed their buffers on, and while
\* main was stopping, provided the worker did not route through memory main
\* had already freed (main.c:204-296).
Answered ==
  \A c \in Conns :
    pc[c] = "done" /\ c \notin tainted => sent[c] \in Service!Expected(input[c])

Beginnings(answer) == { SubSeq(answer, 1, n) : n \in 0 .. Len(answer) }

\* At every moment a client has at most received the beginning of an answer
\* it is due, in order and nothing twice: also when the process has died with
\* the rest still in a buffer, and when exit() flushed the stream of a worker
\* that was still writing (main.c:119, 237-255).
NothingUndue ==
  \A c \in Conns :
    c \notin tainted /\ sent[c] # <<>> =>
      \E answer \in Service!Expected(input[c]) : sent[c] \in Beginnings(answer)

\* The whole server keeps the promise of HttpService: seen from its clients,
\* the threads, the descriptor table, the route loop and the two writes of a
\* reply (main.c:122-296) amount to one answer per connection, chosen from
\* what the request that client sent is due.
ImplementsService == Service!SSpec

\* Freed or destroyed configuration memory is reached only after the accept
\* loop has returned and main has begun to free it (main.c:112-117): as long
\* as main accepts, no worker trips over it.
ConfigOutlivesAccepting ==
  tainted # {} \/ proc \in {"division", "assertion", "useAfterFree"}
    => mainPc \in {"freeBuffer", "exit"}

\* A socket receives data only while its own worker holds it, and only what
\* that worker's stream held or what the worker adds to it in this very step
\* as handler or error page.  However late a buffer is passed on, it does not
\* reach a client that got the descriptor's number in the meantime, and no
\* worker's bytes follow once its stream is closed (main.c:208, 239-255).
OwnWrites(c) ==
  sent'[c] # sent[c] =>
    /\ Serving(c) /\ fdTab[ctx[c]] = c
    /\ \/ pc[c] \in {"handle", "reply"} /\ pc'[c] # pc[c]
       \/ sent'[c] \o buffer'[c] = sent[c] \o buffer[c]
NoCrossTalk == [][\A c \in Conns : OwnWrites(c)]_vars

\* A worker whose client has sent its bytes reaches the end of httpHandler
\* and gives its descriptor back, unless one of its own waits lasts for ever
\* or the server ends: no route loop without end, and no waiting for another
\* worker, even one that never comes back from a module or from a client that
\* does not read.  (Without input a worker waits for ever: the code has no
\* timeout at all.)
EveryRequestFinishes ==
  \A c \in Conns :
    ([]<> ~ Waits(c)) =>
      (Serving(c) /\ input[c] # NoInput ~> pc[c] = "done" \/ Leaving)

\* No client is left in the backlog by workers that are slow or stuck: main
\* accepts it without waiting for any worker, or stops serving altogether.
BacklogDrains ==
  \A c \in Conns : pc[c] = "queued" ~> pc[c] # "queued" \/ Leaving

\* cc_vec.c:94, "assert(vec->usage != vec->start)" in ccVecNth: the routes a
\* worker walks through are still there.
NthAssertion == proc # "assertion"

-----------------------------------------------------------------------------
(* The inductive invariant behind the safety properties *)

\* What main's local variables mean at each of its labels.
MainInv ==
  /\ mainPc \in {"context", "spawn"} =>
       /\ fdConnection \in Fds
       /\ fdTab[fdConnection] \in Conns
       /\ pc[fdTab[fdConnection]] = "accepted"
  /\ mainPc = "spawn" => ctx[fdTab[fdConnection]] = fdConnection
  /\ mainPc \notin {"freeBuffer", "exit"} => ConfigIntact

\* No route before the one the worker looks at applies to its request.
Skipped(c) == \A l \in 1 .. idx[c] - 1 : ~ Service!Applies(input[c], Routes[l])

\* How far a worker has come with its request, at each of its labels.
WorkerInv(c) ==
  /\ pc[c] \notin {"reply", "flush", "close", "done"} =>
       sent[c] = <<>> /\ buffer[c] = <<>> /\ err[c] = 0
  /\ pc[c] \in {"count", "loop", "compare", "handle", "reply"} => input[c] \in Requests
  /\ pc[c] \in {"flush", "close", "done"} => input[c] # NoInput
  /\ pc[c] \in {"close", "done"} => buffer[c] = <<>>
  /\ pc[c] \in {"loop", "compare", "handle"} => idx[c] > 0
  /\ pc[c] \in {"compare", "handle"} => idx[c] <= Len(Routes)
  /\ c \notin tainted =>
       /\ pc[c] \in {"loop", "compare", "handle"} => Skipped(c)
       /\ pc[c] = "handle" => Service!Applies(input[c], Routes[idx[c]])
       /\ pc[c] = "reply" =>
            sent[c] \o buffer[c] \o ErrorPages(err[c]) \in Service!Expected(input[c])
       /\ pc[c] \in {"flush", "close", "done"} =>
            sent[c] \o buffer[c] \in Service!Expected(input[c])

IInv ==
  /\ TypeOK
  /\ MainInv
  /\ DescriptorAccounting
  /\ \A c \in Conns : WorkerInv(c)
  /\ ConfigOutlivesAccepting
=============================================================================
