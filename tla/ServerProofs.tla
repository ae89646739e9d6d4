---------------------------- MODULE ServerProofs ----------------------------
(***************************************************************************)
(* Proofs about Server, for every set of connections and descriptors,      *)
(* every backlog, every route table and every URL comparison.              *)
(***************************************************************************)
EXTENDS Server, SequenceTheorems, TLAPS

-----------------------------------------------------------------------------
(* Lemmas about Handlers *)

\* Every outcome of a handler is a sequence of responses and an error code.
LEMMA OutcomesTyped ==
  ASSUME NEW r, IsRoute(r)
  PROVE  HandlerOutcomes(r) \subseteq Outcome
<1>1. StaticOutcomes \subseteq Outcome
  <2>1. Failed(500) \in Outcome
    BY DEF Outcome, Failed
  <2>2. \A resp \in Response : Wrote(resp) \in Outcome
    BY DEF Outcome, Wrote
  <2>3. Whole(200) \in Response /\ [status |-> 200, whole |-> FALSE] \in Response
    BY DEF Whole, Response
  <2> QED BY <2>1, <2>2, <2>3 DEF StaticOutcomes
<1>2. DcgiOutcomes(r.preloaded) \subseteq Outcome
  <2>1. \A resp \in [status : DcgiCodes, whole : BOOLEAN] : Wrote(resp) \in Outcome
    <3>1. \A resp \in [status : DcgiCodes, whole : BOOLEAN] : resp \in Response
      <4>1. DcgiCodes \subseteq Int
        BY DcgiCodesAssumption
      <4> QED BY <4>1 DEF Response
    <3>2. \A resp \in Response : Wrote(resp) \in Outcome
      BY DEF Outcome, Wrote
    <3> QED BY <3>1, <3>2
  <2>2. \A o \in Outcome : [o EXCEPT !.err = 500] \in Outcome
    BY DEF Outcome
  <2>3. Failed(500) \in Outcome
    BY DEF Outcome, Failed
  <2> QED BY <2>1, <2>2, <2>3 DEF DcgiOutcomes
<1>3. InternOutcomes(r.page) \subseteq Outcome
  BY DEF InternOutcomes, IsRoute, Outcome, Failed
<1>4. Failed(500) \in Outcome
  BY DEF Outcome, Failed
<1> QED BY <1>1, <1>2, <1>3, <1>4 DEF HandlerOutcomes, IsRoute

\* The page for an error, if any, is at most one response.
LEMMA PagesTyped ==
  ASSUME NEW e \in Nat
  PROVE  ErrorPages(e) \in Seq(Response)
<1>1. CASE e = 0
  BY <1>1 DEF ErrorPages
<1>2. CASE e # 0
  <2> DEFINE code == IF e \in {403, 404} THEN e ELSE 500
  <2>1. Whole(code) \in Response
    BY DEF Whole, Response
  <2>2. ErrorPages(e) = <<Whole(code)>>
    BY <1>2 DEF ErrorPages
  <2> HIDE DEF code
  <2> QED BY <2>1, <2>2
<1> QED BY <1>1, <1>2

\* Passing responses on to whatever socket a descriptor names keeps every
\* transcript and every buffer a sequence of responses.
LEMMA PassOnTyped ==
  ASSUME NEW c \in Conns, NEW q \in Seq(Response), NEW n \in 0 .. Len(q), PassOn(c, q, n),
         sent \in [Conns -> Seq(Response)], buffer \in [Conns -> Seq(Response)]
  PROVE  sent' \in [Conns -> Seq(Response)] /\ buffer' \in [Conns -> Seq(Response)]
<1>1. SubSeq(q, 1, n) \in Seq(Response) /\ SubSeq(q, n + 1, Len(q)) \in Seq(Response)
  OBVIOUS
<1> DEFINE front == SubSeq(q, 1, n)
<1> HIDE DEF front
<1>2. \A d \in Conns : sent[d] \o front \in Seq(Response)
  BY <1>1 DEF front
<1>3. sent' = [sent EXCEPT ![fdTab[ctx[c]]] = @ \o front]
  BY DEF PassOn, front
<1>4. sent' \in [Conns -> Seq(Response)]
  BY <1>2, <1>3
<1> QED BY <1>1, <1>4 DEF PassOn

\* So does a write.
LEMMA WriteTyped ==
  ASSUME NEW c \in Conns, NEW q \in Seq(Response), Write(c, q),
         sent \in [Conns -> Seq(Response)], buffer \in [Conns -> Seq(Response)]
  PROVE  sent' \in [Conns -> Seq(Response)] /\ buffer' \in [Conns -> Seq(Response)]
<1>1. buffer[c] \o q \in Seq(Response)
  OBVIOUS
<1>2. PICK n \in 0 .. Len(buffer[c] \o q) : PassOn(c, buffer[c] \o q, n)
  BY DEF Write
<1> QED BY <1>1, <1>2, PassOnTyped

\* So does a flush.
LEMMA FlushTyped ==
  ASSUME NEW c \in Conns, PassOn(c, buffer[c], Len(buffer[c])),
         sent \in [Conns -> Seq(Response)], buffer \in [Conns -> Seq(Response)]
  PROVE  sent' \in [Conns -> Seq(Response)] /\ buffer' \in [Conns -> Seq(Response)]
<1>1. buffer[c] \in Seq(Response) /\ Len(buffer[c]) \in 0 .. Len(buffer[c])
  BY LenProperties
<1> QED BY <1>1, PassOnTyped

-----------------------------------------------------------------------------
(* Type correctness *)

\* Every step from a state of the invariant keeps the variables in their
\* types.
LEMMA StepTyped == IInv /\ [Next]_vars => TypeOK'
<1> SUFFICES ASSUME IInv, [Next]_vars PROVE TypeOK'
  OBVIOUS
<1>0. TypeOK /\ \A c \in Conns : WorkerInv(c)
  BY DEF IInv
<1> USE <1>0 DEF TypeOK, Labels, Goto, mainVars, resourceVars, requestVars
<1>1. ASSUME NEW c \in Conns, Connect(c) PROVE TypeOK'
  BY <1>1 DEF Connect
<1>2. ASSUME NEW c \in Conns, Send(c) PROVE TypeOK'
  BY <1>2 DEF Send
<1>3. CASE Accept
  BY <1>3 DEF Accept, MainStep, FreeFds
<1>4. CASE Listen \/ ListenFails \/ AcceptWithoutFd \/ AcceptError
  BY <1>4 DEF Listen, ListenFails, AcceptWithoutFd, AcceptError, StopAccepting, MainStep
<1>5. CASE AllocContext
  BY <1>5 DEF AllocContext, MainStep
<1>6. CASE AllocContextFails \/ SpawnFails
  BY <1>6 DEF AllocContextFails, SpawnFails, Abandon, MainStep
<1>7. CASE Spawn
  BY <1>7 DEF Spawn, MainStep
<1>8. CASE DropConfig \/ FreeBuffer
  BY <1>8 DEF DropConfig, FreeBuffer, MainStep
<1>9. CASE Exit
  BY <1>9 DEF Exit
<1>23. ASSUME NEW c \in Conns, FlushAtExit(c) PROVE TypeOK'
  <2>1. sent' \in [Conns -> Seq(Response)] /\ buffer' \in [Conns -> Seq(Response)]
    BY <1>23, FlushTyped DEF FlushAtExit
  <2> QED BY <1>23, <2>1 DEF FlushAtExit
<1>10. ASSUME NEW fault \in Faults, Crash(fault) PROVE TypeOK'
  BY <1>10 DEF Crash
<1>11. ASSUME NEW c \in Conns, Fdopen(c) \/ ReadRequest(c) PROVE TypeOK'
  BY <1>11 DEF Fdopen, ReadRequest, WorkerStep
<1>12. ASSUME NEW c \in Conns, CountRoutes(c) PROVE TypeOK'
  <2>1. CASE pc[c] = "count" /\ ~ configLive /\ Crash("division")
    BY <1>10, <2>1 DEF Faults
  <2>2. CASE WorkerStep(c, "count", "loop") /\ idx' = [idx EXCEPT ![c] = 1]
               /\ UNCHANGED <<resourceVars, err, buffer, sent, tainted>>
    <3>1. 1 \in 0 .. Len(Routes) + 1
      BY ServerAssumption
    <3> QED BY <2>2, <3>1 DEF WorkerStep
  <2> QED BY <1>12, <2>1, <2>2 DEF CountRoutes
<1>13. ASSUME NEW c \in Conns, NthRoute(c) PROVE TypeOK'
  BY <1>10, <1>13 DEF NthRoute, WorkerStep, Faults
<1>14. ASSUME NEW c \in Conns, NEW m \in BOOLEAN, Compared(c, m),
              tainted' \in {tainted, tainted \cup {c}}
       PROVE  TypeOK'
  <2>1. pc[c] = "compare"
    BY <1>14 DEF Compared, WorkerStep
  <2>2. idx[c] \in 0 .. Len(Routes)
    BY <2>1, ServerAssumption DEF WorkerInv
  <2> QED BY <1>14, <2>2, ServerAssumption DEF Compared, WorkerStep
<1>15. ASSUME NEW c \in Conns, CompareRoute(c) \/ CompareFreedRoute(c) PROVE TypeOK'
  <2>1. CASE CompareRoute(c)
    <3>1. RouteMatches(input[c], Routes[idx[c]]) \in BOOLEAN
      BY DEF RouteMatches
    <3> QED BY <1>14, <2>1, <3>1 DEF CompareRoute
  <2> QED BY <1>10, <1>14, <1>15, <2>1 DEF CompareFreedRoute, Faults
<1>16. ASSUME NEW c \in Conns, NoRouteMatches(c) PROVE TypeOK'
  BY <1>16, ServerAssumption DEF NoRouteMatches, WorkerStep
<1>17. ASSUME NEW c \in Conns, NEW o \in Outcome, Handled(c, o),
              tainted' \in {tainted, tainted \cup {c}}
       PROVE  TypeOK'
  <2>1. sent' \in [Conns -> Seq(Response)] /\ buffer' \in [Conns -> Seq(Response)]
    BY <1>17, WriteTyped DEF Handled, Outcome
  <2>2. o.err \in Nat /\ 0 \in 0 .. Len(Routes) + 1
    BY ServerAssumption DEF Outcome
  <2> QED BY <1>17, <2>1, <2>2 DEF Handled, WorkerStep
<1>18. ASSUME NEW c \in Conns, Handle(c) \/ HandleFreedRoute(c) PROVE TypeOK'
  <2>1. CASE Handle(c)
    <3>1. idx[c] \in DOMAIN Routes
      BY <2>1, ServerAssumption DEF Handle, WorkerInv
    <3>2. HandlerOutcomes(Routes[idx[c]]) \subseteq Outcome
      BY <3>1, OutcomesTyped, ServerAssumption
    <3> QED BY <1>17, <2>1, <3>2 DEF Handle
  <2>2. CASE HandleFreedRoute(c)
    <3>1. \A i \in DOMAIN Routes : HandlerOutcomes(Routes[i]) \subseteq Outcome
      BY OutcomesTyped, ServerAssumption
    <3> QED BY <1>10, <1>17, <2>2, <3>1 DEF HandleFreedRoute, Faults
  <2> QED BY <1>18, <2>1, <2>2
<1>19. ASSUME NEW c \in Conns, Reply(c) PROVE TypeOK'
  <2>1. ErrorPages(err[c]) \in Seq(Response)
    BY PagesTyped
  <2>2. sent' \in [Conns -> Seq(Response)] /\ buffer' \in [Conns -> Seq(Response)]
    BY <1>19, <2>1, WriteTyped DEF Reply
  <2> QED BY <1>19, <2>2 DEF Reply, WorkerStep
<1>20. ASSUME NEW c \in Conns, Close(c) PROVE TypeOK'
  BY <1>20 DEF Close, WorkerStep
<1>24. ASSUME NEW c \in Conns, Flush(c) PROVE TypeOK'
  <2>1. sent' \in [Conns -> Seq(Response)] /\ buffer' \in [Conns -> Seq(Response)]
    BY <1>24, FlushTyped DEF Flush
  <2> QED BY <1>24, <2>1 DEF Flush, WorkerStep
<1>21. CASE UNCHANGED vars
  BY <1>21 DEF vars
<1>22. ASSUME NEW c \in Conns, Worker(c) PROVE TypeOK'
  BY <1>10, <1>11, <1>12, <1>13, <1>15, <1>16, <1>18, <1>19, <1>20, <1>22, <1>24
     DEF Worker, FdopenFails, ReadRequestFaults, HandleFaults, Faults
<1> QED
  BY <1>1, <1>2, <1>3, <1>4, <1>5, <1>6, <1>7, <1>8, <1>9, <1>10, <1>21, <1>22, <1>23
  DEF Next, Main, OutOfMemory, Faults

-----------------------------------------------------------------------------
(* Descriptors and the main thread *)

\* A step inside a worker: between fdopen() and fclose(), no resource moves.
Inside(c) ==
  /\ Serving(c) /\ pc[c] # "close"
  /\ \E label \in {"read", "count", "loop", "compare", "handle", "reply", "flush", "close"} :
       Goto(c, label)
  /\ UNCHANGED <<proc, mainVars, fdTab, ctx, input>>

\* A worker's step kills the process, ends the worker, or is inside it.
LEMMA WorkerShape ==
  ASSUME NEW c \in Conns, Worker(c)
  PROVE  (\E fault \in Faults : Crash(fault)) \/ Close(c) \/ Inside(c)
<1> USE DEF Inside, Serving, WorkerStep, resourceVars, Faults
<1>1. CASE Fdopen(c) \/ ReadRequest(c) \/ NoRouteMatches(c) \/ Reply(c) \/ Flush(c)
  BY <1>1 DEF Fdopen, ReadRequest, NoRouteMatches, Reply, Flush
<1>2. CASE CountRoutes(c) \/ NthRoute(c)
  BY <1>2 DEF CountRoutes, NthRoute
<1>3. CASE CompareRoute(c) \/ CompareFreedRoute(c)
  BY <1>3 DEF CompareRoute, CompareFreedRoute, Compared
<1>4. CASE Handle(c) \/ HandleFreedRoute(c)
  BY <1>4 DEF Handle, HandleFreedRoute, Handled
<1>5. CASE FdopenFails(c) \/ ReadRequestFaults(c) \/ HandleFaults(c)
  BY <1>5 DEF FdopenFails, ReadRequestFaults, HandleFaults
<1> QED BY <1>1, <1>2, <1>3, <1>4, <1>5 DEF Worker

\* main's local variables keep their meaning.
LEMMA StepMain == IInv /\ [Next]_vars => MainInv'
<1> SUFFICES ASSUME IInv, [Next]_vars PROVE MainInv'
  OBVIOUS
<1>0. TypeOK /\ MainInv /\ DescriptorAccounting
  BY DEF IInv
<1> USE <1>0 DEF TypeOK, MainInv, DescriptorAccounting, ConfigIntact, Goto,
                 mainVars, resourceVars, requestVars
<1>1. ASSUME NEW c \in Conns, Connect(c) \/ Send(c) PROVE MainInv'
  BY <1>1 DEF Connect, Send
<1>2. CASE Accept
  BY <1>2 DEF Accept, MainStep, FreeFds
<1>3. CASE Listen \/ ListenFails \/ AcceptWithoutFd \/ AcceptError
  BY <1>3 DEF Listen, ListenFails, AcceptWithoutFd, AcceptError, StopAccepting, MainStep
<1>4. CASE AllocContext
  BY <1>4 DEF AllocContext, MainStep
<1>5. CASE AllocContextFails \/ SpawnFails
  BY <1>5 DEF AllocContextFails, SpawnFails, Abandon, MainStep
<1>6. CASE Spawn
  BY <1>6 DEF Spawn, MainStep
<1>7. CASE DropConfig \/ FreeBuffer
  BY <1>7 DEF DropConfig, FreeBuffer, MainStep
<1>8. CASE Exit \/ \E c \in Conns : FlushAtExit(c)
  BY <1>8 DEF Exit, FlushAtExit
<1>9. ASSUME NEW fault \in Faults, Crash(fault) PROVE MainInv'
  BY <1>9 DEF Crash
<1>10. ASSUME NEW c \in Conns, Close(c) PROVE MainInv'
  BY <1>10 DEF Close, WorkerStep, Serving
<1>11. ASSUME NEW c \in Conns, Inside(c) PROVE MainInv'
  BY <1>11 DEF Inside, Serving
<1>12. CASE UNCHANGED vars
  BY <1>12 DEF vars
<1> QED
  BY <1>1, <1>2, <1>3, <1>4, <1>5, <1>6, <1>7, <1>8, <1>9, <1>10, <1>11, <1>12,
     WorkerShape DEF Next, Main, OutOfMemory, Faults

\* Every worker keeps its descriptor, and every descriptor its owner.
LEMMA StepDescriptors == IInv /\ [Next]_vars => DescriptorAccounting'
<1> SUFFICES ASSUME IInv, [Next]_vars PROVE DescriptorAccounting'
  OBVIOUS
<1>0. TypeOK /\ MainInv /\ DescriptorAccounting
  BY DEF IInv
<1> USE <1>0, ServerAssumption DEF TypeOK, MainInv, DescriptorAccounting, Serving,
                 Goto, mainVars, resourceVars, requestVars
<1>1. ASSUME NEW c \in Conns, Connect(c) \/ Send(c) PROVE DescriptorAccounting'
  BY <1>1 DEF Connect, Send
<1>2. CASE Accept
  BY <1>2 DEF Accept, MainStep, FreeFds
<1>3. CASE Listen \/ ListenFails \/ AcceptWithoutFd \/ AcceptError
  BY <1>3 DEF Listen, ListenFails, AcceptWithoutFd, AcceptError, StopAccepting, MainStep
<1>4. CASE AllocContext
  BY <1>4 DEF AllocContext, MainStep
<1>5. CASE AllocContextFails \/ SpawnFails
  <2> DEFINE q == fdTab[fdConnection]
  <2>1. /\ q \in Conns /\ pc[q] = "accepted"
        /\ pc' = [pc EXCEPT ![q] = "leaked"]
        /\ fdTab' = fdTab /\ ctx' = ctx
    BY <1>5 DEF AllocContextFails, SpawnFails, Abandon, MainStep
  <2>2. \A f \in Fds : fdConnection = f => fdTab[f] = q
    OBVIOUS
  <2>3. \A c \in Conns : Serving(c)' => Serving(c)
    BY <2>1
  <2>4. \A c \in Conns : Serving(c) => Serving(c)'
    BY <2>1
  <2> HIDE DEF q
  <2>5. ASSUME NEW f \in Fds, fdTab'[f] # NoConn
        PROVE  (Serving(fdTab[f]) /\ ctx[fdTab[f]] = f)' \/ (pc[fdTab[f]] = "leaked")'
    BY <2>1, <2>2, <2>4, <2>5
  <2> QED BY <2>1, <2>3, <2>5
<1>6. CASE Spawn
  BY <1>6 DEF Spawn, MainStep
<1>7. CASE DropConfig \/ FreeBuffer
  BY <1>7 DEF DropConfig, FreeBuffer, MainStep
<1>8. CASE Exit \/ \E c \in Conns : FlushAtExit(c)
  BY <1>8 DEF Exit, FlushAtExit
<1>9. ASSUME NEW fault \in Faults, Crash(fault) PROVE DescriptorAccounting'
  BY <1>9 DEF Crash
<1>10. ASSUME NEW c \in Conns, Close(c) PROVE DescriptorAccounting'
  BY <1>10 DEF Close, WorkerStep
<1>11. ASSUME NEW c \in Conns, Inside(c) PROVE DescriptorAccounting'
  BY <1>11 DEF Inside
<1>12. CASE UNCHANGED vars
  BY <1>12 DEF vars
<1> QED
  BY <1>1, <1>2, <1>3, <1>4, <1>5, <1>6, <1>7, <1>8, <1>9, <1>10, <1>11, <1>12,
     WorkerShape DEF Next, Main, OutOfMemory, Faults

\* Freed memory is reached only once main has begun to free it.
LEMMA StepConfig == IInv /\ [Next]_vars => ConfigOutlivesAccepting'
<1> SUFFICES ASSUME IInv, [Next]_vars PROVE ConfigOutlivesAccepting'
  OBVIOUS
<1>0. MainInv /\ ConfigOutlivesAccepting
  BY DEF IInv
<1> USE <1>0 DEF MainInv, ConfigOutlivesAccepting, ConfigIntact, Running,
                 mainVars, resourceVars, requestVars
<1>1. ASSUME NEW c \in Conns, Connect(c) \/ Send(c) PROVE ConfigOutlivesAccepting'
  BY <1>1 DEF Connect, Send
<1>2. CASE Main \/ AcceptError
  BY <1>2 DEF Main, Listen, ListenFails, Accept, AcceptWithoutFd, AcceptError, StopAccepting,
              AllocContext, AllocContextFails, SpawnFails, Abandon, Spawn, DropConfig,
              FreeBuffer, Exit, FlushAtExit, MainStep
<1>3. ASSUME NEW c \in Conns, Fdopen(c) \/ ReadRequest(c) \/ CompareRoute(c) \/ NoRouteMatches(c)
                                \/ Handle(c) \/ Reply(c) \/ Flush(c) \/ Close(c)
      PROVE  ConfigOutlivesAccepting'
  BY <1>3 DEF Fdopen, ReadRequest, CompareRoute, Compared, NoRouteMatches,
              Handle, Handled, Reply, Flush, Close, WorkerStep
<1>4. ASSUME NEW c \in Conns, FdopenFails(c) \/ ReadRequestFaults(c) \/ HandleFaults(c)
      PROVE  ConfigOutlivesAccepting'
  BY <1>4 DEF FdopenFails, ReadRequestFaults, HandleFaults, Crash
<1>5. ASSUME NEW c \in Conns, CountRoutes(c) \/ NthRoute(c)
      PROVE  ConfigOutlivesAccepting'
  BY <1>5 DEF CountRoutes, NthRoute, WorkerStep, Crash
<1>6. ASSUME NEW c \in Conns, CompareFreedRoute(c) \/ HandleFreedRoute(c)
      PROVE  ConfigOutlivesAccepting'
  BY <1>6 DEF CompareFreedRoute, HandleFreedRoute, Compared, Handled, WorkerStep, Crash
<1>7. CASE OutOfMemory
  BY <1>7 DEF OutOfMemory, Crash
<1>8. CASE UNCHANGED vars
  BY <1>8 DEF vars
<1> QED BY <1>1, <1>2, <1>3, <1>4, <1>5, <1>6, <1>7, <1>8 DEF Next, Worker

-----------------------------------------------------------------------------
(* Requests and their answers *)

\* A worker's state that a step leaves alone.
Untouched(c) ==
  /\ pc'[c] = pc[c] /\ err'[c] = err[c] /\ idx'[c] = idx[c]
  /\ sent'[c] = sent[c] /\ buffer'[c] = buffer[c]
  /\ (pc[c] \notin {"client", "queued", "accepted", "leaked", "start", "read"}
        => input'[c] = input[c])
  /\ (c \in tainted => c \in tainted')

\* Such a worker keeps its invariant.
LEMMA Frame ==
  ASSUME NEW c \in Conns, WorkerInv(c), Untouched(c)
  PROVE  WorkerInv(c)'
BY DEF WorkerInv, Untouched, Skipped

\* Responses can be grouped as they come.
LEMMA Regroup ==
  ASSUME NEW a \in Seq(Response), NEW b \in Seq(Response), NEW d \in Seq(Response)
  PROVE  (a \o b) \o d = a \o (b \o d)
BY ConcatAssociative

\* A sequence of responses falls into the part passed on and the part kept.
LEMMA PartsJoin ==
  ASSUME NEW q \in Seq(Response), NEW n \in 0 .. Len(q)
  PROVE  /\ SubSeq(q, 1, n) \in Seq(Response) /\ SubSeq(q, n + 1, Len(q)) \in Seq(Response)
         /\ SubSeq(q, 1, n) \o SubSeq(q, n + 1, Len(q)) = q
<1>1. Len(q) \in Nat
  BY LenProperties
<1>2. 1 \in 1 .. Len(q) + 1 /\ n \in 1 - 1 .. Len(q) /\ Len(q) \in n .. Len(q)
  BY <1>1
<1>3. SubSeq(q, 1, n) \o SubSeq(q, n + 1, Len(q)) = SubSeq(q, 1, Len(q))
  BY ONLY <1>2, ConcatAdjacentSubSeq, q \in Seq(Response)
<1>4. SubSeq(q, 1, Len(q)) = q
  BY SubSeqFull
<1>5. SubSeq(q, 1, n) \in Seq(Response) /\ SubSeq(q, n + 1, Len(q)) \in Seq(Response)
  BY <1>1
<1> QED BY <1>3, <1>4, <1>5

\* What is passed on goes to the worker's own socket, under the descriptor
\* invariant, and nothing is lost, doubled or reordered.
LEMMA PassesOwn ==
  ASSUME TypeOK, DescriptorAccounting, NEW c \in Conns, Serving(c),
         NEW q \in Seq(Response), NEW n \in 0 .. Len(q), PassOn(c, q, n)
  PROVE  /\ sent'[c] = sent[c] \o SubSeq(q, 1, n)
         /\ buffer'[c] = SubSeq(q, n + 1, Len(q))
         /\ sent'[c] \o buffer'[c] = sent[c] \o q
         /\ \A d \in Conns \ {c} : sent'[d] = sent[d] /\ buffer'[d] = buffer[d]
<1>1. fdTab[ctx[c]] = c
  BY DEF DescriptorAccounting
<1> DEFINE front == SubSeq(q, 1, n)
           rest  == SubSeq(q, n + 1, Len(q))
<1>4. front \in Seq(Response) /\ rest \in Seq(Response) /\ front \o rest = q
  BY PartsJoin
<1> HIDE DEF front, rest
<1>5. sent'[c] = sent[c] \o front /\ buffer'[c] = rest
  BY <1>1 DEF TypeOK, PassOn, front, rest
<1>6. (sent[c] \o front) \o rest = sent[c] \o q
  <2>1. sent[c] \in Seq(Response)
    BY DEF TypeOK
  <2>2. (sent[c] \o front) \o rest = sent[c] \o (front \o rest)
    BY ONLY <1>4, <2>1, Regroup
  <2> QED BY ONLY <1>4, <2>2
<1>7. \A d \in Conns \ {c} : sent'[d] = sent[d] /\ buffer'[d] = buffer[d]
  BY <1>1 DEF TypeOK, PassOn
<1> QED BY <1>5, <1>6, <1>7 DEF front, rest

\* So it is with a write.
LEMMA WritesOwn ==
  ASSUME TypeOK, DescriptorAccounting, NEW c \in Conns, Serving(c),
         NEW q \in Seq(Response), Write(c, q)
  PROVE  /\ sent'[c] \o buffer'[c] = sent[c] \o (buffer[c] \o q)
         /\ \A d \in Conns \ {c} : sent'[d] = sent[d] /\ buffer'[d] = buffer[d]
<1>1. buffer[c] \o q \in Seq(Response)
  BY DEF TypeOK
<1>2. PICK n \in 0 .. Len(buffer[c] \o q) : PassOn(c, buffer[c] \o q, n)
  BY DEF Write
<1> HIDE DEF TypeOK, DescriptorAccounting, Serving
<1> QED BY <1>1, <1>2, PassesOwn

\* And a flush leaves nothing behind.
LEMMA FlushesOwn ==
  ASSUME TypeOK, DescriptorAccounting, NEW c \in Conns, Serving(c),
         PassOn(c, buffer[c], Len(buffer[c]))
  PROVE  /\ sent'[c] = sent[c] \o buffer[c] /\ buffer'[c] = <<>>
         /\ sent'[c] \o buffer'[c] = sent[c] \o buffer[c]
         /\ \A d \in Conns \ {c} : sent'[d] = sent[d] /\ buffer'[d] = buffer[d]
<1>1. buffer[c] \in Seq(Response) /\ Len(buffer[c]) \in Nat
  BY LenProperties DEF TypeOK
<1>2. SubSeq(buffer[c], 1, Len(buffer[c])) = buffer[c]
  BY <1>1, SubSeqFull
<1>3. SubSeq(buffer[c], Len(buffer[c]) + 1, Len(buffer[c])) = <<>>
  BY <1>1, SubSeqEmpty
<1>4. Len(buffer[c]) \in 0 .. Len(buffer[c])
  BY <1>1
<1> QED BY <1>1, <1>2, <1>3, <1>4, PassesOwn

\* Only a stream that a handler or an error page has filled holds anything.
LEMMA FilledStreams ==
  ASSUME NEW c \in Conns, WorkerInv(c), TypeOK, buffer[c] # <<>>
  PROVE  pc[c] \in {"reply", "flush"} /\ Serving(c)
BY DEF WorkerInv, TypeOK, Labels, Serving

\* A stream that exit() flushes leaves its worker's invariant as it is.
LEMMA FlushAtExitKeeps ==
  ASSUME TypeOK, DescriptorAccounting, NEW c \in Conns, WorkerInv(c), FlushAtExit(c)
  PROVE  WorkerInv(c)' /\ \A d \in Conns \ {c} : Untouched(d)
<1>1. pc[c] \in {"reply", "flush"} /\ Serving(c)
  BY FilledStreams DEF FlushAtExit
<1>2. PassOn(c, buffer[c], Len(buffer[c]))
  BY DEF FlushAtExit
<1>3. sent'[c] \o buffer'[c] = sent[c] \o buffer[c]
  BY <1>1, <1>2, FlushesOwn
<1>4. \A d \in Conns \ {c} : sent'[d] = sent[d] /\ buffer'[d] = buffer[d]
  BY <1>1, <1>2, FlushesOwn
<1>5. UNCHANGED <<pc, input, idx, err, tainted>>
  BY DEF FlushAtExit
<1> QED BY <1>1, <1>3, <1>4, <1>5 DEF WorkerInv, Untouched

\* Before a request is read nothing has been written, whatever a step does.
Early == {"client", "queued", "accepted", "leaked", "start", "read"}
EarlyMove(c) ==
  /\ pc[c] \in Early /\ pc'[c] \in Early
  /\ sent'[c] = sent[c] /\ buffer'[c] = buffer[c] /\ err'[c] = err[c]

\* Nothing can be wrong with what such a worker has sent.
LEMMA EarlyFrame ==
  ASSUME NEW c \in Conns, WorkerInv(c), EarlyMove(c)
  PROVE  WorkerInv(c)'
BY DEF WorkerInv, EarlyMove, Early

\* What a step of one worker keeps of the others.
LEMMA OthersUntouched ==
  ASSUME TypeOK, DescriptorAccounting, NEW c \in Conns, WorkerInv(c), Worker(c),
         Inside(c) \/ Close(c)
  PROVE  \A d \in Conns \ {c} : Untouched(d)
<1> USE DEF TypeOK, Untouched, Inside, WorkerStep, Goto, resourceVars, mainVars
<1>1. CASE Fdopen(c) \/ ReadRequest(c) \/ NoRouteMatches(c) \/ Close(c)
  BY <1>1 DEF Fdopen, ReadRequest, NoRouteMatches, Close
<1>2. CASE CountRoutes(c) \/ NthRoute(c)
  BY <1>2 DEF CountRoutes, NthRoute, Crash, requestVars
<1>3. CASE CompareRoute(c) \/ CompareFreedRoute(c)
  BY <1>3 DEF CompareRoute, CompareFreedRoute, Compared, Crash, requestVars
<1>4. ASSUME NEW o \in Outcome, Handled(c, o), tainted' \in {tainted, tainted \cup {c}}
      PROVE  \A d \in Conns \ {c} : Untouched(d)
  <2>1. Write(c, o.out) /\ Serving(c) /\ o.out \in Seq(Response)
    BY <1>4 DEF Handled, Serving, Outcome
  <2>2. \A d \in Conns \ {c} : sent'[d] = sent[d] /\ buffer'[d] = buffer[d]
    BY <2>1, WritesOwn
  <2> QED BY <1>4, <2>2 DEF Handled
<1>5. CASE Handle(c) \/ HandleFreedRoute(c)
  <2>1. ASSUME Handle(c) PROVE HandlerOutcomes(Routes[idx[c]]) \subseteq Outcome
    <3>1. idx[c] \in DOMAIN Routes
      BY <2>1, ServerAssumption DEF Handle, WorkerInv
    <3> QED BY <3>1, OutcomesTyped, ServerAssumption
  <2>2. \A i \in DOMAIN Routes : HandlerOutcomes(Routes[i]) \subseteq Outcome
    BY OutcomesTyped, ServerAssumption
  <2> QED BY <1>4, <1>5, <2>1, <2>2 DEF Handle, HandleFreedRoute, Crash, requestVars
<1>6. CASE Reply(c)
  <2>1. Write(c, ErrorPages(err[c])) /\ Serving(c) /\ ErrorPages(err[c]) \in Seq(Response)
    BY <1>6, PagesTyped DEF Reply, Serving
  <2>2. \A d \in Conns \ {c} : sent'[d] = sent[d] /\ buffer'[d] = buffer[d]
    BY <2>1, WritesOwn
  <2> QED BY <1>6, <2>2 DEF Reply
<1>7. CASE FdopenFails(c) \/ ReadRequestFaults(c) \/ HandleFaults(c)
  BY <1>7 DEF FdopenFails, ReadRequestFaults, HandleFaults, Crash, requestVars
<1>8. CASE Flush(c)
  <2>1. PassOn(c, buffer[c], Len(buffer[c])) /\ Serving(c)
    BY <1>8 DEF Flush, Serving
  <2>2. \A d \in Conns \ {c} : sent'[d] = sent[d] /\ buffer'[d] = buffer[d]
    BY <2>1, FlushesOwn
  <2> QED BY <1>8, <2>2 DEF Flush
<1> QED BY <1>1, <1>2, <1>3, <1>5, <1>6, <1>7, <1>8 DEF Worker

\* HttpService speaks of the same handlers and pages.
LEMMA SamePages == \A e : Service!ErrorPages(e) = ErrorPages(e)
BY DEF Service!ErrorPages, ErrorPages, Service!Whole, Whole

\* The outcomes of a handler are those HttpService reckons with.
LEMMA SameHandlers == \A r : Service!HandlerOutcomes(r) = HandlerOutcomes(r)
<1>1. \A code : Service!Whole(code) = Whole(code) /\ Service!Failed(code) = Failed(code)
  BY DEF Service!Whole, Whole, Service!Failed, Failed
<1>2. \A p : Service!Wrote(p) = Wrote(p)
  BY DEF Service!Wrote, Wrote
<1>3. Service!StaticOutcomes = StaticOutcomes
  BY <1>1, <1>2 DEF Service!StaticOutcomes, StaticOutcomes
<1>4. \A p : Service!DcgiOutcomes(p) = DcgiOutcomes(p)
  BY <1>1, <1>2 DEF Service!DcgiOutcomes, DcgiOutcomes
<1>5. \A p : Service!InternOutcomes(p) = InternOutcomes(p)
  BY <1>1 DEF Service!InternOutcomes, InternOutcomes
<1> QED BY <1>1, <1>3, <1>4, <1>5 DEF Service!HandlerOutcomes, HandlerOutcomes

\* Whatever a handler of the first route that applies leaves behind leads to an
\* answer the request is due.
LEMMA FirstRouteIsDue ==
  ASSUME NEW i \in Requests, NEW k \in DOMAIN Routes, Service!Applies(i, Routes[k]),
         \A l \in 1 .. k - 1 : ~ Service!Applies(i, Routes[l]),
         NEW o \in HandlerOutcomes(Routes[k])
  PROVE  o.out \o ErrorPages(o.err) \in Service!Expected(i)
<1>1. o \in Service!HandlerOutcomes(Routes[k])
  BY SameHandlers
<1>2. Service!Transcript(o) = o.out \o ErrorPages(o.err)
  BY SamePages DEF Service!Transcript
<1> DEFINE Due(j)  == { Service!Transcript(p) : p \in Service!HandlerOutcomes(Routes[j]) }
           Firsts == { j \in DOMAIN Routes :
                         /\ Service!Applies(i, Routes[j])
                         /\ \A l \in 1 .. j - 1 : ~ Service!Applies(i, Routes[l]) }
<1>3. Service!Expected(i) = UNION { Due(j) : j \in Firsts }
  BY DEF Service!Expected
<1>4. k \in Firsts /\ Service!Transcript(o) \in Due(k)
  BY <1>1
<1> HIDE DEF Due, Firsts
<1> QED BY <1>2, <1>3, <1>4

\* 404 is due when no route applies.
LEMMA NoRouteIs404 ==
  ASSUME NEW i \in Requests, \A l \in DOMAIN Routes : ~ Service!Applies(i, Routes[l])
  PROVE  ErrorPages(404) \in Service!Expected(i)
BY SamePages DEF Service!Expected

\* A worker's own step, unless it kills the process, keeps its invariant.
LEMMA OwnStep ==
  ASSUME IInv, NEW c \in Conns, Worker(c), Inside(c) \/ Close(c)
  PROVE  WorkerInv(c)'
<1>0. TypeOK /\ DescriptorAccounting /\ WorkerInv(c)
  BY DEF IInv
<1>11. \A fault \in Faults : ~ Crash(fault)
  BY DEF Crash, Inside, Close, WorkerStep, Running, Faults
<1>1. CASE Fdopen(c)
  <2>1. EarlyMove(c)
    BY <1>0, <1>1 DEF Fdopen, WorkerStep, Goto, EarlyMove, Early, TypeOK
  <2> QED BY <1>0, <2>1, EarlyFrame
<1>2. CASE ReadRequest(c)
  <2>1. /\ pc[c] = "read" /\ input'[c] = input[c] /\ input[c] \in Requests \cup {Malformed}
        /\ pc'[c] = (IF input[c] = Malformed THEN "flush" ELSE "count")
        /\ sent'[c] = <<>> /\ buffer'[c] = <<>> /\ err'[c] = 0
    BY <1>0, <1>2 DEF ReadRequest, WorkerStep, Goto, TypeOK, WorkerInv
  <2>2. Service!Expected(Malformed) = { <<>> }
    BY ServerAssumption DEF Service!Expected
  <2>3. input[c] # NoInput /\ <<>> \o <<>> = <<>>
    BY <1>2 DEF ReadRequest
  <2>4. CASE input[c] = Malformed
    BY <2>1, <2>2, <2>3, <2>4 DEF WorkerInv
  <2>5. CASE input[c] \in Requests
    BY <2>1, <2>5, ServerAssumption DEF WorkerInv
  <2> QED BY <2>1, <2>4, <2>5
<1>3. CASE CountRoutes(c)
  <2>1. /\ pc[c] = "count" /\ pc'[c] = "loop" /\ idx'[c] = 1
        /\ input'[c] = input[c] /\ sent'[c] = sent[c] /\ buffer'[c] = buffer[c] /\ err'[c] = err[c]
    BY <1>0, <1>3, <1>11 DEF CountRoutes, WorkerStep, Goto, TypeOK, Faults
  <2> QED BY <1>0, <2>1 DEF WorkerInv, Skipped
<1>4. CASE NthRoute(c)
  <2>1. /\ pc[c] = "loop" /\ pc'[c] = "compare" /\ idx'[c] = idx[c] /\ idx[c] <= Len(Routes)
        /\ input'[c] = input[c] /\ sent'[c] = sent[c] /\ buffer'[c] = buffer[c] /\ err'[c] = err[c]
        /\ tainted' = tainted
    BY <1>0, <1>4, <1>11 DEF NthRoute, WorkerStep, Goto, TypeOK, Faults
  <2> QED BY <1>0, <2>1 DEF WorkerInv, Skipped
<1>5. CASE CompareRoute(c) \/ CompareFreedRoute(c)
  <2>1. PICK m \in BOOLEAN :
          /\ Compared(c, m)
          /\ \/ c \in tainted'
             \/ tainted' = tainted /\ m = Service!Applies(input[c], Routes[idx[c]])
    <3>1. CASE CompareRoute(c)
      <4>1. RouteMatches(input[c], Routes[idx[c]]) = Service!Applies(input[c], Routes[idx[c]])
        BY DEF RouteMatches, Service!Applies
      <4>2. RouteMatches(input[c], Routes[idx[c]]) \in BOOLEAN
        BY DEF RouteMatches
      <4> QED BY <3>1, <4>1, <4>2 DEF CompareRoute
    <3>2. CASE CompareFreedRoute(c)
      BY <1>11, <3>2 DEF CompareFreedRoute, Faults
    <3> QED BY <1>5, <3>1, <3>2
  <2>2. /\ pc[c] = "compare" /\ pc'[c] = (IF m THEN "handle" ELSE "loop")
        /\ idx'[c] = (IF m THEN idx[c] ELSE idx[c] + 1)
        /\ idx[c] \in 1 .. Len(Routes)
        /\ input'[c] = input[c] /\ sent'[c] = sent[c] /\ buffer'[c] = buffer[c] /\ err'[c] = err[c]
    BY <1>0, <2>1, ServerAssumption DEF Compared, WorkerStep, Goto, TypeOK, WorkerInv
  <2>3. CASE c \in tainted'
    BY <1>0, <2>2, <2>3, ServerAssumption DEF WorkerInv
  <2>4. CASE tainted' = tainted /\ m = Service!Applies(input[c], Routes[idx[c]])
    <3>1. ASSUME c \notin tainted, ~ m PROVE Skipped(c)'
      <4>1. \A l \in 1 .. idx'[c] - 1 : l \in 1 .. idx[c] - 1 \/ l = idx[c]
        BY <2>2, <3>1, ServerAssumption
      <4>2. Skipped(c) /\ ~ Service!Applies(input[c], Routes[idx[c]])
        BY <1>0, <2>2, <2>4, <3>1 DEF WorkerInv
      <4> QED BY <2>2, <4>1, <4>2 DEF Skipped
    <3>2. ASSUME c \notin tainted, m PROVE Skipped(c)'
      BY <1>0, <2>2, <3>2 DEF WorkerInv, Skipped
    <3> QED
      BY <1>0, <2>1, <2>2, <2>4, <3>1, <3>2, ServerAssumption DEF WorkerInv
  <2> QED BY <2>1, <2>3, <2>4
<1>6. CASE NoRouteMatches(c)
  <2>1. /\ pc[c] = "loop" /\ pc'[c] = "reply" /\ idx[c] > Len(Routes)
        /\ input'[c] = input[c] /\ sent'[c] = <<>> /\ buffer'[c] = <<>> /\ err'[c] = 404
        /\ tainted' = tainted
    BY <1>0, <1>6 DEF NoRouteMatches, WorkerStep, Goto, TypeOK, WorkerInv
  <2>2. ASSUME c \notin tainted PROVE ErrorPages(404) \in Service!Expected(input[c])
    <3>1. DOMAIN Routes = 1 .. idx[c] - 1
      <4>1. Len(Routes) \in Nat /\ idx[c] \in 0 .. Len(Routes) + 1
        BY <1>0, ServerAssumption DEF TypeOK
      <4>2. idx[c] - 1 = Len(Routes)
        BY <2>1, <4>1
      <4> QED BY <4>2, ServerAssumption
    <3>2. \A l \in DOMAIN Routes : ~ Service!Applies(input[c], Routes[l])
      BY <1>0, <2>1, <2>2, <3>1 DEF WorkerInv, Skipped
    <3> QED BY <1>0, <2>1, <3>2, NoRouteIs404 DEF WorkerInv
  <2>3. (<<>> \o <<>>) \o ErrorPages(404) = ErrorPages(404)
    BY PagesTyped, ConcatEmptySeq
  <2> QED BY <1>0, <2>1, <2>2, <2>3 DEF WorkerInv
<1>7. CASE Handle(c) \/ HandleFreedRoute(c)
  <2>1. PICK o \in Outcome :
          /\ Handled(c, o)
          /\ \/ c \in tainted'
             \/ tainted' = tainted /\ o \in HandlerOutcomes(Routes[idx[c]])
    <3>1. CASE Handle(c)
      <4>1. idx[c] \in DOMAIN Routes
        BY <1>0, <3>1, ServerAssumption DEF Handle, WorkerInv, TypeOK
      <4>2. HandlerOutcomes(Routes[idx[c]]) \subseteq Outcome
        BY <4>1, OutcomesTyped, ServerAssumption
      <4> QED BY <3>1, <4>2 DEF Handle
    <3>2. CASE HandleFreedRoute(c)
      <4>1. \A i \in DOMAIN Routes : HandlerOutcomes(Routes[i]) \subseteq Outcome
        BY OutcomesTyped, ServerAssumption
      <4> QED BY <1>11, <3>2, <4>1 DEF HandleFreedRoute, Faults
    <3> QED BY <1>7, <3>1, <3>2
  <2>2. Write(c, o.out) /\ Serving(c) /\ o.out \in Seq(Response)
    BY <2>1 DEF Handled, WorkerStep, Serving, Outcome
  <2>3. sent'[c] \o buffer'[c] = <<>> \o (<<>> \o o.out)
    BY <1>0, <2>1, <2>2, WritesOwn DEF Handled, WorkerStep, WorkerInv
  <2>4. sent'[c] \o buffer'[c] = o.out
    BY <2>2, <2>3, ConcatEmptySeq
  <2>5. /\ pc[c] = "handle" /\ pc'[c] = "reply" /\ err'[c] = o.err
        /\ input'[c] = input[c]
    BY <1>0, <2>1 DEF Handled, WorkerStep, Goto, TypeOK
  <2>6. CASE c \in tainted'
    BY <1>0, <2>5, <2>6 DEF WorkerInv
  <2>7. CASE tainted' = tainted /\ o \in HandlerOutcomes(Routes[idx[c]])
    <3>1. ASSUME c \notin tainted PROVE o.out \o ErrorPages(o.err) \in Service!Expected(input[c])
      <4>1. /\ idx[c] \in DOMAIN Routes /\ input[c] \in Requests
            /\ Service!Applies(input[c], Routes[idx[c]])
            /\ \A l \in 1 .. idx[c] - 1 : ~ Service!Applies(input[c], Routes[l])
        BY <1>0, <2>5, <3>1, ServerAssumption DEF WorkerInv, TypeOK, Skipped
      <4> QED BY <2>7, <4>1, FirstRouteIsDue
    <3> QED BY <1>0, <2>4, <2>5, <2>7, <3>1 DEF WorkerInv
  <2> QED BY <2>1, <2>6, <2>7
<1>8. CASE Reply(c)
  <2> DEFINE pages == ErrorPages(err[c])
  <2>1. Write(c, pages) /\ Serving(c) /\ pages \in Seq(Response)
    BY <1>0, <1>8, PagesTyped DEF Reply, WorkerStep, Serving, TypeOK
  <2>2. sent'[c] \o buffer'[c] = (sent[c] \o buffer[c]) \o pages
    <3>1. sent'[c] \o buffer'[c] = sent[c] \o (buffer[c] \o pages)
      BY <1>0, <2>1, WritesOwn
    <3>2. sent[c] \in Seq(Response) /\ buffer[c] \in Seq(Response)
      BY <1>0 DEF TypeOK
    <3>3. (sent[c] \o buffer[c]) \o pages = sent[c] \o (buffer[c] \o pages)
      BY ONLY <2>1, <3>2, Regroup
    <3> QED BY <3>1, <3>3
  <2>3. /\ pc[c] = "reply" /\ pc'[c] = "flush" /\ input'[c] = input[c] /\ tainted' = tainted
    BY <1>0, <1>8 DEF Reply, WorkerStep, Goto, TypeOK
  <2> QED BY <1>0, <2>2, <2>3, ServerAssumption DEF WorkerInv
<1>12. CASE Flush(c)
  <2>1. PassOn(c, buffer[c], Len(buffer[c])) /\ Serving(c)
    BY <1>12 DEF Flush, WorkerStep, Serving
  <2>2. sent'[c] \o buffer'[c] = sent[c] \o buffer[c] /\ buffer'[c] = <<>>
    BY <1>0, <2>1, FlushesOwn
  <2>3. /\ pc[c] = "flush" /\ pc'[c] = "close" /\ input'[c] = input[c] /\ tainted' = tainted
    BY <1>0, <1>12 DEF Flush, WorkerStep, Goto, TypeOK
  <2> QED BY <1>0, <2>2, <2>3 DEF WorkerInv
<1>9. CASE Close(c)
  <2>1. /\ pc[c] = "close" /\ pc'[c] = "done" /\ input'[c] = input[c]
        /\ sent'[c] = sent[c] /\ buffer'[c] = buffer[c] /\ tainted' = tainted
    BY <1>0, <1>9 DEF Close, WorkerStep, Goto, TypeOK
  <2> QED BY <1>0, <2>1 DEF WorkerInv
<1>10. CASE FdopenFails(c) \/ ReadRequestFaults(c) \/ HandleFaults(c)
  BY <1>10, <1>11 DEF FdopenFails, ReadRequestFaults, HandleFaults, Faults
<1> QED BY <1>1, <1>2, <1>3, <1>4, <1>5, <1>6, <1>7, <1>8, <1>9, <1>10, <1>12 DEF Worker

\* Every connection keeps its invariant.
LEMMA StepRequests ==
  IInv /\ [Next]_vars => (\A c \in Conns : WorkerInv(c))'
<1> SUFFICES ASSUME IInv, [Next]_vars, NEW c \in Conns
             PROVE  WorkerInv(c)'
  OBVIOUS
<1>0. TypeOK /\ MainInv /\ DescriptorAccounting /\ \A d \in Conns : WorkerInv(d)
  BY DEF IInv
<1> DEFINE Keeps == Untouched(c) \/ EarlyMove(c)
<1> USE DEF TypeOK, Untouched, EarlyMove, Early, Goto, mainVars, resourceVars, requestVars
<1>1. ASSUME NEW d \in Conns, Connect(d) PROVE Keeps
  BY <1>0, <1>1 DEF Connect
<1>2. ASSUME NEW d \in Conns, Send(d) PROVE Keeps
  BY <1>0, <1>2, ServerAssumption DEF Send, WorkerInv, Labels
<1>3. ASSUME Accept \/ AllocContext \/ Spawn PROVE Keeps
  BY <1>0, <1>3 DEF Accept, AllocContext, Spawn, MainStep, MainInv
<1>4. ASSUME AllocContextFails \/ SpawnFails PROVE Keeps
  BY <1>0, <1>4 DEF AllocContextFails, SpawnFails, Abandon, MainStep, MainInv
<1>5. ASSUME Listen \/ ListenFails \/ AcceptWithoutFd \/ AcceptError \/ DropConfig
             \/ FreeBuffer \/ Exit
      PROVE  Keeps
  BY <1>5 DEF Listen, ListenFails, AcceptWithoutFd, AcceptError, StopAccepting, DropConfig,
              FreeBuffer, Exit, MainStep
<1>6. ASSUME NEW fault \in Faults, Crash(fault) PROVE Keeps
  BY <1>6 DEF Crash
<1>7. ASSUME UNCHANGED vars PROVE Keeps
  BY <1>7 DEF vars
<1>8. ASSUME NEW d \in Conns, Worker(d), d # c, Inside(d) \/ Close(d) PROVE Untouched(c)
  BY <1>0, <1>8, OthersUntouched
<1>9. ASSUME Worker(c), Inside(c) \/ Close(c) PROVE WorkerInv(c)'
  BY <1>9, OwnStep
<1>12. ASSUME NEW d \in Conns, FlushAtExit(d) PROVE WorkerInv(c)' \/ Untouched(c)
  BY <1>0, <1>12, FlushAtExitKeeps
<1> HIDE DEF Untouched, EarlyMove
<1>10. Keeps => WorkerInv(c)'
  BY <1>0, Frame, EarlyFrame
<1> QED
  BY <1>1, <1>2, <1>3, <1>4, <1>5, <1>6, <1>7, <1>8, <1>9, <1>10, <1>12, WorkerShape
  DEF Next, Main, OutOfMemory, Faults

-----------------------------------------------------------------------------
(* Theorems *)

\* The inductive invariant holds of the initial states and of every step.
LEMMA Invariance == Spec => []IInv
<1>1. Init => IInv
  BY ServerAssumption
     DEF Init, ConfigInit, IInv, TypeOK, Labels, MainInv, ConfigIntact, DescriptorAccounting,
         Serving, WorkerInv, ConfigOutlivesAccepting
<1>2. IInv /\ [Next]_vars => IInv'
  BY StepTyped, StepMain, StepDescriptors, StepConfig, StepRequests DEF IInv
<1> QED BY <1>1, <1>2, PTL DEF Spec

\* The variables of main and of the workers keep their types (main.c:122-296).
THEOREM TypeCorrect == Spec => []TypeOK
<1>1. IInv => TypeOK
  BY DEF IInv
<1> QED BY <1>1, Invariance, PTL

\* However many workers open and close descriptors, each finds its own
\* connection behind its number, and none in use is without an owner but the
\* leaked ones.
THEOREM DescriptorsAccounted == Spec => []DescriptorAccounting
<1>1. IInv => DescriptorAccounting
  BY DEF IInv
<1> QED BY <1>1, Invariance, PTL

\* A closed connection has received exactly what its own request is due,
\* whenever its stream passed the responses on.
THEOREM RequestsAnswered == Spec => []Answered
<1>1. ASSUME IInv PROVE Answered
  <2>1. SUFFICES ASSUME NEW c \in Conns, pc[c] = "done", c \notin tainted
                 PROVE  sent[c] \in Service!Expected(input[c])
    BY DEF Answered
  <2>2. sent[c] \o buffer[c] \in Service!Expected(input[c]) /\ buffer[c] = <<>>
    BY <1>1, <2>1 DEF IInv, WorkerInv
  <2>3. sent[c] \o <<>> = sent[c]
    BY <1>1, ConcatEmptySeq DEF IInv, TypeOK
  <2> QED BY <2>2, <2>3
<1> QED BY <1>1, Invariance, PTL

\* What a client has received at any moment is the beginning of an answer it
\* is due, also when the server has died before the rest was flushed.
THEOREM ReceivesNothingUndue == Spec => []NothingUndue
<1>1. ASSUME IInv PROVE NothingUndue
  <2>0. TypeOK /\ \A c \in Conns : WorkerInv(c)
    BY <1>1 DEF IInv
  <2>1. SUFFICES ASSUME NEW c \in Conns, c \notin tainted, sent[c] # <<>>
                 PROVE  \E answer \in Service!Expected(input[c]) : sent[c] \in Beginnings(answer)
    BY DEF NothingUndue
  <2>2. sent[c] \in Seq(Response) /\ buffer[c] \in Seq(Response)
    BY <2>0 DEF TypeOK
  <2>3. PICK rest \in Seq(Response) : sent[c] \o rest \in Service!Expected(input[c])
    <3>1. CASE pc[c] = "reply"
      <4> DEFINE pages == ErrorPages(err[c])
      <4>1. pages \in Seq(Response)
        BY <2>0, PagesTyped DEF TypeOK
      <4>2. (sent[c] \o buffer[c]) \o pages \in Service!Expected(input[c])
        BY <2>0, <2>1, <3>1 DEF WorkerInv
      <4> HIDE DEF pages
      <4>3. (sent[c] \o buffer[c]) \o pages = sent[c] \o (buffer[c] \o pages)
        BY ONLY <2>2, <4>1, Regroup
      <4>4. buffer[c] \o pages \in Seq(Response)
        BY <2>2, <4>1
      <4> QED BY <4>2, <4>3, <4>4
    <3>2. CASE pc[c] \in {"flush", "close", "done"}
      BY <2>0, <2>1, <2>2, <3>2 DEF WorkerInv
    <3> QED BY <2>0, <2>1, <3>1, <3>2 DEF WorkerInv
  <2>4. sent[c] \in Beginnings(sent[c] \o rest)
    <3> DEFINE n == Len(sent[c])
    <3>1. n \in Nat \ {0} /\ n \in 0 .. Len(sent[c] \o rest)
      <4>1. n \in Nat \ {0} /\ Len(rest) \in Nat
        BY <2>1, <2>2, EmptySeq, LenProperties
      <4>2. Len(sent[c] \o rest) = n + Len(rest)
        BY <2>2, ConcatProperties
      <4> QED BY <4>1, <4>2
    <3>2. SubSeq(sent[c] \o rest, 1, n) = SubSeq(sent[c], 1, n)
      BY <2>2, <3>1, SubSeqOfConcat1
    <3>3. SubSeq(sent[c], 1, n) = sent[c]
      BY <2>2, SubSeqFull
    <3> QED BY <3>1, <3>2, <3>3 DEF Beginnings
  <2> QED BY <2>3, <2>4
<1> QED BY <1>1, Invariance, PTL

\* Workers reach freed configuration memory only after accept() has failed.
THEOREM ConfigSafeWhileAccepting == Spec => []ConfigOutlivesAccepting
<1>1. IInv => ConfigOutlivesAccepting
  BY DEF IInv
<1> QED BY <1>1, Invariance, PTL

\* A socket receives data only while its own worker holds it, from that
\* worker's stream, however late the stream passes it on.
THEOREM NoCrossTalkHolds == Spec => NoCrossTalk
<1>1. ASSUME IInv, [Next]_vars, NEW c \in Conns PROVE OwnWrites(c)
  <2>0. TypeOK /\ DescriptorAccounting /\ \A d \in Conns : WorkerInv(d)
    BY <1>1 DEF IInv
  <2>1. CASE sent' = sent
    BY <2>1 DEF OwnWrites
  <2>2. ASSUME NEW d \in Conns, Worker(d), Inside(d) \/ Close(d), d # c PROVE OwnWrites(c)
    BY <2>0, <2>2, OthersUntouched DEF Untouched, OwnWrites
  <2>10. ASSUME Serving(c) PROVE fdTab[ctx[c]] = c
    BY <2>0, <2>10 DEF DescriptorAccounting
  <2>3. CASE Reply(c)
    <3>1. pc[c] = "reply" /\ pc'[c] = "flush" /\ Serving(c)
      BY <2>0, <2>3 DEF Reply, WorkerStep, Goto, TypeOK, Serving
    <3> QED BY <2>10, <3>1 DEF OwnWrites
  <2>4. CASE Handle(c) \/ HandleFreedRoute(c)
    <3>1. sent' = sent \/ (pc[c] = "handle" /\ pc'[c] = "reply" /\ Serving(c))
      BY <2>0, <2>4 DEF Handle, HandleFreedRoute, Handled, WorkerStep, Goto, TypeOK, Serving,
                        Crash, requestVars
    <3> QED BY <2>1, <2>10, <3>1 DEF OwnWrites
  <2>11. CASE Flush(c)
    <3>1. Serving(c) /\ PassOn(c, buffer[c], Len(buffer[c]))
      BY <2>11 DEF Flush, WorkerStep, Serving
    <3>2. sent'[c] \o buffer'[c] = sent[c] \o buffer[c]
      BY <2>0, <3>1, FlushesOwn
    <3> QED BY <2>10, <3>1, <3>2 DEF OwnWrites
  <2>12. ASSUME NEW d \in Conns, FlushAtExit(d) PROVE OwnWrites(c)
    <3>1. CASE d # c
      BY <2>0, <2>12, <3>1, FlushAtExitKeeps DEF Untouched, OwnWrites
    <3>2. CASE d = c
      <4>1. Serving(c) /\ PassOn(c, buffer[c], Len(buffer[c]))
        BY <2>0, <2>12, <3>2, FilledStreams DEF FlushAtExit
      <4>2. sent'[c] \o buffer'[c] = sent[c] \o buffer[c]
        BY <2>0, <4>1, FlushesOwn
      <4> QED BY <2>10, <4>1, <4>2 DEF OwnWrites
    <3> QED BY <3>1, <3>2
  <2>5. ASSUME Worker(c)
        PROVE  sent' = sent \/ Handle(c) \/ HandleFreedRoute(c) \/ Reply(c) \/ Flush(c)
    BY <2>5 DEF Worker, Fdopen, FdopenFails, ReadRequest, ReadRequestFaults, CountRoutes,
                NthRoute, CompareRoute, CompareFreedRoute, Compared, NoRouteMatches,
                HandleFaults, Close, Crash, requestVars
  <2>6. ASSUME NEW fault \in Faults, Crash(fault) PROVE sent' = sent
    BY <2>6 DEF Crash, requestVars
  <2>7. ASSUME NEW d \in Conns, Connect(d) \/ Send(d) PROVE sent' = sent
    BY <2>7 DEF Connect, Send, requestVars
  <2>8. ASSUME Main \/ AcceptError PROVE sent' = sent \/ \E d \in Conns : FlushAtExit(d)
    BY <2>8 DEF Main, Listen, ListenFails, Accept, AcceptWithoutFd, AcceptError, StopAccepting,
                AllocContext, AllocContextFails, SpawnFails, Abandon, Spawn, DropConfig,
                FreeBuffer, Exit, MainStep, requestVars
  <2>9. ASSUME UNCHANGED vars PROVE sent' = sent
    BY <2>9 DEF vars, requestVars
  <2> QED
    BY <1>1, <2>0, <2>1, <2>2, <2>3, <2>4, <2>5, <2>6, <2>7, <2>8, <2>9, <2>11, <2>12,
       WorkerShape
    DEF Next, OutOfMemory, Faults
<1>2. IInv /\ [Next]_vars => [\A c \in Conns : OwnWrites(c)]_vars
  BY <1>1
<1> QED BY <1>2, Invariance, PTL DEF Spec, NoCrossTalk

-----------------------------------------------------------------------------
(* The server implements HttpService *)

\* A step that moves no connection across the stages of HttpService and leaves
\* the process and its stopping as they are is invisible to the clients.
Invisible ==
  /\ proc' = proc /\ input' = input
  /\ mainPc' \in {"freeBuffer", "exit"} <=> mainPc \in {"freeBuffer", "exit"}
  /\ \A c \in Conns :
       \/ pc'[c] = pc[c] /\ (pc[c] = "done" => sent'[c] = sent[c])
       \/ {pc[c], pc'[c]} \cap {"client", "leaked", "done"} = {}

\* Such a step leaves every variable of HttpService as it is.
LEMMA InvisibleStutters == Invisible => UNCHANGED Service!svars
<1> SUFFICES ASSUME Invisible PROVE UNCHANGED Service!svars
  OBVIOUS
<1> DEFINE Stage == [c \in Conns |->
                 CASE pc[c] = "client" -> "idle"
                   [] pc[c] = "leaked" -> "lost"
                   [] pc[c] = "done"   -> "closed"
                   [] OTHER            -> "open"]
           Reply1 == [c \in Conns |-> IF pc[c] = "done" THEN sent[c] ELSE <<>>]
<1>1. Running' = Running
  BY DEF Invisible, Running
<1>2. (mainPc \in {"freeBuffer", "exit"})' = (mainPc \in {"freeBuffer", "exit"})
  BY DEF Invisible
<1>3. Stage' = Stage
  BY DEF Invisible
<1>4. Reply1' = Reply1
  BY DEF Invisible
<1> QED BY <1>1, <1>2, <1>3, <1>4 DEF Service!svars, Invisible

\* The first state of the server is the first state of the service.
LEMMA InitRefines == Init => Service!SInit
BY DEF Init, Service!SInit, Running

\* Every step of the server is one of the service, or invisible.
LEMMA StepRefines ==
  IInv /\ IInv' /\ [Next]_vars => [Service!SNext]_(Service!svars)
<1> SUFFICES ASSUME IInv, IInv', [Next]_vars
             PROVE  Service!SNext \/ Invisible
  BY InvisibleStutters
<1>0. TypeOK /\ MainInv /\ DescriptorAccounting /\ ConfigOutlivesAccepting
      /\ \A c \in Conns : WorkerInv(c)
  BY DEF IInv
<1> DEFINE Answers == [d \in Conns |-> IF pc[d] = "done" THEN sent[d] ELSE <<>>]
           Stage == [d \in Conns |->
                       CASE pc[d] = "client" -> "idle"
                         [] pc[d] = "leaked" -> "lost"
                         [] pc[d] = "done"   -> "closed"
                         [] OTHER            -> "open"]
<1> USE DEF Goto, mainVars, resourceVars, requestVars
<1>1. ASSUME NEW c \in Conns, Connect(c) PROVE Service!Open(c)
  BY <1>0, <1>1 DEF Connect, Running, TypeOK, Service!Open
<1>2. ASSUME NEW c \in Conns, Send(c) PROVE Service!Ask(c)
  BY <1>0, <1>2 DEF Send, Running, TypeOK, Service!Ask
<1>3. ASSUME Accept \/ AllocContext \/ Spawn PROVE Invisible
  BY <1>0, <1>3 DEF Accept, AllocContext, Spawn, MainStep, MainInv, TypeOK, Invisible
<1>4. ASSUME NEW q \in Conns, q = fdTab[fdConnection], AllocContextFails \/ SpawnFails
      PROVE  Service!Lose(q)
  <2>1. /\ q \in Conns /\ pc[q] = "accepted" /\ proc = "running" /\ proc' = proc
        /\ pc' = [pc EXCEPT ![q] = "leaked"] /\ sent' = sent /\ input' = input
        /\ mainPc \notin {"freeBuffer", "exit"} /\ mainPc' \notin {"freeBuffer", "exit"}
    BY <1>0, <1>4 DEF AllocContextFails, SpawnFails, Abandon, MainStep, MainInv, Running
  <2>2. Answers' = Answers
    BY <1>0, <2>1 DEF TypeOK
  <2>3. Stage[q] = "open" /\ Stage' = [Stage EXCEPT ![q] = "lost"]
    BY <1>0, <2>1 DEF TypeOK
  <2>4. /\ Running /\ Running' = Running /\ input' = input
        /\ (mainPc \in {"freeBuffer", "exit"})' = (mainPc \in {"freeBuffer", "exit"})
    BY <2>1 DEF Running
  <2> QED BY <2>2, <2>3, <2>4 DEF Service!Lose
<1>5. ASSUME Listen \/ ListenFails \/ AcceptWithoutFd \/ AcceptError \/ FreeBuffer
      PROVE  Invisible
  BY <1>5 DEF Listen, ListenFails, AcceptWithoutFd, AcceptError, StopAccepting, FreeBuffer,
              MainStep, Invisible
<1>6. ASSUME DropConfig PROVE Service!BeginStop
  BY <1>6 DEF DropConfig, MainStep, Running, Service!BeginStop
<1>7. ASSUME Exit PROVE Service!GoDown
  BY <1>7 DEF Exit, Running, Service!GoDown
<1>8. ASSUME NEW fault \in Faults, Crash(fault) PROVE Service!GoDown
  BY <1>8 DEF Crash, Running, Faults, Service!GoDown
<1>9. ASSUME NEW c \in Conns, Worker(c), Inside(c) PROVE Invisible
  <2>1. \A d \in Conns \ {c} : pc'[d] = pc[d] /\ sent'[d] = sent[d]
    BY <1>0, <1>9, OthersUntouched DEF Untouched
  <2>2. {pc[c], pc'[c]} \cap {"client", "leaked", "done"} = {}
    BY <1>0, <1>9 DEF Inside, Serving, TypeOK
  <2> QED BY <1>9, <2>1, <2>2 DEF Inside, Invisible
<1>12. ASSUME NEW c \in Conns, FlushAtExit(c) PROVE Invisible
  <2>1. \A d \in Conns \ {c} : sent'[d] = sent[d]
    BY <1>0, <1>12, FlushAtExitKeeps DEF Untouched
  <2>2. pc[c] # "done"
    BY <1>0, <1>12, FilledStreams DEF FlushAtExit
  <2> QED BY <1>12, <2>1, <2>2 DEF FlushAtExit, Invisible
<1>10. ASSUME NEW c \in Conns, Close(c) PROVE Service!Answer(c)
  <2>1. /\ Running /\ Running' = Running /\ mainPc' = mainPc /\ input' = input
        /\ pc[c] = "close" /\ pc' = [pc EXCEPT ![c] = "done"]
        /\ sent' = sent /\ tainted' = tainted
    BY <1>10 DEF Close, WorkerStep, Running
  <2>2. input[c] # NoInput
    BY <1>0, <2>1 DEF WorkerInv
  <2>3. \/ sent[c] \in Service!Expected(input[c])
        \/ mainPc \in {"freeBuffer", "exit"} /\ sent[c] \in Seq(Service!Response)
    <3>1. CASE c \in tainted
      <4>1. mainPc \in {"freeBuffer", "exit"}
        BY <1>0, <3>1 DEF ConfigOutlivesAccepting
      <4>2. sent[c] \in Seq(Response)
        BY <1>0 DEF TypeOK
      <4> QED BY <4>1, <4>2 DEF Response, Service!Response
    <3>2. CASE c \notin tainted
      <4>1. sent[c] \o buffer[c] \in Service!Expected(input[c]) /\ buffer[c] = <<>>
        BY <1>0, <2>1, <3>2 DEF WorkerInv
      <4>2. sent[c] \o <<>> = sent[c]
        BY <1>0, ConcatEmptySeq DEF TypeOK
      <4> QED BY <4>1, <4>2
    <3> QED BY <3>1, <3>2
  <2>4. Answers'[c] = sent[c]
    BY <1>0, <2>1 DEF TypeOK
  <2>5. Answers' = [Answers EXCEPT ![c] = Answers'[c]]
    BY <1>0, <2>1 DEF TypeOK
  <2>6. Stage[c] = "open" /\ Stage' = [Stage EXCEPT ![c] = "closed"]
    BY <1>0, <2>1 DEF TypeOK
  <2> QED BY <2>1, <2>2, <2>3, <2>4, <2>5, <2>6 DEF Service!Answer
<1>11. ASSUME UNCHANGED vars PROVE Invisible
  BY <1>11 DEF vars, Invisible
<1> QED
  <2>1. ASSUME NEW c \in Conns, Worker(c) PROVE Service!SNext \/ Invisible
    BY <1>8, <1>9, <1>10, <2>1, WorkerShape DEF Service!SNext
  <2>2. ASSUME Main \/ AcceptError PROVE Service!SNext \/ Invisible
    <3>1. CASE AllocContextFails \/ SpawnFails
      <4>1. fdTab[fdConnection] \in Conns
        BY <1>0, <3>1 DEF AllocContextFails, SpawnFails, Abandon, MainStep, MainInv
      <4> QED BY <1>4, <3>1, <4>1 DEF Service!SNext
    <3> QED BY <1>3, <1>5, <1>6, <1>7, <1>12, <2>2, <3>1 DEF Main, Service!SNext
  <2>3. CASE OutOfMemory
    BY <1>8, <2>3 DEF OutOfMemory, Faults, Service!SNext
  <2> QED BY <1>1, <1>2, <1>11, <2>1, <2>2, <2>3 DEF Next, Service!SNext

\* What clients see of the server is a behaviour of HttpService: one answer per
\* connection, the one its request is due.
THEOREM Implements == Spec => ImplementsService
<1>1. Init => Service!SInit
  BY InitRefines
<1>2. IInv /\ IInv' /\ [Next]_vars => [Service!SNext]_(Service!svars)
  BY StepRefines
<1> QED BY <1>1, <1>2, Invariance, PTL DEF Spec, ImplementsService, Service!SSpec
=============================================================================
