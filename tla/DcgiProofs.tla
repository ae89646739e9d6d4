----------------------------- MODULE DcgiProofs -----------------------------
(***************************************************************************)
(* Proofs about Dcgi, for every set of workers and libraries, every table  *)
(* of routes and every set of codes dcgi_main may return.                  *)
(***************************************************************************)
EXTENDS Dcgi, FiniteSetTheorems, SequenceTheorems, TLAPS

-----------------------------------------------------------------------------
(* The shape of a step *)

\* The process dies, and nothing else changes.
Dies == \E cause \in Causes, w \in Workers, label \in Labels : Die(w, label, cause)

\* One worker takes a step of its own; the others keep all that is theirs.
Own(w) ==
  /\ Alive
  /\ \E from \in Labels, to \in Labels : Step(w, from, to)
  /\ \A v \in Workers \ {w} :
       /\ pc'[v] = pc[v] /\ opened'[v] = opened[v] /\ owned'[v] = owned[v]
       /\ res'[v] = res[v] /\ out'[v] = out[v] /\ err'[v] = err[v]

\* Between two labels a worker either dies or takes one of these steps.
Moves(w) ==
  \/ Call(w) \/ Dlopen(w) \/ DlopenFails(w)
  \/ NoDcgiMain(w) \/ NewModule(w)
  \/ (LostHandle(w) /\ Step(w, "symbols", "return") /\ Fail(w)
        /\ UNCHANGED <<refs, stray, opened, owned, res, out>>)
  \/ Run(w) \/ Write(w) \/ Dealloc(w) \/ DeallocErr(w)
  \/ UnloadRefused(w) \/ UnloadStray(w)

LEMMA WorkerShape ==
  ASSUME NEW w \in Workers, Worker(w)
  PROVE  Dies \/ Moves(w)
<1> USE DEF Labels, Causes
<1>1. CASE NewModuleFails(w)
  BY <1>1 DEF NewModuleFails, Dies
<1>2. CASE LostHandle(w)
  BY <1>2 DEF LostHandle, Dies, Moves
<1>3. CASE SentryFails(w) \/ ModuleFaults(w) \/ UnmappedCode(w)
  BY <1>3 DEF SentryFails, ModuleFaults, UnmappedCode, Dies
<1>4. CASE WriteFails(w) \/ CodeNameFaults(w) \/ UnloadFaults(w)
  BY <1>4 DEF WriteFails, CodeNameFaults, UnloadFaults, Dies
<1> QED BY <1>1, <1>2, <1>3, <1>4 DEF Worker, Moves

\* A step that only ends the process, or none, changes what no invariant but
\* the type of `died` is about.
LEMMA StillHolds ==
  ASSUME IInv, Dies \/ UNCHANGED vars
  PROVE  IInv'
<1>1. UNCHANGED <<refs, stray, pc, route, opened, owned, res, out, err>>
  BY DEF Dies, Die, vars
<1>2. died' \in {"no"} \cup Causes
  BY DEF Dies, Die, vars, IInv, TypeOK
<1>3. TypeOK'
  BY <1>1, <1>2 DEF IInv, TypeOK
<1>4. ReferencesKept' /\ OutcomeAsPromised' /\ OutParamsReleased'
  BY <1>1 DEF IInv, ReferencesKept, OutcomeAsPromised, OutParamsReleased, Lib
<1>5. ASSUME NEW w \in Workers PROVE WorkerInv(w)'
  <2>1. WorkerInv(w)
    BY DEF IInv
  <2>2. Wrote1(w)' = Wrote1(w) /\ Leftover(w)' = Leftover(w)
    BY <1>1 DEF Wrote1, Leftover
  <2>3. Answered(w)' = Answered(w)
    BY <1>1, <2>2 DEF Answered
  <2> QED BY <1>1, <2>1, <2>2, <2>3 DEF WorkerInv
<1> QED BY <1>3, <1>4, <1>5 DEF IInv

-----------------------------------------------------------------------------
(* Types *)

\* Every response dcgi_main can cause has a number for its status.
LEMMA ResponseTyped ==
  ASSUME NEW s \in DcgiCodes, NEW b \in BOOLEAN
  PROVE  [status |-> s, whole |-> b] \in Response
BY DcgiCodesAssumption DEF Response

\* One worker's part of a variable changes within its type.
LEMMA Updated ==
  ASSUME NEW D, NEW R, NEW f \in [D -> R], NEW d, NEW v \in R
  PROVE  [f EXCEPT ![d] = v] \in [D -> R]
OBVIOUS

\* dcgi_main's code and out parameters are of their types ...
LEMMA RunTyped ==
  ASSUME TypeOK, NEW w \in Workers, Run(w)
  PROVE  TypeOK'
<1>1. PICK code \in DcgiCodes \cup {500}, filled \in SUBSET OutParams :
        /\ Step(w, "run", IF code = 500 THEN "errDest" ELSE "write")
        /\ Mapped(Lib(w))
        /\ res' = [res EXCEPT ![w] = code]
        /\ owned' = [owned EXCEPT ![w] = @ \cup filled]
        /\ err' = [err EXCEPT ![w] = IF code = 500 THEN 500 ELSE 0]
        /\ UNCHANGED <<refs, stray, opened, out>>
  BY DEF Run
<1>2. owned' \in [Workers -> SUBSET (OutParams \cup {"module"})]
  <2>1. owned[w] \cup filled \in SUBSET (OutParams \cup {"module"})
    BY DEF TypeOK
  <2>2. owned \in [Workers -> SUBSET (OutParams \cup {"module"})]
    BY DEF TypeOK
  <2> QED BY <1>1, <2>1, <2>2, Updated, Zenon
<1> QED BY <1>1, <1>2 DEF TypeOK, Step, Labels

\* ... and so is the response that is made of them.
LEMMA WriteTyped ==
  ASSUME TypeOK, NEW w \in Workers, WorkerInv(w), Write(w)
  PROVE  TypeOK'
<1>1. res[w] \in DcgiCodes
  BY DEF Write, Step, WorkerInv
<1> DEFINE resp == [status |-> res[w], whole |-> "dataDest" \in owned[w]]
<1>2. resp \in Response
  <2>1. ("dataDest" \in owned[w]) \in BOOLEAN
    OBVIOUS
  <2> QED BY <1>1, <2>1, ResponseTyped, Zenon
<1>3. out' = [out EXCEPT ![w] = Append(out[w], resp)]
  BY Zenon DEF Write
<1> HIDE DEF resp
<1>4. out' \in [Workers -> Seq(Response)]
  <2>1. out \in [Workers -> Seq(Response)]
    BY DEF TypeOK
  <2>2. Append(out[w], resp) \in Seq(Response)
    BY <1>2, <2>1
  <2> QED BY <1>3, <2>1, <2>2, Updated, Zenon
<1> QED BY <1>4 DEF TypeOK, Write, Step, Labels

\* Every step of a worker keeps the variables in their types.
LEMMA MoveTyped ==
  ASSUME IInv, NEW w \in Workers, Moves(w)
  PROVE  TypeOK'
<1>0. TypeOK /\ WorkerInv(w)
  BY DEF IInv
<1> USE <1>0 DEF TypeOK, Step, Fail, Labels, OutParams
<1>1. CASE Call(w) \/ Dlopen(w) \/ DlopenFails(w)
  <2>1. Lib(w) \in Libs
    BY DcgiAssumption DEF Lib
  <2>2. CASE Call(w)
    BY <2>2 DEF Call
  <2>3. CASE Dlopen(w)
    BY <2>1, <2>3 DEF Dlopen
  <2>4. CASE DlopenFails(w)
    BY <2>4 DEF DlopenFails
  <2> QED BY <1>1, <2>2, <2>3, <2>4
<1>2. CASE \/ NoDcgiMain(w) \/ NewModule(w)
           \/ /\ Step(w, "symbols", "return") /\ Fail(w)
              /\ UNCHANGED <<refs, stray, opened, owned, res, out>>
  <2>1. Lib(w) \in Libs
    BY DcgiAssumption DEF Lib
  <2>2. CASE NoDcgiMain(w)
    <3>1. refs' \in [Libs -> Nat]
      BY <2>1, <2>2 DEF NoDcgiMain, Mapped
    <3> QED BY <2>2, <3>1 DEF NoDcgiMain
  <2>3. CASE NewModule(w)
    BY <2>3 DEF NewModule
  <2>4. CASE Step(w, "symbols", "return") /\ Fail(w)
               /\ UNCHANGED <<refs, stray, opened, owned, res, out>>
    BY <2>4
  <2> QED BY <1>2, <2>2, <2>3, <2>4
<1>3. CASE Run(w)
  BY <1>3, RunTyped
<1>4. CASE Write(w)
  BY <1>4, WriteTyped
<1>5. CASE Dealloc(w) \/ DeallocErr(w)
  <2>1. PICK gone \in SUBSET OutParams : owned' = [owned EXCEPT ![w] = @ \ gone]
    <3>1. {"headerDest", "dataDest"} \in SUBSET OutParams /\ {"errDest"} \in SUBSET OutParams
      OBVIOUS
    <3> QED BY <1>5, <3>1, Zenon DEF Dealloc, DeallocErr
  <2>2. owned[w] \ gone \in SUBSET (OutParams \cup {"module"})
    OBVIOUS
  <2>3. owned' \in [Workers -> SUBSET (OutParams \cup {"module"})]
    BY <2>1, <2>2, Updated, Zenon
  <2>4. CASE Dealloc(w)
    BY <2>3, <2>4 DEF Dealloc
  <2>5. CASE DeallocErr(w)
    BY <2>3, <2>5 DEF DeallocErr
  <2> QED BY <1>5, <2>4, <2>5
<1>6. ASSUME Unload(w)
      PROVE  owned' \in [Workers -> SUBSET (OutParams \cup {"module"})]
  <2>1. owned[w] \ {"module"} \in SUBSET (OutParams \cup {"module"})
    OBVIOUS
  <2> QED BY <1>6, <2>1, Updated, Zenon DEF Unload
<1>7. CASE UnloadRefused(w)
  BY <1>6, <1>7 DEF UnloadRefused, Unload
<1>8. CASE UnloadStray(w)
  <2>1. PICK lib \in Libs : /\ Mapped(lib)
                            /\ refs' = [refs EXCEPT ![lib] = @ - 1]
                            /\ stray' = [stray EXCEPT ![lib] = @ + 1]
    BY <1>8 DEF UnloadStray
  <2>2. refs' \in [Libs -> Nat] /\ stray' \in [Libs -> Nat]
    BY <2>1 DEF Mapped
  <2> QED BY <1>6, <1>8, <2>2 DEF UnloadStray, Unload
<1> QED BY <1>1, <1>2, <1>3, <1>4, <1>5, <1>7, <1>8 DEF Moves

-----------------------------------------------------------------------------
(* One worker's step and the others *)

\* The part of the state that belongs to worker v.
Untouched(v) ==
  /\ pc'[v] = pc[v] /\ route'[v] = route[v] /\ opened'[v] = opened[v]
  /\ owned'[v] = owned[v] /\ res'[v] = res[v] /\ out'[v] = out[v] /\ err'[v] = err[v]

\* A step of one worker leaves the others theirs.
LEMMA OthersUntouched ==
  ASSUME TypeOK, NEW w \in Workers, Moves(w), NEW v \in Workers, v # w
  PROVE  Untouched(v)
<1> USE DEF TypeOK, Untouched, Step, Fail
<1>1. CASE Call(w) \/ Dlopen(w) \/ DlopenFails(w)
  BY <1>1 DEF Call, Dlopen, DlopenFails
<1>2. CASE \/ NoDcgiMain(w) \/ NewModule(w)
           \/ /\ Step(w, "symbols", "return") /\ Fail(w)
              /\ UNCHANGED <<refs, stray, opened, owned, res, out>>
  BY <1>2 DEF NoDcgiMain, NewModule
<1>3. CASE Run(w)
  BY <1>3 DEF Run
<1>4. CASE Write(w)
  BY <1>4 DEF Write
<1>5. CASE Dealloc(w) \/ DeallocErr(w)
  BY <1>5 DEF Dealloc, DeallocErr
<1>6. CASE UnloadRefused(w) \/ UnloadStray(w)
  BY <1>6 DEF UnloadRefused, UnloadStray, Unload
<1> QED BY <1>1, <1>2, <1>3, <1>4, <1>5, <1>6 DEF Moves

\* What holds of a worker holds as long as its part is untouched.
LEMMA UntouchedKept ==
  ASSUME NEW v \in Workers, Untouched(v), WorkerInv(v)
  PROVE  WorkerInv(v)'
<1>1. Wrote1(v)' = Wrote1(v) /\ Leftover(v)' = Leftover(v)
  BY DEF Untouched, Wrote1, Leftover
<1>2. Answered(v)' = Answered(v)
  BY <1>1 DEF Untouched, Answered
<1> QED BY <1>1, <1>2 DEF Untouched, WorkerInv

-----------------------------------------------------------------------------
(* The acting worker *)

\* What is to show of a worker that comes to the release of errDest.
LEMMA AtErrDest ==
  ASSUME NEW w, pc'[w] = "errDest", opened'[w] <=> ~ route'[w].preloaded,
         "module" \in owned'[w] => ~ route'[w].preloaded, Answered(w)',
         owned'[w] \subseteq {"errDest", "module"} \cup Leftover(w)'
  PROVE  WorkerInv(w)'
BY DEF WorkerInv, Loaded

\* Every step takes its worker to a label whose facts it has established.
LEMMA OwnInv ==
  ASSUME TypeOK, NEW w \in Workers, WorkerInv(w), Moves(w)
  PROVE  WorkerInv(w)'
<1>0. /\ owned \in [Workers -> SUBSET (OutParams \cup {"module"})]
      /\ pc \in [Workers -> Labels] /\ res \in [Workers -> DcgiCodes \cup {0, 500}]
      /\ out \in [Workers -> Seq(Response)] /\ err \in [Workers -> {0, 500}]
      /\ opened \in [Workers -> BOOLEAN] /\ route \in [Workers -> DcgiRoutes]
  BY DEF TypeOK
<1>1. CASE Call(w)
  BY <1>0, <1>1 DEF Call, Step, WorkerInv, Loaded
<1>2. CASE Dlopen(w) \/ DlopenFails(w)
  BY <1>0, <1>2 DEF Dlopen, DlopenFails, Step, Fail, WorkerInv, Loaded
<1>3. CASE \/ NoDcgiMain(w) \/ NewModule(w)
           \/ /\ Step(w, "symbols", "return") /\ Fail(w)
              /\ UNCHANGED <<refs, stray, opened, owned, res, out>>
  BY <1>0, <1>3 DEF NoDcgiMain, NewModule, Step, Fail, WorkerInv, Loaded
<1>4. CASE Run(w)
  <2>1. PICK code \in DcgiCodes \cup {500}, filled \in SUBSET OutParams :
          /\ Step(w, "run", IF code = 500 THEN "errDest" ELSE "write")
          /\ Mapped(Lib(w))
          /\ res' = [res EXCEPT ![w] = code]
          /\ owned' = [owned EXCEPT ![w] = @ \cup filled]
          /\ err' = [err EXCEPT ![w] = IF code = 500 THEN 500 ELSE 0]
          /\ UNCHANGED <<refs, stray, opened, out>>
    BY <1>4 DEF Run
  <2>2. /\ pc[w] = "run" /\ pc'[w] = (IF code = 500 THEN "errDest" ELSE "write")
        /\ route'[w] = route[w] /\ opened'[w] = opened[w]
        /\ owned'[w] = owned[w] \cup filled
        /\ res'[w] = code /\ err'[w] = (IF code = 500 THEN 500 ELSE 0)
        /\ out'[w] = out[w]
    BY <1>0, <2>1 DEF Step
  <2>3. /\ owned[w] \subseteq {"module"} /\ out[w] = <<>>
        /\ opened[w] <=> ~ route[w].preloaded
        /\ "module" \in owned[w] => ~ route[w].preloaded
    BY <2>2 DEF WorkerInv, Loaded
  <2>4. CASE code = 500
    <3>1. Answered(w)'
      BY <2>2, <2>3, <2>4 DEF Answered
    <3>2. owned'[w] \subseteq {"errDest", "module"} \cup Leftover(w)'
      <4>1. owned'[w] \subseteq {"module"} \cup OutParams
        BY <2>2, <2>3
      <4>2. Leftover(w)' = {"headerDest", "dataDest"}
        BY <2>2, <2>4 DEF Leftover
      <4> QED BY <4>1, <4>2 DEF OutParams
    <3>3. pc'[w] = "errDest"
      BY <2>2, <2>4
    <3>4. opened'[w] <=> ~ route'[w].preloaded
      BY <2>2, <2>3
    <3>5. "module" \in owned'[w] => ~ route'[w].preloaded
      BY <2>2, <2>3 DEF OutParams
    <3> QED BY <3>1, <3>2, <3>3, <3>4, <3>5, AtErrDest, Zenon
  <2>5. CASE code # 500
    BY <2>2, <2>3, <2>5 DEF WorkerInv, Loaded, OutParams
  <2> QED BY <2>4, <2>5
<1>5. CASE Write(w)
  <2> DEFINE resp == [status |-> res[w], whole |-> "dataDest" \in owned[w]]
  <2>1. out'[w] = Append(out[w], resp)
    BY <1>0, <1>5 DEF Write
  <2>2. out[w] = <<>> /\ res'[w] = res[w]
    BY <1>5 DEF Write, Step, WorkerInv
  <2>3. Wrote1(w)'
    <3>1. ("dataDest" \in owned[w]) \in BOOLEAN
      OBVIOUS
    <3>2. out'[w] = <<resp>>
      BY <2>1, <2>2
    <3> QED BY <2>2, <3>1, <3>2, Zenon DEF Wrote1
  <2> QED BY <1>0, <1>5, <2>3 DEF Write, Step, WorkerInv, Loaded
<1>6. CASE Dealloc(w)
  <2>1. /\ pc[w] = "dealloc" /\ pc'[w] = "errDest" /\ route'[w] = route[w]
        /\ opened'[w] = opened[w] /\ res'[w] = res[w] /\ out'[w] = out[w] /\ err'[w] = err[w]
        /\ owned'[w] = owned[w] \ {"headerDest", "dataDest"}
    BY <1>0, <1>6 DEF Dealloc, Step
  <2>2. Wrote1(w)' = Wrote1(w)
    BY <2>1 DEF Wrote1
  <2>3. Answered(w)'
    BY <2>1, <2>2 DEF Answered, WorkerInv
  <2>4. owned'[w] \subseteq {"errDest", "module"}
    BY <1>0, <2>1 DEF OutParams
  <2> QED BY <2>1, <2>3, <2>4 DEF WorkerInv, Loaded
<1>7. CASE DeallocErr(w)
  <2>1. /\ pc[w] = "errDest" /\ route'[w] = route[w]
        /\ pc'[w] = (IF route[w].preloaded THEN "return" ELSE "unload")
        /\ opened'[w] = opened[w] /\ res'[w] = res[w] /\ out'[w] = out[w] /\ err'[w] = err[w]
        /\ owned'[w] = owned[w] \ {"errDest"}
    BY <1>0, <1>7 DEF DeallocErr, Step
  <2>2. Wrote1(w)' = Wrote1(w) /\ Leftover(w)' = Leftover(w)
    BY <2>1 DEF Wrote1, Leftover
  <2>3. Answered(w)'
    BY <2>1, <2>2 DEF Answered, WorkerInv
  <2>4. owned'[w] \subseteq {"module"} \cup Leftover(w)'
    BY <2>1, <2>2 DEF WorkerInv
  <2> QED BY <2>1, <2>3, <2>4 DEF WorkerInv, Loaded
<1>8. CASE UnloadRefused(w) \/ UnloadStray(w)
  BY <1>0, <1>8 DEF UnloadRefused, UnloadStray, Unload, Step, WorkerInv, Loaded
<1> QED BY <1>1, <1>2, <1>3, <1>4, <1>5, <1>6, <1>7, <1>8 DEF Moves

-----------------------------------------------------------------------------
(* What a returning worker leaves behind *)

\* The answers to a code of the module, with and without a late error.
LEMMA WrittenPromised ==
  ASSUME NEW s \in DcgiCodes, NEW b \in BOOLEAN, NEW preloaded \in BOOLEAN
  PROVE  /\ [out |-> <<[status |-> s, whole |-> b]>>, err |-> 0] \in DcgiOutcomes(preloaded)
         /\ ~ preloaded =>
              [out |-> <<[status |-> s, whole |-> b]>>, err |-> 500] \in DcgiOutcomes(preloaded)
<1> DEFINE resp == [status |-> s, whole |-> b]
           written == { Wrote(r) : r \in [status : DcgiCodes, whole : BOOLEAN] }
           late == { [o EXCEPT !.err = 500] : o \in written }
<1>1. Wrote(resp) \in written
  OBVIOUS
<1>2. [Wrote(resp) EXCEPT !.err = 500] \in late
  BY <1>1
<1>3. Wrote(resp) = [out |-> <<resp>>, err |-> 0]
  BY DEF Wrote
<1>4. [Wrote(resp) EXCEPT !.err = 500] = [out |-> <<resp>>, err |-> 500]
  BY DEF Wrote
<1>5. DcgiOutcomes(preloaded) =
        {Failed(500)} \cup written \cup (IF preloaded THEN {} ELSE late)
  BY Zenon DEF DcgiOutcomes
<1> HIDE DEF written, late, resp
<1>6. /\ [out |-> <<resp>>, err |-> 0] \in DcgiOutcomes(preloaded)
      /\ ~ preloaded => [out |-> <<resp>>, err |-> 500] \in DcgiOutcomes(preloaded)
  BY <1>1, <1>2, <1>3, <1>4, <1>5
<1> QED BY <1>6, Zenon DEF resp

\* 500 without a response is promised, too.
LEMMA FailurePromised ==
  ASSUME NEW preloaded
  PROVE  [out |-> <<>>, err |-> 500] \in DcgiOutcomes(preloaded)
BY DEF DcgiOutcomes, Failed

\* A step to the return leaves a promised outcome and nothing to release.
LEMMA Returns ==
  ASSUME TypeOK, NEW w \in Workers, WorkerInv(w), Moves(w), pc'[w] = "return"
  PROVE  /\ [out |-> out'[w], err |-> err'[w]] \in DcgiOutcomes(route'[w].preloaded)
         /\ owned'[w] = {} \/ (res'[w] = 500 /\ owned'[w] \subseteq {"headerDest", "dataDest"})
<1>0. /\ owned \in [Workers -> SUBSET (OutParams \cup {"module"})]
      /\ pc \in [Workers -> Labels] /\ err \in [Workers -> {0, 500}]
      /\ route \in [Workers -> DcgiRoutes] /\ route[w].preloaded \in BOOLEAN
  BY DcgiAssumption DEF TypeOK
<1>1. CASE \/ DlopenFails(w) \/ NoDcgiMain(w)
           \/ /\ Step(w, "symbols", "return") /\ Fail(w)
              /\ UNCHANGED <<refs, stray, opened, owned, res, out>>
  <2>1. out'[w] = <<>> /\ err'[w] = 500 /\ owned'[w] = {}
    BY <1>0, <1>1 DEF DlopenFails, NoDcgiMain, Step, Fail, WorkerInv
  <2> QED BY <2>1, FailurePromised
<1>2. ASSUME Answered(w), route'[w] = route[w], res'[w] = res[w], out'[w] = out[w],
             \/ err'[w] = err[w]
             \/ err'[w] = 500 /\ ~ route[w].preloaded
      PROVE  [out |-> out'[w], err |-> err'[w]] \in DcgiOutcomes(route'[w].preloaded)
  <2>1. CASE out[w] = <<>> /\ err[w] = 500
    BY <1>2, <2>1, FailurePromised
  <2>2. CASE res[w] \in DcgiCodes /\ err[w] = 0 /\ Wrote1(w)
    <3>1. PICK b \in BOOLEAN : out[w] = <<[status |-> res[w], whole |-> b]>>
      BY <2>2, Zenon DEF Wrote1
    <3> DEFINE s == res[w]
               preloaded == route[w].preloaded
    <3>a. s \in DcgiCodes /\ preloaded \in BOOLEAN
      BY <1>0, <2>2
    <3> HIDE DEF s, preloaded
    <3>b. /\ [out |-> <<[status |-> s, whole |-> b]>>, err |-> 0] \in DcgiOutcomes(preloaded)
          /\ ~ preloaded =>
               [out |-> <<[status |-> s, whole |-> b]>>, err |-> 500] \in DcgiOutcomes(preloaded)
      BY <3>a, WrittenPromised
    <3>2. CASE err'[w] = 0
      <4>1. [out |-> <<[status |-> res[w], whole |-> b]>>, err |-> 0]
              \in DcgiOutcomes(route[w].preloaded)
        BY <3>b, Zenon DEF s, preloaded
      <4> QED BY <1>2, <3>1, <3>2, <4>1, Zenon
    <3>3. CASE err'[w] = 500 /\ ~ route[w].preloaded
      <4>1. [out |-> <<[status |-> res[w], whole |-> b]>>, err |-> 500]
              \in DcgiOutcomes(route[w].preloaded)
        BY <3>3, <3>b, Zenon DEF s, preloaded
      <4> QED BY <1>2, <3>1, <3>3, <4>1, Zenon
    <3> QED BY <1>2, <2>2, <3>2, <3>3
  <2> QED BY <1>2, <2>1, <2>2 DEF Answered
<1>3. CASE DeallocErr(w)
  <2>1. /\ pc[w] = "errDest" /\ route[w].preloaded /\ route'[w] = route[w]
        /\ res'[w] = res[w] /\ out'[w] = out[w] /\ err'[w] = err[w]
        /\ owned'[w] = owned[w] \ {"errDest"}
    BY <1>0, <1>3 DEF DeallocErr, Step
  <2>2. owned'[w] \subseteq Leftover(w)
    BY <2>1 DEF WorkerInv, Loaded
  <2>3. Answered(w)
    BY <2>1 DEF WorkerInv
  <2> QED BY <1>2, <2>1, <2>2, <2>3 DEF Leftover
<1>4. CASE UnloadRefused(w) \/ UnloadStray(w)
  <2>1. /\ pc[w] = "unload" /\ route'[w] = route[w]
        /\ res'[w] = res[w] /\ out'[w] = out[w] /\ err'[w] \in {err[w], 500}
        /\ owned'[w] = owned[w] \ {"module"}
    BY <1>0, <1>4 DEF UnloadRefused, UnloadStray, Unload, Step, Fail
  <2>2. ~ route[w].preloaded /\ Answered(w) /\ owned'[w] \subseteq Leftover(w)
    BY <2>1 DEF WorkerInv
  <2> QED BY <1>2, <2>1, <2>2 DEF Leftover
<1>5. ~ (Call(w) \/ Dlopen(w) \/ NewModule(w) \/ Run(w) \/ Write(w) \/ Dealloc(w))
  BY <1>0 DEF Call, Dlopen, NewModule, Run, Write, Dealloc, Step
<1> QED BY <1>1, <1>3, <1>4, <1>5 DEF Moves

-----------------------------------------------------------------------------
(* The loader's references *)

Openers(lib) == { v \in Workers : opened[v] /\ Lib(v) = lib }

LEMMA OpenersFinite ==
  ASSUME NEW lib
  PROVE  IsFiniteSet(Openers(lib)) /\ Cardinality(Openers(lib)) \in Nat
BY DcgiAssumption, FS_Subset, FS_CardinalityType DEF Openers

LEMMA PreloadsFinite ==
  ASSUME NEW lib
  PROVE  Preloads(lib) \in Nat
<1>1. IsFiniteSet({r \in DcgiRoutes : r.lib = lib /\ r.preloaded})
  BY DcgiAssumption, FS_Subset
<1> QED BY <1>1, FS_CardinalityType DEF Preloads

\* A step that neither opens nor closes a library leaves the openers alone;
\* dlopen() adds its worker, dlclose() of a known handle takes it away.
LEMMA StepReferences ==
  ASSUME TypeOK, ReferencesKept, NEW w \in Workers, WorkerInv(w), Moves(w)
  PROVE  ReferencesKept'
<1>0. /\ refs \in [Libs -> Nat] /\ stray \in [Libs -> Nat]
      /\ opened \in [Workers -> BOOLEAN] /\ route \in [Workers -> DcgiRoutes]
      /\ Lib(w) \in Libs
  BY DcgiAssumption DEF TypeOK, Lib
<1>1. route' = route
  BY DEF Moves, Call, Dlopen, DlopenFails, NoDcgiMain, NewModule, Run, Write, Dealloc,
         DeallocErr, UnloadRefused, UnloadStray, Unload, Step
<1>2. SUFFICES ASSUME NEW lib \in Libs
               PROVE  refs'[lib] + stray'[lib] = Preloads(lib) + Cardinality(Openers(lib)')
  BY DEF ReferencesKept, Openers
<1>3. refs[lib] + stray[lib] = Preloads(lib) + Cardinality(Openers(lib))
  BY DEF ReferencesKept, Openers
<1>4. IsFiniteSet(Openers(lib)) /\ Cardinality(Openers(lib)) \in Nat /\ Preloads(lib) \in Nat
  BY OpenersFinite, PreloadsFinite
<1>5. CASE Dlopen(w)
  <2>1. /\ ~ opened[w] /\ opened' = [opened EXCEPT ![w] = TRUE] /\ stray' = stray
        /\ refs' = [refs EXCEPT ![Lib(w)] = @ + 1]
    BY <1>5 DEF Dlopen, Step, WorkerInv
  <2>2. CASE lib = Lib(w)
    <3>1. Openers(lib)' = Openers(lib) \cup {w} /\ w \notin Openers(lib)
      BY <1>0, <1>1, <2>1, <2>2 DEF Openers, Lib
    <3>2. Cardinality(Openers(lib)') = Cardinality(Openers(lib)) + 1
      BY <1>4, <3>1, FS_AddElement
    <3> QED BY <1>0, <1>3, <1>4, <2>1, <2>2, <3>2
  <2>3. CASE lib # Lib(w)
    <3>1. Openers(lib)' = Openers(lib)
      BY <1>0, <1>1, <2>1, <2>3 DEF Openers, Lib
    <3> QED BY <1>0, <1>3, <2>1, <2>3, <3>1
  <2> QED BY <2>2, <2>3
<1>6. CASE NoDcgiMain(w)
  <2>1. /\ opened[w] /\ opened' = [opened EXCEPT ![w] = FALSE] /\ stray' = stray
        /\ refs' = [refs EXCEPT ![Lib(w)] = @ - 1]
    BY <1>6 DEF NoDcgiMain, Step, WorkerInv
  <2>2. CASE lib = Lib(w)
    <3>1. Openers(lib)' = Openers(lib) \ {w} /\ w \in Openers(lib)
      BY <1>0, <1>1, <2>1, <2>2 DEF Openers, Lib
    <3>2. Cardinality(Openers(lib)') = Cardinality(Openers(lib)) - 1
      BY <1>4, <3>1, FS_RemoveElement
    <3> QED BY <1>0, <1>3, <1>4, <2>1, <2>2, <3>2
  <2>3. CASE lib # Lib(w)
    <3>1. Openers(lib)' = Openers(lib)
      BY <1>0, <1>1, <2>1, <2>3 DEF Openers, Lib
    <3> QED BY <1>0, <1>3, <2>1, <2>3, <3>1
  <2> QED BY <2>2, <2>3
<1>7. CASE UnloadStray(w)
  <2>1. opened' = opened
    BY <1>7 DEF UnloadStray, Unload
  <2>2. PICK l \in Libs : /\ refs' = [refs EXCEPT ![l] = @ - 1]
                          /\ stray' = [stray EXCEPT ![l] = @ + 1]
    BY <1>7 DEF UnloadStray
  <2>3. Openers(lib)' = Openers(lib)
    BY <1>1, <2>1 DEF Openers, Lib
  <2>4. refs'[lib] + stray'[lib] = refs[lib] + stray[lib]
    BY <1>0, <2>2
  <2> QED BY <1>3, <2>3, <2>4
<1>8. CASE UNCHANGED <<refs, stray, opened>>
  <2>1. Openers(lib)' = Openers(lib)
    BY <1>1, <1>8 DEF Openers, Lib
  <2> QED BY <1>3, <1>8, <2>1
<1> QED
  BY <1>5, <1>6, <1>7, <1>8
  DEF Moves, Call, DlopenFails, NewModule, Run, Write, Dealloc, DeallocErr, UnloadRefused, Unload

\* A library that somebody preloaded or opened, and whose references were not
\* closed by accident, is mapped.
LEMMA HeldIsMapped ==
  ASSUME TypeOK, ReferencesKept, NEW w \in Workers, WorkerInv(w), pc[w] \in Loaded,
         stray[Lib(w)] = 0
  PROVE  Mapped(Lib(w))
<1> DEFINE lib == Lib(w)
           loads == {r \in DcgiRoutes : r.lib = lib /\ r.preloaded}
<1>0. /\ refs \in [Libs -> Nat] /\ route[w] \in DcgiRoutes /\ lib \in Libs
      /\ route[w].preloaded \in BOOLEAN
  BY DcgiAssumption DEF TypeOK, Lib
<1>1. refs[lib] = Preloads(lib) + Cardinality(Openers(lib))
  <2>1. refs[lib] + 0 = Preloads(lib) + Cardinality(Openers(lib))
    BY <1>0 DEF ReferencesKept, Openers
  <2> QED BY <1>0, <2>1
<1>2. Preloads(lib) \in Nat /\ Cardinality(Openers(lib)) \in Nat
  BY PreloadsFinite, OpenersFinite
<1>3. CASE route[w].preloaded
  <2>1. route[w] \in loads
    BY <1>0, <1>3 DEF Lib
  <2>2. IsFiniteSet(loads)
    BY DcgiAssumption, FS_Subset
  <2>3. Cardinality(loads) # 0
    BY <2>1, <2>2, FS_EmptySet
  <2> QED BY <1>0, <1>1, <1>2, <2>3 DEF Preloads, Mapped
<1>4. CASE ~ route[w].preloaded
  <2>1. w \in Openers(lib)
    BY <1>4 DEF WorkerInv, Openers
  <2>2. Cardinality(Openers(lib)) # 0
    BY <2>1, OpenersFinite, FS_EmptySet
  <2> QED BY <1>0, <1>1, <1>2, <2>2 DEF Mapped
<1> QED BY <1>3, <1>4

-----------------------------------------------------------------------------
(* Invariance *)

LEMMA InitInv == Init => IInv
<1> SUFFICES ASSUME Init PROVE IInv
  OBVIOUS
<1>1. \A lib \in Libs : Preloads(lib) \in Nat
  BY PreloadsFinite
<1>2. TypeOK
  <2>1. refs \in [Libs -> Nat] /\ stray \in [Libs -> Nat]
    BY <1>1 DEF Init
  <2> QED BY <2>1 DEF Init, TypeOK, Labels, OutParams
<1>3. ReferencesKept
  <2> SUFFICES ASSUME NEW lib \in Libs
               PROVE  refs[lib] + stray[lib] = Preloads(lib) + Cardinality(Openers(lib))
    BY DEF ReferencesKept, Openers
  <2>1. Openers(lib) = {}
    BY DEF Init, Openers
  <2> QED BY <1>1, <2>1, FS_EmptySet DEF Init
<1>4. OutcomeAsPromised /\ OutParamsReleased
  BY DEF Init, OutcomeAsPromised, OutParamsReleased
<1>5. \A w \in Workers : WorkerInv(w)
  BY DEF Init, WorkerInv, Loaded
<1> QED BY <1>2, <1>3, <1>4, <1>5 DEF IInv

LEMMA MoveInv ==
  ASSUME IInv, NEW w \in Workers, Moves(w)
  PROVE  IInv'
<1>1. TypeOK /\ WorkerInv(w) /\ ReferencesKept
  BY DEF IInv
<1>2. TypeOK'
  BY MoveTyped
<1>3. ReferencesKept'
  BY <1>1, StepReferences
<1>4. ASSUME NEW v \in Workers, v # w PROVE Untouched(v)
  BY <1>1, <1>4, OthersUntouched
<1>5. ASSUME NEW v \in Workers PROVE WorkerInv(v)'
  <2>1. CASE v = w
    BY <1>1, <2>1, OwnInv
  <2>2. CASE v # w
    BY <1>4, <2>2, UntouchedKept DEF IInv
  <2> QED BY <2>1, <2>2
<1>6. OutcomeAsPromised'
  <2> SUFFICES ASSUME NEW v \in Workers, pc'[v] = "return"
               PROVE  [out |-> out'[v], err |-> err'[v]] \in DcgiOutcomes(route'[v].preloaded)
    BY DEF OutcomeAsPromised
  <2>1. CASE v = w
    BY <1>1, <2>1, Returns
  <2>2. CASE v # w
    BY <1>4, <2>2 DEF Untouched, IInv, OutcomeAsPromised
  <2> QED BY <2>1, <2>2
<1>7. OutParamsReleased'
  <2> SUFFICES ASSUME NEW v \in Workers, pc'[v] = "return"
               PROVE  \/ owned'[v] = {}
                      \/ res'[v] = 500 /\ owned'[v] \subseteq {"headerDest", "dataDest"}
    BY DEF OutParamsReleased
  <2>1. CASE v = w
    <3>1. pc'[w] = "return"
      BY <2>1
    <3>2. owned'[w] = {} \/ (res'[w] = 500 /\ owned'[w] \subseteq {"headerDest", "dataDest"})
      BY <1>1, <3>1, Returns, Zenon
    <3> QED BY <2>1, <3>2
  <2>2. CASE v # w
    <3>1. pc'[v] = pc[v] /\ res'[v] = res[v] /\ owned'[v] = owned[v]
      BY <1>4, <2>2 DEF Untouched
    <3> QED BY <3>1 DEF IInv, OutParamsReleased
  <2> QED BY <2>1, <2>2
<1> QED BY <1>2, <1>3, <1>5, <1>6, <1>7 DEF IInv

LEMMA NextInv == IInv /\ [Next]_vars => IInv'
<1> SUFFICES ASSUME IInv, [Next]_vars PROVE IInv'
  OBVIOUS
<1>1. CASE UNCHANGED vars
  BY <1>1, StillHolds
<1>2. ASSUME NEW w \in Workers, Worker(w) PROVE IInv'
  BY <1>2, WorkerShape, StillHolds, MoveInv
<1> QED BY <1>1, <1>2 DEF Next

LEMMA Invariance == Spec => []IInv
BY InitInv, NextInv, PTL DEF Spec

\* The variables keep their types; above all no library's count falls below
\* zero, although handles nobody opened are closed (dcgi.c:36-48).
THEOREM TypeCorrect == Spec => []TypeOK
<1>1. IInv => TypeOK
  BY DEF IInv
<1> QED BY <1>1, Invariance, PTL

\* Whichever int dcgi_main returns and whatever step fails, handleDCGI returns
\* with one of the outcomes Server counts on (dcgi.c:50-163): for every set of
\* ints, zero, negative and 5xx ones among them; 500 itself is always possible.
THEOREM PromisedOutcomes == Spec => []OutcomeAsPromised
<1>1. IInv => OutcomeAsPromised
  BY DEF IInv
<1> QED BY <1>1, Invariance, PTL

\* The loader's count is that of the preloaded routes and of every request
\* that ever loaded the library, less what was closed by accident
\* (dcgi.c:9-48).
THEOREM ReferencesBalance == Spec => []ReferencesKept
<1>1. IInv => ReferencesKept
  BY DEF IInv
<1> QED BY <1>1, Invariance, PTL

\* Code of a library runs mapped, unless an uninitialized handle closed it
\* (dcgi.c:65-163).
THEOREM CodeMapped == Spec => []CodeStaysMapped
<1>1. IInv => CodeStaysMapped
  BY HeldIsMapped DEF IInv, CodeStaysMapped, Loaded
<1> QED BY <1>1, Invariance, PTL

\* A returning request has released its module and what the module gave it,
\* but for the headers and data of one that returned 500 (dcgi.c:126-162).
THEOREM ParamsReleased == Spec => []OutParamsReleased
<1>1. IInv => OutParamsReleased
  BY DEF IInv
<1> QED BY <1>1, Invariance, PTL
=============================================================================
