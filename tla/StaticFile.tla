----------------------------- MODULE StaticFile -----------------------------
(***************************************************************************)
(* handleStatic of src/src/static.c with readAll of src/src/file_util.c:   *)
(* one request for a file that somebody else may replace meanwhile.        *)
(*                                                                         *)
(* The file is seen as its current size.  readAll measures it anew on each *)
(* of its two calls, and the bytes are fetched in a third step.  errno is  *)
(* the thread's own: a library call that succeeds may still set it, and    *)
(* nothing resets it.                                                      *)
(***************************************************************************)
EXTENDS Handlers

CONSTANT Sizes   \* sizes the file may have, numbers

VARIABLES
  size,      \* the file's size at this moment
  pc,        \* where handleStatic is
  errno,     \* errno # 0
  opened,    \* fpFile is open
  buffer,    \* the buffer is allocated
  fileSize,  \* handleStatic's local, also sent as Content-Length
  toRead,    \* readAll's bytesToRead, on its second call
  filled,    \* bytes fread() put into the buffer
  body,      \* bytes of the buffer written to the client
  out, err   \* the responses written and error->errCode

vars == <<size, pc, errno, opened, buffer, fileSize, toRead, filled, body, out, err>>

Init ==
  /\ size \in Sizes
  /\ pc = "open"
  /\ errno \in BOOLEAN
  /\ opened = FALSE /\ buffer = FALSE
  /\ fileSize = 0 /\ toRead = 0 /\ filled = 0 /\ body = 0
  /\ out = <<>> /\ err = 0

\* The file is rewritten, at any moment and with any size.
Rewrite ==
  /\ size' \in Sizes \ {size}
  /\ UNCHANGED <<pc, errno, opened, buffer, fileSize, toRead, filled, body, out, err>>

\* A library call that succeeds leaves errno alone or sets it.
Step(from, to) ==
  /\ pc = from
  /\ errno' \in {errno, TRUE}
  /\ pc' = to
  /\ UNCHANGED size

\* QUICK_ERROR2 and a goto to one of the labels.
Fail(from, label) ==
  /\ Step(from, label)
  /\ err' = 500
  /\ UNCHANGED <<fileSize, body, out>>

-----------------------------------------------------------------------------
Open ==
  /\ Step("open", "measure")
  /\ opened' = TRUE
  /\ UNCHANGED <<buffer, fileSize, toRead, filled, body, out, err>>

OpenFails ==
  /\ Fail("open", "return")
  /\ UNCHANGED <<opened, buffer, toRead, filled>>

\* readAll(fpFile, NULL, 0).
Measure ==
  /\ Step("measure", "alloc")
  /\ fileSize' = size
  /\ UNCHANGED <<opened, buffer, toRead, filled, body, out, err>>

\* fseek() or ftell() fails, on either call.
MeasureFails ==
  /\ \/ Fail("measure", "close_fp_ret")
     \/ Fail("measureAgain", "free_buf_ret")
  /\ UNCHANGED <<opened, buffer, toRead, filled>>

Alloc ==
  /\ Step("alloc", "measureAgain")
  /\ buffer' = TRUE
  /\ UNCHANGED <<opened, fileSize, toRead, filled, body, out, err>>

AllocFails ==
  /\ Fail("alloc", "close_fp_ret")
  /\ UNCHANGED <<opened, buffer, toRead, filled>>

\* readAll(fpFile, buffer, fileSize): the smaller of the two sizes is read.
MeasureAgain ==
  /\ Step("measureAgain", "read")
  /\ toRead' = IF fileSize < size THEN fileSize ELSE size
  /\ UNCHANGED <<opened, buffer, fileSize, filled, body, out, err>>

\* Mutated Read: only what readAll calls an error is one.
ReadUnlessError ==
  /\ filled' \in {n \in 0 .. toRead : n <= size}
  /\ \/ filled' = toRead /\ Step("read", "header") /\ UNCHANGED <<fileSize, body, out, err>>
     \/ filled' # toRead /\ Fail("read", "free_buf_ret")
  /\ UNCHANGED <<opened, buffer, toRead>>

\* fread() stops early at the end of a file that has shrunk, or on an error;
\* readAll then returns -1.  What it returns must equal fileSize, of which it
\* was asked for toRead bytes at most.
Read ==
  /\ filled' \in {n \in 0 .. toRead : n <= size}
  /\ \/ filled' = fileSize /\ Step("read", "header") /\ UNCHANGED <<fileSize, body, out, err>>
     \/ filled' # fileSize /\ Fail("read", "free_buf_ret")
  /\ UNCHANGED <<opened, buffer, toRead>>

\* Mutated Header: a response that cannot be sent is also reported.
HeaderReported ==
  /\ Step("header", IF errno' THEN "free_buf_ret" ELSE "body")
  /\ out' = <<[status |-> 200, whole |-> FALSE]>>
  /\ err' = IF errno' THEN 500 ELSE 0
  /\ UNCHANGED <<opened, buffer, fileSize, toRead, filled, body>>

\* The header announces fileSize bytes.  Whether they follow depends on
\* errno, which an earlier call may have set.
Header ==
  /\ Step("header", IF errno' THEN "free_buf_ret" ELSE "body")
  /\ out' = <<[status |-> 200, whole |-> FALSE]>>
  /\ UNCHANGED <<opened, buffer, fileSize, toRead, filled, body, err>>

\* fwrite(), possibly cut short, which is only logged.
Body ==
  /\ Step("body", "free_buf_ret")
  /\ body' \in 0 .. fileSize
  /\ out' = <<[status |-> 200, whole |-> body' = fileSize]>>
  /\ UNCHANGED <<opened, buffer, fileSize, toRead, filled, err>>

\* Mutated FreeBuffer: the label is passed on the way out only.
FreeBufferUnlessError ==
  /\ Step("free_buf_ret", "close_fp_ret")
  /\ buffer' = (err # 0)
  /\ UNCHANGED <<opened, fileSize, toRead, filled, body, out, err>>

FreeBuffer ==
  /\ Step("free_buf_ret", "close_fp_ret")
  /\ buffer' = FALSE
  /\ UNCHANGED <<opened, fileSize, toRead, filled, body, out, err>>

CloseFile ==
  /\ Step("close_fp_ret", "return")
  /\ opened' = FALSE
  /\ UNCHANGED <<buffer, fileSize, toRead, filled, body, out, err>>

handleStatic ==
  \/ Open \/ OpenFails
  \/ Measure \/ MeasureFails
  \/ Alloc \/ AllocFails
  \/ MeasureAgain \/ Read
  \/ Header \/ Body
  \/ FreeBuffer \/ CloseFile

Next == Rewrite \/ handleStatic
Spec == Init /\ [][Next]_vars

-----------------------------------------------------------------------------
(* Properties *)

\* What handleStatic has written and reported when it returns is one of the
\* outcomes Server counts on: in particular no error is reported once the
\* header is out (static.c:11-74).
OutcomeAsPromised ==
  pc = "return" => [out |-> out, err |-> err] \in StaticOutcomes

\* The buffer comes from malloc() and its size from another moment than its
\* contents: however the file changes in between, no byte that was not read
\* from the file reaches the client (static.c:22-64), and a file that
\* counts as whole has as many bytes as its header says.
NothingUninitialisedIsSent ==
  /\ body <= filled
  /\ \A i \in DOMAIN out :
       out[i] = Whole(200) => body = fileSize /\ filled = fileSize

-----------------------------------------------------------------------------
(* The inductive invariant *)

Labels == {"open", "measure", "alloc", "measureAgain", "read", "header", "body",
           "free_buf_ret", "close_fp_ret", "return"}

\* Up to the header nothing is written or reported; the header goes out when
\* the whole buffer holds bytes of the file.
Served ==
  /\ pc \in {"open", "measure", "alloc", "measureAgain", "read", "header"} =>
       out = <<>> /\ err = 0
  /\ pc \in {"header", "body"} => filled = fileSize
  /\ pc = "body" => out = <<[status |-> 200, whole |-> FALSE]>> /\ err = 0
  /\ pc \notin {"free_buf_ret", "close_fp_ret", "return"} => body = 0
  /\ pc \in {"free_buf_ret", "close_fp_ret", "return"} =>
       [out |-> out, err |-> err] \in StaticOutcomes

Locals ==
  /\ pc \in Labels
  /\ errno \in BOOLEAN /\ opened \in BOOLEAN /\ buffer \in BOOLEAN
  /\ size \in Nat /\ fileSize \in Nat /\ toRead \in Nat /\ filled \in Nat /\ body \in Nat
  /\ opened <=> pc \notin {"open", "return"}
  /\ buffer <=> pc \in {"measureAgain", "read", "header", "body", "free_buf_ret"}

IInv == Locals /\ Served /\ NothingUninitialisedIsSent
=============================================================================
