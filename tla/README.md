# Verification of chttpd

TLA+ modules, TLC runs and TLAPS proofs about chttpd, a small threaded HTTP
server in C. Paths are relative to the root of the repository; `README.md` and
`src/main.c` below are chttpd's own.

## 1. Inventory

| component | state it keeps | operations | module |
|---|---|---|---|
| accept loop and shutdown, `src/main.c:112-202` | listening socket, the descriptor of the connection being accepted, configuration and its text | listen, accept, allocate a context, start a worker, destroy the configuration, exit | `Server` |
| worker thread, `src/main.c:204-296` | its stream, its request, its Error, its position in the routes | open the stream, read, walk the routes, dispatch, error page, close | `Server` for all of them, `Worker` for one connection in detail |
| request reader, `src/http.c` | heap blocks of the request, the variable `line`, header and parameter vectors | read lines, parse, compute the length, read the body, clean up, `dropHttpRequest` | `RequestReader`, with the first line in `RequestLine` |
| string comparison, `src/util.c:26-86`, `src/http.c:53-69` | none | `strcmp_icase`, `slicecmp_icase`, `urlcmp`, `urlcmp_icase`, method lookup | `UrlMatch` |
| static files, `src/static.c`, `src/file_util.c` | open file, buffer, thread's `errno` | `handleStatic`, `readAll` | `StaticFile` |
| DCGI modules, `src/dcgi.c` | module block, out parameters, the loader's references | load, run, write, release, unload | `Dcgi` |
| internal pages, `src/intern.c` | none | `handleIntern`, 403, 404 and 500 pages | `Handlers` |
| configuration, `src/config.c`, runner of `pl2/pl2b.c:531-672` | address, port, flags, routes, cors table | the configuration commands | `Config` |
| configuration parser, `pl2/pl2b.c:116-510` | parse context, list of commands | lines, comments, parts, strings, `?begin`/`?end` | `Pl2Parser`, `Pl2Reading` |
| vector, `cclib/cc_vec.c` | storage, used end, capacity, element size | push, pop, insert, remove, nth | `CcVec` |
| list, `cclib/cc_list.c` | circular doubly linked nodes | push, pop, insert, remove, iterate, find | `CcList` |

How they interact: main parses the configuration file, runs its commands
(which append routes and may preload DCGI libraries) and enters the accept
loop. Every accepted connection gets a detached thread that nobody waits for.
The threads share the process's descriptor table, the routes, the text the
routes' strings point into, and the loader's reference counts; the C runtime
keeps `errno` per thread. A worker calls the request reader, the comparison of
each route in order, one handler, and at most one error page.

Hard behaviours: main frees the configuration while workers run; descriptors
are leaked and reused; stdio passes an answer on long after it was written; a
handler may report an error after it has answered; an uninitialized library
handle is closed; cleanup labels are shared by five failures; a client may never
send or never read anything, and a module may never return; the configuration
text is rewritten and cut up in place by the parser that is still reading it.

What makes each part correct: a descriptor always leads a worker to its own
client and is given back (server); a closed connection has exactly the answer
its request is due (server with its handlers); every heap block is freed once
(reader, handlers), and nothing is left when the connection is closed (worker);
a library is mapped while its code runs (DCGI); the routes
are the file's, in order, without duplicates (configuration); its commands are
the lines as written (parser); a container is a sequence (vector, list).

## 2. Modules and the code

**UrlMatch** is `src/util.c:26-86` and the method lookup, as functions on
sequences of characters. `CharAt` returns `Nul` behind the end, and reading
behind that is an evaluation error in TLC, so that an overread would stop a run.

**Handlers** states what a handler may leave behind: responses written and an
error code. A response is its status and whether it is `whole`: headers ended by
the blank line and all of the announced body. `StaticFile` and `Dcgi` model the
handlers step by step and are checked (`OutcomeAsPromised`) to end inside the
sets `Server` uses.

**HttpService** is the abstract server: a connection is opened, gets one
indivisible answer its own request is due, and is closed.

**Server** is main's accept loop, the shutdown after a failing `accept()`, and
the worker threads. The main thread's position is `mainPc`, a worker's is
`pc[c]`, labelled by the code it is about to run; between two labels a thread
touches shared state once. `fdTab` is the kernel's descriptor table, `ctx` the
descriptor stored in a worker's `HttpInputContext`. What a worker writes goes
into the `buffer` of its stream (`Write`), which passes on any part of what it
holds at any write, and the rest at the `fflush()` of `src/main.c:254`
(`Flush`), a step of its own before `fclose()`; `PassOn` sends it to the socket
that the worker's descriptor names at that moment. A crash loses what is still
buffered. When main returns, `exit()` flushes the streams it finds open while
the workers go on (`FlushAtExit`); the process may then end with something in a
buffer, as a worker may have written since. `tainted` holds the workers that
read routes or text main had already freed and survived: what they do then is
arbitrary. Crashes (`proc`) end the whole process. `Service` is the refinement
mapping to `HttpService`.

Abstractions in `Server`: the two vectors of `dropConfig` are destroyed in one
step; worker number, client address and log lines are left out;
connections are accepted in any order; a failing `pthread_detach` is only logged
by the code and has no step; the four calls before `listen()` are one step, and
a failing `listen()`, whose result is not looked at, is the same as a first
`accept()` that fails. The unit of what is buffered and sent is a response: one of
which only some bytes have been passed on counts as buffered, so the model says
nothing of where a response is cut off by a crash. Bytes a client no longer
takes, because it has gone, count as sent.

**RequestLine** is `parseHttpFirstLine` and `parseQueryPath`, as functions of the
line's characters: where they stop, what they return and which heap blocks they
have allocated by then.

**RequestReader** follows `readHttpRequest` line by line. The first line comes
from `FirstLines` and goes through `RequestLine`; a header line is the class the
parsers put it in (good, bad, `Content-Length` with a value, blank).
`live` are the heap blocks; the variable `line` keeps its value after the block
was freed, which is what the labels at `src/http.c:194-215` depend on.

**Dcgi** is `handleDCGI` by several workers that share libraries. The loader's
reference counts are `refs`. `unloadDCGIModule` hands the uninitialized member
`handle` to `dlclose()`: the value is refused, is the handle of some mapped
library (`stray` counts those), or is followed to no good; all three are actions.
A module returns any `int` (`DcgiCodes`, and 500). The code becomes the status
line, unless it lies outside of `HTTP_CODE_NAMES` on either side and the read
behind that table kills the process (`CodeNameFaults`); a read that happens to
survive goes on like any other. Before the module is called two vectors grow by
an element, and without memory an assertion ends the process (`SentryFails`). A
module that never returns is a worker that takes no further step.

**StaticFile** is one `handleStatic` while somebody else rewrites the file.
`errno` is a flag that successful calls may set and nothing resets.

**Worker** is `httpHandler` for one connection. It EXTENDS `RequestReader`, whose
`live` blocks it hands on, and instantiates `StaticFile`, which starts with the
`errno` the reader has left; `owned` is what the routine itself must give back.
Where `Server` has a table of routes and one step per handler, `Worker` has a
static route or none and every step of the handler.

**Pl2Parser** is `pl2b_parse` on the buffer main reads the file into. A cell
holds one symbol for each kind of character the parser tells apart; a symbol
`begin` or `end` is the whole word. Positions stand for pointers. One action is
one step of the loop in `parseLine`: the end of a line, a comment, an identifier,
a string, or a `?` operator. `damage` records undefined behaviour: a read behind
the text, a write or a read behind the parts, the unescaping loop running past
its end, or `strcmp` of the NULL an empty word becomes. `file` keeps the text as
it was, so that properties can compare. Line numbers are left out.

**Pl2Reading** says of a file what each of its characters is, given those before
it (`Kinds`), where its lines end and its parts begin, and from that which files
the parser is to read (`WellFormed`) and which commands a file holds
(`CommandEnds`, `CommandOf`). It is the reference the parser is compared with,
and holds its properties and their inductive invariants.

**Config** runs the commands of a file. A command is a name and argument texts,
one action per handler of `getCfgLanguage` and per exit of `cmdHandler`.
`program` records what was executed, so that properties can speak about the file.
`Texts` are the texts an argument may be.

**ListSpec** is the abstract sequence that **CcVec** and **CcList** implement.
`CcVec` keeps addresses as positions in one block, with the arithmetic of
`cclib/cc_defs.h` as it is written there; `realloc()` may return nothing, which
the assertion of `cc_vec_grow` turns into the end of the process (`GrowFails`).
Callers keep the assertions on their arguments and no more, so `cc_vec_nth` and
`cc_vec_remove` get the length itself as an index (`NthPastEnd`, `Remove`). A
removal from a vector without elements (`RemoveFromEmpty`), whose size argument
to `memmove` wraps around, ends the run and its effects are not followed.
`CcList` keeps the pointers of every node and follows them for each position
(`Path`, and `Walk` up to where the path ends), so that a wrong link shows as a
wrong sequence. A caller's iterator is any address that is on the ring.

Loops over characters or nodes are recursive functions or are said by where they
stop (`StringEnd`, `shrinkConv`), so that the proofs can speak about them.

`MC*` modules give the constants their values. An operator whose comment starts
with "Mutated" is a plausible bug in the definition below it; no specification
uses it.

## 3. Runs

| run | bounds | checks |
|---|---|---|
| `worker` | all strings up to 3 characters over a, A, b, ! as first lines and patterns, all targets up to 5 characters over a, ?, =, & behind the `/`, 45 lines with something missing or added; up to 3 headers, lengths -1 to 2; file sizes 0 to 3, changing at any step | nothing is left when the connection is closed, nothing is freed twice before the headers end, the body has the declared length, one response per request, no uninitialized byte sent; a query is its parameters; comparison is equality of lower-cased texts, routing is equality or prefix |
| `server` | 2 connections, 2 descriptors, backlog 1, 3 routes, 3 requests and a malformed one, `accept` may fail at any time, streams pass on what they like; fair (see below) | types, descriptors, answers, nothing undue at any moment, configuration lifetime, cross talk, refinement of `HttpService`, every request that arrived is finished, the backlog is drained |
| `dcgi` | 3 workers (symmetric), 2 libraries, one both preloaded and loaded on demand; module codes -1, 500 and 503 | outcomes, reference counts, mapped code, released parameters |
| `cc_vec` | up to 5 elements that still grow, initial block of 2, `realloc` may fail | sequence, and no damage but for want of memory, until a call subtracts |
| `cc_list` | 3 nodes, 2 elements | sequence, well-linked ring, stable iterators |
| `config` | files of up to 4 lines from 30 | types, last setting wins, numbers in range, routes and CORS entries as written, the files of which the README's word on `preload` is true |
| `pl2_parser` | all texts up to 4 symbols, all string literals up to 3 symbols, all files of up to 3 of 14 pieces, and texts that fill the buffer | commands as written, well-formed files are read, the text ahead stays as it is and so do parts and commands already taken, parsing ends |

Why the bounds are enough. Two workers and main already give every pair of
conflicting steps on shared state: a number closed by one worker is used again
by the other, and two leaks leave none; for more of both see the proofs. Three
routes hold an exact route, one of another method and one that is shadowed.
Three headers place an ignored length before, between and after valid ones. The
vector allocates, and grows twice, within six elements. Three nodes are a first,
a middle and a last one. A configuration property relates at most three lines.
Five characters behind the `/` hold a path, two parameters with keys or values
that are empty, and a second `=` or `&` in any place. The parser keeps no state
between lines but its mode, so three pieces, each a line or a part of one, hold
a line with its neighbours; the buffers of the run (20 cells, 6 parts) are as
near to their limits as short texts can bring them.

Fairness: weak fairness of the main thread and of each worker, because each is an
operating-system thread that is never suspended by the program. Only the steps
that depend on nobody outside get it. The code has no timeout anywhere, so none
is assumed where a worker writes to a socket (its client may never read) or runs
a module's code (it may never return), which are the labels `handle`, `reply` and
`flush` (`Waits`); nor where main is in `exit()`, which may wait for such a
client. A worker whose client never sends is not enabled; clients and `accept`'s
errors get no fairness. `EveryRequestFinishes` therefore has a premise, that this
worker's own waits end (`[]<> ~ Waits(c)`): what it shows is that nothing else
holds the worker up, neither another worker that waits for ever nor main.
`BacklogDrains` has no premise on workers, which main never waits for. Both end
with the server: with a crash, or once main has returned. `pl2_parser` assumes
weak fairness of its only thread.

Deadlock is not checked: main and all workers may have ended, the process may
have died, and a file or list of calls may simply end.

### What violates the documentation or an assertion

| run | disagreement |
|---|---|
| `server_assert` | `accept` fails, main destroys the routes, a worker's `ccVecNth` asserts (`cclib/cc_vec.c:94`) |
| `dcgi_page` | a module returns 503 and its response is written as it is, where the internal page is promised for every `5xx` (`README.md:178-179`; `src/dcgi.c:83` asks for 500 only) |
| `dcgi_unload` | the handle is never stored, so a library is not unloaded after the request (`README.md:62-63`) |
| `pl2_begin` | a `?begin` block that is closed ends in error 984, "unclosed ?begin block" (`include/pl2b.h:65`): the terminator behind `begin` is taken for the end of the file |
| `cc_vec_assert` | `CC_VPTR_SUB` adds, after `cc_vec_pop_back` the assertion at `cclib/cc_vec.c:47` fails |

Further disagreements are visible in the models but have no run of their own:

- `README.md:149` and `:170` allow a module to leave `headerDest` and
  `dataDest` untouched; without headers the process reads NULL (`WriteFails`),
  without data the header section is never ended (`Write`, `whole`).
- `README.md:61-63` says `preload true` loads all libraries ahead of time and
  `preload false` each for its request; in the code each route goes by the switch
  at its own line. `ReadmeUnlessSwitchedLater` is the exact extent of the
  disagreement: the sentence is false of every file that turns the switch after
  one of its DCGI routes, and true of every other file.
- with a module loaded for the request an unload that is refused adds a second
  response, the page for 500, to one that was complete (`UnloadRefused` of
  `Dcgi`, `late` in `DcgiOutcomes`); `DeliveredAsReturned`, the property of
  `dcgi_page`, is false of that, too.
- `README.md:45` has `case-ignore` in its sample; the command is `ignore-case`
  and the sample ends with error 990 (`UnknownCommand`).
- a `cors` line without arguments crashes after the error was formatted
  (`src/config.c:342-350`; `CorsCrashes`).
- `include/config.h:9` does not list `DIR`, which is accepted and then answers
  every request with 500.
- `README.md:120` gives other numbers to the methods than
  `include/http_base.h:4-8`.
- `include/pl2b.h:63-64` has error codes of their own for a full parse buffer
  (982) and an unclosed string (983); both are reported as 984
  (`pl2/pl2b.c:346`, `:355`; `AddPart` and `Str` of `Pl2Parser`).
- the parse buffer has room for 4096 slices, but an entry is half as long again:
  the 2731st part of a line is already written behind it, long before the check
  at `pl2/pl2b.c:354` stops the line (`EntryFits`).
- a comment behind a command joins the next line to it (`pl2/pl2b.c:441`;
  `Comment`; `CommandsAsWritten` states what is read).
- after the header section has ended, a short body or a failing `malloc` frees
  `line` a second time (`src/http.c:214`): `FreedOnce` excludes that case by
  name.

## 4. Proofs

All theorems hold for every value of the constants that satisfies the named
assumptions of their modules; TLC evaluates those assumptions on each run.
`IInv` is the inductive invariant of a module. It stands in the module itself,
beside the properties it strengthens.

| module | theorem | property |
|---|---|---|
| `ServerProofs` | `TypeCorrect`, `DescriptorsAccounted`, `RequestsAnswered`, `ConfigSafeWhileAccepting`, `NoCrossTalkHolds`, `ReceivesNothingUndue`, `Implements` | `TypeOK`, `DescriptorAccounting`, `Answered`, `ConfigOutlivesAccepting`, `NoCrossTalk`, `NothingUndue`, `ImplementsService` |
| `WorkerProofs` | `TypeCorrect`, `RefusedFreedOnce`, `BodyDeclared`, `OutcomePromised`, `NothingUninitialised`, `ClosesClean`, `RespondsOnce`, `IcaseEquality`, `RouteMatch`, `QueryParameters` | `TypeOK`, `FreedOnce`, `BodyAsDeclared`, `OutcomeAsPromised`, `NothingUninitialisedIsSent`, `ClosedClean`, `OneResponse`, `IcaseIsEquality`, `RouteMatchIsExactOrPrefix`, `QueryIsItsParameters` |
| `DcgiProofs` | `TypeCorrect`, `PromisedOutcomes`, `ReferencesBalance`, `CodeMapped`, `ParamsReleased` | `TypeOK`, `OutcomeAsPromised`, `ReferencesKept`, `CodeStaysMapped`, `OutParamsReleased` |
| `ConfigProofs` | `TypeCorrect`, `SettingsWritten`, `RoutesWritten`, `PreloadsAsReadme`, `CorsWritten` | `TypeOK`, `SettingsAsWritten`, `RoutesAsWritten`, `ReadmeUnlessSwitchedLater`, `CorsAsWritten` |
| `Pl2ParserProofs` | `TypeCorrect`, `AheadStaysIntact`, `TextsAreKept`, `ReadsWellFormed`, `ReadsAsWritten` | `TypeOK`, `AheadIntact`, `TextsStay`, `WellFormedIsRead`, `CommandsAsWritten` |
| `CcVecProofs` | `SubIsNeeded`, `Refinement` | `DamageNeedsSub`, `ImplementsList` |
| `CcListProofs` | `Linked`, `IteratorsValid`, `Refinement` | `WellLinked`, `IteratorsStayValid`, `ImplementsList` |

**Server.** The constants are any number of connections and descriptors, any
backlog, route table and URL comparison. `Answered` is not inductive by itself:
it speaks only of workers that have finished. `WorkerInv` adds what a worker has
established at each label: nothing sent or buffered before its handler, no
earlier route applies (`Skipped`), the route it handles applies, in `reply` what
it sent and buffered together with the page still to come is due, and behind the
flush nothing is left in the buffer. `NothingUndue` follows: what was sent is
the beginning of that. `NoCrossTalk` says that bytes leave only through a
descriptor that is still the connection's own, also those that were written
steps before. `DescriptorAccounting` is what lets the proof conclude that a
buffer passed on lands on the worker's own socket and that `Close` of one worker
takes nobody else's descriptor. `MainInv` says that the connection being
accepted has no worker yet. Each conjunct has its step lemma, `OwnStep` the
acting worker's part and `OthersUntouched` that of all others. For the
refinement `StepRefines` maps each step to one of `HttpService` or to a stutter
(`InvisibleStutters`).

**Worker.** Any set of first lines, of declared lengths and of file sizes, any
number of headers. `ReaderInv` bounds the live blocks from both sides at each
label of `readHttpRequest` (`Needed`, `Allowed`), which is what the shared
cleanup labels rely on; its clause on `FreedOnce` holds because `line` is only
left dangling once the header section has ended. `File!IInv` says at each step of
`handleStatic` which of file and buffer is held, and what was sent. `Worker`'s
own part (`AtStep`) says what `httpHandler` still owns and, once a handler has
run, that response and error code fit (`Answered`). `ClosesClean` is the three of
them together at `fclose()`. `DeclaredLengthIsTheFirst` is the lemma about the
loop over the headers. `WorkerProofs` also proves `NothingLeaks` of the reader.

**UrlMatch**, in `WorkerProofs`: for any characters and any `tolower()`, texts,
routes and names of any length. The loops are recursive functions of the offset;
`ScanExists` and `ScanIs` say once what a loop over an offset returns
(`Succeeds`: it stops somewhere, and what is asked there holds), and the lemmas
on `strcmp_icase`, `slicecmp_icase` and `patternIsPrefix` show that it stops
within both strings and what its answer means. The properties are invariants of
`Worker`, about its first line and `Patterns`, what a line may be compared with.

**The query**, in `WorkerProofs`: for lines of any length. The parameters are a
recursive function of the place where the next one begins, and so is what they
are when written again (`Written`). What both are from a place on is shown from
the end of the query backwards: `FromLaterExists` of `DataLemmas` is the existence
of a function whose values depend on later ones. What is written from a place is
the query from there on, or a prefix of it if a bad parameter follows.

**Dcgi.** Any number of workers and libraries, any set of ints as codes.
`PromisedOutcomes` is a promise to the caller, that `Server` may rely on
`DcgiOutcomes`; it is not what the documentation says of a `5xx`.
`ReferencesKept` is nearly inductive; `WorkerInv` adds whether a worker has
opened its library, and what it owns and wrote at each label. `CodeMapped`
follows from the reference count: a worker past `dlopen()` holds one reference,
so the count can be 0 only if a reference was closed by accident.

**Config.** Any set of argument texts and of lines, files of any length. The
properties are relative to the lines executed so far, so their conjunction is
inductive once `Begun` fixes where the run stands. Every command extends the
file by one line, hence the lemmas of the first half say what `Lines`, `Place`,
`IntSetting` and `BoolSetting` of a longer file are; counting lines is
`Cardinality`, and a place in the file that of a line among its like.
`PreloadsAsReadme` follows from `PreloadedBySwitch`, the part of `IInv` that says
which switch counts for a route.

**Pl2Parser.** Any files and buffer sizes. Terminators are written when a line
ends, at ends of parts that were recorded long before; `AheadIntact` therefore
needs `PartsBehind`, that every recorded end lies behind the parser. Unescaping
in place needs that the shrunk literal is never longer than the literal.

`TextsStay` is an action property; it needs `TextsInv`, which is inductive beside
`IInv`: the parts of a line lie apart (`PartsApart`), and each command's text has
a terminator before the end of every part still to be terminated (`TextsEnded`).
That two parts never touch, so that the terminator of one is not the first
character of the next, rests on where ids end (`PartsEnded`). `PartAdded` shows
that a step with at most one new part keeps all this, `StepKeeps` that a step
which writes only ahead or terminates parts (`WritesAhead`) changes no text.

`WellFormedIsRead` needs `WellFormedInv`: while a well-formed file is read, the
parser stands between parts of the reference reading (`BetweenParts`), the text
from there on is the file's, and it has taken at most as many parts as begin in
this line before that place. For each loop of `parseLine` a lemma says where it
stops in terms of `Kinds` (`SpacesAre`, `IdIs`, `CommentIs`, `StringIs`); the
one on strings relates the parity of backslashes (`Escaped`) to the kind
`escape` (`EscapedStep`). `PartsGrow` counts, `Room` shows that the bound of
`WellFormed` keeps the last entry and the one read behind it inside the block,
and `NoDirective`, `NotBeyond` and `NoOverrun` exclude the remaining exits.

`CommandsAsWritten` speaks of every file, refused ones included, up to the first
undefined behaviour; it needs `WrittenInv`. Unless the parser has stopped it is
`OnTrack`: between parts, the text from there on is the file's, it has come to no
`?` operator, and it has exactly the parts of this line and the commands that end
before that place, with their texts. Or it stands at a character that begins
nothing (`HeldUp`) or behind a `?` operator, which ends the reading
(`BehindOperator`). `IdText` and `StrText` say that what a loop takes is the
`PartText` of the reference; the latter needs that no backslash is doubled, since
the unescaping loop and the reference then pair the backslashes alike
(`SlashIs`). `PartsPlus` and `EndsPlus` show that one more part or line is the
last by rank (`RankIs`, `LastIs`); `CommandIs` and `LineAppended` that a finished
line appends the command of the file that ends there. That later writes change no
earlier text is `TextsStay` again, so this proof rests on the one before.

**CcVec.** Any initial size, any limit. `Held` says of a vector which was not
subtracted from that its used part lies in its block and holds elements, also
when memory has run out;
`GrowingMakesRoom` is the arithmetic of the doubling, and each call on a vector
that is `Held` is a step of `ListSpec`, the others being `GiveUp` or stutters.

**CcList.** Any number of nodes. `IInv` says that what is walked through from the
head is a ring: each node once, `next` and `prev` inverse to each other, the
allocated nodes and no other. `WalkIs` gives the walk a closed form: whenever a
sequence of distinct nodes is linked from n on and ends in `last`, it is the
walk. `PutStep` and `CutStep` show once, for all four insertions and all four
removals, that the ring with a node spliced in or a range cut out is a ring
again; the three theorems are consequences.

**DataLemmas** holds what several of these need: least and greatest elements
(from which every claim about all numbers is proved, by the first
counterexample), ranks in a set of positions, and what a sequence is after an
insertion, a removal, or with a prefix or suffix taken.

Only model-checked: liveness (`EveryRequestFinishes`, `BacklogDrains`,
`ParseEnds`; fairness and ENABLED are beyond the prover). Every invariant and
every action property of a passing run has a theorem.

## 5. Not modelled

The reading of the configuration file into the buffer (`src/main.c:45-71`, each
failure returns at once; what the buffer then holds is where `Pl2Parser` starts);
the CORS functions of `src/main.c:298-343`, which nothing calls; `cc_vec_find*`,
which is a stub; in the interpreter router stubs, fallbacks and deprecated or
removed commands, which chttpd's language has none of; MIME types, log lines,
error texts and the line numbers in them; `src/agno3_impl.c`, which includes a
header that does not exist and is not built; the build-time text filter
`cclib/cc_proc_macro.c`; the test macros. The nodes of a list are allocated
without a check and modelled as if `malloc` succeeded; elsewhere an unchecked
`malloc` is an action (`OutOfMemory`, `TargetCopyFails`, `HeaderCopyFails`,
`NewError`). A client's header lines are classes and not characters, and
`Worker` leaves the DCGI handler to `Dcgi` and `Server`.

## 6. Plan

Order: the server core and its comparison function first, since every request
passes through them; then what the core leaves abstract (the reader, the two
handlers with steps of their own); then the data structures and the
configuration.

1. `UrlMatch`, `Handlers`, `HttpService`, `Server`, `ServerProofs` (done)
2. `RequestReader`, `Dcgi`, `StaticFile` (done)
3. `ListSpec`, `CcVec`, `CcList` (done)
4. `Config` (done)
5. `RequestLine`, `Worker`, `Pl2Parser` (done)
6. proofs: every invariant, action property and refinement that section 4 lists
   (done)

`Server` EXTENDS `Handlers`, is instantiated with `UrlMatch` by `MCServer`, and
implements `HttpService`. `Worker` EXTENDS `RequestReader`, which EXTENDS
`RequestLine` and with it `UrlMatch`, and instantiates `StaticFile`. `Pl2Reading`
EXTENDS `Pl2Parser`.
`CcVec` and `CcList` implement `ListSpec`.
