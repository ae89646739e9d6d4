------------------------------- MODULE Config -------------------------------
(***************************************************************************)
(* The evaluation of the configuration file: pl2b_runWithLanguage calls    *)
(* the handler of one command after the other (pl2/pl2b.c:531-672), and    *)
(* the handlers of config.c fill a Config.                                 *)
(*                                                                         *)
(* A command is its name and its arguments, both texts.  The file is any   *)
(* sequence of Commands: the next one is chosen when it is reached, which  *)
(* is as good as having parsed all of them before.                         *)
(***************************************************************************)
EXTENDS Integers, Sequences, FiniteSets

CONSTANTS
  Texts,        \* the texts that arguments are
  Commands,     \* the lines a file is made of: [cmd |-> name, args |-> texts]
  Lower(_),     \* a text in lower case
  Atoi(_),      \* atoi() of a text
  NullText,     \* NULL: the name a command may lack, and what follows its last argument
  MaxCommands   \* bound: lines of a file

ASSUME ConfigAssumption ==
  /\ MaxCommands \in Nat
  /\ "127.0.0.1" \in Texts
  /\ \A cmd \in Commands :
       cmd.args \in Seq(Texts) /\ \A i \in DOMAIN cmd.args : Atoi(cmd.args[i]) \in Int
  /\ \A text \in {"get", "Get", "GET"} : Lower(text) = "get"
  /\ \A text \in {"post", "Post", "POST"} : Lower(text) = "post"
  /\ Lower("OPTIONS") = "options"

VARIABLES
  config,    \* main's Config
  err,       \* error->errCode
  state,     \* "start", "running", "ready", or main has "exited" or "crashed"
  program    \* history: the commands that were executed

vars == <<config, err, state, program>>

SameIcase(a, b) == Lower(a) = Lower(b)

HandlerTypes == {"STATIC", "DCGI", "INTERN", "DIR"}
Methods      == {"GET", "POST", "OPTIONS"}
IntMin       == -2147483647 - 1
PortLimit    == 65536
AgeLimit     == 31536000   \* a year

HandlersNamed(text) == { h \in HandlerTypes : SameIcase(text, h) }
MethodsNamed(text)  == { m \in Methods : SameIcase(text, m) }

\* parseHttpMethod: an unknown name is GET, and an error if one is asked for.
parseHttpMethod(text) ==
  IF MethodsNamed(text) = {} THEN "GET" ELSE CHOOSE m \in MethodsNamed(text) : TRUE

\* The commands of getCfgLanguage: the attribute one sets, and its bounds.
IntAttr(field, lower, upper) == [field |-> field, lower |-> lower, upper |-> upper]
IntCommands == [ c \in {"listen-port", "max-pending", "cache-time"} |->
                   IF c = "listen-port" THEN IntAttr("port", 0, PortLimit)
                   ELSE IF c = "max-pending" THEN IntAttr("maxPending", IntMin, IntMin)
                   ELSE IntAttr("cacheTime", -1, AgeLimit) ]

\* Mutated BoolCommands: a destination copied from the line above.
BoolCommandsCopied == [ c \in {"preload", "ignore-case"} |-> "preloadDynamic" ]

BoolCommands == [ c \in {"preload", "ignore-case"} |->
                    IF c = "preload" THEN "preloadDynamic" ELSE "ignoreCase" ]
RouteCommands == {"post", "POST", "Post", "get", "Get", "GET"}
CorsCommands  == {"cors", "Cors", "CORS"}

initConfig ==
  [ address |-> "127.0.0.1", port |-> 8080, maxPending |-> 16,
    preloadDynamic |-> FALSE, ignoreCase |-> TRUE, cacheTime |-> -1,
    routes |-> <<>>, corsConfig |-> <<>> ]

Init ==
  /\ config = initConfig
  /\ err = 0
  /\ state = "start"
  /\ program = <<>>

-----------------------------------------------------------------------------
(* The interpreter *)

\* createRunContext; without memory the error is formatted with no format.
CreateRunContext ==
  /\ state = "start"
  /\ state' = "running"
  /\ UNCHANGED <<config, err, program>>

CreateRunContextFails ==
  /\ state = "start"
  /\ err' = 991
  /\ state' \in {"exited", "crashed"}
  /\ UNCHANGED <<config, program>>

\* cmdHandler calls the handler of cmd.
Calls(cmd) ==
  /\ state = "running" /\ Len(program) < MaxCommands
  /\ program' = Append(program, cmd)

\* The handler returns command->next.
Proceed == UNCHANGED <<err, state>>

\* formatError; checkNextCmdRet ends the run and main returns -1.
Stop(code) == err' = code /\ state' = "exited"
Refuse(code) == Stop(code) /\ UNCHANGED config

Assign(field, value) == config' = [config EXCEPT ![field] = value]

\* The list of commands ends.
EndOfProgram ==
  /\ state = "running"
  /\ state' = "ready"
  /\ UNCHANGED <<config, err, program>>

Language(cmd) ==
  /\ cmd.cmd = "language"
  /\ Calls(cmd)
  /\ Refuse(989)

AbortProgram(cmd) ==
  /\ cmd.cmd = "abort"
  /\ Calls(cmd)
  /\ state' = "ready"
  /\ UNCHANGED <<config, err>>

Known == {"language", "abort", "listen-address"} \cup DOMAIN IntCommands
           \cup DOMAIN BoolCommands \cup RouteCommands \cup CorsCommands

\* A line that begins with an empty string has no name (see Pl2Parser), and
\* strcmp() is given NULL.
NamelessCommand(cmd) ==
  /\ cmd.cmd = NullText
  /\ Calls(cmd)
  /\ state' = "crashed"
  /\ UNCHANGED <<config, err>>

UnknownCommand(cmd) ==
  /\ cmd.cmd \notin Known \cup {NullText}
  /\ Calls(cmd)
  /\ Refuse(990)

-----------------------------------------------------------------------------
(* Attributes *)

configAddr(cmd) ==
  /\ cmd.cmd = "listen-address"
  /\ Calls(cmd)
  /\ IF Len(cmd.args) = 1
     THEN Assign("address", cmd.args[1]) /\ Proceed
     ELSE Refuse(-1)

\* Mutated Refused: the bounds themselves are let through.
RefusedBeyond(attr, value) ==
  \/ attr.lower # IntMin /\ value < attr.lower
  \/ attr.upper # IntMin /\ value > attr.upper

Refused(attr, value) ==
  \/ attr.lower # IntMin /\ value <= attr.lower
  \/ attr.upper # IntMin /\ value >= attr.upper

configIntAttr(cmd) ==
  /\ cmd.cmd \in DOMAIN IntCommands
  /\ Calls(cmd)
  /\ LET attr == IntCommands[cmd.cmd]
     IN  IF Len(cmd.args) = 1 /\ ~ Refused(attr, Atoi(cmd.args[1]))
         THEN Assign(attr.field, Atoi(cmd.args[1])) /\ Proceed
         ELSE Refuse(-1)

True(text)  == SameIcase(text, "true") \/ text = "1"
False(text) == SameIcase(text, "false") \/ text = "0"

configBoolAttr(cmd) ==
  /\ cmd.cmd \in DOMAIN BoolCommands
  /\ Calls(cmd)
  /\ IF Len(cmd.args) = 1 /\ (True(cmd.args[1]) \/ False(cmd.args[1]))
     THEN Assign(BoolCommands[cmd.cmd], True(cmd.args[1])) /\ Proceed
     ELSE Refuse(-1)

-----------------------------------------------------------------------------
(* Routes *)

RouteOf(cmd) ==
  [ method |-> parseHttpMethod(cmd.cmd), path |-> cmd.args[1],
    handler |-> CHOOSE h \in HandlersNamed(cmd.args[2]) : TRUE,
    handlerPath |-> cmd.args[3] ]

SameRoute(a, b) == a.path = b.path /\ a.method = b.method

\* Mutated Exists: the methods are not compared as parsed.
ExistsByName(cmd) ==
  \E i \in DOMAIN config.routes :
    config.routes[i].path = cmd.args[1] /\ config.routes[i].method = cmd.cmd

Exists(cmd) == \E i \in DOMAIN config.routes : SameRoute(config.routes[i], RouteOf(cmd))

WellFormedRoute(cmd) == Len(cmd.args) = 3 /\ HandlersNamed(cmd.args[2]) # {}

PushRoute(cmd, extra) ==
  Assign("routes", Append(config.routes,
    [ method |-> RouteOf(cmd).method, path |-> cmd.args[1],
      handler |-> RouteOf(cmd).handler, handlerPath |-> cmd.args[3],
      preloaded |-> extra ]))

\* Mutated WantsPreload: the switch is not asked.
WantsPreloadAlways(cmd) == RouteOf(cmd).handler = "DCGI"

WantsPreload(cmd) == RouteOf(cmd).handler = "DCGI" /\ config.preloadDynamic

addRoute(cmd) ==
  /\ cmd.cmd \in RouteCommands
  /\ Calls(cmd)
  /\ IF WellFormedRoute(cmd) /\ ~ Exists(cmd)
     THEN PushRoute(cmd, WantsPreload(cmd)) /\ Proceed
     ELSE Refuse(-1)

\* loadDCGIModule reports an error.
PreloadFails(cmd) ==
  /\ cmd.cmd \in RouteCommands
  /\ WellFormedRoute(cmd) /\ ~ Exists(cmd) /\ WantsPreload(cmd)
  /\ Calls(cmd)
  /\ Refuse(500)

-----------------------------------------------------------------------------
(* CORS: a wrong number of arguments is an error, and read all the same *)

Arg(cmd, i) == IF i <= Len(cmd.args) THEN cmd.args[i] ELSE NullText
CorsOf(cmd) == [method |-> parseHttpMethod(Arg(cmd, 1)), path |-> Arg(cmd, 2)]

\* Mutated CorsMethod: OPTIONS is let through.
CorsAnyMethod(cmd) == Len(cmd.args) > 0 /\ MethodsNamed(cmd.args[1]) # {}

CorsMethod(cmd) == Len(cmd.args) > 0 /\ MethodsNamed(cmd.args[1]) \in {{"GET"}, {"POST"}}

CorsExists(cmd) == \E i \in DOMAIN config.corsConfig : config.corsConfig[i] = CorsOf(cmd)

\* strcmp_icase or strcmp reads NULL.
CorsCrashes(cmd) ==
  /\ cmd.cmd \in CorsCommands
  /\ \/ Len(cmd.args) = 0
     \/ Len(cmd.args) = 1 /\ CorsMethod(cmd) /\ config.corsConfig # <<>>
  /\ Calls(cmd)
  /\ err' = -1 /\ state' = "crashed"
  /\ UNCHANGED config

CorsRefused(cmd) ==
  /\ cmd.cmd \in CorsCommands
  /\ Len(cmd.args) > 0
  /\ ~ CorsMethod(cmd) \/ (Len(cmd.args) > 1 /\ CorsExists(cmd))
  /\ Calls(cmd)
  /\ Refuse(-1)

\* Mutated CorsAdded: the number of arguments is not looked at.
CorsAddedQuietly(cmd) ==
  /\ cmd.cmd \in CorsCommands
  /\ CorsMethod(cmd)
  /\ Len(cmd.args) = 1 => config.corsConfig = <<>>
  /\ Len(cmd.args) > 1 => ~ CorsExists(cmd)
  /\ Calls(cmd)
  /\ Assign("corsConfig", Append(config.corsConfig, CorsOf(cmd)))
  /\ Proceed

CorsAdded(cmd) ==
  /\ cmd.cmd \in CorsCommands
  /\ CorsMethod(cmd)
  /\ Len(cmd.args) = 1 => config.corsConfig = <<>>
  /\ Len(cmd.args) > 1 => ~ CorsExists(cmd)
  /\ Calls(cmd)
  /\ Assign("corsConfig", Append(config.corsConfig, CorsOf(cmd)))
  /\ IF Len(cmd.args) = 2 THEN Proceed ELSE Stop(-1)

\* malloc() in loadDCGIModule, whose result is not checked, or realloc() in
\* ccVecPushBack, where it is asserted, fails for a line to be added.
OutOfMemory(cmd) ==
  /\ \/ /\ cmd.cmd \in RouteCommands
        /\ WellFormedRoute(cmd) /\ ~ Exists(cmd)
        /\ UNCHANGED err
     \/ /\ cmd.cmd \in CorsCommands
        /\ CorsMethod(cmd) /\ ~ CorsExists(cmd)
        /\ err' = IF Len(cmd.args) = 2 THEN err ELSE -1
  /\ Calls(cmd)
  /\ state' = "crashed"
  /\ UNCHANGED config

addCorsConfig(cmd) == CorsCrashes(cmd) \/ CorsRefused(cmd) \/ CorsAdded(cmd)

-----------------------------------------------------------------------------
Next ==
  \/ CreateRunContext \/ CreateRunContextFails
  \/ EndOfProgram
  \/ \E cmd \in Commands :
       \/ Language(cmd) \/ AbortProgram(cmd)
       \/ NamelessCommand(cmd) \/ UnknownCommand(cmd)
       \/ configAddr(cmd) \/ configIntAttr(cmd) \/ configBoolAttr(cmd)
       \/ addRoute(cmd) \/ PreloadFails(cmd) \/ addCorsConfig(cmd)
       \/ OutOfMemory(cmd)

Spec == Init /\ [][Next]_vars

-----------------------------------------------------------------------------
(* Properties *)

Routes == Seq([ method : {"GET", "POST"}, path : Texts, handler : HandlerTypes,
                handlerPath : Texts, preloaded : BOOLEAN ])
Corses == Seq([ method : {"GET", "POST"}, path : Texts \cup {NullText} ])

\* The types of the Config and of the run; in particular every route has one of
\* the handlers routeAndHandle switches on, and no CORS entry is for OPTIONS.
TypeOK ==
  /\ config \in [ address : Texts, port : Int, maxPending : Int,
                  preloadDynamic : BOOLEAN, ignoreCase : BOOLEAN,
                  cacheTime : Int, routes : Routes, corsConfig : Corses ]
  /\ err \in Int
  /\ state \in {"start", "running", "ready", "exited", "crashed"}
  /\ program \in Seq(Commands)

\* How many commands were executed to their end without an error, which of
\* them have one of the names, and the place such a line has among these.
Accepted == IF err = 0 /\ state # "crashed" THEN Len(program) ELSE Len(program) - 1
Lines(names) == { i \in 1 .. Accepted : program[i].cmd \in names }
Place(i, lines) == Cardinality({ j \in lines : j <= i })

\* The last command before position n that is called name, or 0.
Before(n, name) == { i \in 1 .. n - 1 : program[i].cmd = name }
Setting(n, name) ==
  IF Before(n, name) = {} THEN 0
  ELSE CHOOSE i \in Before(n, name) : \A j \in Before(n, name) : j <= i

IntSetting(n, name, default) ==
  IF Setting(n, name) = 0 THEN default
  ELSE Atoi(program[Setting(n, name)].args[1])
BoolSetting(n, name, default) ==
  IF Setting(n, name) = 0 THEN default
  ELSE True(program[Setting(n, name)].args[1])

\* The value of every attribute is that of the last command for it, or its
\* default: no command touches another's attribute, and one that is refused
\* changes nothing (config.c:25-34, 123-258).
LastSettingWins ==
  LET n == Accepted + 1
  IN  /\ config.port = IntSetting(n, "listen-port", 8080)
      /\ config.maxPending = IntSetting(n, "max-pending", 16)
      /\ config.cacheTime = IntSetting(n, "cache-time", -1)
      /\ config.preloadDynamic = BoolSetting(n, "preload", FALSE)
      /\ config.ignoreCase = BoolSetting(n, "ignore-case", TRUE)

\* Whatever was written in the file, main binds to a port there is and sends
\* no negative or overlong cache time (config.c:158, 199-210, 247-258).
ServableNumbers ==
  /\ 0 < config.port /\ config.port < PortLimit
  /\ -1 <= config.cacheTime /\ config.cacheTime < AgeLimit

\* Every setting has the value of the last line that was accepted for it, or
\* its default, and that value is one the server can be started with: what is
\* out of range is refused by its line, and stored by none (config.c:25-34,
\* 123-258).
SettingsAsWritten == LastSettingWins /\ ServableNumbers

\* The routes are those of the file, in its order, which decides who answers
\* a request that several match; and none is a second one for its path and
\* method, however the method is written (config.c:260-332).
RoutesAsWritten ==
  LET lines == Lines(RouteCommands)
      routes == config.routes
  IN  /\ Len(routes) = Cardinality(lines)
      /\ \A i \in lines :
           /\ routes[Place(i, lines)].path = program[i].args[1]
           /\ SameIcase(routes[Place(i, lines)].method, program[i].cmd)
           /\ SameIcase(routes[Place(i, lines)].handler, program[i].args[2])
      /\ \A i, j \in DOMAIN routes : i # j => ~ SameRoute(routes[i], routes[j])

\* As long as the file is being read, and when the server starts, the CORS
\* entries are the two-argument lines of the file in its order, none twice:
\* the NULL path that a line without one stores (config.c:342-384) is never
\* met by the strcmp() of a later line.
CorsAsWritten ==
  state \notin {"exited", "crashed"} =>
    LET lines == Lines(CorsCommands)
        corses == config.corsConfig
    IN  /\ Len(corses) = Cardinality(lines)
        /\ \A i \in lines :
             /\ Len(program[i].args) = 2
             /\ corses[Place(i, lines)].path = program[i].args[2]
             /\ SameIcase(corses[Place(i, lines)].method, program[i].args[1])
        /\ \A i, j \in DOMAIN corses : i # j => corses[i] # corses[j]

\* README.md:61-63: with preload on all DCGI libraries are loaded ahead of
\* time, with preload off each of them is for the requests that need it.
RouteAt(i) == config.routes[Place(i, Lines(RouteCommands))]
PreloadAsReadme ==
  \A i \in Lines(RouteCommands) :
    RouteAt(i).preloaded <=> RouteAt(i).handler = "DCGI" /\ config.preloadDynamic

\* A DCGI route was reached with the switch set otherwise than it is now.
SwitchedLater ==
  \E i \in Lines(RouteCommands) :
    /\ RouteAt(i).handler = "DCGI"
    /\ BoolSetting(i, "preload", FALSE) # config.preloadDynamic

\* What the README says of preload is true of some files and false of others
\* (config.c:319-327): it holds of exactly those that turn the switch after
\* none of their DCGI routes, and fails for every other file, whatever the
\* lines between.  handleDCGI relies on the loading of each route to tell
\* whose module it must unload.
ReadmeUnlessSwitchedLater == PreloadAsReadme <=> ~ SwitchedLater

-----------------------------------------------------------------------------
(* The inductive invariant: the properties, since one reads what another    *)
(* settles (a line its `preload` switch), and how far the run is.          *)

\* The switch that counts for a route is the one its line was reached with.
PreloadedBySwitch ==
  LET lines == Lines(RouteCommands)
  IN  \A i \in lines :
        config.routes[Place(i, lines)].preloaded
          <=> /\ config.routes[Place(i, lines)].handler = "DCGI"
              /\ BoolSetting(i, "preload", FALSE)

\* A run that goes on has met no error, and one that has not begun no line.
Begun ==
  /\ state \in {"start", "running", "ready"} => err = 0
  /\ state = "start" => program = <<>>

IInv ==
  /\ TypeOK
  /\ Begun
  /\ LastSettingWins
  /\ RoutesAsWritten
  /\ PreloadedBySwitch
  /\ CorsAsWritten
=============================================================================
