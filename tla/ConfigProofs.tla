---------------------------- MODULE ConfigProofs ----------------------------
(***************************************************************************)
(* Proofs about Config: whatever the lines of a configuration file are and *)
(* however many, the Config is what they say, and the numbers main binds   *)
(* and answers with are in range.                                          *)
(***************************************************************************)
EXTENDS Config, DataLemmas

\* The inductive invariant: the two numbers are integers in their ranges, and
\* the Config never loses a field, so that what one command writes is not what
\* another reads.
Fields == DOMAIN initConfig

Numbers ==
  /\ config = [ x \in Fields |-> config[x] ]
  /\ config.port \in Int /\ config.cacheTime \in Int
  /\ ServableNumbers

-----------------------------------------------------------------------------
(* Lemmas about the operators of Config *)

\* The two numbers are fields of a Config ...
LEMMA NumberFields == "port" \in Fields /\ "cacheTime" \in Fields
BY SMT DEF initConfig, Fields

\* ... and their values before the first command.
LEMMA Defaults == initConfig.port = 8080 /\ initConfig.cacheTime = -1
BY SMT DEF initConfig

\* What EXCEPT does to one field of a function.
LEMMA Updated ==
  ASSUME NEW D, NEW c, c = [x \in D |-> c[x]], NEW f, NEW v,
         NEW d, d = [c EXCEPT ![f] = v]
  PROVE  /\ d = [x \in D |-> d[x]]
         /\ \A g \in D : g # f => d[g] = c[g]
         /\ f \in D => d[f] = v
BY SMT

\* The parts of an attribute.
LEMMA AttributeFields ==
  ASSUME NEW f, NEW l, NEW u
  PROVE  /\ IntAttr(f, l, u).field = f
         /\ IntAttr(f, l, u).lower = l
         /\ IntAttr(f, l, u).upper = u
BY Zenon DEF IntAttr

\* The three commands for numbers, each with its field and its bounds.
LEMMA NumberCommands ==
  ASSUME NEW c \in DOMAIN IntCommands
  PROVE  \/ IntCommands[c] = IntAttr("port", 0, PortLimit)
         \/ IntCommands[c] = IntAttr("maxPending", IntMin, IntMin)
         \/ IntCommands[c] = IntAttr("cacheTime", -1, AgeLimit)
BY SMT DEF IntCommands

\* All that is used of the limits; they stay opaque to the provers otherwise.
LEMMA Limits ==
  /\ IntMin \in Int /\ IntMin < -1
  /\ PortLimit \in Int /\ PortLimit > 8080
  /\ AgeLimit \in Int /\ AgeLimit > 0
BY SMT DEF IntMin, PortLimit, AgeLimit

\* The two tests of configIntAttr leave what is strictly between the bounds.
LEMMA Between ==
  ASSUME NEW attr, NEW v \in Int, ~ Refused(attr, v),
         NEW l \in Int, NEW u \in Int, attr.lower = l, attr.upper = u,
         l # IntMin, u # IntMin
  PROVE  l < v /\ v < u
<1>1. ~ (v <= l) /\ ~ (v >= u)
  BY Zenon DEF Refused
<1> QED BY <1>1, SMT

\* What configIntAttr lets through as a port ...
LEMMA PortTest ==
  ASSUME NEW v \in Int, ~ Refused(IntAttr("port", 0, PortLimit), v)
  PROVE  0 < v /\ v < PortLimit
<1>1. 0 # IntMin /\ PortLimit # IntMin
  BY Limits, SMT
<1> QED BY <1>1, AttributeFields, Between, Limits, SMT

\* ... and as a cache time.
LEMMA CacheTimeTest ==
  ASSUME NEW v \in Int, ~ Refused(IntAttr("cacheTime", -1, AgeLimit), v)
  PROVE  -1 <= v /\ v < AgeLimit
<1>1. -1 # IntMin /\ AgeLimit # IntMin
  BY Limits, SMT
<1>2. -1 < v /\ v < AgeLimit
  BY <1>1, AttributeFields, Between, Limits, SMT
<1> QED BY <1>2, Limits, SMT

-----------------------------------------------------------------------------
(* What an assignment does to the invariant *)

\* An attribute that is not one of the two numbers.
LEMMA OtherAssigned ==
  ASSUME Numbers, NEW f, NEW v, f # "port", f # "cacheTime", Assign(f, v)
  PROVE  Numbers'
<1>1. config' = [x \in Fields |-> config'[x]]
  BY Updated, Zenon DEF Numbers, Assign
<1>2. config'["port"] = config["port"] /\ config'["cacheTime"] = config["cacheTime"]
  BY Updated, NumberFields, Zenon DEF Numbers, Assign
<1>3. config'.port = config.port /\ config'.cacheTime = config.cacheTime
  BY <1>2, SMT
<1>4. ServableNumbers'
  BY <1>3, SMT DEF Numbers, ServableNumbers
<1>5. config'.port \in Int /\ config'.cacheTime \in Int
  BY <1>3, SMT DEF Numbers
<1> QED BY <1>1, <1>4, <1>5, Zenon DEF Numbers, Fields

\* A port in range keeps the invariant ...
LEMMA PortAssigned ==
  ASSUME Numbers, NEW v \in Int, 0 < v /\ v < PortLimit, Assign("port", v)
  PROVE  Numbers'
<1>1. config' = [x \in Fields |-> config'[x]]
  BY Updated, Zenon DEF Numbers, Assign
<1>2. "cacheTime" # "port"
  BY SMT
<1>3. config'["port"] = v /\ config'["cacheTime"] = config["cacheTime"]
  BY <1>2, Updated, NumberFields, Zenon DEF Numbers, Assign
<1>4. config'.port = v /\ config'.cacheTime = config.cacheTime
  BY <1>3, SMT
<1>5. ServableNumbers'
  BY <1>4, SMT DEF Numbers, ServableNumbers
<1>6. config'.port \in Int /\ config'.cacheTime \in Int
  BY <1>4, SMT DEF Numbers
<1> QED BY <1>1, <1>5, <1>6, Zenon DEF Numbers, Fields

\* ... as does a cache time in range ...
LEMMA CacheTimeAssigned ==
  ASSUME Numbers, NEW v \in Int, -1 <= v /\ v < AgeLimit, Assign("cacheTime", v)
  PROVE  Numbers'
<1>1. config' = [x \in Fields |-> config'[x]]
  BY Updated, Zenon DEF Numbers, Assign
<1>2. "cacheTime" # "port"
  BY SMT
<1>3. config'["port"] = config["port"] /\ config'["cacheTime"] = v
  BY <1>2, Updated, NumberFields, Zenon DEF Numbers, Assign
<1>4. config'.port = config.port /\ config'.cacheTime = v
  BY <1>3, SMT
<1>5. ServableNumbers'
  BY <1>4, SMT DEF Numbers, ServableNumbers
<1>6. config'.port \in Int /\ config'.cacheTime \in Int
  BY <1>4, SMT DEF Numbers
<1> QED BY <1>1, <1>5, <1>6, Zenon DEF Numbers, Fields

\* ... and a command that is refused.
LEMMA ConfigKept ==
  ASSUME Numbers, UNCHANGED config
  PROVE  Numbers'
BY Zenon DEF Numbers, ServableNumbers, Fields

-----------------------------------------------------------------------------
(* The steps *)

\* The defaults are in range.
LEMMA InitNumbers == Init => Numbers
<1> SUFFICES ASSUME Init PROVE Numbers
  OBVIOUS
<1>1. config = [x \in Fields |-> config[x]]
  BY SMT DEF Init, Fields, initConfig
<1>2. config.port = 8080 /\ config.cacheTime = -1
  BY Defaults, SMT DEF Init
<1>3. ServableNumbers
  BY <1>2, Limits, SMT DEF ServableNumbers
<1>4. config.port \in Int /\ config.cacheTime \in Int
  BY <1>2, SMT
<1> QED BY <1>1, <1>3, <1>4, Zenon DEF Numbers

\* A number command: its field and the test of its value go together.
LEMMA NumberStep ==
  ASSUME Numbers, NEW cmd \in Commands, configIntAttr(cmd)
  PROVE  Numbers'
<1>1. CASE UNCHANGED config
  BY <1>1, ConfigKept
<1>2. CASE ~ UNCHANGED config
  <2> DEFINE attr == IntCommands[cmd.cmd]
             v == Atoi(cmd.args[1])
  <2>1. /\ cmd.cmd \in DOMAIN IntCommands
        /\ Len(cmd.args) = 1
        /\ ~ Refused(attr, v)
        /\ Assign(attr.field, v)
    BY <1>2, Zenon DEF configIntAttr, Refuse
  <2>2. v \in Int
    BY <2>1, ConfigAssumption, SMT
  <2>6. \/ attr = IntAttr("port", 0, PortLimit)
        \/ attr = IntAttr("maxPending", IntMin, IntMin)
        \/ attr = IntAttr("cacheTime", -1, AgeLimit)
    BY <2>1, NumberCommands, Zenon
  <2> HIDE DEF attr, v
  <2>3. CASE attr = IntAttr("port", 0, PortLimit)
    <3>1. 0 < v /\ v < PortLimit
      BY <2>1, <2>2, <2>3, PortTest, Zenon
    <3>2. Assign("port", v)
      <4>1. attr.field = "port"
        BY <2>3, SMT DEF IntAttr
      <4> QED BY <2>1, <4>1, Zenon DEF Assign
    <3> QED BY <2>2, <3>1, <3>2, PortAssigned
  <2>4. CASE attr = IntAttr("maxPending", IntMin, IntMin)
    <3>1. Assign("maxPending", v)
      <4>1. attr.field = "maxPending"
        BY <2>4, SMT DEF IntAttr
      <4> QED BY <2>1, <4>1, Zenon DEF Assign
    <3>2. "maxPending" # "port" /\ "maxPending" # "cacheTime"
      BY SMT
    <3> QED BY <3>1, <3>2, OtherAssigned
  <2>5. CASE attr = IntAttr("cacheTime", -1, AgeLimit)
    <3>1. -1 <= v /\ v < AgeLimit
      BY <2>1, <2>2, <2>5, CacheTimeTest, Zenon
    <3>2. Assign("cacheTime", v)
      <4>1. attr.field = "cacheTime"
        BY <2>5, SMT DEF IntAttr
      <4> QED BY <2>1, <4>1, Zenon DEF Assign
    <3> QED BY <2>2, <3>1, <3>2, CacheTimeAssigned
  <2> QED BY <2>3, <2>4, <2>5, <2>6, Zenon
<1> QED BY <1>1, <1>2, Zenon

\* The other assignments are to fields that are no numbers.
LEMMA OtherStep ==
  ASSUME Numbers, NEW cmd \in Commands,
         \/ configAddr(cmd) \/ configBoolAttr(cmd)
         \/ addRoute(cmd) \/ addCorsConfig(cmd)
  PROVE  Numbers'
<1>1. CASE UNCHANGED config
  BY <1>1, ConfigKept
<1>2. CASE ~ UNCHANGED config
  <2>1. \E f \in {"address", "preloadDynamic", "ignoreCase", "routes", "corsConfig"} :
          \E v : Assign(f, v)
    <3>1. CASE configAddr(cmd)
      BY <1>2, <3>1, Zenon DEF configAddr, Refuse
    <3>2. CASE configBoolAttr(cmd)
      <4>1. cmd.cmd \in DOMAIN BoolCommands
            /\ Assign(BoolCommands[cmd.cmd], True(cmd.args[1]))
        BY <1>2, <3>2, Zenon DEF configBoolAttr, Refuse
      <4>2. BoolCommands[cmd.cmd] \in {"preloadDynamic", "ignoreCase"}
        BY <4>1, SMT DEF BoolCommands
      <4> QED BY <4>1, <4>2, Zenon
    <3>3. CASE addRoute(cmd)
      BY <1>2, <3>3, Zenon DEF addRoute, PushRoute, Refuse
    <3>4. CASE addCorsConfig(cmd)
      BY <1>2, <3>4, Zenon DEF addCorsConfig, CorsCrashes, CorsRefused, CorsAdded, Refuse
    <3> QED BY <3>1, <3>2, <3>3, <3>4, Zenon
  <2>2. PICK f \in {"address", "preloadDynamic", "ignoreCase", "routes", "corsConfig"} :
          \E v : Assign(f, v)
    BY <2>1, Zenon
  <2>3. f # "port" /\ f # "cacheTime"
    BY <2>2, SMT
  <2> QED BY <2>2, <2>3, OtherAssigned, Zenon
<1> QED BY <1>1, <1>2, Zenon

\* One step for each action of Next.
LEMMA NextNumbers == Numbers /\ [Next]_vars => Numbers'
<1> SUFFICES ASSUME Numbers, [Next]_vars PROVE Numbers'
  OBVIOUS
<1>1. CASE UNCHANGED vars
  BY <1>1, ConfigKept, Zenon DEF vars
<1>2. CASE CreateRunContext \/ CreateRunContextFails \/ EndOfProgram
  BY <1>2, ConfigKept, Zenon DEF CreateRunContext, CreateRunContextFails, EndOfProgram
<1>3. ASSUME NEW cmd \in Commands,
             \/ Language(cmd) \/ AbortProgram(cmd)
             \/ NamelessCommand(cmd) \/ UnknownCommand(cmd)
             \/ PreloadFails(cmd) \/ OutOfMemory(cmd)
      PROVE  Numbers'
  BY <1>3, ConfigKept, Zenon
     DEF Language, AbortProgram, NamelessCommand, UnknownCommand, PreloadFails, OutOfMemory,
         Refuse
<1>4. ASSUME NEW cmd \in Commands, configIntAttr(cmd)
      PROVE  Numbers'
  BY <1>4, NumberStep
<1>5. ASSUME NEW cmd \in Commands,
             \/ configAddr(cmd) \/ configBoolAttr(cmd)
             \/ addRoute(cmd) \/ addCorsConfig(cmd)
      PROVE  Numbers'
  BY <1>5, OtherStep
<1> QED BY <1>1, <1>2, <1>3, <1>4, <1>5, Zenon DEF Next

\* Port and cache time are in range after any configuration file, of any
\* length (config.c:199-210, 247-258): main never binds to a port that is none.
THEOREM NumbersServable == Spec => []ServableNumbers
<1>1. Numbers => ServableNumbers
  BY Zenon DEF Numbers
<1> QED BY <1>1, InitNumbers, NextNumbers, PTL DEF Spec

-----------------------------------------------------------------------------
(* The place of a line among those of its kind *)

\* A new last line gets the place behind all others, and moves none of them.
LEMMA PlacesGrow ==
  ASSUME NEW n \in Nat, NEW lines, lines \subseteq 1 .. n
  PROVE  /\ IsFiniteSet(lines) /\ Cardinality(lines) \in Nat
         /\ \A i \in lines : Place(i, lines) \in 1 .. Cardinality(lines)
         /\ Cardinality(lines \cup {n + 1}) = Cardinality(lines) + 1
         /\ Place(n + 1, lines \cup {n + 1}) = Cardinality(lines) + 1
         /\ \A i \in lines : Place(i, lines \cup {n + 1}) = Place(i, lines)
<1>1. IsFiniteSet(1 .. n)
  BY FS_Interval, 1 \in Int
<1>2. IsFiniteSet(lines) /\ Cardinality(lines) \in Nat
  BY <1>1, FS_Subset, FS_CardinalityType
<1>3. n + 1 \notin lines
  OBVIOUS
<1>4. Cardinality(lines \cup {n + 1}) = Cardinality(lines) + 1
  BY <1>2, <1>3, FS_AddElement
<1>5. { j \in lines \cup {n + 1} : j <= n + 1 } = lines \cup {n + 1}
  <2>1. \A j \in lines \cup {n + 1} : j <= n + 1
    OBVIOUS
  <2> QED BY <2>1, Zenon
<1>6. ASSUME NEW i \in lines
      PROVE  /\ Place(i, lines) \in 1 .. Cardinality(lines)
             /\ Place(i, lines \cup {n + 1}) = Place(i, lines)
  <2> DEFINE upTo == { j \in lines : j <= i }
  <2>1. upTo \subseteq lines /\ i \in upTo
    OBVIOUS
  <2>2. { j \in lines \cup {n + 1} : j <= i } = upTo
    OBVIOUS
  <2> HIDE DEF upTo
  <2>3. IsFiniteSet(upTo) /\ Cardinality(upTo) \in Nat /\ Cardinality(upTo) <= Cardinality(lines)
    BY <1>2, <2>1, FS_Subset, FS_CardinalityType
  <2>4. Cardinality(upTo) # 0
    BY <2>1, <2>3, FS_EmptySet
  <2>5. Place(i, lines) = Cardinality(upTo) /\ Place(i, lines \cup {n + 1}) = Cardinality(upTo)
    BY <2>2 DEF Place, upTo
  <2> QED BY <1>2, <2>3, <2>4, <2>5
<1> QED BY <1>2, <1>4, <1>5, <1>6 DEF Place

-----------------------------------------------------------------------------
(* What the program says *)

\* The last setting before a line is a line before it.
LEMMA SettingIsBefore ==
  ASSUME NEW n \in Nat \ {0}, NEW name
  PROVE  /\ Setting(n, name) \in 0 .. n - 1
         /\ Setting(n, name) # 0 => Setting(n, name) \in Before(n, name)
<1>1. CASE Before(n, name) = {}
  BY <1>1 DEF Setting
<1>2. CASE Before(n, name) # {}
  <2>1. Before(n, name) \subseteq 0 .. n - 1 /\ n - 1 \in Nat
    BY DEF Before
  <2>2. \E i \in Before(n, name) : \A j \in Before(n, name) : j <= i
    BY <1>2, <2>1, GreatestExists
  <2>3. Setting(n, name) \in Before(n, name)
    BY <1>2, <2>2 DEF Setting
  <2> QED BY <2>1, <2>3
<1> QED BY <1>1, <1>2

\* Lines to come change nothing about those before.
LEMMA SettingStays ==
  ASSUME NEW n \in Nat \ {0}, NEW name, \A i \in 1 .. n - 1 : program'[i] = program[i]
  PROVE  /\ Before(n, name)' = Before(n, name)
         /\ Setting(n, name)' = Setting(n, name)
         /\ \A d : IntSetting(n, name, d)' = IntSetting(n, name, d)
         /\ \A d : BoolSetting(n, name, d)' = BoolSetting(n, name, d)
<1>1. Before(n, name)' = Before(n, name)
  BY DEF Before
<1>2. Setting(n, name)' = Setting(n, name)
  BY <1>1 DEF Setting
<1>3. Setting(n, name) # 0 => program'[Setting(n, name)] = program[Setting(n, name)]
  BY SettingIsBefore
<1> QED BY <1>1, <1>2, <1>3 DEF IntSetting, BoolSetting

\* A new last line is the last setting of its name, and of no other.
LEMMA SettingGrows ==
  ASSUME NEW n \in Nat, NEW name, \A i \in 1 .. n : program'[i] = program[i]
  PROVE  /\ program'[n + 1].cmd = name => Setting(n + 2, name)' = n + 1
         /\ program'[n + 1].cmd # name => Setting(n + 2, name)' = Setting(n + 1, name)
<1>1. CASE program'[n + 1].cmd = name
  <2>1. n + 1 \in Before(n + 2, name)' /\ Before(n + 2, name)' \subseteq 1 .. n + 1
    BY <1>1 DEF Before
  <2> DEFINE names == Before(n + 2, name)'
             last  == CHOOSE i \in names : \A j \in names : j <= i
  <2>2. Setting(n + 2, name)' = last
    BY <2>1, Zenon DEF Setting
  <2>3. \E i \in names : \A j \in names : j <= i
    <3>1. \A j \in names : j <= n + 1
      BY <2>1
    <3> QED BY <2>1, <3>1, Zenon
  <2>4. last \in names /\ \A j \in names : j <= last
    BY <2>3, Zenon
  <2> HIDE DEF names, last
  <2>5. n + 1 \in names /\ names \subseteq 1 .. n + 1
    BY <2>1 DEF names
  <2>6. last = n + 1
    BY <2>4, <2>5
  <2> QED BY <1>1, <2>2, <2>6, Zenon
<1>2. CASE program'[n + 1].cmd # name
  <2>1. Before(n + 2, name)' = Before(n + 1, name)
    BY <1>2 DEF Before
  <2>2. Setting(n + 2, name)' = Setting(n + 1, name)
    <3> DEFINE Last(names) == IF names = {} THEN 0 ELSE CHOOSE i \in names : \A j \in names : j <= i
    <3>1. Setting(n + 2, name)' = Last(Before(n + 2, name)')
      BY DEF Setting
    <3>2. Setting(n + 1, name) = Last(Before(n + 1, name))
      BY DEF Setting
    <3> HIDE DEF Last
    <3> QED BY <2>1, <3>1, <3>2, Zenon
  <2> QED BY <1>2, <2>2
<1> QED BY <1>1, <1>2

LEMMA SettingsGrow ==
  ASSUME NEW n \in Nat, NEW name, \A i \in 1 .. n : program'[i] = program[i]
  PROVE  /\ program'[n + 1].cmd = name =>
              /\ \A d : IntSetting(n + 2, name, d)' = Atoi(program'[n + 1].args[1])
              /\ \A d : BoolSetting(n + 2, name, d)' = True(program'[n + 1].args[1])
         /\ program'[n + 1].cmd # name =>
              /\ \A d : IntSetting(n + 2, name, d)' = IntSetting(n + 1, name, d)
              /\ \A d : BoolSetting(n + 2, name, d)' = BoolSetting(n + 1, name, d)
<1>1. CASE program'[n + 1].cmd = name
  <2>1. Setting(n + 2, name)' = n + 1 /\ n + 1 # 0
    BY <1>1, SettingGrows
  <2> QED BY <1>1, <2>1, Zenon DEF IntSetting, BoolSetting
<1>2. CASE program'[n + 1].cmd # name
  <2>1. Setting(n + 2, name)' = Setting(n + 1, name)
    BY <1>2, SettingGrows
  <2>2. Setting(n + 1, name) # 0 => program'[Setting(n + 1, name)] = program[Setting(n + 1, name)]
    BY SettingIsBefore
  <2> QED BY <1>2, <2>1, <2>2, Zenon DEF IntSetting, BoolSetting
<1> QED BY <1>1, <1>2

-----------------------------------------------------------------------------
(* The lines of the file *)

\* Before a line is reached there was no error, and every line counts.
LEMMA AllAccepted ==
  ASSUME IInv, state \in {"start", "running", "ready"}
  PROVE  err = 0 /\ Len(program) \in Nat /\ Accepted = Len(program)
<1>1. err = 0 /\ state # "crashed" /\ program \in Seq(Commands)
  BY DEF IInv, TypeOK, Begun
<1> QED BY <1>1 DEF Accepted

\* A command that is executed is the next line ...
LEMMA LineCalled ==
  ASSUME IInv, NEW cmd \in Commands, Calls(cmd)
  PROVE  /\ err = 0 /\ Len(program) \in Nat /\ Accepted = Len(program)
         /\ program' \in Seq(Commands) /\ Len(program') = Len(program) + 1
         /\ \A i \in 1 .. Len(program) : program'[i] = program[i]
         /\ program'[Len(program) + 1] = cmd
<1>1. err = 0 /\ Len(program) \in Nat /\ Accepted = Len(program)
  BY AllAccepted DEF Calls
<1>2. program \in Seq(Commands) /\ program' = Append(program, cmd)
  BY DEF IInv, TypeOK, Calls
<1> QED BY <1>1, <1>2, AppendProperties

\* ... and counts if nothing is wrong with it ...
LEMMA LineAccepted ==
  ASSUME IInv, NEW cmd \in Commands, Calls(cmd), err' = 0, state' # "crashed"
  PROVE  Accepted' = Accepted + 1
<1>1. Accepted = Len(program) /\ Len(program') = Len(program) + 1
  BY LineCalled
<1>2. Accepted' = Len(program')
  BY DEF Accepted
<1> QED BY <1>1, <1>2

\* ... but not if it is.
LEMMA LineRefused ==
  ASSUME IInv, NEW cmd \in Commands, Calls(cmd), err' # 0 \/ state' = "crashed"
  PROVE  Accepted' = Accepted
<1>1. Accepted = Len(program) /\ Len(program') = Len(program) + 1 /\ Len(program) \in Nat
  BY LineCalled
<1>2. Accepted' = Len(program') - 1
  BY Zenon DEF Accepted
<1> QED BY <1>1, <1>2

\* The lines of a kind, when no line was added to those that count ...
LEMMA LinesKept ==
  ASSUME Accepted' = Accepted, \A i \in 1 .. Accepted : program'[i] = program[i], NEW names
  PROVE  Lines(names)' = Lines(names)
BY DEF Lines

\* ... and when one was.
LEMMA LinesGrow ==
  ASSUME Accepted \in Nat, Accepted' = Accepted + 1,
         \A i \in 1 .. Accepted : program'[i] = program[i], NEW names
  PROVE  /\ Lines(names) \subseteq 1 .. Accepted
         /\ program'[Accepted + 1].cmd \in names => Lines(names)' = Lines(names) \cup {Accepted + 1}
         /\ program'[Accepted + 1].cmd \notin names => Lines(names)' = Lines(names)
<1>1. Lines(names) \subseteq 1 .. Accepted
  BY DEF Lines
<1> DEFINE n == Accepted
<1>2. Lines(names)' = { i \in 1 .. n + 1 : program'[i].cmd \in names }
  BY DEF Lines
<1>3. 1 .. n + 1 = (1 .. n) \cup {n + 1}
  OBVIOUS
<1>4. Lines(names) = { i \in 1 .. n : program'[i].cmd \in names }
  BY DEF Lines
<1> HIDE DEF n
<1> QED BY <1>1, <1>2, <1>3, <1>4, Zenon DEF n
-----------------------------------------------------------------------------
(* What one assignment leaves alone *)

ConfigType ==
  [ address : Texts, port : Int, maxPending : Int, preloadDynamic : BOOLEAN,
    ignoreCase : BOOLEAN, cacheTime : Int, routes : Routes, corsConfig : Corses ]

\* The attributes are not those of others.
LEMMA AddressSet ==
  ASSUME config \in ConfigType, NEW v \in Texts, Assign("address", v)
  PROVE  /\ config' \in ConfigType
         /\ config'.port = config.port /\ config'.maxPending = config.maxPending
         /\ config'.preloadDynamic = config.preloadDynamic
         /\ config'.ignoreCase = config.ignoreCase /\ config'.cacheTime = config.cacheTime
         /\ config'.routes = config.routes /\ config'.corsConfig = config.corsConfig
BY SMT DEF ConfigType, Assign

LEMMA PortSet ==
  ASSUME config \in ConfigType, NEW v \in Int, Assign("port", v)
  PROVE  /\ config' \in ConfigType
         /\ config'.port = v /\ config'.maxPending = config.maxPending
         /\ config'.preloadDynamic = config.preloadDynamic
         /\ config'.ignoreCase = config.ignoreCase /\ config'.cacheTime = config.cacheTime
         /\ config'.routes = config.routes /\ config'.corsConfig = config.corsConfig
BY SMT DEF ConfigType, Assign

LEMMA MaxPendingSet ==
  ASSUME config \in ConfigType, NEW v \in Int, Assign("maxPending", v)
  PROVE  /\ config' \in ConfigType
         /\ config'.port = config.port /\ config'.maxPending = v
         /\ config'.preloadDynamic = config.preloadDynamic
         /\ config'.ignoreCase = config.ignoreCase /\ config'.cacheTime = config.cacheTime
         /\ config'.routes = config.routes /\ config'.corsConfig = config.corsConfig
BY SMT DEF ConfigType, Assign

LEMMA CacheTimeSet ==
  ASSUME config \in ConfigType, NEW v \in Int, Assign("cacheTime", v)
  PROVE  /\ config' \in ConfigType
         /\ config'.port = config.port /\ config'.maxPending = config.maxPending
         /\ config'.preloadDynamic = config.preloadDynamic
         /\ config'.ignoreCase = config.ignoreCase /\ config'.cacheTime = v
         /\ config'.routes = config.routes /\ config'.corsConfig = config.corsConfig
BY SMT DEF ConfigType, Assign

LEMMA PreloadDynamicSet ==
  ASSUME config \in ConfigType, NEW v \in BOOLEAN, Assign("preloadDynamic", v)
  PROVE  /\ config' \in ConfigType
         /\ config'.port = config.port /\ config'.maxPending = config.maxPending
         /\ config'.preloadDynamic = v
         /\ config'.ignoreCase = config.ignoreCase /\ config'.cacheTime = config.cacheTime
         /\ config'.routes = config.routes /\ config'.corsConfig = config.corsConfig
BY SMT DEF ConfigType, Assign

LEMMA IgnoreCaseSet ==
  ASSUME config \in ConfigType, NEW v \in BOOLEAN, Assign("ignoreCase", v)
  PROVE  /\ config' \in ConfigType
         /\ config'.port = config.port /\ config'.maxPending = config.maxPending
         /\ config'.preloadDynamic = config.preloadDynamic
         /\ config'.ignoreCase = v /\ config'.cacheTime = config.cacheTime
         /\ config'.routes = config.routes /\ config'.corsConfig = config.corsConfig
BY SMT DEF ConfigType, Assign

LEMMA RoutesSet ==
  ASSUME config \in ConfigType, NEW v \in Routes, Assign("routes", v)
  PROVE  /\ config' \in ConfigType
         /\ config'.port = config.port /\ config'.maxPending = config.maxPending
         /\ config'.preloadDynamic = config.preloadDynamic
         /\ config'.ignoreCase = config.ignoreCase /\ config'.cacheTime = config.cacheTime
         /\ config'.routes = v /\ config'.corsConfig = config.corsConfig
BY SMT DEF ConfigType, Assign

LEMMA CorsConfigSet ==
  ASSUME config \in ConfigType, NEW v \in Corses, Assign("corsConfig", v)
  PROVE  /\ config' \in ConfigType
         /\ config'.port = config.port /\ config'.maxPending = config.maxPending
         /\ config'.preloadDynamic = config.preloadDynamic
         /\ config'.ignoreCase = config.ignoreCase /\ config'.cacheTime = config.cacheTime
         /\ config'.routes = config.routes /\ config'.corsConfig = v
BY SMT DEF ConfigType, Assign
-----------------------------------------------------------------------------
(* What keeps each part of the invariant *)

\* The program goes on unless it was cut off, and grows by at most a line.
Continues == \A i \in 1 .. Accepted : program'[i] = program[i]

\* The attributes that LastSettingWins speaks of, before line n.
NumbersSet(n) ==
  /\ config.port = IntSetting(n, "listen-port", 8080)
  /\ config.maxPending = IntSetting(n, "max-pending", 16)
  /\ config.cacheTime = IntSetting(n, "cache-time", -1)
SwitchesSet(n) ==
  /\ config.preloadDynamic = BoolSetting(n, "preload", FALSE)
  /\ config.ignoreCase = BoolSetting(n, "ignore-case", TRUE)

LEMMA LastSettingSet ==
  ASSUME NEW n
  PROVE  /\ n = Accepted + 1 => (LastSettingWins <=> NumbersSet(n) /\ SwitchesSet(n))
         /\ n = Accepted' + 1 => (LastSettingWins' <=> NumbersSet(n)' /\ SwitchesSet(n)')
<1>1. LastSettingWins <=> NumbersSet(Accepted + 1) /\ SwitchesSet(Accepted + 1)
  BY SMT DEF LastSettingWins, NumbersSet, SwitchesSet
<1>2. LastSettingWins' <=> NumbersSet(Accepted + 1)' /\ SwitchesSet(Accepted + 1)'
  BY <1>1, PTL
<1> QED BY <1>1, <1>2, Zenon

\* What becomes of an attribute that the commands called name set.
Becomes(cmd, name, old, new, value) ==
  /\ cmd.cmd = name => new = value
  /\ cmd.cmd # name => new = old

\* What a command that is no error does to the attributes: it sets its own.
Moved(cmd) ==
  /\ Becomes(cmd, "listen-port", config.port, config'.port, Atoi(cmd.args[1]))
  /\ Becomes(cmd, "max-pending", config.maxPending, config'.maxPending, Atoi(cmd.args[1]))
  /\ Becomes(cmd, "cache-time", config.cacheTime, config'.cacheTime, Atoi(cmd.args[1]))
  /\ Becomes(cmd, "preload", config.preloadDynamic, config'.preloadDynamic, True(cmd.args[1]))
  /\ Becomes(cmd, "ignore-case", config.ignoreCase, config'.ignoreCase, True(cmd.args[1]))

\* An attribute for numbers and one for switches, over a line that counts.
LEMMA NumberMoved ==
  ASSUME NEW n \in Nat, \A i \in 1 .. n : program'[i] = program[i], NEW name, NEW d,
         NEW v, v = IntSetting(n + 1, name, d), NEW w, NEW cmd, cmd = program'[n + 1],
         Becomes(cmd, name, v, w, Atoi(cmd.args[1]))
  PROVE  w = IntSetting(n + 2, name, d)'
BY SettingsGrow, Zenon DEF Becomes

LEMMA SwitchMoved ==
  ASSUME NEW n \in Nat, \A i \in 1 .. n : program'[i] = program[i], NEW name, NEW d,
         NEW v, v = BoolSetting(n + 1, name, d), NEW w, NEW cmd, cmd = program'[n + 1],
         Becomes(cmd, name, v, w, True(cmd.args[1]))
  PROVE  w = BoolSetting(n + 2, name, d)'
BY SettingsGrow, Zenon DEF Becomes

LEMMA SettingsMoved ==
  ASSUME LastSettingWins, Accepted \in Nat, Accepted' = Accepted + 1, Continues,
         NEW cmd, program'[Accepted + 1] = cmd, Moved(cmd)
  PROVE  LastSettingWins'
<1>1. PICK n \in Nat : n = Accepted
  OBVIOUS
<1>2. n + 1 = Accepted + 1 /\ n + 2 = Accepted' + 1
  BY <1>1
<1>3. (\A i \in 1 .. n : program'[i] = program[i]) /\ program'[n + 1] = cmd
  BY <1>1 DEF Continues
<1>4. NumbersSet(n + 1) /\ SwitchesSet(n + 1)
  BY <1>2, LastSettingSet, Zenon
<1>5. config'.port = IntSetting(n + 2, "listen-port", 8080)'
  BY <1>3, <1>4, NumberMoved, SMT DEF NumbersSet, Moved
<1>6. config'.maxPending = IntSetting(n + 2, "max-pending", 16)'
  BY <1>3, <1>4, NumberMoved, SMT DEF NumbersSet, Moved
<1>7. config'.cacheTime = IntSetting(n + 2, "cache-time", -1)'
  BY <1>3, <1>4, NumberMoved, SMT DEF NumbersSet, Moved
<1>8. config'.preloadDynamic = BoolSetting(n + 2, "preload", FALSE)'
  BY <1>3, <1>4, SwitchMoved, Zenon DEF SwitchesSet, Moved
<1>9. config'.ignoreCase = BoolSetting(n + 2, "ignore-case", TRUE)'
  BY <1>3, <1>4, SwitchMoved, Zenon DEF SwitchesSet, Moved
<1>10. NumbersSet(n + 2)'
  BY <1>5, <1>6, <1>7, SMT DEF NumbersSet
<1>11. SwitchesSet(n + 2)'
  BY <1>8, <1>9, Zenon DEF SwitchesSet
<1> QED BY <1>2, <1>10, <1>11, LastSettingSet, Zenon

\* A line that does not count leaves the attributes as they are.
LEMMA SettingsUnmoved ==
  ASSUME LastSettingWins, Accepted \in Nat, Accepted' = Accepted, Continues,
         config'.port = config.port, config'.maxPending = config.maxPending,
         config'.cacheTime = config.cacheTime,
         config'.preloadDynamic = config.preloadDynamic,
         config'.ignoreCase = config.ignoreCase
  PROVE  LastSettingWins'
<1>1. PICK n \in Nat \ {0} : n = Accepted + 1
  OBVIOUS
<1>2. n = Accepted' + 1 /\ \A i \in 1 .. n - 1 : program'[i] = program[i]
  BY <1>1 DEF Continues
<1>3. \A name : /\ \A d : IntSetting(n, name, d)' = IntSetting(n, name, d)
                /\ \A d : BoolSetting(n, name, d)' = BoolSetting(n, name, d)
  BY <1>2, SettingStays, Zenon
<1>4. NumbersSet(n) /\ SwitchesSet(n)
  BY <1>1, LastSettingSet, Zenon
<1>5. NumbersSet(n)'
  BY <1>3, <1>4, SMT DEF NumbersSet
<1>6. SwitchesSet(n)'
  BY <1>3, <1>4, Zenon DEF SwitchesSet
<1> QED BY <1>2, <1>5, <1>6, LastSettingSet, Zenon

\* The routes when no line for one was added ...
LEMMA RoutesUnmoved ==
  ASSUME RoutesAsWritten, PreloadedBySwitch, Accepted \in Nat, Continues,
         Lines(RouteCommands)' = Lines(RouteCommands), config'.routes = config.routes
  PROVE  RoutesAsWritten' /\ PreloadedBySwitch'
<1> DEFINE lines == Lines(RouteCommands)
<1>1. \A i \in lines : i \in 1 .. Accepted /\ program'[i] = program[i]
  BY DEF Lines, Continues
<1>2. \A i \in lines : BoolSetting(i, "preload", FALSE)' = BoolSetting(i, "preload", FALSE)
  <2> TAKE i \in lines
  <2>1. i \in Nat \ {0} /\ \A j \in 1 .. i - 1 : program'[j] = program[j]
    BY <1>1 DEF Continues
  <2> QED BY <2>1, SettingStays, Zenon
<1>3. RoutesAsWritten'
  <2>1. /\ Len(config.routes) = Cardinality(lines)
        /\ \A i \in lines :
           /\ config.routes[Place(i, lines)].path = program[i].args[1]
           /\ SameIcase(config.routes[Place(i, lines)].method, program[i].cmd)
           /\ SameIcase(config.routes[Place(i, lines)].handler, program[i].args[2])
        /\ \A i, j \in DOMAIN config.routes : i # j => ~ SameRoute(config.routes[i], config.routes[j])
    BY Zenon DEF RoutesAsWritten
  <2>2. lines' = lines
    OBVIOUS
  <2> HIDE DEF lines
  <2> QED BY <1>1, <2>1, <2>2, Zenon DEF RoutesAsWritten, lines
<1>4. PreloadedBySwitch'
  BY <1>1, <1>2, Zenon DEF PreloadedBySwitch
<1> QED BY <1>3, <1>4
\* One entry more for one line more: the old ones keep their places, and the
\* new one has that of the line.
Entered(s, x, t, n, lines, more) ==
  /\ Len(t) = Cardinality(more)
  /\ \A i \in lines : t[Place(i, more)] = s[Place(i, lines)]
  /\ t[Place(n + 1, more)] = x
  /\ \A i \in DOMAIN t : (i \in DOMAIN s /\ t[i] = s[i]) \/ (i = Len(s) + 1 /\ t[i] = x)

LEMMA EntryAdded ==
  ASSUME NEW n \in Nat, NEW lines, lines \subseteq 1 .. n,
         NEW S, NEW s \in Seq(S), Len(s) = Cardinality(lines), NEW x \in S, NEW t, t = Append(s, x),
         NEW more, more = lines \cup {n + 1}
  PROVE  Entered(s, x, t, n, lines, more)
<1>1. /\ Len(t) = Len(s) + 1 /\ t[Len(s) + 1] = x
      /\ \A i \in 1 .. Len(s) : t[i] = s[i]
      /\ DOMAIN t = 1 .. Len(s) + 1 /\ DOMAIN s = 1 .. Len(s) /\ Len(s) \in Nat
  BY AppendProperties
<1>2. /\ \A i \in lines : Place(i, lines) \in 1 .. Len(s) /\ Place(i, more) = Place(i, lines)
      /\ Place(n + 1, more) = Len(s) + 1 /\ Cardinality(more) = Len(s) + 1
  <2>1. /\ \A i \in lines : Place(i, lines) \in 1 .. Cardinality(lines)
        /\ Cardinality(more) = Cardinality(lines) + 1
        /\ Place(n + 1, more) = Cardinality(lines) + 1
        /\ \A i \in lines : Place(i, more) = Place(i, lines)
    BY PlacesGrow, Zenon
  <2> QED BY <2>1, Zenon
<1>3. \A i \in 1 .. Len(s) + 1 : i \in 1 .. Len(s) \/ i = Len(s) + 1
  BY <1>1
<1>4. Len(t) = Cardinality(more)
  BY <1>1, <1>2, Zenon
<1>5. \A i \in lines : t[Place(i, more)] = s[Place(i, lines)]
  BY <1>1, <1>2, Zenon
<1>6. t[Place(n + 1, more)] = x
  BY <1>1, <1>2, Zenon
<1>7. ASSUME NEW i \in DOMAIN t
      PROVE  (i \in DOMAIN s /\ t[i] = s[i]) \/ (i = Len(s) + 1 /\ t[i] = x)
  <2>1. i \in 1 .. Len(s) + 1
    BY <1>1, Zenon
  <2>2. i \in 1 .. Len(s) \/ i = Len(s) + 1
    BY <1>3, <2>1, Zenon
  <2>3. i \in 1 .. Len(s) => i \in DOMAIN s /\ t[i] = s[i]
    BY <1>1, Zenon
  <2>4. i = Len(s) + 1 => t[i] = x
    BY <1>1, Zenon
  <2> QED BY <2>2, <2>3, <2>4
<1> QED BY <1>4, <1>5, <1>6, <1>7, Zenon DEF Entered

\* The switch as it stood before a line stays so ...
LEMMA SwitchStays ==
  ASSUME Accepted \in Nat, Continues, NEW i \in 1 .. Accepted + 1
  PROVE  BoolSetting(i, "preload", FALSE)' = BoolSetting(i, "preload", FALSE)
<1>1. i \in Nat \ {0} /\ \A j \in 1 .. i - 1 : program'[j] = program[j]
  BY DEF Continues
<1> QED BY <1>1, SettingStays, Zenon

\* A route that no other has the path and the method of.
LEMMA RouteAdded ==
  ASSUME RoutesAsWritten, PreloadedBySwitch, LastSettingWins, Accepted \in Nat, Continues,
         Accepted' = Accepted + 1, NEW cmd, program'[Accepted + 1] = cmd,
         cmd.cmd \in RouteCommands,
         NEW S, config.routes \in Seq(S), NEW r \in S, config'.routes = Append(config.routes, r),
         r.path = cmd.args[1], SameIcase(r.method, cmd.cmd), SameIcase(r.handler, cmd.args[2]),
         r.preloaded <=> r.handler = "DCGI" /\ config.preloadDynamic,
         \A i \in DOMAIN config.routes : ~ SameRoute(config.routes[i], r)
  PROVE  RoutesAsWritten' /\ PreloadedBySwitch'
<1>1. PICK n \in Nat : n = Accepted
  OBVIOUS
<1>2. PICK lines : lines = Lines(RouteCommands)
  OBVIOUS
<1>3. PICK more : more = lines \cup {n + 1}
  OBVIOUS
<1>4. lines \subseteq 1 .. n /\ Lines(RouteCommands)' = more
  BY <1>1, <1>2, <1>3, LinesGrow, Zenon DEF Continues
<1>5. PICK routes : routes = config.routes
  OBVIOUS
<1>6. PICK routes2 : routes2 = config'.routes
  OBVIOUS
<1>7. /\ Len(routes) = Cardinality(lines)
      /\ \A i \in lines : /\ routes[Place(i, lines)].path = program[i].args[1]
                          /\ SameIcase(routes[Place(i, lines)].method, program[i].cmd)
                          /\ SameIcase(routes[Place(i, lines)].handler, program[i].args[2])
      /\ \A i, j \in DOMAIN routes : i # j => ~ SameRoute(routes[i], routes[j])
  BY <1>2, <1>5, Zenon DEF RoutesAsWritten
<1>8. /\ Len(routes2) = Cardinality(more)
      /\ \A i \in lines : routes2[Place(i, more)] = routes[Place(i, lines)]
      /\ routes2[Place(n + 1, more)] = r
      /\ \A i \in DOMAIN routes2 :
           (i \in DOMAIN routes /\ routes2[i] = routes[i]) \/ (i = Len(routes) + 1 /\ routes2[i] = r)
  <2>1. routes \in Seq(S) /\ routes2 = Append(routes, r)
    BY <1>5, <1>6
  <2>2. lines \subseteq 1 .. n
    BY <1>4
  <2>3. Len(routes) = Cardinality(lines)
    BY <1>7
  <2>4. Entered(routes, r, routes2, n, lines, more)
    BY <1>3, <2>1, <2>2, <2>3, EntryAdded, Zenon
  <2> QED BY <2>4, Zenon DEF Entered
<1>9. /\ \A i \in lines : program'[i] = program[i]
      /\ program'[n + 1] = cmd
  BY <1>1, <1>4, Zenon DEF Continues
<1>10. RoutesAsWritten'
  <2>1. ASSUME NEW i \in more
        PROVE  /\ routes2[Place(i, more)].path = program'[i].args[1]
               /\ SameIcase(routes2[Place(i, more)].method, program'[i].cmd)
               /\ SameIcase(routes2[Place(i, more)].handler, program'[i].args[2])
    <3>1. CASE i \in lines
      BY <1>7, <1>8, <1>9, <3>1, Zenon
    <3>2. CASE i = n + 1
      BY <1>8, <1>9, <3>2, Zenon
    <3> QED BY <1>3, <3>1, <3>2
  <2>2. ASSUME NEW i \in DOMAIN routes2, NEW j \in DOMAIN routes2, i # j
        PROVE  ~ SameRoute(routes2[i], routes2[j])
    <3>1. \A k \in DOMAIN routes : ~ SameRoute(routes[k], r) /\ ~ SameRoute(r, routes[k])
      BY <1>5, Zenon DEF SameRoute
    <3> QED BY <1>7, <1>8, <2>2, <3>1, Zenon
  <2> QED BY <1>4, <1>6, <1>8, <2>1, <2>2, Zenon DEF RoutesAsWritten
<1>11. PreloadedBySwitch'
  <2>1. ASSUME NEW i \in more
        PROVE  routes2[Place(i, more)].preloaded
                 <=> /\ routes2[Place(i, more)].handler = "DCGI"
                     /\ BoolSetting(i, "preload", FALSE)'
    <3>0. i \in 1 .. Accepted + 1
      <4>1. lines \subseteq 1 .. n
        BY <1>4, Zenon
      <4> QED BY <1>1, <1>3, <4>1
    <3>1. BoolSetting(i, "preload", FALSE)' <=> BoolSetting(i, "preload", FALSE)
      BY <3>0, SwitchStays, Zenon
    <3>2. CASE i \in lines
      <4>1. routes[Place(i, lines)].preloaded
              <=> /\ routes[Place(i, lines)].handler = "DCGI"
                  /\ BoolSetting(i, "preload", FALSE)
        BY <1>2, <1>5, <3>2, Zenon DEF PreloadedBySwitch
      <4> QED BY <1>8, <3>1, <3>2, <4>1, Zenon
    <3>3. CASE i = n + 1
      <4>1. SwitchesSet(n + 1)
        BY <1>1, LastSettingSet, Zenon
      <4>2. config.preloadDynamic <=> BoolSetting(n + 1, "preload", FALSE)
        BY <4>1, Zenon DEF SwitchesSet
      <4> QED BY <1>8, <3>1, <3>3, <4>2, Zenon
    <3> QED BY <1>3, <3>2, <3>3
  <2> QED BY <1>4, <1>6, <2>1, Zenon DEF PreloadedBySwitch
<1> QED BY <1>10, <1>11

\* The CORS entries when no line for one was added ...
LEMMA CorsUnmoved ==
  ASSUME CorsAsWritten, state' \notin {"exited", "crashed"} => state \notin {"exited", "crashed"},
         Accepted \in Nat, Continues,
         Lines(CorsCommands)' = Lines(CorsCommands), config'.corsConfig = config.corsConfig
  PROVE  CorsAsWritten'
<1>1. PICK lines : lines = Lines(CorsCommands)
  OBVIOUS
<1>2. lines' = lines /\ Lines(CorsCommands)' = lines
  BY <1>1
<1>3. \A i \in lines : program'[i] = program[i]
  BY <1>1 DEF Lines, Continues
<1> QED BY <1>1, <1>2, <1>3, Zenon DEF CorsAsWritten

\* ... and when one was.
LEMMA CorsLineAdded ==
  ASSUME CorsAsWritten, state \notin {"exited", "crashed"}, Accepted \in Nat, Continues,
         Accepted' = Accepted + 1, NEW cmd, program'[Accepted + 1] = cmd,
         cmd.cmd \in CorsCommands, Len(cmd.args) = 2,
         NEW S, config.corsConfig \in Seq(S), NEW r \in S,
         config'.corsConfig = Append(config.corsConfig, r),
         r.path = cmd.args[2], SameIcase(r.method, cmd.args[1]),
         \A i \in DOMAIN config.corsConfig : config.corsConfig[i] # r
  PROVE  CorsAsWritten'
<1>1. PICK n \in Nat : n = Accepted
  OBVIOUS
<1>2. PICK lines : lines = Lines(CorsCommands)
  OBVIOUS
<1>3. PICK more : more = lines \cup {n + 1}
  OBVIOUS
<1>4. lines \subseteq 1 .. n /\ Lines(CorsCommands)' = more
  BY <1>1, <1>2, <1>3, LinesGrow, Zenon DEF Continues
<1>5. PICK corses : corses = config.corsConfig
  OBVIOUS
<1>6. PICK corses2 : corses2 = config'.corsConfig
  OBVIOUS
<1>7. /\ Len(corses) = Cardinality(lines)
      /\ \A i \in lines : /\ Len(program[i].args) = 2
                          /\ corses[Place(i, lines)].path = program[i].args[2]
                          /\ SameIcase(corses[Place(i, lines)].method, program[i].args[1])
      /\ \A i, j \in DOMAIN corses : i # j => corses[i] # corses[j]
  BY <1>2, <1>5, Zenon DEF CorsAsWritten
<1>8. /\ Len(corses2) = Cardinality(more)
      /\ \A i \in lines : corses2[Place(i, more)] = corses[Place(i, lines)]
      /\ corses2[Place(n + 1, more)] = r
      /\ \A i \in DOMAIN corses2 :
           (i \in DOMAIN corses /\ corses2[i] = corses[i]) \/ (i = Len(corses) + 1 /\ corses2[i] = r)
  <2>1. corses \in Seq(S) /\ corses2 = Append(corses, r)
    BY <1>5, <1>6
  <2>2. lines \subseteq 1 .. n
    BY <1>4
  <2>3. Len(corses) = Cardinality(lines)
    BY <1>7
  <2>4. Entered(corses, r, corses2, n, lines, more)
    BY <1>3, <2>1, <2>2, <2>3, EntryAdded, Zenon
  <2> QED BY <2>4, Zenon DEF Entered
<1>9. /\ \A i \in lines : program'[i] = program[i]
      /\ program'[n + 1] = cmd
  BY <1>1, <1>4, Zenon DEF Continues
<1>10. ASSUME NEW i \in more
       PROVE  /\ Len(program'[i].args) = 2
              /\ corses2[Place(i, more)].path = program'[i].args[2]
              /\ SameIcase(corses2[Place(i, more)].method, program'[i].args[1])
  <2>1. CASE i \in lines
    BY <1>7, <1>8, <1>9, <2>1, Zenon
  <2>2. CASE i = n + 1
    BY <1>8, <1>9, <2>2, Zenon
  <2> QED BY <1>3, <2>1, <2>2
<1>11. ASSUME NEW i \in DOMAIN corses2, NEW j \in DOMAIN corses2, i # j
       PROVE  corses2[i] # corses2[j]
  <2>1. \A k \in DOMAIN corses : corses[k] # r
    BY <1>5, Zenon
  <2> QED BY <1>7, <1>8, <1>11, <2>1, Zenon
<1> QED BY <1>4, <1>6, <1>8, <1>10, <1>11, Zenon DEF CorsAsWritten
-----------------------------------------------------------------------------
(* The steps that leave the program as it is *)

\* With the same program, and as many lines that count, it says the same.
LEMMA StillWritten ==
  ASSUME IInv, UNCHANGED <<config, program>>, Accepted' = Accepted,
         state' \notin {"exited", "crashed"} => state \notin {"exited", "crashed"}
  PROVE  LastSettingWins' /\ RoutesAsWritten' /\ PreloadedBySwitch' /\ CorsAsWritten'
<1>1. \A n, name : Setting(n, name)' = Setting(n, name)
  BY DEF Setting, Before
<1>2. \A n, name, d : IntSetting(n, name, d)' = IntSetting(n, name, d)
  BY <1>1 DEF IntSetting
<1>3. \A n, name, d : BoolSetting(n, name, d)' = BoolSetting(n, name, d)
  BY <1>1, Zenon DEF BoolSetting
<1>4. \A names : Lines(names)' = Lines(names)
  BY DEF Lines
<1>5. LastSettingWins'
  <2>1. PICK n : n = Accepted + 1
    OBVIOUS
  <2>2. n = Accepted' + 1
    BY <2>1
  <2>3. NumbersSet(n) /\ SwitchesSet(n)
    BY <2>1, LastSettingSet, Zenon DEF IInv
  <2>4. NumbersSet(n)'
    BY <1>2, <2>3, SMT DEF NumbersSet
  <2>5. SwitchesSet(n)'
    BY <1>3, <2>3, Zenon DEF SwitchesSet
  <2> QED BY <2>2, <2>4, <2>5, LastSettingSet, Zenon
<1>6. RoutesAsWritten'
  BY <1>4, Zenon DEF IInv, RoutesAsWritten
<1>7. PreloadedBySwitch'
  BY <1>3, <1>4, Zenon DEF IInv, PreloadedBySwitch
<1>8. CorsAsWritten'
  BY <1>4, Zenon DEF IInv, CorsAsWritten
<1> QED BY <1>5, <1>6, <1>7, <1>8

\* The five parts, over a step that changes neither the Config nor which
\* lines count.
LEMMA ConfigUnmoved ==
  ASSUME IInv, Accepted \in Nat, Accepted' = Accepted, Continues, UNCHANGED config,
         state' \notin {"exited", "crashed"} => state \notin {"exited", "crashed"}
  PROVE  LastSettingWins' /\ RoutesAsWritten' /\ PreloadedBySwitch' /\ CorsAsWritten'
<1>1. LastSettingWins /\ RoutesAsWritten /\ PreloadedBySwitch /\ CorsAsWritten
  BY Zenon DEF IInv
<1>2. \A names : Lines(names)' = Lines(names)
  BY LinesKept, Zenon DEF Continues
<1>3. LastSettingWins'
  BY <1>1, SettingsUnmoved, Zenon
<1>4. RoutesAsWritten' /\ PreloadedBySwitch'
  BY <1>1, <1>2, RoutesUnmoved, Zenon
<1>5. CorsAsWritten'
  BY <1>1, <1>2, CorsUnmoved, Zenon
<1> QED BY <1>3, <1>4, <1>5

\* The defaults are what an empty file says.
LEMMA InitIInv == Init => IInv
<1> SUFFICES ASSUME Init PROVE IInv
  OBVIOUS
<1>1. config = initConfig /\ err = 0 /\ state = "start" /\ program = <<>>
  BY DEF Init
<1>2. initConfig.port = 8080 /\ initConfig.maxPending = 16 /\ initConfig.cacheTime = -1
  BY SMT DEF initConfig
<1>3. TypeOK /\ Begun
  <2>1. <<>> \in Routes /\ <<>> \in Corses
    BY EmptySeq, Zenon DEF Routes, Corses
  <2>2. initConfig \in ConfigType
    BY <2>1, ConfigAssumption, SMT DEF initConfig, ConfigType
  <2>3. program \in Seq(Commands)
    BY <1>1, EmptySeq, Zenon
  <2>4. err \in Int /\ state \in {"start", "running", "ready", "exited", "crashed"}
    BY <1>1
  <2>5. TypeOK
    BY <1>1, <2>2, <2>3, <2>4, Zenon DEF TypeOK, ConfigType
  <2> QED BY <1>1, <2>5 DEF Begun
<1>4. /\ initConfig.preloadDynamic = FALSE /\ initConfig.ignoreCase = TRUE
      /\ initConfig.routes = <<>> /\ initConfig.corsConfig = <<>>
  BY SMT DEF initConfig
<1>5. Accepted = 0
  BY <1>1 DEF Accepted
<1>6. \A names : Lines(names) = {}
  BY <1>5 DEF Lines
<1>7. \A name : Setting(1, name) = 0
  BY DEF Setting, Before
<1>8. NumbersSet(1)
  BY <1>1, <1>2, <1>7, SMT DEF NumbersSet, IntSetting
<1>9. SwitchesSet(1)
  BY <1>1, <1>4, <1>7, Zenon DEF SwitchesSet, BoolSetting
<1>10. LastSettingWins
  BY <1>5, <1>8, <1>9, LastSettingSet, 1 = 0 + 1, Zenon
<1>11. Cardinality({}) = 0 /\ Len(<<>>) = 0 /\ DOMAIN <<>> = {}
  BY FS_EmptySet
<1>12. RoutesAsWritten /\ PreloadedBySwitch /\ CorsAsWritten
  BY <1>1, <1>4, <1>6, <1>11, Zenon DEF RoutesAsWritten, PreloadedBySwitch, CorsAsWritten
<1> QED BY <1>3, <1>10, <1>12 DEF IInv

\* The run begins or ends.
LEMMA RunStep ==
  ASSUME IInv, CreateRunContext \/ EndOfProgram \/ UNCHANGED vars
  PROVE  IInv'
<1>1. UNCHANGED <<config, err, program>>
  BY Zenon DEF CreateRunContext, EndOfProgram, vars
<1>2. TypeOK' /\ Begun'
  <2>1. CASE UNCHANGED vars
    BY <2>1, Zenon DEF vars, IInv, TypeOK, Begun
  <2>2. CASE CreateRunContext \/ EndOfProgram
    BY <2>2 DEF CreateRunContext, EndOfProgram, IInv, TypeOK, Begun
  <2> QED BY <2>1, <2>2
<1>3. /\ Accepted' = Accepted
      /\ state' \notin {"exited", "crashed"} => state \notin {"exited", "crashed"}
  BY <1>1 DEF CreateRunContext, EndOfProgram, vars, Accepted
<1> QED BY <1>1, <1>2, <1>3, StillWritten, Zenon DEF IInv

\* Without a context no line was read, and none counts.
LEMMA NoRunStep ==
  ASSUME IInv, CreateRunContextFails
  PROVE  IInv'
<1>1. state = "start" /\ program = <<>> /\ err = 0
  BY DEF CreateRunContextFails, IInv, Begun
<1>2. /\ UNCHANGED <<config, program>> /\ err' = 991 /\ state' \in {"exited", "crashed"}
  BY DEF CreateRunContextFails
<1>3. TypeOK' /\ Begun'
  BY <1>2 DEF IInv, TypeOK, Begun
<1>4. Accepted = 0 /\ Accepted' = -1
  BY <1>1, <1>2 DEF Accepted
<1>5. \A names : Lines(names) = {} /\ Lines(names)' = {}
  BY <1>4 DEF Lines
<1>6. \A name : Setting(1, name) = 0 /\ Setting(0, name)' = 0
  BY DEF Setting, Before
<1>7. NumbersSet(1) /\ SwitchesSet(1)
  BY <1>4, LastSettingSet, 1 = 0 + 1, Zenon DEF IInv
<1>8. NumbersSet(0)'
  BY <1>2, <1>6, <1>7, SMT DEF NumbersSet, IntSetting
<1>9. SwitchesSet(0)'
  BY <1>2, <1>6, <1>7, Zenon DEF SwitchesSet, BoolSetting
<1>10. LastSettingWins'
  <2>1. 0 = Accepted' + 1
    BY <1>4
  <2> QED BY <1>8, <1>9, <2>1, LastSettingSet, Zenon
<1>11. RoutesAsWritten /\ Lines(RouteCommands) = {}
  BY <1>5, Zenon DEF IInv
<1>12. RoutesAsWritten' /\ PreloadedBySwitch'
  BY <1>2, <1>5, <1>11, Zenon DEF RoutesAsWritten, PreloadedBySwitch
<1>13. CorsAsWritten'
  BY <1>2, Zenon DEF CorsAsWritten
<1> QED BY <1>3, <1>10, <1>12, <1>13 DEF IInv
-----------------------------------------------------------------------------
(* The steps that execute a line *)

\* A line with which the run stops, and which changes nothing.
LEMMA LineStops ==
  ASSUME IInv, NEW cmd \in Commands, Calls(cmd), UNCHANGED config, err' \in Int,
         state' = "crashed" \/ (state' = "exited" /\ err' # 0)
  PROVE  IInv'
<1>1. Accepted \in Nat /\ Continues /\ program' \in Seq(Commands)
  BY LineCalled, Zenon DEF Continues
<1>2. Accepted' = Accepted
  BY LineRefused, Zenon
<1>3. state' \in {"exited", "crashed"}
  OBVIOUS
<1>4. LastSettingWins' /\ RoutesAsWritten' /\ PreloadedBySwitch' /\ CorsAsWritten'
  BY <1>1, <1>2, <1>3, ConfigUnmoved, Zenon
<1>5. TypeOK'
  BY <1>1, <1>3 DEF IInv, TypeOK
<1>6. Begun'
  BY <1>3 DEF Begun
<1> QED BY <1>4, <1>5, <1>6, Zenon DEF IInv

\* The commands that are all of this kind, or are when they refuse.
LEMMA StoppingStep ==
  ASSUME IInv, NEW cmd \in Commands,
         \/ Language(cmd) \/ NamelessCommand(cmd) \/ UnknownCommand(cmd) \/ PreloadFails(cmd)
         \/ CorsCrashes(cmd) \/ CorsRefused(cmd) \/ OutOfMemory(cmd)
         \/ Calls(cmd) /\ Refuse(-1)
  PROVE  IInv'
<1>1. Calls(cmd) /\ UNCHANGED config
  BY Zenon DEF Language, NamelessCommand, UnknownCommand, PreloadFails, CorsCrashes,
               CorsRefused, OutOfMemory, Refuse
<1>2. err \in Int
  BY Zenon DEF IInv, TypeOK
<1>3. \/ state' = "crashed" /\ err' \in Int
      \/ state' = "exited" /\ err' \in {-1, 500, 989, 990}
  BY <1>2 DEF Language, NamelessCommand, UnknownCommand, PreloadFails, CorsCrashes,
              CorsRefused, OutOfMemory, Refuse, Stop
<1>4. err' \in Int /\ (state' = "crashed" \/ (state' = "exited" /\ err' # 0))
  BY <1>3
<1> QED BY <1>1, <1>4, LineStops, Zenon

\* A line that is no error, when it does to the Config what it says.
LEMMA LineProceeds ==
  ASSUME IInv, NEW cmd \in Commands, Calls(cmd), UNCHANGED err,
         state' \in {"running", "ready"}, config' \in ConfigType, Moved(cmd),
         RoutesAsWritten', PreloadedBySwitch', CorsAsWritten'
  PROVE  IInv'
<1>1. /\ err = 0 /\ Accepted \in Nat /\ Continues /\ program' \in Seq(Commands)
      /\ program'[Accepted + 1] = cmd
  BY LineCalled, Zenon DEF Continues
<1>2. state' # "crashed" /\ state' # "start" /\ err' = 0
  BY <1>1
<1>3. Accepted' = Accepted + 1
  BY <1>2, LineAccepted, Zenon
<1>4. LastSettingWins'
  BY <1>1, <1>3, SettingsMoved, Zenon DEF IInv
<1>5. TypeOK'
  BY <1>1 DEF TypeOK, ConfigType
<1>6. Begun'
  BY <1>2, Zenon DEF Begun
<1> QED BY <1>4, <1>5, <1>6, Zenon DEF IInv

\* ... and it is not for a route or a CORS entry.
LEMMA AttributeSet ==
  ASSUME IInv, NEW cmd \in Commands, Calls(cmd), UNCHANGED err,
         state' \in {"running", "ready"}, config' \in ConfigType, Moved(cmd),
         config'.routes = config.routes, config'.corsConfig = config.corsConfig,
         cmd.cmd \notin RouteCommands, cmd.cmd \notin CorsCommands
  PROVE  IInv'
<1>1. /\ err = 0 /\ Accepted \in Nat /\ Continues /\ program'[Accepted + 1] = cmd
  BY LineCalled, Zenon DEF Continues
<1>2. Accepted' = Accepted + 1
  <2>1. state' # "crashed" /\ err' = 0
    BY <1>1
  <2> QED BY <2>1, LineAccepted, Zenon
<1>3. /\ Lines(RouteCommands)' = Lines(RouteCommands)
      /\ Lines(CorsCommands)' = Lines(CorsCommands)
  BY <1>1, <1>2, LinesGrow, Zenon DEF Continues
<1>4. RoutesAsWritten' /\ PreloadedBySwitch'
  BY <1>1, <1>3, RoutesUnmoved, Zenon DEF IInv
<1>5. CorsAsWritten'
  <2>1. state \notin {"exited", "crashed"}
    BY DEF Calls
  <2> QED BY <1>1, <1>3, <2>1, CorsUnmoved, Zenon DEF IInv
<1> QED BY <1>4, <1>5, LineProceeds, Zenon

\* The attributes when a command has none.
LEMMA NoneMoved ==
  ASSUME NEW cmd,
         cmd.cmd \notin {"listen-port", "max-pending", "cache-time", "preload", "ignore-case"},
         config'.port = config.port, config'.maxPending = config.maxPending,
         config'.cacheTime = config.cacheTime,
         config'.preloadDynamic = config.preloadDynamic,
         config'.ignoreCase = config.ignoreCase
  PROVE  Moved(cmd)
<1>1. /\ cmd.cmd # "listen-port" /\ cmd.cmd # "max-pending" /\ cmd.cmd # "cache-time"
      /\ cmd.cmd # "preload" /\ cmd.cmd # "ignore-case"
  OBVIOUS
<1> QED BY <1>1, Zenon DEF Moved, Becomes

\* abort and listen-address.
LEMMA PlainStep ==
  ASSUME IInv, NEW cmd \in Commands, AbortProgram(cmd) \/ configAddr(cmd)
  PROVE  IInv'
<1>1. config \in ConfigType
  BY Zenon DEF IInv, TypeOK, ConfigType
<1>2. cmd.cmd \in {"abort", "listen-address"} /\ Calls(cmd)
  BY Zenon DEF AbortProgram, configAddr
<1>3. /\ cmd.cmd \notin RouteCommands /\ cmd.cmd \notin CorsCommands
      /\ cmd.cmd \notin {"listen-port", "max-pending", "cache-time", "preload", "ignore-case"}
  BY <1>2 DEF RouteCommands, CorsCommands
<1>4. CASE AbortProgram(cmd)
  <2>1. UNCHANGED <<config, err>> /\ state' \in {"running", "ready"}
    BY <1>4 DEF AbortProgram
  <2>2. Moved(cmd)
    BY <1>3, <2>1, NoneMoved, Zenon
  <2> QED BY <1>1, <1>2, <1>3, <2>1, <2>2, AttributeSet, Zenon
<1>5. CASE configAddr(cmd)
  <2>1. CASE Len(cmd.args) = 1
    <3>1. Assign("address", cmd.args[1]) /\ Proceed
      BY <1>5, <2>1, Zenon DEF configAddr
    <3>2. cmd.args[1] \in Texts
      BY <2>1, ConfigAssumption
    <3>3. /\ config' \in ConfigType
          /\ config'.port = config.port /\ config'.maxPending = config.maxPending
          /\ config'.preloadDynamic = config.preloadDynamic
          /\ config'.ignoreCase = config.ignoreCase /\ config'.cacheTime = config.cacheTime
          /\ config'.routes = config.routes /\ config'.corsConfig = config.corsConfig
      BY <1>1, <3>1, <3>2, AddressSet, Zenon
    <3>4. Moved(cmd)
      BY <1>3, <3>3, NoneMoved, Zenon
    <3>5. UNCHANGED err /\ state' \in {"running", "ready"}
      BY <1>2, <3>1 DEF Calls, Proceed
    <3> QED BY <1>2, <1>3, <3>3, <3>4, <3>5, AttributeSet, Zenon
  <2>2. CASE Len(cmd.args) # 1
    BY <1>5, <2>2, StoppingStep, Zenon DEF configAddr
  <2> QED BY <2>1, <2>2, Zenon
<1> QED BY <1>4, <1>5
\* The field each of the attributes' commands sets.
LEMMA AttributeOf ==
  /\ DOMAIN IntCommands = {"listen-port", "max-pending", "cache-time"}
  /\ IntCommands["listen-port"].field = "port"
  /\ IntCommands["max-pending"].field = "maxPending"
  /\ IntCommands["cache-time"].field = "cacheTime"
  /\ DOMAIN BoolCommands = {"preload", "ignore-case"}
  /\ BoolCommands["preload"] = "preloadDynamic"
  /\ BoolCommands["ignore-case"] = "ignoreCase"
BY SMT DEF IntCommands, IntAttr, BoolCommands

\* listen-port, max-pending and cache-time.
LEMMA NumberCommandStep ==
  ASSUME IInv, NEW cmd \in Commands, configIntAttr(cmd)
  PROVE  IInv'
<1>1. config \in ConfigType
  BY Zenon DEF IInv, TypeOK, ConfigType
<1>2. cmd.cmd \in {"listen-port", "max-pending", "cache-time"} /\ Calls(cmd)
  BY AttributeOf, Zenon DEF configIntAttr
<1>3. cmd.cmd \notin RouteCommands /\ cmd.cmd \notin CorsCommands
  BY <1>2 DEF RouteCommands, CorsCommands
<1>4. CASE Len(cmd.args) = 1 /\ ~ Refused(IntCommands[cmd.cmd], Atoi(cmd.args[1]))
  <2>1. Assign(IntCommands[cmd.cmd].field, Atoi(cmd.args[1])) /\ Proceed
    BY <1>4, Zenon DEF configIntAttr
  <2>2. PICK v \in Int : v = Atoi(cmd.args[1])
    BY <1>4, ConfigAssumption
  <2>3. UNCHANGED err /\ state' \in {"running", "ready"}
    BY <1>2, <2>1 DEF Calls, Proceed
  <2>4. /\ config' \in ConfigType /\ Moved(cmd)
        /\ config'.routes = config.routes /\ config'.corsConfig = config.corsConfig
    <3>1. CASE cmd.cmd = "listen-port"
      <4>1. Assign("port", v)
        BY <2>1, <2>2, <3>1, AttributeOf, Zenon
      <4>2. /\ cmd.cmd # "max-pending" /\ cmd.cmd # "cache-time"
            /\ cmd.cmd # "preload" /\ cmd.cmd # "ignore-case"
        BY <3>1
      <4> QED BY <1>1, <2>2, <3>1, <4>1, <4>2, PortSet, Zenon DEF Moved, Becomes
    <3>2. CASE cmd.cmd = "max-pending"
      <4>1. Assign("maxPending", v)
        BY <2>1, <2>2, <3>2, AttributeOf, Zenon
      <4>2. /\ cmd.cmd # "listen-port" /\ cmd.cmd # "cache-time"
            /\ cmd.cmd # "preload" /\ cmd.cmd # "ignore-case"
        BY <3>2
      <4> QED BY <1>1, <2>2, <3>2, <4>1, <4>2, MaxPendingSet, Zenon DEF Moved, Becomes
    <3>3. CASE cmd.cmd = "cache-time"
      <4>1. Assign("cacheTime", v)
        BY <2>1, <2>2, <3>3, AttributeOf, Zenon
      <4>2. /\ cmd.cmd # "listen-port" /\ cmd.cmd # "max-pending"
            /\ cmd.cmd # "preload" /\ cmd.cmd # "ignore-case"
        BY <3>3
      <4> QED BY <1>1, <2>2, <3>3, <4>1, <4>2, CacheTimeSet, Zenon DEF Moved, Becomes
    <3> QED BY <1>2, <3>1, <3>2, <3>3
  <2> QED BY <1>2, <1>3, <2>3, <2>4, AttributeSet, Zenon
<1>5. CASE ~ (Len(cmd.args) = 1 /\ ~ Refused(IntCommands[cmd.cmd], Atoi(cmd.args[1])))
  BY <1>5, StoppingStep, Zenon DEF configIntAttr
<1> QED BY <1>4, <1>5, Zenon

\* preload and ignore-case.
LEMMA SwitchCommandStep ==
  ASSUME IInv, NEW cmd \in Commands, configBoolAttr(cmd)
  PROVE  IInv'
<1>1. config \in ConfigType
  BY Zenon DEF IInv, TypeOK, ConfigType
<1>2. cmd.cmd \in {"preload", "ignore-case"} /\ Calls(cmd)
  BY AttributeOf, Zenon DEF configBoolAttr
<1>3. cmd.cmd \notin RouteCommands /\ cmd.cmd \notin CorsCommands
  BY <1>2 DEF RouteCommands, CorsCommands
<1>4. CASE Len(cmd.args) = 1 /\ (True(cmd.args[1]) \/ False(cmd.args[1]))
  <2>1. Assign(BoolCommands[cmd.cmd], True(cmd.args[1])) /\ Proceed
    BY <1>4, Zenon DEF configBoolAttr
  <2>2. PICK v \in BOOLEAN : v = True(cmd.args[1])
    <3>1. True(cmd.args[1]) \in BOOLEAN
      BY Zenon DEF True
    <3> QED BY <3>1, Zenon
  <2>3. UNCHANGED err /\ state' \in {"running", "ready"}
    BY <1>2, <2>1 DEF Calls, Proceed
  <2>4. /\ config' \in ConfigType /\ Moved(cmd)
        /\ config'.routes = config.routes /\ config'.corsConfig = config.corsConfig
    <3>1. CASE cmd.cmd = "preload"
      <4>1. Assign("preloadDynamic", v)
        BY <2>1, <2>2, <3>1, AttributeOf, Zenon
      <4>2. /\ cmd.cmd # "listen-port" /\ cmd.cmd # "max-pending"
            /\ cmd.cmd # "cache-time" /\ cmd.cmd # "ignore-case"
        BY <3>1
      <4> QED BY <1>1, <2>2, <3>1, <4>1, <4>2, PreloadDynamicSet, Zenon DEF Moved, Becomes
    <3>2. CASE cmd.cmd = "ignore-case"
      <4>1. Assign("ignoreCase", v)
        BY <2>1, <2>2, <3>2, AttributeOf, Zenon
      <4>2. /\ cmd.cmd # "listen-port" /\ cmd.cmd # "max-pending"
            /\ cmd.cmd # "cache-time" /\ cmd.cmd # "preload"
        BY <3>2
      <4> QED BY <1>1, <2>2, <3>2, <4>1, <4>2, IgnoreCaseSet, Zenon DEF Moved, Becomes
    <3> QED BY <1>2, <3>1, <3>2
  <2> QED BY <1>2, <1>3, <2>3, <2>4, AttributeSet, Zenon
<1>5. CASE ~ (Len(cmd.args) = 1 /\ (True(cmd.args[1]) \/ False(cmd.args[1])))
  BY <1>5, StoppingStep, Zenon DEF configBoolAttr
<1> QED BY <1>4, <1>5, Zenon

-----------------------------------------------------------------------------
(* Routes and CORS entries *)

\* A name that is that of GET or POST, however it is written, is parsed as it.
LEMMA MethodParsed ==
  ASSUME NEW text, MethodsNamed(text) \in {{"GET"}, {"POST"}}
  PROVE  parseHttpMethod(text) \in {"GET", "POST"} /\ SameIcase(parseHttpMethod(text), text)
<1>1. PICK m \in {"GET", "POST"} : MethodsNamed(text) = {m}
  OBVIOUS
<1>2. parseHttpMethod(text) = m
  BY <1>1, Zenon DEF parseHttpMethod
<1>3. SameIcase(text, m)
  BY <1>1, Zenon DEF MethodsNamed
<1> QED BY <1>2, <1>3, Zenon DEF SameIcase

\* The names of the route commands are such names.
LEMMA RouteMethods ==
  ASSUME NEW text \in RouteCommands
  PROVE  MethodsNamed(text) \in {{"GET"}, {"POST"}}
<1>1. Lower("GET") = "get" /\ Lower("POST") = "post" /\ Lower("OPTIONS") = "options"
  BY ConfigAssumption
<1>2. Lower(text) \in {"get", "post"}
  BY ConfigAssumption DEF RouteCommands
<1>3. \A m : m \in MethodsNamed(text) <=> m \in {"GET", "POST", "OPTIONS"} /\ Lower(text) = Lower(m)
  BY Zenon DEF MethodsNamed, Methods, SameIcase
<1> HIDE DEF MethodsNamed
<1>4. CASE Lower(text) = "get"
  <2>1. MethodsNamed(text) = {"GET"}
    BY <1>1, <1>3, <1>4
  <2> QED BY <2>1
<1>5. CASE Lower(text) = "post"
  <2>1. MethodsNamed(text) = {"POST"}
    BY <1>1, <1>3, <1>5
  <2> QED BY <2>1
<1> QED BY <1>2, <1>4, <1>5
\* The entry a well-formed line is for.
LEMMA RouteFields ==
  ASSUME NEW cmd \in Commands, cmd.cmd \in RouteCommands, WellFormedRoute(cmd)
  PROVE  /\ RouteOf(cmd).method \in {"GET", "POST"} /\ SameIcase(RouteOf(cmd).method, cmd.cmd)
         /\ RouteOf(cmd).path = cmd.args[1]
         /\ RouteOf(cmd).handler \in HandlerTypes
         /\ SameIcase(RouteOf(cmd).handler, cmd.args[2])
         /\ cmd.args[1] \in Texts /\ cmd.args[3] \in Texts
<1>1. RouteOf(cmd).method = parseHttpMethod(cmd.cmd) /\ RouteOf(cmd).path = cmd.args[1]
  BY SMT DEF RouteOf
<1>2. PICK h : h = RouteOf(cmd).handler /\ h = CHOOSE x \in HandlersNamed(cmd.args[2]) : TRUE
  BY SMT DEF RouteOf
<1>3. h \in HandlersNamed(cmd.args[2])
  BY <1>2, Zenon DEF WellFormedRoute
<1>4. h \in HandlerTypes /\ SameIcase(cmd.args[2], h)
  BY <1>3, Zenon DEF HandlersNamed
<1>5. cmd.args \in Seq(Texts) /\ Len(cmd.args) = 3
  BY ConfigAssumption DEF WellFormedRoute
<1>6. cmd.args[1] \in Texts /\ cmd.args[3] \in Texts
  BY <1>5
<1>7. parseHttpMethod(cmd.cmd) \in {"GET", "POST"} /\ SameIcase(parseHttpMethod(cmd.cmd), cmd.cmd)
  <2>1. MethodsNamed(cmd.cmd) \in {{"GET"}, {"POST"}}
    BY RouteMethods, Zenon
  <2> QED BY <2>1, MethodParsed
<1> QED BY <1>1, <1>2, <1>4, <1>6, <1>7, Zenon DEF SameIcase

LEMMA RouteStep ==
  ASSUME IInv, NEW cmd \in Commands, addRoute(cmd)
  PROVE  IInv'
<1>1. config \in ConfigType
  BY Zenon DEF IInv, TypeOK, ConfigType
<1>2. cmd.cmd \in RouteCommands /\ Calls(cmd)
  BY Zenon DEF addRoute
<1>3. CASE WellFormedRoute(cmd) /\ ~ Exists(cmd)
  <2> DEFINE Entry == [ method : {"GET", "POST"}, path : Texts, handler : HandlerTypes,
                        handlerPath : Texts, preloaded : BOOLEAN ]
  <2>1. PICK r : r = [ method |-> RouteOf(cmd).method, path |-> cmd.args[1],
                       handler |-> RouteOf(cmd).handler, handlerPath |-> cmd.args[3],
                       preloaded |-> WantsPreload(cmd) ]
    OBVIOUS
  <2>2. Assign("routes", Append(config.routes, r)) /\ Proceed
    BY <1>3, <2>1, Zenon DEF addRoute, PushRoute
  <2>3. WantsPreload(cmd) \in BOOLEAN
    BY Zenon DEF WantsPreload
  <2>4. r \in Entry
    BY <1>2, <1>3, <2>1, <2>3, RouteFields
  <2>5. /\ r.method = RouteOf(cmd).method /\ r.path = cmd.args[1]
        /\ r.handler = RouteOf(cmd).handler
    BY <2>1
  <2>6. r.preloaded <=> WantsPreload(cmd)
    BY <2>1, <2>3, SMT
  <2> HIDE DEF Entry
  <2>7. config.routes \in Seq(Entry) /\ Append(config.routes, r) \in Routes
    <3>1. config.routes \in Routes
      BY <1>1 DEF ConfigType
    <3>2. Routes = Seq(Entry)
      BY Zenon DEF Routes, Entry
    <3> QED BY <2>4, <3>1, <3>2, AppendProperties
  <2>8. /\ config' \in ConfigType /\ Moved(cmd)
        /\ config'.routes = Append(config.routes, r) /\ config'.corsConfig = config.corsConfig
    <3>1. cmd.cmd \notin {"listen-port", "max-pending", "cache-time", "preload", "ignore-case"}
      BY <1>2 DEF RouteCommands
    <3> QED BY <1>1, <2>2, <2>7, <3>1, RoutesSet, NoneMoved, Zenon
  <2>9. /\ Accepted \in Nat /\ Continues /\ program'[Accepted + 1] = cmd
        /\ Accepted' = Accepted + 1 /\ UNCHANGED err
        /\ state \notin {"exited", "crashed"} /\ state' \in {"running", "ready"}
    <3>1. /\ UNCHANGED err /\ state \notin {"exited", "crashed"}
          /\ state' \in {"running", "ready"}
      BY <1>2, <2>2 DEF Calls, Proceed
    <3>2. err' = 0 /\ state' # "crashed"
      BY <1>2, <3>1, LineCalled
    <3> QED BY <1>2, <3>1, <3>2, LineCalled, LineAccepted, Zenon DEF Continues
  <2>10. RoutesAsWritten' /\ PreloadedBySwitch'
    <3>1. \A i \in DOMAIN config.routes : ~ SameRoute(config.routes[i], r)
      BY <1>3, <1>2, <2>5, RouteFields, Zenon DEF Exists, SameRoute
    <3>2. SameIcase(r.method, cmd.cmd) /\ SameIcase(r.handler, cmd.args[2])
      BY <1>2, <1>3, <2>5, RouteFields, Zenon
    <3>3. r.preloaded <=> r.handler = "DCGI" /\ config.preloadDynamic
      BY <2>5, <2>6, Zenon DEF WantsPreload
    <3> QED BY <1>2, <2>4, <2>5, <2>7, <2>8, <2>9, <3>1, <3>2, <3>3, RouteAdded, Zenon DEF IInv
  <2>11. CorsAsWritten'
    <3>1. cmd.cmd \notin CorsCommands
      BY <1>2 DEF RouteCommands, CorsCommands
    <3>2. Lines(CorsCommands)' = Lines(CorsCommands)
      BY <2>9, <3>1, LinesGrow, Zenon DEF Continues
    <3> QED BY <2>8, <2>9, <3>2, CorsUnmoved, Zenon DEF IInv
  <2> QED BY <1>2, <2>8, <2>9, <2>10, <2>11, LineProceeds, Zenon
<1>4. CASE ~ (WellFormedRoute(cmd) /\ ~ Exists(cmd))
  BY <1>4, StoppingStep, Zenon DEF addRoute
<1> QED BY <1>3, <1>4, Zenon

\* A CORS line that is for GET or POST.
LEMMA CorsFields ==
  ASSUME NEW cmd \in Commands, CorsMethod(cmd)
  PROVE  /\ CorsOf(cmd) \in [ method : {"GET", "POST"}, path : Texts \cup {NullText} ]
         /\ SameIcase(CorsOf(cmd).method, cmd.args[1])
         /\ Len(cmd.args) = 2 => CorsOf(cmd).path = cmd.args[2]
<1>1. cmd.args \in Seq(Texts) /\ Len(cmd.args) \in Nat /\ Len(cmd.args) > 0
  BY ConfigAssumption DEF CorsMethod
<1>2. Arg(cmd, 1) = cmd.args[1]
  BY <1>1 DEF Arg
<1>3. Arg(cmd, 2) \in Texts \cup {NullText} /\ (Len(cmd.args) = 2 => Arg(cmd, 2) = cmd.args[2])
  BY <1>1 DEF Arg
<1>4. parseHttpMethod(cmd.args[1]) \in {"GET", "POST"}
      /\ SameIcase(parseHttpMethod(cmd.args[1]), cmd.args[1])
  <2>1. MethodsNamed(cmd.args[1]) \in {{"GET"}, {"POST"}}
    BY Zenon DEF CorsMethod
  <2> QED BY <2>1, MethodParsed
<1>5. /\ CorsOf(cmd) = [method |-> parseHttpMethod(cmd.args[1]), path |-> Arg(cmd, 2)]
      /\ CorsOf(cmd).method = parseHttpMethod(cmd.args[1]) /\ CorsOf(cmd).path = Arg(cmd, 2)
  BY <1>2, SMT DEF CorsOf
<1> QED BY <1>3, <1>4, <1>5

LEMMA CorsStep ==
  ASSUME IInv, NEW cmd \in Commands, addCorsConfig(cmd)
  PROVE  IInv'
<1>1. CASE CorsCrashes(cmd) \/ CorsRefused(cmd)
  BY <1>1, StoppingStep, Zenon
<1>2. CASE CorsAdded(cmd)
  <2>1. config \in ConfigType
    BY Zenon DEF IInv, TypeOK, ConfigType
  <2>2. cmd.cmd \in CorsCommands /\ CorsMethod(cmd) /\ Calls(cmd)
    BY <1>2, Zenon DEF CorsAdded
  <2>3. PICK r : r = CorsOf(cmd)
    OBVIOUS
  <2>4. PICK Entry : Entry = [ method : {"GET", "POST"}, path : Texts \cup {NullText} ]
    OBVIOUS
  <2>5. /\ r \in Entry /\ config.corsConfig \in Seq(Entry)
        /\ Append(config.corsConfig, r) \in Corses
    <3>1. r \in Entry /\ Corses = Seq(Entry)
      BY <2>2, <2>3, <2>4, CorsFields, Zenon DEF Corses
    <3>2. config.corsConfig \in Corses
      BY <2>1 DEF ConfigType
    <3> QED BY <3>1, <3>2, AppendProperties
  <2>6. Assign("corsConfig", Append(config.corsConfig, r))
    BY <1>2, <2>3, Zenon DEF CorsAdded
  <2>7. /\ config' \in ConfigType /\ config'.routes = config.routes
        /\ config'.port = config.port /\ config'.maxPending = config.maxPending
        /\ config'.preloadDynamic = config.preloadDynamic
        /\ config'.ignoreCase = config.ignoreCase /\ config'.cacheTime = config.cacheTime
        /\ config'.corsConfig = Append(config.corsConfig, r)
    BY <2>1, <2>5, <2>6, CorsConfigSet, Zenon
  <2>8. /\ Accepted \in Nat /\ Continues /\ program'[Accepted + 1] = cmd
        /\ program' \in Seq(Commands) /\ err = 0
    BY <2>2, LineCalled, Zenon DEF Continues
  <2>9. CASE Len(cmd.args) = 2
    <3>1. UNCHANGED <<err, state>>
      BY <1>2, <2>9, Zenon DEF CorsAdded, Proceed
    <3>2. state \notin {"exited", "crashed"} /\ state' \in {"running", "ready"} /\ err' = 0
      BY <2>2, <2>8, <3>1 DEF Calls
    <3>3. Accepted' = Accepted + 1
      <4>1. state' # "crashed"
        BY <3>2
      <4> QED BY <2>2, <3>2, <4>1, LineAccepted, Zenon
    <3>4. CorsAsWritten'
      <4>1. \A i \in DOMAIN config.corsConfig : config.corsConfig[i] # r
        <5>1. ~ CorsExists(cmd)
          BY <1>2, <2>9 DEF CorsAdded
        <5> QED BY <2>3, <5>1, Zenon DEF CorsExists
      <4>2. r.path = cmd.args[2] /\ SameIcase(r.method, cmd.args[1])
        BY <2>2, <2>3, <2>9, CorsFields, Zenon
      <4> QED BY <2>2, <2>5, <2>7, <2>8, <2>9, <3>2, <3>3, <4>1, <4>2, CorsLineAdded, Zenon
              DEF IInv
    <3>5. cmd.cmd \notin RouteCommands
          /\ cmd.cmd \notin {"listen-port", "max-pending", "cache-time", "preload", "ignore-case"}
      BY <2>2 DEF RouteCommands, CorsCommands
    <3>6. RoutesAsWritten' /\ PreloadedBySwitch'
      <4>1. Lines(RouteCommands)' = Lines(RouteCommands)
        BY <2>8, <3>3, <3>5, LinesGrow, Zenon DEF Continues
      <4> QED BY <2>7, <2>8, <4>1, RoutesUnmoved, Zenon DEF IInv
    <3>7. Moved(cmd)
      BY <2>7, <3>5, NoneMoved, Zenon
    <3> QED BY <2>2, <2>7, <3>1, <3>2, <3>4, <3>6, <3>7, LineProceeds, Zenon
  <2>10. CASE Len(cmd.args) # 2
    <3>1. err' = -1 /\ state' = "exited"
      BY <1>2, <2>10, Zenon DEF CorsAdded, Stop
    <3>2. Accepted' = Accepted
      <4>1. err' # 0
        BY <3>1
      <4> QED BY <2>2, <4>1, LineRefused, Zenon
    <3>3. LastSettingWins'
      BY <2>7, <2>8, <3>2, SettingsUnmoved, Zenon DEF IInv
    <3>4. RoutesAsWritten' /\ PreloadedBySwitch'
      <4>1. Lines(RouteCommands)' = Lines(RouteCommands)
        BY <2>8, <3>2, LinesKept, Zenon DEF Continues
      <4> QED BY <2>7, <2>8, <4>1, RoutesUnmoved, Zenon DEF IInv
    <3>5. CorsAsWritten' /\ Begun'
      BY <3>1 DEF CorsAsWritten, Begun
    <3>6. TypeOK'
      BY <2>7, <2>8, <3>1 DEF TypeOK, ConfigType
    <3> QED BY <3>3, <3>4, <3>5, <3>6, Zenon DEF IInv
  <2> QED BY <2>9, <2>10
<1> QED BY <1>1, <1>2, Zenon DEF addCorsConfig

-----------------------------------------------------------------------------
(* The theorems *)

LEMMA NextIInv == IInv /\ [Next]_vars => IInv'
<1> SUFFICES ASSUME IInv, [Next]_vars PROVE IInv'
  OBVIOUS
<1>1. CASE CreateRunContext \/ EndOfProgram \/ UNCHANGED vars
  BY <1>1, RunStep, Zenon
<1>2. CASE CreateRunContextFails
  BY <1>2, NoRunStep, Zenon
<1>3. ASSUME NEW cmd \in Commands,
             \/ Language(cmd) \/ NamelessCommand(cmd) \/ UnknownCommand(cmd)
             \/ PreloadFails(cmd) \/ OutOfMemory(cmd)
      PROVE  IInv'
  BY <1>3, StoppingStep, Zenon
<1>4. ASSUME NEW cmd \in Commands, AbortProgram(cmd) \/ configAddr(cmd)
      PROVE  IInv'
  BY <1>4, PlainStep, Zenon
<1>5. ASSUME NEW cmd \in Commands, configIntAttr(cmd)
      PROVE  IInv'
  BY <1>5, NumberCommandStep, Zenon
<1>6. ASSUME NEW cmd \in Commands, configBoolAttr(cmd)
      PROVE  IInv'
  BY <1>6, SwitchCommandStep, Zenon
<1>7. ASSUME NEW cmd \in Commands, addRoute(cmd)
      PROVE  IInv'
  BY <1>7, RouteStep, Zenon
<1>8. ASSUME NEW cmd \in Commands, addCorsConfig(cmd)
      PROVE  IInv'
  BY <1>8, CorsStep, Zenon
<1> QED BY <1>1, <1>2, <1>3, <1>4, <1>5, <1>6, <1>7, <1>8, Zenon DEF Next

THEOREM Invariance == Spec => []IInv
BY InitIInv, NextIInv, PTL DEF Spec

\* The types of the Config and of the run, after any number of lines.
THEOREM TypeCorrect == Spec => []TypeOK
<1>1. IInv => TypeOK
  BY Zenon DEF IInv
<1> QED BY <1>1, Invariance, PTL

\* Every attribute is as the last command for it says, and in the range that
\* the server can be started with (config.c:25-34, 123-258).
THEOREM SettingsWritten == Spec => []SettingsAsWritten
<1>1. IInv => LastSettingWins
  BY Zenon DEF IInv
<1>2. LastSettingWins /\ ServableNumbers => SettingsAsWritten
  BY Zenon DEF SettingsAsWritten
<1> QED BY <1>1, <1>2, Invariance, NumbersServable, PTL

\* The routes are those of the file in its order, none twice (config.c:260-332).
THEOREM RoutesWritten == Spec => []RoutesAsWritten
<1>1. IInv => RoutesAsWritten
  BY Zenon DEF IInv
<1> QED BY <1>1, Invariance, PTL

\* What the README says of preload holds of exactly the files that turn the
\* switch after none of their DCGI routes (config.c:319-327, README.md:61-63).
THEOREM PreloadsAsReadme == Spec => []ReadmeUnlessSwitchedLater
<1>1. IInv => ReadmeUnlessSwitchedLater
  <2> SUFFICES ASSUME IInv PROVE PreloadAsReadme <=> ~ SwitchedLater
    BY DEF ReadmeUnlessSwitchedLater
  <2> DEFINE dcgi(i) == RouteAt(i).handler = "DCGI"
             on(i)   == BoolSetting(i, "preload", FALSE)
  <2>1. \A i \in Lines(RouteCommands) : RouteAt(i).preloaded <=> dcgi(i) /\ on(i)
    BY Zenon DEF IInv, PreloadedBySwitch, RouteAt
  <2>2. config.preloadDynamic \in BOOLEAN
    BY Zenon DEF IInv, TypeOK
  <2>3. \A i \in Lines(RouteCommands) : on(i) \in BOOLEAN
    BY Zenon DEF BoolSetting, True
  <2>4. PreloadAsReadme <=>
          \A i \in Lines(RouteCommands) : RouteAt(i).preloaded <=> dcgi(i) /\ config.preloadDynamic
    BY Zenon DEF PreloadAsReadme
  <2>5. SwitchedLater <=>
          \E i \in Lines(RouteCommands) : dcgi(i) /\ on(i) # config.preloadDynamic
    BY Zenon DEF SwitchedLater
  <2> HIDE DEF dcgi, on
  <2>6. ASSUME NEW i \in Lines(RouteCommands)
        PROVE  (dcgi(i) /\ on(i) # config.preloadDynamic)
                 <=> ~ (RouteAt(i).preloaded <=> dcgi(i) /\ config.preloadDynamic)
    BY <2>1, <2>2, <2>3, Zenon
  <2> QED BY <2>4, <2>5, <2>6, Zenon
<1> QED BY <1>1, Invariance, PTL

\* As long as the run is without error the CORS entries are the two-argument
\* lines of the file, none twice (config.c:342-384).
THEOREM CorsWritten == Spec => []CorsAsWritten
<1>1. IInv => CorsAsWritten
  BY Zenon DEF IInv
<1> QED BY <1>1, Invariance, PTL
=============================================================================
