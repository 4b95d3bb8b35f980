---------------------------- MODULE StartupProofs ----------------------------
(***************************************************************************)
(* What the start-up leaves behind, for every content of the directories,  *)
(* every configuration and every number of crashes and changes; and that   *)
(* the started agent is the one of Agent, so that what is proved of it     *)
(* holds across restarts.                                                  *)
(***************************************************************************)
EXTENDS Startup, FiniteSetTheorems, TLAPS

-----------------------------------------------------------------------------
(* The agent once it is up: no request calls a destroyed collector, for    *)
(* every set of services and every number of collectors.  NoDanglingCall   *)
(* alone is not inductive: it needs that what a lookup may find exists     *)
(* (Reachable), and that the collector addService() has still to push or   *)
(* to destroy exists and cannot be found (Unpublished).                    *)

Reachable ==
    /\ \A id \in Services : registry[id] # 0 => collectors[registry[id]].exists
    /\ target # 0 => collectors[target].exists

Unpublished ==
    finder \in {"insert", "compare"} =>
       /\ Len(collectors) # 0 /\ collectors[Len(collectors)].exists
       /\ \A id \in Services : registry[id] # Len(collectors)
       /\ target # Len(collectors)

Ind == TypeOK /\ Reachable /\ Unpublished

(* The state main() starts from: nothing is registered and nobody asks.    *)
LEMMA InitInd == Init => Ind
<1> SUFFICES ASSUME Init PROVE Ind
    OBVIOUS
<1>1. TypeOK
  <2>1. collectors \in Seq(Collectors) /\ Len(collectors) = 0
    BY DEF Init
  <2>. QED
    BY <2>1, AgentAssumption DEF Init, TypeOK
<1>2. Reachable /\ Unpublished
  BY DEF Init, Reachable, Unpublished
<1>. QED
  BY <1>1, <1>2 DEF Ind

(* The collector that addService() is working on.                          *)
LEMMA Newest ==
    ASSUME Ind, finder \in {"insert", "compare"}
    PROVE  /\ New \in 1 .. Len(collectors)
           /\ collectors[New] \in Collectors
           /\ collectors[New].exists
<1>1. Len(collectors) \in Nat
  BY DEF Ind, TypeOK
<1>2. Len(collectors) # 0
  BY DEF Ind, Unpublished
<1>3. New \in 1 .. Len(collectors)
  BY <1>1, <1>2 DEF New
<1>4. collectors[New] \in Collectors
  BY <1>3 DEF Ind, TypeOK
<1>5. collectors[New].exists
  BY DEF Ind, Unpublished, New
<1>. QED
  BY <1>3, <1>4, <1>5

(* The steps of main() and of the two threads, and a crash, preserve the   *)
(* invariant.                                                              *)
LEMMA NextInd == Ind /\ [Next]_vars => Ind'
<1> SUFFICES ASSUME Ind, [Next]_vars PROVE Ind'
    OBVIOUS
<1> USE DEF Ind, TypeOK, Reachable, Unpublished
<1>1. CASE StartThreads
  BY <1>1 DEF StartThreads
<1>2. CASE ServerStart
  BY <1>2 DEF ServerStart
<1>3. ASSUME NEW id \in Services, MakeCollector(id) PROVE Ind'
  <2>1. /\ collectors' \in Seq(Collectors)
        /\ Len(collectors') = Len(collectors) + 1
        /\ \A i \in 1 .. Len(collectors) : collectors'[i] = collectors[i]
    BY <1>3 DEF MakeCollector, Collectors
  <2>2. TypeOK'
    BY <1>3, <2>1, AgentAssumption DEF MakeCollector
  <2>3. Reachable'
    BY <1>3, <2>1 DEF MakeCollector
  <2>4. Unpublished'
    BY <1>3, <2>1 DEF MakeCollector
  <2>. QED
    BY <2>2, <2>3, <2>4
<1>4. CASE AddRoute
  <2>1. New \in 1 .. Len(collectors) /\ collectors[New] \in Collectors
    BY <1>4, Newest DEF AddRoute
  <2>2. routes' \in [Services -> 0 .. Len(collectors)]
    BY <1>4, <2>1 DEF AddRoute, Collectors
  <2>. QED
    BY <1>4, <2>2 DEF AddRoute
<1>5. CASE PushService
  <2>1. New \in 1 .. Len(collectors) /\ collectors[New].exists
    BY <1>5, Newest DEF PushService
  <2>2. registry' \in [Services -> 0 .. Len(collectors)]
    <3>1. New \in 0 .. Len(collectors)
      BY <2>1
    <3>2. registry' = [registry EXCEPT ![collectors[New].id] =
                         IF registry[collectors[New].id] = 0 THEN New
                         ELSE registry[collectors[New].id]]
      BY <1>5 DEF PushService
    <3>3. collectors[New].id \in Services
      BY <1>5, Newest DEF PushService, Collectors
    <3>. QED
      BY <3>1, <3>2, <3>3
  <2>3. \A id \in Services : registry'[id] = registry[id] \/ registry'[id] = New
    BY <1>5 DEF PushService
  <2>4. TypeOK' /\ Unpublished'
    BY <1>5, <2>2 DEF PushService
  <2>5. Reachable'
    BY <1>5, <2>1, <2>3 DEF PushService
  <2>. QED
    BY <2>4, <2>5
<1>6. CASE DropService
  <2>1. New \in 1 .. Len(collectors) /\ collectors[New] \in Collectors
    BY <1>6, Newest DEF DropService
  <2>2. PICK c \in Collectors : collectors' = [collectors EXCEPT ![New] = c]
    <3>1. [collectors[New] EXCEPT !.exists = FALSE] \in Collectors
      BY <2>1 DEF Collectors
    <3>. QED
      BY <1>6, <3>1 DEF DropService
  <2>3. /\ collectors' \in Seq(Collectors)
        /\ Len(collectors') = Len(collectors)
        /\ \A i \in 1 .. Len(collectors) :
              i # Len(collectors) => collectors'[i] = collectors[i]
    BY <2>1, <2>2 DEF New
  <2>4. TypeOK' /\ Unpublished'
    BY <1>6, <2>3 DEF DropService
  <2>5. ASSUME NEW id \in Services, registry[id] # 0
        PROVE  collectors'[registry[id]].exists
    <3>1. registry[id] \in 1 .. Len(collectors) /\ registry[id] # Len(collectors)
      BY <1>6, <2>5 DEF DropService
    <3>2. collectors'[registry[id]] = collectors[registry[id]]
      BY <2>3, <3>1
    <3>. QED
      BY <2>5, <3>2
  <2>6. ASSUME target # 0 PROVE collectors'[target].exists
    <3>1. target \in 1 .. Len(collectors) /\ target # Len(collectors)
      BY <1>6, <2>6 DEF DropService
    <3>2. collectors'[target] = collectors[target]
      BY <2>3, <3>1
    <3>. QED
      BY <2>6, <3>2
  <2>7. Reachable'
    BY <1>6, <2>5, <2>6 DEF DropService
  <2>. QED
    BY <2>4, <2>7
<1>7. ASSUME NEW id \in Services, Request(id) PROVE Ind'
  BY <1>7 DEF Request
<1>8. CASE FindResource
  BY <1>8 DEF FindResource, Match
<1>9. CASE Respond
  BY <1>9 DEF Respond
<1>10. CASE Crash \/ ServerFails
  <2>0. Crash
    BY <1>10 DEF ServerFails
  <2>1. collectors' \in Seq(Collectors) /\ Len(collectors') = 0
    BY <2>0 DEF Crash
  <2>2. TypeOK'
    BY <2>0, <2>1, AgentAssumption DEF Crash
  <2>3. Reachable' /\ Unpublished'
    BY <2>0 DEF Crash
  <2>. QED
    BY <2>2, <2>3
<1>11. CASE UNCHANGED vars
  BY <1>11 DEF vars
<1>. QED
  BY <1>1, <1>2, <1>3, <1>4, <1>5, <1>6, <1>7, <1>8, <1>9, <1>10, <1>11 DEF Next

(* The invariant holds in every reachable state.                           *)
LEMMA IndInvariant == Spec => []Ind
BY InitInd, NextInd, PTL DEF Spec

(* For any number of services and collectors a request never calls a       *)
(* destroyed collector (find_resource() and doGetCollectorHistory()).      *)
THEOREM NoDanglingCallHolds == Spec => []NoDanglingCall
<1>1. Ind => NoDanglingCall
  BY DEF Ind, Reachable, NoDanglingCall
<1>. QED
  BY <1>1, IndInvariant, PTL

(* The registry, the routes and the request only name collectors that were *)
(* made, whatever the interleaving of addService() and the lookup.         *)
THEOREM AgentTypeCorrect == Spec => []TypeOK
<1>1. Ind => TypeOK
  BY DEF Ind
<1>. QED
  BY <1>1, IndInvariant, PTL

-----------------------------------------------------------------------------
(* The inductive invariant of the start-up                                 *)

(* Where main() is once a directory has been closed.                       *)
After(dir) ==
    CASE dir = "config_dir" -> {"services_cpp", "services_lua", "collectors_cpp",
                                "collectors_lua", "save", "writing"}
      [] dir = "services_cpp" -> {"services_lua", "collectors_cpp", "collectors_lua",
                                  "save", "writing"}
      [] dir = "services_lua" -> {"collectors_cpp", "collectors_lua", "save", "writing"}
      [] dir = "collectors_cpp" -> {"collectors_lua", "save", "writing"}
      [] dir = "collectors_lua" -> {"save", "writing"}

Reading == {"config_dir"} \cup After("config_dir")

Booting == {"server"} \cup Reading

(* The entries that this process has been through.                         *)
Loaded == {e \in files : boot \in After(e.dir) \/ (e.dir = boot /\ e \notin pending)}

CppDirs == {"services_cpp", "collectors_cpp"}

Library(e, f) == IsPlugin(e) /\ e.works /\ f \in Made(e) /\ e.dir \in CppDirs

LuaFile(e, f) == IsPlugin(e) /\ f \in Made(e) /\ e.dir \in {"services_lua", "collectors_lua"}

(* Who makes f when the entries S have been loaded, after SelfCollector    *)
(* has registered itself or before.                                        *)
Own(S, self, f) ==
    self /\ f = <<"collector", "self">>
         /\ \A e \in S : Library(e, f) => e.dir # "collectors_cpp"

MakerOf(S, self, f) ==
    IF Own(S, self, f) THEN "builtin"
    ELSE IF \E e \in S : Library(e, f) THEN "cpp"
    ELSE IF \E e \in S : LuaFile(e, f) THEN "lua" ELSE "none"

SelfKnown == boot \in After("services_cpp")

(* The order of readdir() leaves no trace in the factories ...             *)
Registered ==
    /\ boot \in {"down", "server"} => factory = NoFactory /\ chain = {}
    /\ boot \in Reading =>
         \A f \in Factories \X Names : factory[f] = MakerOf(Loaded, SelfKnown, f)

CppDetector(e) ==
    IsPlugin(e) /\ e.works /\ e.dir = "services_cpp" /\ "detector" \in e.types

LuaDetector(e) == IsPlugin(e) /\ e.dir = "services_lua" /\ "detector" \in e.types

(* ... nor in the detectors that init() goes through after the libraries.  *)
Detectors ==
    boot \in {"config_dir", "services_cpp"} =>
        \A n \in Names : <<"detector", n, "cpp">> \in chain
                            <=> \E e \in Loaded : CppDetector(e) /\ e.name = n

(* The file has what the administrator set, and so has the memory from     *)
(* which it is written.                                                    *)
Faithful == (file # Torn => Keeps(file)) /\ (boot \in Booting => Keeps(data))

Defaulted(d) ==
    /\ \A o \in Options : d[<<"server", o>>] # "unset"
    /\ d[<<"server", "thread">>] = "unset" => d[<<"server", "threads">>] = "default"

Canonical(d) == Level(d[<<"log", "level">>]) = d[<<"log", "level">>]

Detected(d, n) == d[<<n, "detector">>] # "unset"

Polled(d, n) == \A k \in PerCollector : d[<<n, k>>] # "unset"

(* What the steps made so far have put into the configuration.             *)
Progress ==
    /\ boot \in Booting => Defaulted(data)
    /\ boot \in Reading => Canonical(data)
    /\ boot \in After("services_cpp") =>
         \A e \in files : CppDetector(e) => Detected(data, e.name)
    /\ boot \in Reading =>
         \A e \in Loaded : LuaDetector(e) => Detected(data, e.name)
    /\ boot \in After("services_lua") => Detected(data, "socket")

(* Every collector of the system is configured when the Lua ones are       *)
(* loaded, and stays so.                                                   *)
Configured ==
    boot \in {"collectors_lua", "save", "writing", "up"} =>
        \A n \in Names : factory[<<"system", n>>] # "none" => Polled(data, n)

SystemPlugin(e) ==
    \/ \E n \in Names : Library(e, <<"system", n>>)
    \/ \E n \in Names : LuaFile(e, <<"system", n>>)

(* A configuration to which no step of the start-up has anything to add.   *)
Settled(d) ==
    /\ Defaulted(d) /\ Canonical(d)
    /\ \A e \in files : CppDetector(e) \/ LuaDetector(e) => Detected(d, e.name)
    /\ Detected(d, "socket")
    /\ \A e \in files : SystemPlugin(e) => Polled(d, e.name)

(* What was written once is all that is read, held and written from then   *)
(* on.                                                                     *)
Stable ==
    \A d \in saved :
        /\ d \in Configurations /\ saved = {d} /\ Settled(d)
        /\ file \in {Torn, d}
        /\ boot \in Booting => data = d

BootInd ==
    BootTypeOK /\ Registered /\ Detectors /\ Faithful /\ Progress /\ Configured /\ Stable

-----------------------------------------------------------------------------
(* The directories, the levels and the settings                            *)

(* The five directories and their order.                                   *)
LEMMA DirsFacts ==
    /\ Range(Dirs) = {"config_dir", "services_cpp", "services_lua", "collectors_cpp",
                      "collectors_lua"}
    /\ Head(Dirs) = "config_dir" /\ Last(Dirs) = "collectors_lua"
BY DEF Range, Dirs, Last

NextDir(dir) == Dirs[1 + CHOOSE i \in 1 .. 4 : Dirs[i] = dir]

(* The directory that follows each one.                                    *)
LEMMA NextDirFacts ==
    /\ NextDir("config_dir") = "services_cpp"
    /\ NextDir("services_cpp") = "services_lua"
    /\ NextDir("services_lua") = "collectors_cpp"
    /\ NextDir("collectors_cpp") = "collectors_lua"
<1>1. (CHOOSE i \in 1 .. 4 : Dirs[i] = "config_dir") = 1
  BY DEF Dirs
<1>2. (CHOOSE i \in 1 .. 4 : Dirs[i] = "services_cpp") = 2
  BY DEF Dirs
<1>3. (CHOOSE i \in 1 .. 4 : Dirs[i] = "services_lua") = 3
  BY DEF Dirs
<1>4. (CHOOSE i \in 1 .. 4 : Dirs[i] = "collectors_cpp") = 4
  BY DEF Dirs
<1>. QED
  BY <1>1, <1>2, <1>3, <1>4 DEF NextDir, Dirs

(* log::log() writes a level in its own spelling, which it then keeps.     *)
LEMMA LevelFacts ==
    \A l : /\ Level(l) \in Range(Levels) /\ Level(l) # "unset"
           /\ Level(Level(l)) = Level(l)
<1>1. Range(Levels) = {"NONE", "ERROR", "WARN", "NOTICE", "INFO", "DEBUG", "ALL"}
  BY DEF Range, Levels
<1>. QED
  BY <1>1 DEF Level, Upper

(* A setting is a pair, and the ones that the code names exist.            *)
LEMMA SettingsFacts ==
    /\ \A s \in Settings : s = <<s[1], s[2]>>
    /\ \A o \in Options : <<"server", o>> \in Settings
    /\ <<"server", "thread">> \in Settings /\ <<"server", "threads">> \in Settings
    /\ <<"log", "level">> \in Settings
    /\ \A n \in Names : /\ <<n, "detector">> \in Settings
                        /\ \A k \in PerCollector : <<n, k>> \in Settings
BY DEF Settings

(* A configuration is a function of the settings.                          *)
LEMMA ConfigurationsFacts ==
    ASSUME NEW d \in Configurations
    PROVE  d = [s \in Settings |-> d[s]] /\ DOMAIN d = Settings
BY DEF Configurations

(* What only replaces values by a default is a configuration.              *)
LEMMA FilledType ==
    ASSUME NEW d \in Configurations, NEW c,
           c = [s \in Settings |-> c[s]],
           \A s \in Settings : c[s] = d[s] \/ c[s] \in Values
    PROVE  c \in Configurations
BY DEF Configurations

(* d has in e all that it has in d, and defaults for the rest.             *)
Fills(d, e) ==
    /\ e \in Configurations
    /\ \A s \in Settings : d[s] # "unset" => e[s] = d[s]
    /\ \A s \in Settings : s[1] = "server" /\ s[2] \in {"thread", "threads"} => e[s] = d[s]

(* getDetectorCfg() only adds.                                             *)
LEMMA DetectorCfgFills ==
    ASSUME NEW d \in Configurations, NEW names \in SUBSET Names
    PROVE  /\ Fills(d, DetectorCfg(d, names))
           /\ \A n \in names : Detected(DetectorCfg(d, names), n)
           /\ (\A n \in names : Detected(d, n)) => DetectorCfg(d, names) = d
<1> DEFINE c == DetectorCfg(d, names)
<1>1. \A s \in Settings : c[s] = IF s[1] \in names /\ s[2] = "detector" /\ d[s] = "unset"
                                 THEN "default" ELSE d[s]
  BY DEF DetectorCfg
<1>2. c = [s \in Settings |-> c[s]]
  BY DEF DetectorCfg
<1>3. c \in Configurations
  <2>1. \A s \in Settings : c[s] = d[s] \/ c[s] \in Values
    BY <1>1 DEF Values
  <2>. HIDE DEF c
  <2>. QED
    BY <1>2, <2>1, FilledType
<1>. HIDE DEF c
<1>4. Fills(d, c)
  BY <1>1, <1>3 DEF Fills
<1>5. \A n \in names : Detected(c, n)
  BY <1>1, SettingsFacts DEF Detected
<1>6. (\A n \in names : Detected(d, n)) => c = d
  <2>1. SUFFICES ASSUME \A n \in names : Detected(d, n), NEW s \in Settings PROVE c[s] = d[s]
    BY <1>2, ConfigurationsFacts
  <2>2. s = <<s[1], s[2]>>
    BY SettingsFacts
  <2>. QED
    BY <1>1, <2>1, <2>2 DEF Detected
<1>. QED
  BY <1>4, <1>5, <1>6 DEF c

(* getCollector() and Collector::Collector() only add.                     *)
LEMMA CollectorCfgFills ==
    ASSUME NEW d \in Configurations, NEW names \in SUBSET Names, NEW rate \in Values
    PROVE  /\ Fills(d, CollectorCfg(d, names, rate))
           /\ rate # "unset" => \A n \in names : Polled(CollectorCfg(d, names, rate), n)
           /\ (\A n \in names : Polled(d, n)) => CollectorCfg(d, names, rate) = d
<1> DEFINE c == CollectorCfg(d, names, rate)
<1>1. \A s \in Settings :
         c[s] = IF s[1] \in names /\ s[2] \in {"history", "poll-frequency"} /\ d[s] = "unset"
                THEN rate
                ELSE IF s[1] \in names /\ s[2] = "enable" /\ d[s] = "unset"
                THEN "default" ELSE d[s]
  BY DEF CollectorCfg
<1>2. c = [s \in Settings |-> c[s]]
  BY DEF CollectorCfg
<1>3. c \in Configurations
  <2>1. \A s \in Settings : c[s] = d[s] \/ c[s] \in Values
    BY <1>1 DEF Values
  <2>. HIDE DEF c
  <2>. QED
    BY <1>2, <2>1, FilledType
<1>. HIDE DEF c
<1>4. Fills(d, c)
  BY <1>1, <1>3 DEF Fills
<1>5. rate # "unset" => \A n \in names : Polled(c, n)
  BY <1>1, SettingsFacts DEF Polled, PerCollector
<1>6. (\A n \in names : Polled(d, n)) => c = d
  <2>1. SUFFICES ASSUME \A n \in names : Polled(d, n), NEW s \in Settings PROVE c[s] = d[s]
    BY <1>2, ConfigurationsFacts
  <2>2. s = <<s[1], s[2]>>
    BY SettingsFacts
  <2>. QED
    BY <1>1, <2>1, <2>2 DEF Polled, PerCollector
<1>. QED
  BY <1>4, <1>5, <1>6 DEF c

(* Filling twice is filling.                                               *)
LEMMA FillsTwice ==
    ASSUME NEW d, NEW c, NEW e, Fills(d, c), Fills(c, e)
    PROVE  Fills(d, e)
BY DEF Fills

(* LuaCollector::LuaCollector() only adds, and leaves nothing unset.       *)
LEMMA LuaCfgFills ==
    ASSUME NEW d \in Configurations, NEW n \in Names
    PROVE  /\ Fills(d, LuaCfg(d, n))
           /\ Polled(LuaCfg(d, n), n)
           /\ Polled(d, n) => LuaCfg(d, n) = d
<1> DEFINE c == CollectorCfg(d, {n}, "unset")
<1>1. "unset" \in Values /\ "lua" \in Values /\ "lua" # "unset" /\ {n} \in SUBSET Names
  BY DEF Values
<1>2. Fills(d, c) /\ (Polled(d, n) => c = d)
  BY <1>1, CollectorCfgFills
<1>3. c \in Configurations
  BY <1>2 DEF Fills
<1>4. LuaCfg(d, n) = CollectorCfg(c, {n}, "lua")
  BY DEF LuaCfg
<1>. HIDE DEF c
<1>5. /\ Fills(c, CollectorCfg(c, {n}, "lua"))
      /\ Polled(CollectorCfg(c, {n}, "lua"), n)
      /\ Polled(c, n) => CollectorCfg(c, {n}, "lua") = c
  BY <1>1, <1>3, CollectorCfgFills
<1>. QED
  BY <1>2, <1>4, <1>5, FillsTwice

(* What is set stays set.                                                  *)
LEMMA FillsKeeps ==
    ASSUME NEW d \in Configurations, NEW c, Fills(d, c)
    PROVE  /\ Keeps(d) => Keeps(c)
           /\ Defaulted(d) => Defaulted(c)
           /\ Canonical(d) => Canonical(c)
           /\ \A n \in Names : Detected(d, n) => Detected(c, n)
           /\ \A n \in Names : Polled(d, n) => Polled(c, n)
<1>1. Keeps(d) => Keeps(c)
  <2>1. SUFFICES ASSUME Keeps(d), NEW s \in Settings, wrote[s] # "unset" PROVE Kept(c, s)
    BY DEF Keeps
  <2>2. Kept(d, s)
    BY <2>1 DEF Keeps
  <2>3. CASE s = <<"log", "level">>
    <3>1. d[s] \in {wrote[s], Level(wrote[s])}
      BY <2>2, <2>3 DEF Kept
    <3>2. d[s] # "unset"
      BY <2>1, <3>1, LevelFacts
    <3>. QED
      BY <2>3, <3>1, <3>2 DEF Kept, Fills
  <2>4. CASE s = <<"server", "threads">>
    BY <2>2, <2>4 DEF Kept, Fills
  <2>5. CASE s # <<"log", "level">> /\ s # <<"server", "threads">>
    BY <2>1, <2>2, <2>5 DEF Kept, Fills
  <2>. QED
    BY <2>3, <2>4, <2>5
<1>2. Defaulted(d) => Defaulted(c)
  BY SettingsFacts DEF Defaulted, Fills
<1>3. Canonical(d) => Canonical(c)
  <2>1. Canonical(d) => d[<<"log", "level">>] # "unset"
    BY LevelFacts DEF Canonical
  <2>. QED
    BY <2>1, SettingsFacts DEF Canonical, Fills
<1>4. \A n \in Names : Detected(d, n) => Detected(c, n)
  BY SettingsFacts DEF Detected, Fills
<1>5. \A n \in Names : Polled(d, n) => Polled(c, n)
  BY SettingsFacts DEF Polled, Fills
<1>. QED
  BY <1>1, <1>2, <1>3, <1>4, <1>5

(* Config::Config() keeps what is written, and has nothing to add the      *)
(* second time.                                                            *)
LEMMA ConfigFacts ==
    ASSUME NEW d \in Configurations
    PROVE  /\ Config(d) \in Configurations
           /\ Keeps(d) => Keeps(Config(d))
           /\ Defaulted(Config(d))
           /\ Defaulted(d) => Config(d) = d
<1> DEFINE c == Config(d)
<1>1. \A s \in Settings :
         c[s] = IF \/ s[1] = "server" /\ s[2] \in Options /\ d[s] = "unset"
                   \/ s = <<"server", "threads">> /\ d[<<"server", "thread">>] = "unset"
                THEN "default" ELSE d[s]
  BY DEF Config
<1>2. c = [s \in Settings |-> c[s]]
  BY DEF Config
<1>3. c \in Configurations
  <2>1. \A s \in Settings : c[s] = d[s] \/ c[s] \in Values
    BY <1>1 DEF Values
  <2>. HIDE DEF c
  <2>. QED
    BY <1>2, <2>1, FilledType
<1>. HIDE DEF c
<1>4. Keeps(d) => Keeps(c)
  <2>1. SUFFICES ASSUME Keeps(d), NEW s \in Settings, wrote[s] # "unset" PROVE Kept(c, s)
    BY DEF Keeps
  <2>2. Kept(d, s)
    BY <2>1 DEF Keeps
  <2>3. CASE s = <<"log", "level">>
    BY <1>1, <2>2, <2>3 DEF Kept
  <2>4. CASE s = <<"server", "threads">>
    <3>1. SUFFICES ASSUME wrote[<<"server", "thread">>] # "unset" PROVE c[s] = wrote[s]
      BY <2>4 DEF Kept
    <3>2. d[<<"server", "thread">>] = wrote[<<"server", "thread">>]
      BY <2>1, <3>1, SettingsFacts DEF Keeps, Kept
    <3>3. d[s] = wrote[s]
      BY <2>2, <2>4, <3>1 DEF Kept
    <3>. QED
      BY <1>1, <2>1, <3>1, <3>2, <3>3
  <2>5. CASE s # <<"log", "level">> /\ s # <<"server", "threads">>
    BY <1>1, <2>1, <2>2, <2>5 DEF Kept
  <2>. QED
    BY <2>3, <2>4, <2>5
<1>5. Defaulted(c)
  BY <1>1, SettingsFacts DEF Defaulted
<1>6. Defaulted(d) => c = d
  <2>1. SUFFICES ASSUME Defaulted(d), NEW s \in Settings PROVE c[s] = d[s]
    BY <1>2, ConfigurationsFacts
  <2>2. s = <<s[1], s[2]>>
    BY SettingsFacts
  <2>. QED
    BY <1>1, <2>1, <2>2 DEF Defaulted
<1>. QED
  BY <1>3, <1>4, <1>5, <1>6 DEF c

(* HttpServer::HttpServer() rewrites the level, and keeps the rest.        *)
LEMMA LevelCfg ==
    ASSUME NEW d \in Configurations, NEW c,
           c = [d EXCEPT ![<<"log", "level">>] = Level(d[<<"log", "level">>])]
    PROVE  /\ c \in Configurations
           /\ Keeps(d) => Keeps(c)
           /\ Defaulted(d) => Defaulted(c)
           /\ Canonical(c)
           /\ Canonical(d) => c = d
<1>1. /\ c = [s \in Settings |-> c[s]]
      /\ \A s \in Settings : s # <<"log", "level">> => c[s] = d[s]
      /\ c[<<"log", "level">>] = Level(d[<<"log", "level">>])
  BY ConfigurationsFacts, SettingsFacts
<1>2. c \in Configurations
  BY <1>1, LevelFacts DEF Configurations
<1>3. Keeps(d) => Keeps(c)
  <2>1. SUFFICES ASSUME Keeps(d), NEW s \in Settings, wrote[s] # "unset" PROVE Kept(c, s)
    BY DEF Keeps
  <2>2. Kept(d, s)
    BY <2>1 DEF Keeps
  <2>3. CASE s = <<"log", "level">>
    BY <1>1, <2>2, <2>3, LevelFacts DEF Kept
  <2>4. CASE s # <<"log", "level">>
    BY <1>1, <2>2, <2>4 DEF Kept
  <2>. QED
    BY <2>3, <2>4
<1>4. Defaulted(d) => Defaulted(c)
  BY <1>1, SettingsFacts DEF Defaulted
<1>5. Canonical(c)
  BY <1>1, LevelFacts DEF Canonical
<1>6. Canonical(d) => c = d
  BY <1>1, ConfigurationsFacts DEF Canonical
<1>. QED
  BY <1>2, <1>3, <1>4, <1>5, <1>6

-----------------------------------------------------------------------------
(* The makers of a name                                                    *)

(* An entry that provides nothing of this name.                            *)
LEMMA MakerOther ==
    ASSUME NEW S, NEW self \in BOOLEAN, NEW f, NEW e, ~Library(e, f), ~LuaFile(e, f)
    PROVE  MakerOf(S \cup {e}, self, f) = MakerOf(S, self, f)
BY DEF MakerOf, Own

(* A library that loads takes the name over, also from the agent itself    *)
(* when the latter has registered before.                                  *)
LEMMA MakerLibrary ==
    ASSUME NEW S, NEW self \in BOOLEAN, NEW f, NEW e, Library(e, f),
           self => e.dir = "collectors_cpp"
    PROVE  MakerOf(S \cup {e}, self, f) = "cpp"
BY DEF MakerOf, Own

(* A Lua file only gets a name that is free.                               *)
LEMMA MakerLua ==
    ASSUME NEW S, NEW self \in BOOLEAN, NEW f, NEW e, LuaFile(e, f)
    PROVE  MakerOf(S \cup {e}, self, f) =
              IF MakerOf(S, self, f) = "none" THEN "lua" ELSE MakerOf(S, self, f)
<1>1. ~Library(e, f)
  BY DEF Library, LuaFile, CppDirs
<1>. QED
  BY <1>1 DEF MakerOf, Own

(* SelfCollector registers itself before any library of the collectors of  *)
(* the system is loaded.                                                   *)
LEMMA MakerSelf ==
    ASSUME NEW S, NEW f, \A e \in S : e.dir # "collectors_cpp"
    PROVE  MakerOf(S, TRUE, f) =
              IF f = <<"collector", "self">> THEN "builtin" ELSE MakerOf(S, FALSE, f)
BY DEF MakerOf, Own

(* A maker is one of the four kinds.                                       *)
LEMMA MakerType ==
    ASSUME NEW S, NEW self \in BOOLEAN, NEW f
    PROVE  MakerOf(S, self, f) \in Makers
BY DEF MakerOf, Makers

-----------------------------------------------------------------------------
(* Where main() is                                                         *)

(* The places of main() in their order.                                    *)
LEMMA AfterFacts ==
    /\ After("config_dir") = {"services_cpp", "services_lua", "collectors_cpp",
                              "collectors_lua", "save", "writing"}
    /\ After("services_cpp") = {"services_lua", "collectors_cpp", "collectors_lua",
                                "save", "writing"}
    /\ After("services_lua") = {"collectors_cpp", "collectors_lua", "save", "writing"}
    /\ After("collectors_cpp") = {"collectors_lua", "save", "writing"}
    /\ After("collectors_lua") = {"save", "writing"}
BY DEF After

(* An entry of a directory is in one of the five.                          *)
LEMMA EntryFacts ==
    ASSUME NEW e \in Files
    PROVE  /\ e \in FileType /\ e.name \in Names
           /\ e.dir \in {"config_dir", "services_cpp", "services_lua", "collectors_cpp",
                         "collectors_lua"}
           /\ e.types \subseteq {"system", "collector", "logParser", "handler", "enhancer",
                                 "detector"}
BY StartupAssumption, DirsFacts DEF FileType

(* The entries that readdir() has yet to return are those of the directory *)
(* that main() reads.                                                      *)
LEMMA PendingFacts ==
    ASSUME BootTypeOK
    PROVE  /\ \A e \in pending : e \in files /\ e \in Files /\ e.dir = boot
                                   /\ boot \in Range(Dirs) /\ boot \in Reading
           /\ boot \notin Range(Dirs) => pending = {}
<1>1. \A e \in pending : e \in files /\ e \in Files /\ e.dir = boot
  BY DEF BootTypeOK
<1>2. \A e \in pending : boot \in Range(Dirs)
  BY <1>1, EntryFacts, DirsFacts
<1>3. Range(Dirs) \subseteq Reading
  BY DirsFacts, AfterFacts DEF Reading
<1>. QED
  BY <1>1, <1>2, <1>3

(* Returning from readdir() with e adds it to what has been loaded.        *)
LEMMA LoadedOne ==
    ASSUME BootTypeOK, NEW e \in pending,
           boot' = boot, files' = files, pending' = pending \ {e}
    PROVE  Loaded' = Loaded \cup {e} /\ e \notin Loaded
<1>1. e \in files /\ e.dir = boot
  BY PendingFacts
<1>2. boot \notin After(boot)
  BY <1>1, PendingFacts, DirsFacts, AfterFacts
<1>. QED
  BY <1>1, <1>2 DEF Loaded

-----------------------------------------------------------------------------
(* Each step preserves the invariant                                       *)

(* The state before main() is first run.                                   *)
LEMMA BootInitInd == BootInit => BootInd
<1> SUFFICES ASSUME BootInit PROVE BootInd
    OBVIOUS
<1>1. boot = "down" /\ boot \notin Booting /\ boot \notin Reading
  BY AfterFacts DEF BootInit, Booting, Reading
<1>2. file \in Configurations /\ file # Torn /\ wrote = file
  BY StartupAssumption DEF BootInit
<1>3. BootTypeOK
  <2>1. data \in Configurations
    BY DEF BootInit, Unset, Configurations, Values
  <2>2. factory \in [Factories \X Names -> Makers]
    BY DEF BootInit, NoFactory, Makers
  <2>3. phase = "init"
    BY DEF BootInit, Init
  <2>. QED
    BY <1>1, <1>2, <2>1, <2>2, <2>3, StartupAssumption DEF BootInit, BootTypeOK
<1>4. Registered /\ Detectors /\ Progress /\ Configured
  BY <1>1, AfterFacts DEF BootInit, Registered, Detectors, Progress, Configured
<1>5. Faithful
  BY <1>1, <1>2 DEF Faithful, Keeps, Kept
<1>6. Stable
  BY DEF BootInit, Stable
<1>. QED
  BY <1>3, <1>4, <1>5, <1>6 DEF BootInd

(* An exception or a crash leaves only the disk.                           *)
LEMMA DownInd ==
    ASSUME BootInd, Down, UNCHANGED disk, phase' = "init", crashes' \in 0 .. MaxCrashes
    PROVE  BootInd'
<1>1. boot' = "down" /\ boot' \notin Booting /\ boot' \notin Reading
  BY AfterFacts DEF Down, Booting, Reading
<1>2. BootTypeOK'
  <2>1. data' \in Configurations
    BY DEF Down, Unset, Configurations, Values
  <2>2. factory' \in [Factories \X Names -> Makers]
    BY DEF Down, NoFactory, Makers
  <2>. QED
    BY <1>1, <2>1, <2>2 DEF BootInd, BootTypeOK, Down, disk
<1>3. Registered' /\ Detectors' /\ Progress' /\ Configured'
  BY <1>1, AfterFacts DEF Down, Registered, Detectors, Progress, Configured
<1>4. Faithful'
  BY <1>1 DEF BootInd, Faithful, Keeps, Kept, disk
<1>5. Stable'
  BY <1>1 DEF BootInd, Stable, Settled, disk
<1>. QED
  BY <1>2, <1>3, <1>4, <1>5 DEF BootInd

(* main() reads the configuration.                                         *)
LEMMA ReadConfigInd == BootInd /\ ReadConfig => BootInd'
<1> SUFFICES ASSUME BootInd, ReadConfig PROVE BootInd'
    OBVIOUS
<1>1. boot = "down" /\ phase = "init" /\ UNCHANGED <<disk, crashes>> /\ phase' = phase
  BY DEF BootInd, BootTypeOK, ReadConfig, vars
<1>2. CASE file = Torn /\ Down
  BY <1>1, <1>2, DownInd DEF BootInd, BootTypeOK
<1>3. CASE /\ file # Torn /\ data' = Config(file) /\ boot' = "server"
           /\ UNCHANGED <<pending, factory, chain>>
  <2>1. file \in Configurations
    BY <1>3 DEF BootInd, BootTypeOK
  <2>2. /\ data' \in Configurations /\ Defaulted(data')
        /\ Keeps(file) => Keeps(data')
        /\ Defaulted(file) => data' = file
    BY <1>3, <2>1, ConfigFacts
  <2>3. boot' \notin Reading /\ pending' = {}
    <3>1. pending = {}
      BY <1>1, PendingFacts, DirsFacts DEF BootInd
    <3>. QED
      BY <1>3, <3>1, AfterFacts DEF Reading
  <2>4. BootTypeOK'
    BY <1>1, <1>3, <2>2, <2>3 DEF BootInd, BootTypeOK, disk
  <2>5. Registered' /\ Detectors' /\ Configured'
    BY <1>1, <1>3, <2>3 DEF BootInd, Registered, Detectors, Configured
  <2>6. Progress'
    BY <1>3, <2>2, <2>3, AfterFacts DEF Progress, Defaulted
  <2>7. Faithful'
    <3>1. Keeps(file) /\ Keeps(data')
      BY <1>3, <2>2 DEF BootInd, Faithful
    <3>. QED
      BY <1>1, <3>1 DEF Faithful, Keeps, Kept, disk
  <2>8. Stable'
    <3>1. SUFFICES ASSUME NEW d \in saved PROVE data' = d
      BY <1>1 DEF BootInd, Stable, Settled, disk
    <3>2. file = d /\ Defaulted(file)
      BY <1>3 DEF BootInd, Stable, Settled
    <3>. QED
      BY <2>2, <3>2
  <2>. QED
    BY <2>4, <2>5, <2>6, <2>7, <2>8 DEF BootInd
<1>. QED
  BY <1>2, <1>3 DEF ReadConfig

(* The server and its log are made.                                        *)
LEMMA MakeServerInd == BootInd /\ MakeServer => BootInd'
<1> SUFFICES ASSUME BootInd, MakeServer PROVE BootInd'
    OBVIOUS
<1>0. CASE "server" \in obstacles
  <2>1. Down /\ UNCHANGED <<disk, crashes>> /\ phase' = phase
    BY <1>0 DEF MakeServer, vars
  <2>2. phase = "init" /\ crashes \in 0 .. MaxCrashes
    BY DEF BootInd, BootTypeOK, MakeServer
  <2>. QED
    BY <2>1, <2>2, DownInd
<1> SUFFICES ASSUME "server" \notin obstacles PROVE BootInd'
    BY <1>0
<1>1. /\ boot = "server" /\ boot' = "config_dir" /\ UNCHANGED <<factory, chain, disk, crashes>>
      /\ phase' = phase /\ pending' = Entries("config_dir")
  BY DirsFacts DEF MakeServer, vars
<1>2. boot \in Booting /\ boot' \in Booting /\ boot' \in Reading
  BY <1>1 DEF Booting, Reading
<1>3. /\ data' \in Configurations
      /\ Keeps(data) => Keeps(data')
      /\ Defaulted(data) => Defaulted(data')
      /\ Canonical(data')
      /\ Canonical(data) => data' = data
  <2>1. data' = [data EXCEPT ![<<"log", "level">>] = Level(data[<<"log", "level">>])]
    BY DEF MakeServer
  <2>2. data \in Configurations
    BY DEF BootInd, BootTypeOK
  <2>. QED
    BY <2>1, <2>2, LevelCfg
<1>4. Loaded' = {}
  <2>1. SUFFICES ASSUME NEW e \in files, boot' \in After(e.dir) \/ (e.dir = boot' /\ e \notin pending')
                 PROVE FALSE
    BY <1>1 DEF Loaded, disk
  <2>2. e \in Files
    BY DEF BootInd, BootTypeOK
  <2>3. boot' \notin After(e.dir)
    BY <1>1, <2>2, EntryFacts, AfterFacts
  <2>. QED
    BY <1>1, <2>1, <2>3 DEF Entries
<1>5. BootTypeOK'
  BY <1>1, <1>3, DirsFacts DEF BootInd, BootTypeOK, disk, Entries
<1>6. Registered'
  <2>1. boot' \notin After("services_cpp")
    BY <1>1, AfterFacts
  <2>2. \A f \in Factories \X Names : MakerOf({}, FALSE, f) = "none" /\ NoFactory[f] = "none"
    BY DEF MakerOf, Own, NoFactory
  <2>3. factory' = NoFactory
    BY <1>1 DEF BootInd, Registered
  <2>4. ~SelfKnown'
    BY <2>1 DEF SelfKnown
  <2>5. \A f \in Factories \X Names : factory'[f] = MakerOf(Loaded', SelfKnown', f)
    <3>1. SelfKnown' = FALSE
      BY <2>4 DEF SelfKnown
    <3>. QED
      BY <1>4, <2>2, <2>3, <3>1
  <2>. QED
    BY <1>1, <2>5 DEF Registered
<1>7. Detectors'
  <2>1. chain' = {}
    BY <1>1 DEF BootInd, Registered
  <2>. QED
    BY <1>4, <2>1 DEF Detectors
<1>8. Faithful'
  <2>1. Keeps(data')
    BY <1>2, <1>3 DEF BootInd, Faithful
  <2>. QED
    BY <1>1, <2>1 DEF BootInd, Faithful, Keeps, Kept, disk
<1>9. Progress'
  <2>1. Defaulted(data')
    BY <1>2, <1>3 DEF BootInd, Progress
  <2>. QED
    BY <1>1, <1>3, <1>4, <2>1, AfterFacts DEF Progress, Defaulted, Canonical
<1>10. Configured'
  BY <1>1 DEF Configured
<1>11. Stable'
  <2>1. SUFFICES ASSUME NEW d \in saved PROVE data' = d
    BY <1>1 DEF BootInd, Stable, Settled, disk
  <2>2. data = d /\ Canonical(data)
    BY <1>2 DEF BootInd, Stable, Settled
  <2>. QED
    BY <1>3, <2>2
<1>. QED
  BY <1>5, <1>6, <1>7, <1>8, <1>9, <1>10, <1>11 DEF BootInd

(* What an entry has to do to the memory of main() when it is loaded.      *)
Loads(e) ==
    /\ e \in pending /\ pending' = pending \ {e}
    /\ UNCHANGED <<boot, disk, crashes, phase>>
    /\ Fills(data, data')
    /\ factory' \in [Factories \X Names -> Makers]
    /\ \A f \in Factories \X Names : factory'[f] = MakerOf(Loaded \cup {e}, SelfKnown, f)
    /\ chain' \subseteq {"detector", "enhancer"} \X Names \X Makers
    /\ boot \in {"config_dir", "services_cpp"} =>
         \A n \in Names : <<"detector", n, "cpp">> \in chain'
             <=> <<"detector", n, "cpp">> \in chain \/ (CppDetector(e) /\ e.name = n)
    /\ LuaDetector(e) => Detected(data', e.name)
    /\ boot = "collectors_lua" =>
         \A n \in Names : factory'[<<"system", n>>] # "none" => Polled(data', n)
    /\ \A d \in saved : data = d => data' = d

(* It is enough for the invariant.                                         *)
LEMMA LoadsInd == ASSUME BootInd, NEW e, Loads(e) PROVE BootInd'
<1>1. /\ e \in pending /\ e \in files /\ e \in Files /\ e.dir = boot /\ boot \in Reading
      /\ boot \in Range(Dirs)
  BY PendingFacts DEF BootInd, Loads
<1>2. Loaded' = Loaded \cup {e}
  BY LoadedOne DEF BootInd, Loads, disk
<1>3. SelfKnown' = SelfKnown
  BY DEF Loads, SelfKnown
<1>4. data \in Configurations /\ data' \in Configurations
  BY DEF BootInd, BootTypeOK, Loads, Fills
<1>5. /\ Keeps(data) => Keeps(data')
      /\ Defaulted(data) => Defaulted(data')
      /\ Canonical(data) => Canonical(data')
      /\ \A n \in Names : Detected(data, n) => Detected(data', n)
      /\ \A n \in Names : Polled(data, n) => Polled(data', n)
  BY <1>4, FillsKeeps DEF Loads
<1>6. BootTypeOK'
  BY <1>4 DEF BootInd, BootTypeOK, Loads, disk
<1>7. Registered'
  <2>1. \A f \in Factories \X Names : factory'[f] = MakerOf(Loaded', SelfKnown', f)
    BY <1>2, <1>3 DEF Loads
  <2>2. boot' \notin {"down", "server"}
    BY <1>1, DirsFacts DEF Loads
  <2>. QED
    BY <2>1, <2>2 DEF Registered
<1>8. Detectors'
  BY <1>2 DEF BootInd, Detectors, Loads
<1>9. Faithful'
  <2>1. Keeps(data')
    BY <1>1, <1>5 DEF BootInd, Faithful, Booting
  <2>. QED
    BY <2>1 DEF BootInd, Faithful, Keeps, Kept, disk, Loads
<1>10. Progress'
  <2>1. Defaulted(data') /\ Canonical(data')
    BY <1>1, <1>5 DEF BootInd, Progress, Booting
  <2>2. boot' \in After("services_cpp") =>
           \A x \in files' : CppDetector(x) => Detected(data', x.name)
    <3>1. \A x \in files : x.name \in Names
      BY EntryFacts DEF BootInd, BootTypeOK
    <3>. QED
      BY <1>5, <3>1 DEF BootInd, Progress, Loads, disk
  <2>3. \A x \in Loaded' : LuaDetector(x) => Detected(data', x.name)
    <3>1. \A x \in Loaded : x.name \in Names
      BY EntryFacts DEF BootInd, BootTypeOK, Loaded
    <3>2. \A x \in Loaded : LuaDetector(x) => Detected(data, x.name)
      BY <1>1 DEF BootInd, Progress
    <3>. QED
      BY <1>2, <1>5, <3>1, <3>2 DEF Loads
  <2>4. boot' \in After("services_lua") => Detected(data', "socket")
    BY <1>5, StartupAssumption DEF BootInd, Progress, Loads
  <2>. QED
    BY <2>1, <2>2, <2>3, <2>4 DEF Progress, Defaulted, Canonical, Detected
<1>11. Configured'
  BY <1>1, DirsFacts DEF Configured, Loads, Polled
<1>12. Stable'
  <2>1. boot \in Booting
    BY <1>1 DEF Booting
  <2>. QED
    BY <2>1 DEF BootInd, Stable, Settled, disk, Loads
<1>. QED
  BY <1>6, <1>7, <1>8, <1>9, <1>10, <1>11, <1>12 DEF BootInd

(* A configuration fills itself.                                           *)
LEMMA FillsSelf == ASSUME NEW d \in Configurations PROVE Fills(d, d)
BY DEF Fills

(* What main() has made of the entries before e.                           *)
LEMMA BeforeLoad ==
    ASSUME BootInd, NEW e \in pending
    PROVE  /\ e \in files /\ e \in Files /\ e.dir = boot
           /\ boot \in Range(Dirs) /\ boot \in Reading /\ boot \in Booting
           /\ data \in Configurations
           /\ factory \in [Factories \X Names -> Makers]
           /\ \A f \in Factories \X Names : factory[f] = MakerOf(Loaded, SelfKnown, f)
           /\ SelfKnown \in BOOLEAN
           /\ boot = "collectors_lua" =>
                \A n \in Names : factory[<<"system", n>>] # "none" => Polled(data, n)
<1>1. /\ e \in files /\ e \in Files /\ e.dir = boot
      /\ boot \in Range(Dirs) /\ boot \in Reading
  BY PendingFacts DEF BootInd
<1>. QED
  BY <1>1 DEF BootInd, BootTypeOK, Registered, Booting, SelfKnown, Configured

(* A skipped entry, and a library that cannot be loaded.                   *)
LEMMA IgnoreInd == ASSUME BootInd, NEW e \in Files, Ignore(e) PROVE BootInd'
<1>1. e \in pending /\ pending' = pending \ {e}
      /\ UNCHANGED <<boot, data, factory, chain, disk, crashes, phase>>
  BY DEF Ignore, vars
<1>2. ~CppDetector(e) /\ ~LuaDetector(e) /\ \A f : ~Library(e, f) /\ ~LuaFile(e, f)
  BY DEF Ignore, CppDetector, LuaDetector, Library, LuaFile, CppDirs, IsPlugin
<1>3. \A f \in Factories \X Names : factory'[f] = MakerOf(Loaded \cup {e}, SelfKnown, f)
  BY <1>1, <1>2, BeforeLoad, MakerOther
<1>4. Fills(data, data')
  BY <1>1, BeforeLoad, FillsSelf
<1>5. Loads(e)
  BY <1>1, <1>2, <1>3, <1>4, BeforeLoad DEF Loads, BootInd, BootTypeOK
<1>. QED
  BY <1>5, LoadsInd

(* A library registers its makers.                                         *)
LEMMA DlOpenInd == ASSUME BootInd, NEW e \in Files, DlOpen(e) PROVE BootInd'
<1>1. /\ e \in pending /\ pending' = pending \ {e}
      /\ UNCHANGED <<boot, data, disk, crashes, phase>>
      /\ IsPlugin(e) /\ e.works /\ e.dir \in CppDirs
      /\ factory' = [f \in DOMAIN factory |-> IF f \in Made(e) THEN "cpp" ELSE factory[f]]
      /\ chain' = chain \cup Chained(e, "cpp")
  BY DEF DlOpen, vars, CppDirs
<1>2. ~LuaDetector(e) /\ \A f : ~LuaFile(e, f) /\ (Library(e, f) <=> f \in Made(e))
  BY <1>1 DEF LuaDetector, Library, LuaFile, CppDirs
<1>3. SelfKnown => e.dir = "collectors_cpp"
  BY <1>1, BeforeLoad, AfterFacts DEF SelfKnown, CppDirs
<1>4. ASSUME NEW f \in Factories \X Names
      PROVE  factory'[f] = MakerOf(Loaded \cup {e}, SelfKnown, f) /\ factory'[f] \in Makers
  <2>1. DOMAIN factory = Factories \X Names
    BY <1>1, BeforeLoad
  <2>2. factory'[f] = IF f \in Made(e) THEN "cpp" ELSE factory[f]
    BY <1>1, <2>1
  <2>3. factory'[f] = MakerOf(Loaded \cup {e}, SelfKnown, f)
    <3>1. CASE f \in Made(e)
      BY <1>1, <1>2, <1>3, <2>2, <3>1, BeforeLoad, MakerLibrary
    <3>2. CASE f \notin Made(e)
      BY <1>1, <1>2, <2>2, <3>2, BeforeLoad, MakerOther
    <3>. QED
      BY <3>1, <3>2
  <2>. QED
    BY <1>1, <2>3, BeforeLoad, MakerType
<1>5. factory' \in [Factories \X Names -> Makers]
  BY <1>1, <1>4, BeforeLoad
<1>6. chain' \subseteq {"detector", "enhancer"} \X Names \X Makers
  <2>1. e.name \in Names
    BY EntryFacts
  <2>2. Chained(e, "cpp") \subseteq {"detector", "enhancer"} \X Names \X Makers
    BY <2>1 DEF Chained, Makers
  <2>. QED
    BY <1>1, <2>2 DEF BootInd, BootTypeOK
<1>7. ASSUME boot \in {"config_dir", "services_cpp"}, NEW n \in Names
      PROVE  <<"detector", n, "cpp">> \in chain'
                 <=> <<"detector", n, "cpp">> \in chain \/ (CppDetector(e) /\ e.name = n)
  <2>1. e.dir = "services_cpp"
    BY <1>1, <1>7, BeforeLoad DEF CppDirs
  <2>2. <<"detector", n, "cpp">> \in Chained(e, "cpp") <=> "detector" \in e.types /\ e.name = n
    BY DEF Chained
  <2>. QED
    BY <1>1, <2>1, <2>2 DEF CppDetector
<1>8. Fills(data, data')
  BY <1>1, BeforeLoad, FillsSelf
<1>9. boot # "collectors_lua"
  BY <1>1, BeforeLoad DEF CppDirs
<1>10. Loads(e)
  BY <1>1, <1>2, <1>4, <1>5, <1>6, <1>7, <1>8, <1>9 DEF Loads
<1>. QED
  BY <1>10, LoadsInd

(* A Lua file only takes the names that are free.                          *)
LEMMA TakenMakers ==
    ASSUME BootInd, NEW e \in pending, IsPlugin(e), e.dir \in {"services_lua", "collectors_lua"},
           factory' = [f \in DOMAIN factory |-> IF f \in Taken(e) THEN "lua" ELSE factory[f]]
    PROVE  /\ factory' \in [Factories \X Names -> Makers]
           /\ \A f \in Factories \X Names :
                /\ factory'[f] = MakerOf(Loaded \cup {e}, SelfKnown, f)
                /\ factory'[f] = IF f \in Taken(e) THEN "lua" ELSE factory[f]
<1>1. DOMAIN factory = Factories \X Names /\ SelfKnown \in BOOLEAN
  BY BeforeLoad
<1>2. ASSUME NEW f \in Factories \X Names
      PROVE  /\ factory'[f] = MakerOf(Loaded \cup {e}, SelfKnown, f)
             /\ factory'[f] = IF f \in Taken(e) THEN "lua" ELSE factory[f]
             /\ factory'[f] \in Makers
  <2>1. factory'[f] = IF f \in Taken(e) THEN "lua" ELSE factory[f]
    BY <1>1
  <2>2. factory[f] = MakerOf(Loaded, SelfKnown, f)
    BY BeforeLoad
  <2>3. CASE f \in Made(e)
    <3>1. LuaFile(e, f) /\ (f \in Taken(e) <=> factory[f] = "none")
      BY <2>3 DEF LuaFile, Taken
    <3>. QED
      BY <1>1, <2>1, <2>2, <3>1, MakerLua, MakerType
  <2>4. CASE f \notin Made(e)
    <3>1. ~LuaFile(e, f) /\ ~Library(e, f) /\ f \notin Taken(e)
      BY <2>4 DEF LuaFile, Library, Taken
    <3>. QED
      BY <1>1, <2>1, <2>2, <3>1, MakerOther, MakerType
  <2>. QED
    BY <2>3, <2>4
<1>. QED
  BY <1>1, <1>2

(* A Lua file among the services                                           *)
LEMMA LoadLuaInd == ASSUME BootInd, NEW e \in Files, LoadLua(e) PROVE BootInd'
<1> DEFINE names == {e.name} \cap {n \in Names : "detector" \in e.types}
<1>1. /\ e \in pending /\ pending' = pending \ {e}
      /\ UNCHANGED <<boot, disk, crashes, phase>>
      /\ IsPlugin(e) /\ e.dir = "services_lua"
      /\ factory' = [f \in DOMAIN factory |-> IF f \in Taken(e) THEN "lua" ELSE factory[f]]
      /\ chain' = chain \cup Chained(e, "lua")
      /\ data' = DetectorCfg(data, names)
  BY DEF LoadLua, vars
<1>2. boot = "services_lua" /\ data \in Configurations /\ e \in files /\ boot \in Booting
  BY <1>1, BeforeLoad
<1>3. /\ Fills(data, data')
      /\ \A n \in names : Detected(data', n)
      /\ (\A n \in names : Detected(data, n)) => data' = data
  <2>1. names \in SUBSET Names
    OBVIOUS
  <2>. QED
    BY <1>1, <1>2, <2>1, DetectorCfgFills
<1>4. e.name \in Names
  BY EntryFacts
<1>5. LuaDetector(e) => Detected(data', e.name)
  BY <1>3, <1>4 DEF LuaDetector
<1>6. chain' \subseteq {"detector", "enhancer"} \X Names \X Makers
  <2>1. Chained(e, "lua") \subseteq {"detector", "enhancer"} \X Names \X Makers
    BY <1>4 DEF Chained, Makers
  <2>. QED
    BY <1>1, <2>1 DEF BootInd, BootTypeOK
<1>7. ASSUME NEW d \in saved, data = d PROVE data' = d
  <2>1. \A n \in names : LuaDetector(e) /\ n = e.name
    BY <1>1 DEF LuaDetector
  <2>2. \A n \in names : Detected(d, n)
    BY <1>2, <2>1 DEF BootInd, Stable, Settled
  <2>. QED
    BY <1>3, <1>7, <2>2
<1>8. /\ factory' \in [Factories \X Names -> Makers]
      /\ \A f \in Factories \X Names : factory'[f] = MakerOf(Loaded \cup {e}, SelfKnown, f)
  BY <1>1, TakenMakers
<1>9. Loads(e)
  BY <1>1, <1>2, <1>3, <1>5, <1>6, <1>7, <1>8 DEF Loads
<1>. QED
  BY <1>9, LoadsInd

(* A collector of the system that is a Lua file                            *)
LEMMA LuaCollectorInd == ASSUME BootInd, NEW e \in Files, LuaCollector(e) PROVE BootInd'
<1>1. /\ e \in pending /\ pending' = pending \ {e}
      /\ UNCHANGED <<boot, chain, disk, crashes, phase>>
      /\ IsPlugin(e) /\ e.dir = "collectors_lua"
      /\ factory' = [f \in DOMAIN factory |-> IF f \in Taken(e) THEN "lua" ELSE factory[f]]
      /\ data' = IF Taken(e) # {} THEN LuaCfg(data, e.name) ELSE data
  BY DEF LuaCollector, vars
<1>2. boot = "collectors_lua" /\ data \in Configurations /\ e \in files /\ boot \in Booting
  BY <1>1, BeforeLoad
<1>3. e.name \in Names
  BY EntryFacts
<1> DEFINE g == <<"system", e.name>>
<1>4. Made(e) = {g}
  BY <1>1, StartupAssumption DEF Made, Factories, IsPlugin
<1>5. g \in Factories \X Names
  BY <1>3 DEF Factories
<1>6. Taken(e) = IF factory[g] = "none" THEN {g} ELSE {}
  BY <1>4 DEF Taken
<1>7. Fills(data, data') /\ (Taken(e) # {} => Polled(data', e.name))
      /\ (Polled(data, e.name) => data' = data)
  BY <1>1, <1>2, <1>3, LuaCfgFills, FillsSelf
<1>8. \A n \in Names : Polled(data, n) => Polled(data', n)
  BY <1>2, <1>7, FillsKeeps
<1>9. /\ factory' \in [Factories \X Names -> Makers]
      /\ \A f \in Factories \X Names :
           /\ factory'[f] = MakerOf(Loaded \cup {e}, SelfKnown, f)
           /\ factory'[f] = IF f \in Taken(e) THEN "lua" ELSE factory[f]
  BY <1>1, TakenMakers
<1>10. ASSUME NEW n \in Names, factory'[<<"system", n>>] # "none" PROVE Polled(data', n)
  <2>1. <<"system", n>> \in Factories \X Names
    BY DEF Factories
  <2>2. CASE <<"system", n>> \in Taken(e)
    BY <1>6, <1>7, <2>2
  <2>3. CASE <<"system", n>> \notin Taken(e)
    BY <1>1, <1>2, <1>8, <1>9, <1>10, <2>1, <2>3, BeforeLoad
  <2>. QED
    BY <2>2, <2>3
<1>11. ASSUME NEW d \in saved, data = d PROVE data' = d
  <2>1. LuaFile(e, g)
    BY <1>1, <1>4 DEF LuaFile
  <2>2. SystemPlugin(e)
    BY <1>3, <2>1 DEF SystemPlugin
  <2>3. Polled(d, e.name)
    BY <1>2, <2>2 DEF BootInd, Stable, Settled
  <2>. QED
    BY <1>7, <1>11, <2>3
<1>12. ~CppDetector(e) /\ ~LuaDetector(e)
  BY <1>1 DEF CppDetector, LuaDetector
<1>13. Loads(e)
  BY <1>1, <1>2, <1>7, <1>9, <1>10, <1>11, <1>12 DEF Loads, BootInd, BootTypeOK
<1>. QED
  BY <1>13, LoadsInd

(* An entry that ends the process                                          *)
LEMMA AbortInd == ASSUME BootInd, NEW e \in Files, Abort(e) PROVE BootInd'
<1>1. boot \in Range(Dirs)
  BY BeforeLoad DEF Abort
<1>2. phase' = "init" /\ crashes' \in 0 .. MaxCrashes
  BY <1>1, DirsFacts DEF Abort, BootInd, BootTypeOK, vars
<1>. QED
  BY <1>2, DownInd DEF Abort

-----------------------------------------------------------------------------
(* The end of a directory                                                  *)

(* Nothing of the next directory has been loaded yet, and all of this one. *)
LEMMA CloseFacts ==
    ASSUME BootInd, CloseDir
    PROVE  /\ boot' = IF boot = "collectors_lua" THEN "save" ELSE NextDir(boot)
           /\ boot \in Range(Dirs) /\ boot \in Reading
           /\ boot' \in {"services_cpp", "services_lua", "collectors_cpp", "collectors_lua", "save"}
           /\ pending' \subseteq {e \in files : e.dir = boot'}
           /\ Loaded' = Loaded
           /\ boot = "collectors_lua" => Loaded = files
           /\ boot # "services_cpp" => SelfKnown' = SelfKnown
<1>1. boot \in Range(Dirs) /\ pending = {} /\ files' = files
  BY DEF CloseDir, disk
<1>2. boot \in {"config_dir", "services_cpp", "services_lua", "collectors_cpp", "collectors_lua"}
  BY <1>1, DirsFacts
<1>3. boot' = IF boot = "collectors_lua" THEN "save" ELSE NextDir(boot)
  BY DirsFacts DEF CloseDir, NextDir
<1>4. pending' = IF boot = "collectors_lua" THEN {} ELSE {e \in files : e.dir = NextDir(boot)}
  BY DirsFacts DEF CloseDir, Following, NextDir, Entries
<1>5. boot' \in {"services_cpp", "services_lua", "collectors_cpp", "collectors_lua", "save"}
  BY <1>2, <1>3, NextDirFacts
<1>6. pending' \subseteq {e \in files : e.dir = boot'}
  BY <1>3, <1>4
<1>7. \A e \in files : e.dir \in {"config_dir", "services_cpp", "services_lua", "collectors_cpp",
                                  "collectors_lua"}
  BY EntryFacts DEF BootInd, BootTypeOK
<1>8. ASSUME NEW e \in files
      PROVE  /\ (boot' \in After(e.dir) \/ (e.dir = boot' /\ e \notin pending'))
                  <=> (boot \in After(e.dir) \/ (e.dir = boot /\ e \notin pending))
             /\ boot = "collectors_lua" => (boot \in After(e.dir) \/ e.dir = boot)
  BY <1>1, <1>2, <1>3, <1>4, <1>7, NextDirFacts, AfterFacts
<1>9. Loaded' = Loaded /\ (boot = "collectors_lua" => Loaded = files)
  BY <1>1, <1>8 DEF Loaded
<1>10. boot # "services_cpp" => SelfKnown' = SelfKnown
  BY <1>2, <1>3, NextDirFacts, AfterFacts DEF SelfKnown
<1>. QED
  BY <1>1, <1>2, <1>3, <1>5, <1>6, <1>9, <1>10, AfterFacts DEF Reading

(* What the end of a directory has to do to the memory of main().          *)
Closes ==
    /\ Fills(data, data')
    /\ factory' \in [Factories \X Names -> Makers]
    /\ \A f \in Factories \X Names : factory'[f] = MakerOf(Loaded, SelfKnown', f)
    /\ chain' \subseteq {"detector", "enhancer"} \X Names \X Makers
    /\ boot = "config_dir" => chain' = chain
    /\ boot = "services_cpp" =>
         \A e \in files : CppDetector(e) => Detected(data', e.name)
    /\ boot = "services_lua" => Detected(data', "socket")
    /\ boot \in {"collectors_cpp", "collectors_lua"} =>
         \A n \in Names : factory'[<<"system", n>>] # "none" => Polled(data', n)
    /\ \A d \in saved : data = d => data' = d

(* It is enough for the invariant.                                         *)
LEMMA ClosesInd == ASSUME BootInd, CloseDir, Closes PROVE BootInd'
<1>1. /\ boot' = IF boot = "collectors_lua" THEN "save" ELSE NextDir(boot)
      /\ boot \in Range(Dirs) /\ boot \in Reading
      /\ boot' \in {"services_cpp", "services_lua", "collectors_cpp", "collectors_lua", "save"}
      /\ pending' \subseteq {e \in files : e.dir = boot'}
      /\ Loaded' = Loaded
  BY CloseFacts
<1>2. UNCHANGED <<disk, crashes, phase>>
  BY DEF CloseDir, vars
<1>3. boot \in {"config_dir", "services_cpp", "services_lua", "collectors_cpp", "collectors_lua"}
  BY <1>1, DirsFacts
<1>4. data \in Configurations /\ data' \in Configurations
  BY DEF BootInd, BootTypeOK, Closes, Fills
<1>5. /\ Keeps(data) => Keeps(data')
      /\ Defaulted(data) => Defaulted(data')
      /\ Canonical(data) => Canonical(data')
      /\ \A n \in Names : Detected(data, n) => Detected(data', n)
      /\ \A n \in Names : Polled(data, n) => Polled(data', n)
  BY <1>4, FillsKeeps DEF Closes
<1>6. boot \in Booting /\ boot' \in Reading /\ boot' \notin {"down", "server", "up"}
  BY <1>1, AfterFacts DEF Booting, Reading
<1>7. BootTypeOK'
  <2>1. phase' = "init"
    BY <1>2, <1>3 DEF BootInd, BootTypeOK
  <2>2. boot' \in {"save"} \cup Range(Dirs)
    BY <1>1, DirsFacts
  <2>. QED
    BY <1>1, <1>2, <1>4, <2>1, <2>2 DEF BootInd, BootTypeOK, Closes, disk
<1>8. Registered'
  BY <1>1, <1>6 DEF Registered, Closes
<1>9. Detectors'
  BY <1>1, <1>3, NextDirFacts DEF BootInd, Detectors, Closes
<1>10. Faithful'
  <2>1. Keeps(data')
    BY <1>5, <1>6 DEF BootInd, Faithful
  <2>. QED
    BY <1>2, <2>1 DEF BootInd, Faithful, Keeps, Kept, disk
<1>11. Progress'
  <2>1. Defaulted(data') /\ Canonical(data')
    BY <1>1, <1>5, <1>6 DEF BootInd, Progress
  <2>2. boot' \in After("services_cpp") =>
           \A x \in files' : CppDetector(x) => Detected(data', x.name)
    <3>1. \A x \in files : x.name \in Names
      BY EntryFacts DEF BootInd, BootTypeOK
    <3>2. boot' \in After("services_cpp") => boot \in {"services_cpp"} \cup After("services_cpp")
      BY <1>1, <1>3, NextDirFacts, AfterFacts
    <3>. QED
      BY <1>2, <1>5, <3>1, <3>2 DEF BootInd, Progress, Closes, disk
  <2>3. \A x \in Loaded' : LuaDetector(x) => Detected(data', x.name)
    <3>1. \A x \in Loaded : x.name \in Names
      BY EntryFacts DEF BootInd, BootTypeOK, Loaded
    <3>2. \A x \in Loaded : LuaDetector(x) => Detected(data, x.name)
      BY <1>1 DEF BootInd, Progress
    <3>. QED
      BY <1>1, <1>5, <3>1, <3>2
  <2>4. boot' \in After("services_lua") => Detected(data', "socket")
    <3>1. boot' \in After("services_lua") => boot \in {"services_lua"} \cup After("services_lua")
      BY <1>1, <1>3, NextDirFacts, AfterFacts
    <3>. QED
      BY <1>5, <3>1, StartupAssumption DEF BootInd, Progress, Closes
  <2>. QED
    BY <2>1, <2>2, <2>3, <2>4 DEF Progress, Defaulted, Canonical, Detected
<1>12. Configured'
  <2>1. boot' \in {"collectors_lua", "save", "writing", "up"} =>
           boot \in {"collectors_cpp", "collectors_lua"}
    BY <1>1, <1>3, NextDirFacts
  <2>. QED
    BY <2>1 DEF Configured, Closes, Polled
<1>13. Stable'
  BY <1>2, <1>6 DEF BootInd, Stable, Settled, disk, Closes
<1>. QED
  BY <1>7, <1>8, <1>9, <1>10, <1>11, <1>12, <1>13 DEF BootInd

(* After the libraries of the collectors only libraries make collectors of *)
(* the system.                                                             *)
LEMMA SystemMakers ==
    ASSUME BootInd, boot = "collectors_cpp", NEW n \in Names,
           factory[<<"system", n>>] # "none"
    PROVE  /\ factory[<<"system", n>>] = "cpp"
           /\ \E e \in files : SystemPlugin(e) /\ e.name = n
<1> DEFINE f == <<"system", n>>
<1>1. f \in Factories \X Names /\ boot \in Reading
  BY AfterFacts DEF Factories, Reading
<1>2. factory[f] = MakerOf(Loaded, SelfKnown, f)
  BY <1>1 DEF BootInd, Registered
<1>3. ~Own(Loaded, SelfKnown, f)
  BY DEF Own
<1>4. \A e \in Loaded : e \in files /\ e \in Files /\ e.dir # "collectors_lua"
  BY AfterFacts DEF Loaded, BootInd, BootTypeOK
<1>5. \A e \in Loaded : f \in Made(e) => "system" \in e.types /\ e.name = n
  BY DEF Made
<1>6. \A e \in Loaded : ~LuaFile(e, f)
  BY <1>4, <1>5, StartupAssumption DEF LuaFile, IsPlugin
<1>7. (\E e \in Loaded : Library(e, f)) /\ factory[f] = "cpp"
  BY <1>2, <1>3, <1>6 DEF MakerOf
<1>. QED
  BY <1>4, <1>5, <1>7 DEF SystemPlugin, Library

(* The end of a directory                                                  *)
LEMMA CloseDirInd == BootInd /\ CloseDir => BootInd'
<1> SUFFICES ASSUME BootInd, CloseDir PROVE BootInd'
    OBVIOUS
<1>1. /\ boot \in Range(Dirs) /\ boot \in Reading /\ boot \in Booting /\ Loaded' = Loaded
      /\ boot' = IF boot = "collectors_lua" THEN "save" ELSE NextDir(boot)
      /\ boot # "services_cpp" => SelfKnown' = SelfKnown
  BY CloseFacts DEF Booting
<1>2. boot \in {"config_dir", "services_cpp", "services_lua", "collectors_cpp", "collectors_lua"}
  BY <1>1, DirsFacts
<1>3. /\ data \in Configurations
      /\ factory \in [Factories \X Names -> Makers]
      /\ chain \subseteq {"detector", "enhancer"} \X Names \X Makers
      /\ \A f \in Factories \X Names : factory[f] = MakerOf(Loaded, SelfKnown, f)
  BY <1>1 DEF BootInd, BootTypeOK, Registered
<1>4. CASE boot = "services_cpp"
  <2> DEFINE names == {n \in Names : <<"detector", n, "cpp">> \in chain}
  <2>1. /\ factory' = [factory EXCEPT ![<<"collector", "self">>] = "builtin"]
        /\ data' = DetectorCfg(data, names) /\ chain' = chain
    BY <1>4 DEF CloseDir
  <2>2. /\ Fills(data, data')
        /\ \A n \in names : Detected(data', n)
        /\ (\A n \in names : Detected(data, n)) => data' = data
    <3>1. names \in SUBSET Names
      OBVIOUS
    <3>. QED
      BY <1>3, <2>1, <3>1, DetectorCfgFills
  <2>3. SelfKnown = FALSE /\ SelfKnown' = TRUE
    BY <1>1, <1>4, NextDirFacts, AfterFacts DEF SelfKnown
  <2>4. \A e \in Loaded : e \in files /\ e \in Files
    BY DEF Loaded, BootInd, BootTypeOK
  <2>5. \A e \in Loaded : e.dir # "collectors_cpp"
    BY <1>4, AfterFacts DEF Loaded
  <2>6. <<"collector", "self">> \in Factories \X Names /\ "builtin" \in Makers
    BY StartupAssumption DEF Factories, Makers
  <2>7. factory' \in [Factories \X Names -> Makers]
    BY <1>3, <2>1, <2>6
  <2>8. ASSUME NEW f \in Factories \X Names PROVE factory'[f] = MakerOf(Loaded, SelfKnown', f)
    BY <1>3, <2>1, <2>3, <2>5, <2>6, MakerSelf
  <2>9. ASSUME NEW e \in files, CppDetector(e) PROVE Detected(data', e.name)
    <3>1. e \in Loaded
      BY <1>4, <2>9 DEF Loaded, CppDetector, CloseDir
    <3>2. e.name \in Names
      BY EntryFacts DEF BootInd, BootTypeOK
    <3>3. e.name \in names
      BY <1>4, <2>9, <3>1, <3>2 DEF BootInd, Detectors
    <3>. QED
      BY <2>2, <3>3
  <2>10. ASSUME NEW d \in saved, data = d PROVE data' = d
    <3>1. ASSUME NEW n \in names PROVE Detected(d, n)
      <4>1. PICK e \in Loaded : CppDetector(e) /\ e.name = n
        BY <1>4, <3>1 DEF BootInd, Detectors
      <4>. QED
        BY <2>4, <4>1 DEF BootInd, Stable, Settled
    <3>. QED
      BY <2>2, <2>10, <3>1
  <2>11. Closes
    BY <1>3, <1>4, <2>1, <2>2, <2>7, <2>8, <2>9, <2>10 DEF Closes
  <2>. QED
    BY <2>11, ClosesInd
<1>5. CASE boot = "services_lua"
  <2>1. /\ chain' = chain \cup {<<"detector", "socket", "builtin">>}
        /\ data' = DetectorCfg(data, {"socket"}) /\ factory' = factory
    BY <1>5 DEF CloseDir
  <2>2. Fills(data, data') /\ Detected(data', "socket") /\ (Detected(data, "socket") => data' = data)
    BY <1>3, <2>1, StartupAssumption, DetectorCfgFills
  <2>3. chain' \subseteq {"detector", "enhancer"} \X Names \X Makers
    BY <1>3, <2>1, StartupAssumption DEF Makers
  <2>4. ASSUME NEW d \in saved, data = d PROVE data' = d
    BY <2>2, <2>4 DEF BootInd, Stable, Settled
  <2>5. Closes
    BY <1>1, <1>3, <1>5, <2>1, <2>2, <2>3, <2>4 DEF Closes
  <2>. QED
    BY <2>5, ClosesInd
<1>6. CASE boot = "collectors_cpp"
  <2> DEFINE names == {n \in Names : factory[<<"system", n>>] = "cpp"}
  <2>1. data' = CollectorCfg(data, names, "default") /\ UNCHANGED <<factory, chain>>
    BY <1>6 DEF CloseDir
  <2>2. /\ Fills(data, data')
        /\ \A n \in names : Polled(data', n)
        /\ (\A n \in names : Polled(data, n)) => data' = data
    <3>1. names \in SUBSET Names /\ "default" \in Values /\ "default" # "unset"
      BY DEF Values
    <3>. QED
      BY <1>3, <2>1, <3>1, CollectorCfgFills
  <2>3. \A n \in Names : factory[<<"system", n>>] # "none" => n \in names
    BY <1>6, SystemMakers
  <2>4. ASSUME NEW d \in saved, data = d PROVE data' = d
    <3>1. ASSUME NEW n \in names PROVE Polled(d, n)
      <4>1. PICK e \in files : SystemPlugin(e) /\ e.name = n
        BY <1>6, SystemMakers
      <4>. QED
        BY <4>1 DEF BootInd, Stable, Settled
    <3>. QED
      BY <2>2, <2>4, <3>1
  <2>5. Closes
    BY <1>1, <1>3, <1>6, <2>1, <2>2, <2>3, <2>4 DEF Closes
  <2>. QED
    BY <2>5, ClosesInd
<1>7. CASE boot \in {"config_dir", "collectors_lua"}
  <2>1. UNCHANGED <<data, factory, chain>>
    BY <1>7 DEF CloseDir
  <2>2. Fills(data, data')
    BY <1>3, <2>1, FillsSelf
  <2>3. boot = "collectors_lua" =>
           \A n \in Names : factory[<<"system", n>>] # "none" => Polled(data, n)
    BY DEF BootInd, Configured
  <2>4. Closes
    BY <1>1, <1>3, <1>7, <2>1, <2>2, <2>3 DEF Closes
  <2>. QED
    BY <2>4, ClosesInd
<1>. QED
  BY <1>2, <1>4, <1>5, <1>6, <1>7

-----------------------------------------------------------------------------
(* Config::save(), and after it                                            *)

(* When the directories have been read, all their entries are loaded.      *)
LEMMA AllLoaded == ASSUME BootInd, boot \in {"save", "writing"} PROVE Loaded = files
<1>1. \A e \in files : boot \in After(e.dir)
  BY EntryFacts, AfterFacts DEF BootInd, BootTypeOK
<1>. QED
  BY <1>1 DEF Loaded

(* What save() is about to write leaves nothing to be added.               *)
LEMMA SettledAtSave == ASSUME BootInd, boot \in {"save", "writing"} PROVE Settled(data)
<1>1. Loaded = files
  BY AllLoaded
<1>2. /\ boot \in Reading /\ boot \in Booting /\ boot \in After("services_cpp")
      /\ boot \in After("services_lua")
  BY AfterFacts DEF Reading, Booting
<1>3. Defaulted(data) /\ Canonical(data) /\ Detected(data, "socket")
  BY <1>2 DEF BootInd, Progress
<1>4. \A e \in files : CppDetector(e) \/ LuaDetector(e) => Detected(data, e.name)
  BY <1>1, <1>2 DEF BootInd, Progress
<1>5. ASSUME NEW e \in files, SystemPlugin(e) PROVE Polled(data, e.name)
  <2>1. PICK n \in Names : Library(e, <<"system", n>>) \/ LuaFile(e, <<"system", n>>)
    BY <1>5 DEF SystemPlugin
  <2>2. n = e.name
    BY <2>1 DEF Library, LuaFile, Made
  <2>3. ~Own(Loaded, SelfKnown, <<"system", n>>)
    BY DEF Own
  <2>4. MakerOf(Loaded, SelfKnown, <<"system", n>>) # "none"
    BY <1>1, <2>1, <2>3 DEF MakerOf
  <2>5. factory[<<"system", n>>] # "none"
    BY <1>2, <2>4 DEF BootInd, Registered, Factories
  <2>. QED
    BY <2>2, <2>5 DEF BootInd, Configured
<1>. QED
  BY <1>3, <1>4, <1>5 DEF Settled

(* The file is truncated.                                                  *)
LEMMA TruncateInd == BootInd /\ Truncate => BootInd'
<1> SUFFICES ASSUME BootInd, Truncate PROVE BootInd'
    OBVIOUS
<1>1. /\ boot = "save" /\ boot' = "writing" /\ file' = Torn
      /\ UNCHANGED <<files, obstacles, edits, wrote, saved, data, pending, factory, chain,
                     crashes, phase>>
  BY DEF Truncate, memory, vars
<1>2. boot \in Reading /\ boot' \in Reading /\ boot \in Booting /\ boot' \in Booting
  BY <1>1, AfterFacts DEF Reading, Booting
<1>3. \A dir : boot \in After(dir) /\ dir \in Range(Dirs) <=> boot' \in After(dir) /\ dir \in Range(Dirs)
  BY <1>1, AfterFacts, DirsFacts
<1>4. Loaded' = Loaded /\ SelfKnown' = SelfKnown
  <2>1. \A e \in files : e.dir \in Range(Dirs) /\ e.dir # boot /\ e.dir # boot'
    BY <1>1, EntryFacts, DirsFacts DEF BootInd, BootTypeOK
  <2>2. Loaded' = Loaded
    BY <1>1, <1>3, <2>1 DEF Loaded
  <2>. QED
    BY <1>1, <2>2, AfterFacts DEF SelfKnown
<1>5. BootTypeOK'
  <2>1. pending = {}
    BY <1>1, PendingFacts, DirsFacts DEF BootInd
  <2>. QED
    BY <1>1, <2>1 DEF BootInd, BootTypeOK
<1>6. Registered'
  BY <1>1, <1>2, <1>4 DEF BootInd, Registered
<1>7. Detectors' /\ Configured'
  BY <1>1 DEF BootInd, Detectors, Configured
<1>8. Faithful'
  BY <1>1, <1>2 DEF BootInd, Faithful, Keeps, Kept
<1>9. Progress'
  BY <1>1, <1>2, <1>4, AfterFacts DEF BootInd, Progress
<1>10. Stable'
  BY <1>1, <1>2 DEF BootInd, Stable, Settled
<1>. QED
  BY <1>5, <1>6, <1>7, <1>8, <1>9, <1>10 DEF BootInd

(* Once up, only the file and the collectors of the system matter.         *)
LEMMA UpFacts ==
    ASSUME BootInd, boot' = "up", boot \in {"save", "writing", "up"}, UNCHANGED memory,
           BootTypeOK', Faithful', Stable'
    PROVE  BootInd'
<1>1. boot' \notin Reading /\ boot' \notin Booting
  BY AfterFacts DEF Reading, Booting
<1>2. Registered' /\ Detectors'
  BY <1>1 DEF Registered, Detectors
<1>3. Progress'
  BY <1>1, AfterFacts DEF Progress
<1>4. Configured'
  BY DEF BootInd, Configured, memory
<1>. QED
  BY <1>2, <1>3, <1>4 DEF BootInd

(* The file is complete, or could not be written.                          *)
LEMMA SaveInd == BootInd /\ (Write \/ CannotWrite) => BootInd'
<1> SUFFICES ASSUME BootInd, Write \/ CannotWrite PROVE BootInd'
    OBVIOUS
<1>1. /\ boot' = "up" /\ boot \in {"save", "writing"} /\ UNCHANGED memory
      /\ UNCHANGED <<files, obstacles, edits, wrote, data, pending, factory, chain, crashes,
                     phase>>
      /\ (file' = data /\ saved' = saved \cup {data}) \/ UNCHANGED <<file, saved>>
  BY DEF Write, CannotWrite, memory, disk, vars
<1>2. boot \in Booting /\ boot' \notin Booting
  BY <1>1, AfterFacts DEF Booting, Reading
<1>3. BootTypeOK'
  <2>1. pending = {}
    BY <1>1, PendingFacts, DirsFacts DEF BootInd
  <2>. QED
    BY <1>1, <2>1 DEF BootInd, BootTypeOK
<1>4. Faithful'
  BY <1>1, <1>2 DEF BootInd, Faithful, Keeps, Kept
<1>5. Stable'
  <2>1. CASE UNCHANGED <<file, saved>>
    BY <1>1, <1>2, <2>1 DEF BootInd, Stable, Settled
  <2>2. CASE file' = data /\ saved' = saved \cup {data}
    <3>1. saved' = {data}
      BY <1>2, <2>2 DEF BootInd, Stable
    <3>2. Settled(data) /\ data \in Configurations
      BY <1>1, SettledAtSave DEF BootInd, BootTypeOK
    <3>. QED
      BY <1>1, <1>2, <2>2, <3>1, <3>2 DEF Stable, Settled
  <2>. QED
    BY <1>1, <2>1, <2>2
<1>. QED
  BY <1>1, <1>3, <1>4, <1>5, UpFacts

(* What the threads and the server do does not touch the configuration.    *)
LEMMA UpInd == BootInd /\ (Start \/ Up) => BootInd'
<1> SUFFICES ASSUME BootInd, Start \/ Up PROVE BootInd'
    OBVIOUS
<1>0. CASE ServerFails /\ Down /\ UNCHANGED <<disk, crashes>>
  <2>1. crashes' \in 0 .. MaxCrashes /\ phase' = "init"
    BY <1>0 DEF BootInd, BootTypeOK, ServerFails, Crash
  <2>. QED
    BY <1>0, <2>1, DownInd
<1> SUFFICES ASSUME boot = "up", UNCHANGED <<boot, disk, memory, crashes>> PROVE BootInd'
    BY <1>0 DEF Start, Up
<1>1. boot = "up" /\ UNCHANGED <<boot, disk, memory, crashes>>
    OBVIOUS
<1>2. BootTypeOK'
  BY <1>1 DEF BootInd, BootTypeOK, disk, memory
<1>3. Faithful'
  BY <1>1 DEF BootInd, Faithful, Keeps, Kept, disk, memory
<1>4. Stable'
  BY <1>1 DEF BootInd, Stable, Settled, disk, memory
<1>. QED
  BY <1>1, <1>2, <1>3, <1>4, UpFacts

(* The process is killed.                                                  *)
LEMMA KilledInd == BootInd /\ Killed => BootInd'
<1> SUFFICES ASSUME BootInd, Killed PROVE BootInd'
    OBVIOUS
<1>1. crashes' \in 0 .. MaxCrashes
  BY StartupAssumption DEF BootInd, BootTypeOK, Killed
<1>. QED
  BY <1>1, DownInd DEF Killed, Crash

(* Whether the server can be made or can listen is no part of the rest.    *)
LEMMA ObstructInd == ASSUME BootInd, NEW o \in Obstacles, Obstruct(o) PROVE BootInd'
<1>1. /\ UNCHANGED <<boot, file, data, files, pending, factory, chain, crashes, wrote, saved, phase>>
      /\ edits' = edits + 1 /\ edits < MaxEdits
      /\ obstacles' \in {obstacles \ {o}, obstacles \cup {o}}
  BY DEF Obstruct, memory, vars
<1>2. Loaded' = Loaded /\ SelfKnown' = SelfKnown
  BY <1>1 DEF Loaded, SelfKnown
<1>3. BootTypeOK'
  <2>1. edits' \in 0 .. MaxEdits /\ obstacles' \subseteq Obstacles
    BY <1>1, StartupAssumption DEF BootInd, BootTypeOK
  <2>. QED
    BY <1>1, <2>1 DEF BootInd, BootTypeOK
<1>4. Registered' /\ Detectors' /\ Configured'
  BY <1>1, <1>2 DEF BootInd, Registered, Detectors, Configured
<1>5. Faithful' /\ Progress'
  BY <1>1, <1>2 DEF BootInd, Faithful, Keeps, Kept, Progress
<1>6. Stable'
  BY <1>1 DEF BootInd, Stable, Settled
<1>. QED
  BY <1>3, <1>4, <1>5, <1>6 DEF BootInd

(* The administrator edits the configuration or a directory.               *)
LEMMA AdminInd ==
    ASSUME BootInd,
           \/ \E d \in UserFiles : Edit(d)
           \/ \E e \in Files : Install(e)
    PROVE  BootInd'
<1>1. /\ boot \in {"down", "up"} /\ boot' = boot /\ saved' = {}
      /\ UNCHANGED <<data, pending, factory, chain, crashes, phase, obstacles>>
      /\ edits < MaxEdits /\ edits' = edits + 1
  BY DEF Edit, Install, Quiet, memory, vars
<1>2. boot' \notin Reading /\ boot' \notin Booting
  BY <1>1, AfterFacts DEF Reading, Booting
<1>3. pending = {}
  BY <1>1, PendingFacts, DirsFacts DEF BootInd
<1>4. edits' \in 0 .. MaxEdits
  BY <1>1, StartupAssumption DEF BootInd, BootTypeOK
<1> DEFINE Disk == /\ files' \subseteq Files /\ file' \in Configurations \cup {Torn}
                   /\ wrote' \in UserFiles /\ Faithful'
<1>5. Disk
  <2>1. ASSUME NEW d \in UserFiles, Edit(d) PROVE Disk
    <3>1. file' = d /\ wrote' = d /\ files' = files
      BY <2>1 DEF Edit
    <3>2. Faithful'
      BY <1>2, <3>1 DEF Faithful, Keeps, Kept
    <3>. QED
      BY <3>1, <3>2, StartupAssumption DEF BootInd, BootTypeOK
  <2>2. ASSUME NEW e \in Files, Install(e) PROVE Disk
    <3>1. file' = file /\ wrote' = wrote
      BY <2>2 DEF Install
    <3>2. files' \subseteq Files
      BY <2>2 DEF Install, BootInd, BootTypeOK
    <3>3. Faithful'
      BY <1>2, <3>1 DEF BootInd, Faithful, Keeps, Kept
    <3>. QED
      BY <3>1, <3>2, <3>3 DEF BootInd, BootTypeOK
  <2>. QED
    BY <2>1, <2>2
<1>6. BootTypeOK'
  BY <1>1, <1>3, <1>4, <1>5 DEF BootInd, BootTypeOK
<1>7. Registered' /\ Detectors' /\ Configured' /\ Stable'
  BY <1>1, <1>2 DEF BootInd, Registered, Detectors, Configured, Stable
<1>8. Progress'
  BY <1>2, AfterFacts DEF Progress, Reading
<1>. QED
  BY <1>5, <1>6, <1>7, <1>8 DEF BootInd

(* Every step preserves the invariant.                                     *)
LEMMA BootNextInd == BootInd /\ [BootNext]_all => BootInd'
<1> SUFFICES ASSUME BootInd, [BootNext]_all PROVE BootInd'
    OBVIOUS
<1>1. CASE Load
  BY <1>1, AbortInd, IgnoreInd, DlOpenInd, LoadLuaInd, LuaCollectorInd DEF Load
<1>2. CASE ReadConfig \/ MakeServer \/ CloseDir \/ Truncate \/ Write \/ CannotWrite
  BY <1>2, ReadConfigInd, MakeServerInd, CloseDirInd, TruncateInd, SaveInd
<1>3. CASE Start \/ Up \/ Killed
  BY <1>3, UpInd, KilledInd
<1>4. CASE (\E d \in UserFiles : Edit(d)) \/ (\E e \in Files : Install(e))
  BY <1>4, AdminInd
<1>6. CASE \E o \in Obstacles : Obstruct(o)
  BY <1>6, ObstructInd
<1>5. CASE UNCHANGED all
  <2>1. /\ Loaded' = Loaded /\ SelfKnown' = SelfKnown
        /\ UNCHANGED <<boot, file, data, files, pending, factory, chain, obstacles, crashes,
                       edits, wrote, saved, phase>>
    BY <1>5 DEF all, vars, disk, memory, Loaded, SelfKnown
  <2>2. BootTypeOK'
    BY <2>1 DEF BootInd, BootTypeOK
  <2>3. Registered' /\ Detectors' /\ Configured'
    BY <2>1 DEF BootInd, Registered, Detectors, Configured
  <2>4. Faithful' /\ Progress'
    BY <2>1 DEF BootInd, Faithful, Keeps, Kept, Progress
  <2>5. Stable'
    BY <2>1 DEF BootInd, Stable, Settled
  <2>. QED
    BY <2>2, <2>3, <2>4, <2>5 DEF BootInd
<1>. QED
  BY <1>1, <1>2, <1>3, <1>4, <1>5, <1>6 DEF BootNext, Main

-----------------------------------------------------------------------------
(* The invariant holds in every reachable state.                           *)
THEOREM BootInvariant == BootSpec => []BootInd
BY BootInitInd, BootNextInd, PTL DEF BootSpec

(* Type correctness: only entries of the directory being read are pending, *)
(* and the threads start after the whole start-up.                         *)
THEOREM BootTypeCorrect == BootSpec => []BootTypeOK
<1>1. BootInd => BootTypeOK
  BY DEF BootInd
<1>. QED
  BY <1>1, BootInvariant, PTL

(* No crash, restart, plugin or failing start changes what the             *)
(* administrator has set, in the document from which Config::save() writes *)
(* or in a file that it has completed; a truncated file, "threads" without *)
(* "thread" and the spelling of the level are the exceptions.              *)
THEOREM SettingsAreKept == BootSpec => []SettingsKept
<1>1. BootInd => SettingsKept
  BY DirsFacts DEF BootInd, BootTypeOK, Faithful, Booting, Reading, After, SettingsKept
<1>. QED
  BY <1>1, BootInvariant, PTL

(* Restarts write the same configuration over and over, whatever the       *)
(* plugins and the order of readdir() (Config::save()).                    *)
THEOREM ConfigIsStable == BootSpec => []StableConfig
<1>1. BootInd => StableConfig
  <2>1. SUFFICES ASSUME BootInd PROVE Cardinality(saved) <= 1
    BY DEF StableConfig
  <2>2. CASE saved = {}
    BY <2>2, FS_EmptySet
  <2>3. CASE saved # {}
    <3>1. PICK d \in saved : saved = {d}
      BY <2>1, <2>3 DEF BootInd, Stable
    <3>. QED
      BY <3>1, FS_Singleton
  <2>. QED
    BY <2>2, <2>3
<1>. QED
  BY <1>1, BootInvariant, PTL

(* The order of readdir() does not decide who makes a collector, a parser  *)
(* or a handler (servicesManager::init() and CollectorsManager).           *)
THEOREM LibrariesComeFirst == BootSpec => []LibraryFirst
<1>1. BootInd => LibraryFirst
  <2>1. SUFFICES ASSUME BootInd, boot \in {"save", "writing"}, NEW f \in Factories \X Names
                 PROVE  factory[f] =
                          CASE OwnMaker(f) -> "builtin"
                            [] ~OwnMaker(f) /\ Libraries(f) # {} -> "cpp"
                            [] ~OwnMaker(f) /\ Libraries(f) = {} /\ LuaFiles(f) # {} -> "lua"
                            [] OTHER -> "none"
    BY DEF LibraryFirst
  <2>2. Loaded = files /\ SelfKnown = TRUE /\ boot \in Reading
    BY <2>1, AllLoaded, AfterFacts DEF SelfKnown, Reading
  <2>3. factory[f] = MakerOf(files, TRUE, f)
    BY <2>1, <2>2 DEF BootInd, Registered
  <2>4. Libraries(f) = {e \in files : Library(e, f)} /\ LuaFiles(f) = {e \in files : LuaFile(e, f)}
    BY DEF Libraries, LuaFiles, Library, LuaFile, CppDirs
  <2>5. OwnMaker(f) <=> Own(files, TRUE, f)
    BY <2>4 DEF OwnMaker, Own
  <2>. QED
    BY <2>3, <2>4, <2>5 DEF MakerOf
<1>. QED
  BY <1>1, BootInvariant, PTL

(* No thread of a collector starts without its settings                    *)
(* (CollectorsManager and LuaCollector::LuaCollector()).                   *)
THEOREM CollectorsAreConfigured == BootSpec => []CollectorsConfigured
<1>1. BootInd => CollectorsConfigured
  BY DEF BootInd, Configured, Polled, CollectorsConfigured
<1>. QED
  BY <1>1, BootInvariant, PTL

(* main() with its start-up, crashes and restarts does nothing to the      *)
(* services and their collectors that Agent does not allow ...             *)
THEOREM BootImplementsAgent == BootSpec => Spec
<1>1. BootInit => Init
  BY DEF BootInit
<1>2. [BootNext]_all => [Next]_vars
  <2>1. SUFFICES ASSUME [BootNext]_all PROVE [Next]_vars
    OBVIOUS
  <2>2. CASE Main
    BY <2>2 DEF Main, ReadConfig, MakeServer, Load, CloseDir, Truncate, Write, CannotWrite, Start,
              Abort, Ignore, DlOpen, LoadLua, LuaCollector, Next
  <2>3. CASE Up
    BY <2>3 DEF Up, Next
  <2>4. CASE Killed
    BY <2>4 DEF Killed, Next
  <2>5. CASE \/ \E d \in UserFiles : Edit(d)
             \/ \E e \in Files : Install(e)
             \/ \E o \in Obstacles : Obstruct(o)
    BY <2>5 DEF Edit, Install, Obstruct
  <2>6. CASE UNCHANGED all
    BY <2>6 DEF all
  <2>. QED
    BY <2>1, <2>2, <2>3, <2>4, <2>5, <2>6 DEF BootNext
<1>. QED
  BY <1>1, <1>2, PTL DEF BootSpec, Spec

(* ... so that a request never calls a destroyed collector, across all     *)
(* restarts (doGetCollectorHistory()).                                     *)
THEOREM NoDanglingCallAcrossRestarts == BootSpec => []NoDanglingCall
BY BootImplementsAgent, NoDanglingCallHolds, PTL
=============================================================================
