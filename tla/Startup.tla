------------------------------- MODULE Startup -------------------------------
(***************************************************************************)
(* How the agent comes up, composed with what it does then (Agent): main() *)
(* reads its configuration (src/config.cpp), makes the server and its log, *)
(* goes through the directories of services and plugins                    *)
(* (servicesManager::init(), CollectorsManager), writes the configuration  *)
(* back, with a default for every setting that it met, and only then       *)
(* starts its threads and the server.                                      *)
(*                                                                         *)
(* An exception in any of these steps ends the process, a crash ends it at *)
(* any time, and systemd starts it again (Restart=on-failure).  While the  *)
(* agent is down, or up, the administrator may rewrite the configuration   *)
(* or change what is in the directories.  The text of the file is left     *)
(* out: a setting is what the administrator wrote ("user"), or one of the  *)
(* defaults that the code has ("default") or that a Lua file has ("lua").  *)
(* Whether the server can be made and can listen with what is configured   *)
(* depends on more than the file and is the state of the machine           *)
(* (obstacles).                                                            *)
(***************************************************************************)
EXTENDS Agent, FiniteSets, SequencesExt

CONSTANTS
    Options,    \* settings that Config() handles alike: host, port, useSSL, config_dir...
    Names,      \* of plugins
    Files,      \* what may be in the directories
    UserFiles,  \* configurations that an administrator writes
    Torn,       \* a configuration file that does not parse
    MaxCrashes, \* bound: crashes
    MaxEdits    \* bound: changes that the administrator or the machine makes

(* The directories, in the order in which they are read.                   *)
Dirs == <<"config_dir", "services_cpp", "services_lua", "collectors_cpp", "collectors_lua">>

(* A directory entry: one that is skipped (hidden, a directory, gone at    *)
(* stat()), a name without a dot, with another suffix, or a plugin, which  *)
(* loads or not; and what it registers there.  LuaSorter knows nothing of  *)
(* system collectors, and a Lua file among the collectors is one of them.  *)
FileType ==
    [dir: Range(Dirs), form: {"skipped", "bare", "other", "plugin"},
     name: Names, works: BOOLEAN,
     types: SUBSET {"system", "collector", "logParser", "handler", "enhancer", "detector"}]

Levels == <<"NONE", "ERROR", "WARN", "NOTICE", "INFO", "DEBUG", "ALL">>

PerCollector == {"history", "poll-frequency", "enable"}

Settings ==
    {<<"server", o>> : o \in Options \cup {"thread", "threads"}} \cup {<<"log", "level">>}
        \cup (Names \X (PerCollector \cup {"detector"}))

Values == {"unset", "user", "default", "lua"}

Configurations ==
    {d \in [Settings -> Values \cup Range(Levels) \cup {"info", "bogus"}] :
       \A s \in Settings \ {<<"log", "level">>} : d[s] \in Values}

ASSUME StartupAssumption ==
    /\ "self" \in Names /\ "socket" \in Names
    /\ Files \subseteq FileType
    /\ \A e \in Files :
         /\ e.form = "plugin" /\ e.dir = "services_lua" => "system" \notin e.types
         /\ e.form = "plugin" /\ e.dir = "collectors_lua" => e.types = {"system"}
    /\ UserFiles \subseteq Configurations /\ Torn \notin Configurations
    /\ \A d \in UserFiles :
         /\ \A s \in Settings \ {<<"log", "level">>} : d[s] \in {"unset", "user"}
         /\ d[<<"log", "level">>] \in Range(Levels) \cup {"unset", "info", "bogus"}
    /\ MaxCrashes \in Nat /\ MaxEdits \in Nat

VARIABLES
    boot,       \* main(): "down", "server", a directory, "save", "writing", "up"
    file,       \* the configuration file
    data,       \* Config::data
    files,      \* what is in the directories
    pending,    \* the entries of this directory that readdir() has yet to return
    factory,    \* who makes the collectors, parsers and handlers of each name
    chain,      \* the detectors and the enhancers
    obstacles,  \* what the server throws on when it is made, and when it starts to listen
    crashes, edits,
    wrote,      \* history: the configuration that the administrator wrote last
    saved       \* history: what save() has written since the last change

disk == <<file, files, obstacles, edits, wrote, saved>>
memory == <<data, pending, factory, chain>>
all == <<vars, boot, disk, memory, crashes>>

Factories == {"system", "collector", "logParser", "handler"}
Makers == {"none", "cpp", "lua", "builtin"}

(* "server": a port that is no number, or TLS files that OpenSSL refuses.  *)
(* "listen": a host that is no address, an address that is not one of this *)
(* machine or is in use, a port that only root may have.                   *)
Obstacles == {"server", "listen"}

NoFactory == [f \in Factories \X Names |-> "none"]

Unset == [s \in Settings |-> "unset"]

(* The types of the state; only the files of the directory being read are  *)
(* pending, and detection and server start after the whole start-up.       *)
BootTypeOK ==
    /\ boot \in {"down", "server", "save", "writing", "up"} \cup Range(Dirs)
    /\ file \in Configurations \cup {Torn}
    /\ data \in Configurations
    /\ files \subseteq Files /\ obstacles \subseteq Obstacles
    /\ pending \subseteq {e \in files : e.dir = boot}
    /\ factory \in [Factories \X Names -> Makers]
    /\ chain \subseteq {"detector", "enhancer"} \X Names \X Makers
    /\ crashes \in 0 .. MaxCrashes /\ edits \in 0 .. MaxEdits
    /\ wrote \in UserFiles
    /\ phase # "init" => boot = "up"

BootInit ==
    /\ Init
    /\ boot = "down"
    /\ file \in UserFiles
    /\ data = Unset
    /\ files = Files \ {e \in Files : e.form = "bare" \/ e.dir = "config_dir"}
    /\ obstacles \in SUBSET Obstacles
    /\ pending = {} /\ factory = NoFactory /\ chain = {}
    /\ crashes = 0 /\ edits = 0
    /\ wrote = file /\ saved = {}

-----------------------------------------------------------------------------
(* Config::Config(): a missing file is one without settings.  The code     *)
(* tests for "thread" before it writes "threads".                          *)
Config(d) ==
    [s \in Settings |->
       IF \/ s[1] = "server" /\ s[2] \in Options /\ d[s] = "unset"
          \/ s = <<"server", "threads">> /\ d[<<"server", "thread">>] = "unset"
       THEN "default" ELSE d[s]]

(* An uncaught exception, or a crash.                                      *)
Down ==
    /\ boot' = "down"
    /\ data' = Unset /\ pending' = {} /\ factory' = NoFactory /\ chain' = {}

ReadConfig ==
    /\ boot = "down"
    /\ \/ file = Torn /\ Down
       \/ /\ file # Torn
          /\ data' = Config(file)
          /\ boot' = "server"
          /\ UNCHANGED <<pending, factory, chain>>
    /\ UNCHANGED <<disk, crashes, vars>>

Upper(l) == IF l = "info" THEN "INFO" ELSE l

\* Mutant: the index of the level is one too high when it is written back.
LevelDrift(l) ==
    IF Upper(l) \in Range(Levels) /\ Upper(l) # "ALL"
    THEN Levels[1 + CHOOSE i \in 1 .. 7 : Levels[i] = Upper(l)] ELSE "NOTICE"

(* log::log(): levels[level] is what the text stands for, or NOTICE.       *)
Level(l) == IF Upper(l) \in Range(Levels) THEN Upper(l) ELSE "NOTICE"

Entries(dir) == {e \in files : e.dir = dir}

(* HttpServer::HttpServer(): asInt() of the port and the constructor of    *)
(* the HTTPS server may throw.                                             *)
MakeServer ==
    /\ boot = "server"
    /\ \/ "server" \in obstacles /\ Down
       \/ /\ "server" \notin obstacles
          /\ data' = [data EXCEPT ![<<"log", "level">>] = Level(@)]
          /\ boot' = Head(Dirs)
          /\ pending' = Entries(Head(Dirs))
          /\ UNCHANGED <<factory, chain>>
    /\ UNCHANGED <<disk, crashes, vars>>

-----------------------------------------------------------------------------
(* One entry that readdir() returns                                        *)

IsPlugin(e) == e.form = "plugin"

(* substr(rfind(".")) of a name without a dot throws out_of_range.         *)
Abort(e) ==
    /\ e \in pending
    /\ e.form = "bare" \/ (IsPlugin(e) /\ e.dir = "config_dir" /\ ~e.works)
    /\ Down
    /\ UNCHANGED <<disk, crashes, vars>>

\* Mutant: the exit(-1) that is commented out.
IgnoreOrExit(e) ==
    /\ e \in pending
    /\ \/ e.form \in {"skipped", "other"} /\ pending' = pending \ {e}
             /\ UNCHANGED <<boot, data, factory, chain>>
       \/ IsPlugin(e) /\ e.dir = "config_dir" /\ e.works /\ pending' = pending \ {e}
             /\ UNCHANGED <<boot, data, factory, chain>>
       \/ IsPlugin(e) /\ e.dir \in {"services_cpp", "collectors_cpp"} /\ ~e.works /\ Down
    /\ UNCHANGED <<disk, crashes, vars>>

Ignore(e) ==
    /\ e \in pending
    /\ \/ e.form \in {"skipped", "other"}
       \/ IsPlugin(e) /\ e.dir = "config_dir" /\ e.works
       \/ IsPlugin(e) /\ e.dir \in {"services_cpp", "collectors_cpp"} /\ ~e.works
    /\ pending' = pending \ {e}
    /\ UNCHANGED <<boot, data, factory, chain, disk, crashes, vars>>

Made(e) == {<<t, e.name>> : t \in e.types \cap Factories}

Chained(e, lang) == {<<t, e.name, lang>> : t \in e.types \cap {"detector", "enhancer"}}

(* The static initialisers of the library register its makers.             *)
DlOpen(e) ==
    /\ e \in pending /\ IsPlugin(e) /\ e.works
    /\ e.dir \in {"services_cpp", "collectors_cpp"}
    /\ factory' = [f \in DOMAIN factory |-> IF f \in Made(e) THEN "cpp" ELSE factory[f]]
    /\ chain' = chain \cup Chained(e, "cpp")
    /\ pending' = pending \ {e}
    /\ UNCHANGED <<boot, data, disk, crashes, vars>>

(* getDetectorCfg(): every detector has an object in the configuration.    *)
DetectorCfg(d, names) ==
    [s \in Settings |->
       IF s[1] \in names /\ s[2] = "detector" /\ d[s] = "unset" THEN "default" ELSE d[s]]

\* Mutant: a Lua file replaces what a library has registered.
TakenOver(e) == Made(e)

Taken(e) == {f \in Made(e) : factory[f] = "none"}

(* LuaSorter tells what a file of services_lua is for.  Its collector,     *)
(* parser and handler give way to those of a library of the same name, its *)
(* enhancer and its detector are added to them.                            *)
LoadLua(e) ==
    /\ e \in pending /\ IsPlugin(e) /\ e.dir = "services_lua"
    /\ factory' = [f \in DOMAIN factory |-> IF f \in Taken(e) THEN "lua" ELSE factory[f]]
    /\ chain' = chain \cup Chained(e, "lua")
    /\ data' = DetectorCfg(data, {e.name} \cap {n \in Names : "detector" \in e.types})
    /\ pending' = pending \ {e}
    /\ UNCHANGED <<boot, disk, crashes, vars>>

(* getCollector() and Collector::Collector() for a collector of the        *)
(* system: what is configured is kept.                                     *)
CollectorCfg(d, names, rate) ==
    [s \in Settings |->
       CASE s[1] \in names /\ s[2] \in {"history", "poll-frequency"} /\ d[s] = "unset" -> rate
         [] s[1] \in names /\ s[2] = "enable" /\ d[s] = "unset" -> "default"
         [] OTHER -> d[s]]

\* Mutant: the settings of the Lua file come first.
LuaCfgForced(d, n) ==
    [CollectorCfg(d, {n}, "lua") EXCEPT ![<<n, "poll-frequency">>] = "lua"]

\* Mutant: the Lua file is only asked how long its history is.
LuaCfgHistory(d, n) ==
    [s \in Settings |->
       IF s = <<n, "poll-frequency">> THEN d[s] ELSE CollectorCfg(d, {n}, "lua")[s]]

(* LuaCollector::LuaCollector(): Collector() is given no default, the file *)
(* has them.                                                               *)
LuaCfg(d, n) == CollectorCfg(CollectorCfg(d, {n}, "unset"), {n}, "lua")

LuaCollector(e) ==
    /\ e \in pending /\ IsPlugin(e) /\ e.dir = "collectors_lua"
    /\ LET free == Taken(e) # {}
       IN  /\ factory' = [f \in DOMAIN factory |-> IF f \in Taken(e) THEN "lua" ELSE factory[f]]
           /\ data' = IF free THEN LuaCfg(data, e.name) ELSE data
    /\ pending' = pending \ {e}
    /\ UNCHANGED <<boot, chain, disk, crashes, vars>>

-----------------------------------------------------------------------------
(* What follows a directory                                                *)

\* Mutant: the entries of the directory that was read are gone through again.
FollowingSame(dir) == Entries(dir)

Following(dir) ==
    IF dir = Last(Dirs) THEN {} ELSE Entries(Dirs[1 + CHOOSE i \in 1 .. 4 : Dirs[i] = dir])

CloseDir ==
    /\ boot \in Range(Dirs) /\ pending = {}
    /\ boot' = IF boot = Last(Dirs) THEN "save"
               ELSE Dirs[1 + CHOOSE i \in 1 .. 4 : Dirs[i] = boot]
    /\ pending' = Following(boot)
    /\ CASE boot = "services_cpp" ->
              /\ factory' = [factory EXCEPT ![<<"collector", "self">>] = "builtin"]
              /\ data' = DetectorCfg(data, {n \in Names : <<"detector", n, "cpp">> \in chain})
              /\ UNCHANGED chain
         [] boot = "services_lua" ->
              /\ chain' = chain \cup {<<"detector", "socket", "builtin">>}
              /\ data' = DetectorCfg(data, {"socket"})
              /\ UNCHANGED factory
         [] boot = "collectors_cpp" ->
              /\ data' = CollectorCfg(data, {n \in Names : factory[<<"system", n>>] = "cpp"},
                                      "default")
              /\ UNCHANGED <<factory, chain>>
         [] OTHER -> UNCHANGED <<data, factory, chain>>
    /\ UNCHANGED <<disk, crashes, vars>>

-----------------------------------------------------------------------------
(* Config::save(): the file is truncated when it is opened and complete    *)
(* when it is closed; one that cannot be written is left as it is.         *)
Truncate ==
    /\ boot = "save"
    /\ file' = Torn
    /\ boot' = "writing"
    /\ UNCHANGED <<files, obstacles, edits, wrote, saved, memory, crashes, vars>>

Write ==
    /\ boot = "writing"
    /\ file' = data
    /\ saved' = saved \cup {data}
    /\ boot' = "up"
    /\ UNCHANGED <<files, obstacles, edits, wrote, memory, crashes, vars>>

CannotWrite ==
    /\ boot = "save"
    /\ boot' = "up"
    /\ UNCHANGED <<disk, memory, crashes, vars>>

(* The rest of main(): the threads are started before the server listens,  *)
(* which may end them all.                                                 *)
Start ==
    /\ boot = "up"
    /\ \/ StartThreads /\ UNCHANGED <<boot, memory>>
       \/ "listen" \notin obstacles /\ ServerStart /\ UNCHANGED <<boot, memory>>
       \/ "listen" \in obstacles /\ ServerFails /\ Down
    /\ UNCHANGED <<disk, crashes>>

(* What the threads do then.                                               *)

Up ==
    /\ boot = "up"
    /\ \/ \E id \in Services : MakeCollector(id) \/ Request(id)
       \/ AddRoute \/ PushService \/ DropService
       \/ FindResource \/ Respond
    /\ UNCHANGED <<boot, disk, memory, crashes>>

Killed ==
    /\ boot # "down" /\ crashes < MaxCrashes
    /\ crashes' = crashes + 1
    /\ Crash /\ Down
    /\ UNCHANGED disk

-----------------------------------------------------------------------------
(* The administrator.  What is written while the agent starts is lost in   *)
(* save(), and is left out.                                                *)
Quiet == boot \in {"down", "up"} /\ edits < MaxEdits

Edit(d) ==
    /\ Quiet
    /\ file' = d /\ wrote' = d /\ saved' = {}
    /\ edits' = edits + 1
    /\ UNCHANGED <<boot, files, obstacles, memory, crashes, vars>>

Install(e) ==
    /\ Quiet
    /\ files' = IF e \in files THEN files \ {e} ELSE files \cup {e}
    /\ saved' = {}
    /\ edits' = edits + 1
    /\ UNCHANGED <<boot, file, obstacles, wrote, memory, crashes, vars>>

(* Another process takes the address or leaves it, files of OpenSSL come   *)
(* and go, a value of the configuration is put right: at any time.         *)
Obstruct(o) ==
    /\ edits < MaxEdits
    /\ obstacles' = IF o \in obstacles THEN obstacles \ {o} ELSE obstacles \cup {o}
    /\ edits' = edits + 1
    /\ UNCHANGED <<boot, file, files, wrote, saved, memory, crashes, vars>>

-----------------------------------------------------------------------------
Load == \E e \in Files : Abort(e) \/ Ignore(e) \/ DlOpen(e) \/ LoadLua(e) \/ LuaCollector(e)

Main ==
    \/ ReadConfig \/ MakeServer \/ Load \/ CloseDir
    \/ Truncate \/ Write \/ CannotWrite \/ Start

BootNext ==
    \/ Main \/ Up \/ Killed
    \/ \E d \in UserFiles : Edit(d)
    \/ \E e \in Files : Install(e)
    \/ \E o \in Obstacles : Obstruct(o)

(* main() goes on, and systemd, or the administrator when systemd has      *)
(* given up, starts it again.                                              *)
BootSpec == BootInit /\ [][BootNext]_all /\ WF_all(Main)

-----------------------------------------------------------------------------
Kept(d, s) ==
    CASE s = <<"log", "level">> -> d[s] \in {wrote[s], Level(wrote[s])}
      [] s = <<"server", "threads">> -> wrote[<<"server", "thread">>] # "unset" => d[s] = wrote[s]
      [] OTHER -> d[s] = wrote[s]

Keeps(d) == \A s \in Settings : wrote[s] # "unset" => Kept(d, s)

(* A configuration file that parses has what the administrator has set,    *)
(* and so has the document in memory from ReadConfig to save(), which is   *)
(* what the file is written from: through any number of crashes, restarts  *)
(* and changes of plugins, also for a collector that a library and a Lua   *)
(* file provide.  Two settings may change: a level is put in its own       *)
(* spelling, and "threads" is kept only beside "thread".  A file that      *)
(* save() had truncated when the process was killed has nothing any more.  *)
SettingsKept ==
    /\ file # Torn => Keeps(file)
    /\ boot \notin {"down", "up"} => Keeps(data)

(* Nothing that a restart does changes the file again: the defaults, the   *)
(* level and the order in which readdir() returns the plugins lead to the  *)
(* same content as long as nobody changes anything.                        *)
StableConfig == Cardinality(saved) <= 1

Libraries(f) == {e \in files : IsPlugin(e) /\ e.works /\ f \in Made(e)
                                 /\ e.dir \in {"services_cpp", "collectors_cpp"}}

(* "self" is the agent's own, unless a library among the collectors of the *)
(* system registers it anew.                                               *)
OwnMaker(f) ==
    /\ f = <<"collector", "self">>
    /\ \A e \in Libraries(f) : e.dir # "collectors_cpp"

LuaFiles(f) == {e \in files : IsPlugin(e) /\ f \in Made(e)
                                /\ e.dir \in {"services_lua", "collectors_lua"}}

(* When the directories have been read, the maker of each name follows     *)
(* from what is in them and not from the order of readdir(): a library     *)
(* that loads, or else a Lua file, for service plugins and for the         *)
(* collectors of the system alike; "self" is the agent's own, as a rule.   *)
LibraryFirst ==
    boot \in {"save", "writing"} =>
        \A f \in Factories \X Names :
            factory[f] =
               CASE OwnMaker(f) -> "builtin"
                 [] ~OwnMaker(f) /\ Libraries(f) # {} -> "cpp"
                 [] ~OwnMaker(f) /\ Libraries(f) = {} /\ LuaFiles(f) # {} -> "lua"
                 [] OTHER -> "none"

(* Before the threads start, every collector of the system has a history,  *)
(* a poll-frequency (0 would make its thread spin) and an "enable" in the  *)
(* configuration, whoever made it and whatever was configured.             *)
CollectorsConfigured ==
    boot \in {"save", "writing", "up"} =>
        \A n \in Names : factory[<<"system", n>>] # "none" =>
            \A k \in PerCollector : data[<<n, k>>] # "unset"

Loadable ==
    \A e \in files : e.form # "bare" /\ (e.dir = "config_dir" /\ IsPlugin(e) => e.works)

(* After the last crash and the last change the agent serves for ever, as  *)
(* far as its start-up goes, unless what it finds ends every process that  *)
(* is started: a configuration that save() had truncated when the process  *)
(* was killed, an entry of a directory that cannot be read, or a server    *)
(* that cannot be made or cannot listen.  When that is put right it serves *)
(* again; the first is put right by nobody but the administrator.          *)
EventuallyServes ==
    <>[](phase = "serving" \/ file = Torn \/ ~Loadable \/ obstacles # {})
=============================================================================
