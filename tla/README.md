# A verification model of watched.agent

watched.agent is a monitoring daemon. It finds the services of a host by their
listening sockets and by systemd, polls metrics and logs of each of them in
threads of their own, keeps short histories in memory, and serves everything
to a backend over HTTP. What can go wrong in it is concurrency: one detection
thread, one HTTP thread (the server is built with a pool of one) and one thread
per collector and per log monitor share objects, mostly without locks, while
the host they look at changes between any two reads.

Paths below are relative to the root of the repository.

## 1. Inventory

| Component | State | Operations | Who calls it | What makes it correct |
|---|---|---|---|---|
| `Collector`, `timer_killer` (`include/collectors.h`, `src/collectors.cpp`) | `active`, mutex, timer, thread, `ressources` | `startThread`, virtual `collect`, `doGetHistory`, `getJsonHistory`, destructor | own thread, HTTP thread, detection thread (construction, destruction) | readers do not see a row being written; destruction stops the thread and ends |
| `Ressource`, `tickRessource`, `pidRessource` | rows `v`, last counters | `nextValue`, `setProperty`, `setTickValue`, `setPidValue`, `getHistory` | `collect()`, HTTP thread | bounded history, counters agree, differences are right |
| `process`, `socket` (`src/services.cpp`) | pid, path, cached inodes | `getStatus`, `getPPID`, `setSockets` | detectors, status | cached sockets become current |
| `service` (`src/services.cpp`) | name, type, uniqName, sockets, main and sub-processes, handler, collectors, parsers | `setSocket`, `addMainProcess`, `updateMainProcess`, `updateFrom`, `operator==`, `needSocketFrom`, `getPIDs`, `getJsonStatus` | all threads | a process is in one place; the status is the truth |
| `servicesManager` (`src/servicesManager.cpp`) | vector of services, detectors, enhancers | `init`, `startThreads`, `find`, `addService`, `updateService`, HTTP handlers | detection thread, HTTP thread | each service once, none missed, templates current |
| `socketDetector` (`src/servicesManager.cpp`) | list of sockets of one pass | `find` | detection thread | every daemon is found |
| systemd plugin (`services/sdbus/systemdbus.cpp`) | bus connection, unit of each handler | `find`, `enhance`, `isBlackout` | detection thread, HTTP thread | units are found; a restart is followed |
| `logParser` (`src/services.cpp`) | `pos`, `lineNo`, entries | `parseLog` | own thread, HTTP thread | each line to report once, bounded |
| `main`, route map (`src/agent.cpp`, `sws/server_http.hpp`) | route map | `setRegex`, `start`, `find_resource` | all collectors, HTTP thread | a route leads to an object that exists |
| HTTP connections (`sws/server_http.hpp`, `sws/server_https.hpp`, `src/server.cpp`) | queue of the io thread; socket, pending operation and timer of each connection; the open file | accept, handshake, read, handlers, send, timeouts | one io thread, clients | a request is answered once, a file whole; no client holds a socket for ever |
| `Config`, `log` (`src/config.cpp`, `src/log.cpp`) | the JSON document, the file, the level | constructor, getters that add defaults, `save` | `main`, managers, plugins | a restart changes nothing that was configured; a crash does not lose it |
| plugin loading (`servicesManager::init`, `CollectorsManager`, `LuaSorter`) | factories, detectors, enhancers | one step per directory entry | `main` | the outcome does not depend on `readdir()` |
| system collectors (`collectors/*.cpp`, `luaCollectors/*.lua`), Lua collectors of a service (`luaServices/*.lua`) | remembered counters, resources | `collect` | own thread | a row holds what its pass has read; a difference is the true one |
| pages and `swagger.json` (`src/servicesManager.cpp`, `src/collectors.cpp`, `src/services.cpp`) | the document being written, the base path of each collector | `doGetJson`, `doGetRootPage`, `doGetServiceHtml`, `addCollector`, `updateBasePaths` | HTTP thread, enhancers | what is linked is answered, what is referred to is defined |
| Lua bridge (`src/luacollectors.cpp`) | one Lua state and one mutex per object | `collect`, `enhance`, `getLevel`, `getDate` | as their C++ counterparts | |
| `SelfCollector` | global counters | `collect` | own thread | |

Interactions: `main()` reads the configuration, makes the server and the log,
loads the plugins (`servicesManager::init()`, `CollectorsManager`), writes the
configuration back, and calls `startThreads()` and `HttpServer::start()`. The detection thread runs every detector's `find()`,
which calls `addService()`; the enhancers called there create collectors and
log monitors, whose threads start at once and whose routes go into the server.
When the service turns out to be known already, the new object is dropped and
with it those collectors and monitors. HTTP handlers iterate over the registry,
and a status request may change a service through its handler. Collectors call
`getPIDs()`, which erases dead sub-processes.

The hard behaviours are: destruction against a running thread, unlocked reads,
a snapshot of sockets that is stale when a process is examined, restarts and
forks between any two steps, a bus that fails, a log that is rotated while it
is read, a route map that grows while it is searched, timers that race the
completions they guard, a configuration file that is rewritten at every start,
items of a collector that vanish in the middle of a pass, and names that an
enhancer changes after links were made of them. `PROJECT.json` lists them with
their lines under `hazards`.

## 2. Modules

| Module | Models |
|---|---|
| `CollectorThread` | one collector, its three threads, its rows |
| `CollectorThreadProofs` | theorems about it |
| `Host` | the host (external) and class `process` |
| `Service` | class `service`, as operators on a record |
| `ServicesManager`, `ServicesManagerProofs` | registry, both detectors, status requests, templates |
| `MCServices` | small hosts for the runs |
| `LogParser`, `LogParserProofs` | `parseLog()` and the file it follows |
| `Agent` | start-up, routes and their lookup |
| `Startup`, `MCStartup` | `main()`, `Config` and plugin loading; EXTENDS `Agent`, with crashes and restarts |
| `StartupProofs` | theorems about `Agent` and `Startup`, and that the one implements the other |
| `Ressource`, `RessourceProofs` | the values in the rows, and a client that polls with `since` |
| `SystemCollectors`, `SystemCollectorsProofs` | what ten collectors read and publish |
| `RequestReply` | abstract: what a client may rely on |
| `HttpConnection`, `MCHttpConnection`, `HttpConnectionProofs` | the connections; implements `RequestReply` |
| `Api`, `MCApi`, `ApiProofs` | `swagger.json`, the pages, and the links in them |

**CollectorThread.** Every control point of the three threads is a value of
`worker`, `http` or `dtor`; an action is the code between two of them. `lock`
is the collector's mutex. A row is `"copied"` between `nextValue()`, which
inserts a copy of the newest row, and `setProperty()`. `kind` is what the
derived `collect()` does: the cpu, io and mem collectors hold a `shared_ptr` to
their service while they collect, the others do not. The derived destructor
runs before `~Collector()` and without the mutex; a `collect()` that meets it
may continue or abort the process, a choice of the model, since the code leaves
it undefined. Members are not represented one by one. The mutex inside
`timer_killer` is part of `Killed` and `DtorKill`, each of which is one critical
section in the code.

**Host, Service, ServicesManager.** A step of a detector is one unit or one
process, a step of a request is one service; inside such a step the code reads
`/proc` several times, which the model does at once. The host may change
between steps: a process forks (the child inherits the sockets or closes them),
exits, listens, closes; an orphan belongs to init; systemd starts a unit again.
A pid and an inode are used once. The list of sockets is taken once per pass
(`FindSockets`), the processes are then examined in ascending order. The
identity of a service is the pair (name, uniqName); names, addresses and types
are values of small sets. The id of a configured socket is not initialised in
the code and is any value in `Init`. `Enhance` is `systemdEnhancer` followed by
`enhance_core.lua`; when `GetUnitByPID` fails the service is not named after its
unit (`answered` in `ScanNew`). `templates` is the
content of the `.json.template` files. A property of the bus that cannot be
read throws (`FindUnitThrows`), a failing `Introspect` does not
(`IntrospectFails`). `foundWith` is a history variable: the inodes with which
`addService()` was called for a process.

**LogParser.** A position is a number of lines. `tellg()` on a stream whose
`getline()` has failed is -1, and `seekg(-1)` makes the stream fail; both are
library behaviour. What the plugin makes of a line is one of three outcomes, or
an exception.

**Agent.** `collectors` are all collectors made by the detection thread,
`routes` the entries of the route map that point at one, `registry` what a
lookup by ID finds. The lookup goes through the generic route because of the
order of the map: the text of a generic regex has a parenthesis where a
specific one has the service's name. Service names that begin with a character
before the parenthesis in ASCII are not considered. `Crash` ends the process
and everything in its memory; `ServerStart` is `HttpServer::start()`, and
`ServerFails` the same call when the server cannot listen: the exception leaves
`main()` while the threads run.

**Startup.** Composed with `Agent`: `main()` goes through `boot`, and when it is
`"up"` the steps of `Agent` begin. A directory entry is a step, in any order
within its directory, as `readdir()` gives them. `save()` is two steps, since the
stream truncates the file before the document is written; a crash between them
leaves `Torn`. A setting is what the administrator wrote, a default of the code,
or one of a Lua file; the settings that `Config` handles alike are one set
`Options`. An exception that nobody catches (a name without a dot, an
unreadable file of `config_dir`) ends the process like a crash. `obstacles` is
what prevents the server: from being made (a port that is no number, TLS files
that OpenSSL refuses) or from listening (an address that is none, is not of this
machine or is in use); such a thing comes and goes at any time. The
administrator changes the file or a directory while the agent is down or up;
a change while it comes up is left out.

**HttpConnection.** The kernel completes an operation by putting a completion in
`queue`, which the one io thread takes in order; each handler is an action and
starts the next operation of its connection. A timer that has expired is a
completion like any other, so `cancel()` comes too late for it. `request[c]`
says which path through the handlers the request takes; headers, hashes and the
bytes of bodies are left out, the length of a static file is not. A read may
swallow a pipelined request, which the code loses with its stream buffer.

**RequestReply.** Seven states per connection. A request that was taken is
answered, or its connection is given up and then closed. A request whose handler
throws is a kind of its own from the moment it is taken (`"failing"`), because the
code treats it differently: the empty response that its deleter sends is no
answer, and with keep-alive the connection goes on. `HttpConnection` maps to it
by `Stage`: idle until a request has been read, busy or failing while it is
worked on, done once the answer is written, given up when the socket is open and
nothing but a timer holds it.

**SystemCollectors.** `kind` is the collector; a pass takes one item per step,
and items appear and vanish between steps. Two kinds make their resources in
the constructor, two at first sight of an item, the others have one or two; a
resource that nobody made is a null pointer, and using it ends the process. The
file or directory that a collector opens may fail to open at any time (`shut`),
also in the constructor of the three kinds that look into it there: they then
have no resources. An item may exist and not be readable (`broken`): a frequency
or a zone that cannot be opened, a mount on which `statvfs()` fails. A process
that goes while a Lua collector reads its files ends the pass of each of the
three. The directory of `thermal` is taken to open, and a machine keeps one cpu.
`Width` stands for 2^32, `Cap` for the limit above which `cpuuse` takes an iowait
for 0. `made`, `got`, `missed`, `born`, `last`, `reused` and `blind` (the constructor
could not open its file) are history variables.

**Api.** `AddService` is a detector's find, `Enhance` one call that an enhancer
makes on the new service, and `Register` what follows the last of them; `chain` is
the order in which the files of the enhancers were read. Each process begins
with the services that `config_dir` describes: no enhancer is called for them and
they have no collectors. `configured` (how many they are) and `found` in a link
(whether it leads to a detected service) are history. A collector gets its
path when it is added, and `updateBasePaths()` changes the path when the service
is renamed. The document
is written collector by collector and service by service while the detection
thread goes on; a page is one step. The client keeps one link out of all that
it is given, which makes every link a case of its own; after a restart it
keeps the link of the earlier process.

**Ressource.** `CollectorThread` knows of a row only whether it is filled;
this module has the values. `kind` chooses between a `tickRessource` with one
counter and a `pidRessource` with one name and the counters of several pids;
resources with more names repeat the same computation for each. The kernel's
counters are external: they grow at any time, also within a pass, and restart
when a device comes back or a pid is used again. `atoi()` is glibc's, which
keeps the low 32 bits; `Width` stands for 2^32. A step of `collect()` reads one
source. A device that `/proc` does not list gets no row in that pass, and a
process whose file cannot be opened is skipped. The client's read happens
between two passes, which is what `LockedReadExclusive` of `CollectorThread`
shows of `doGetHistory()`. `truth` and `exact` in a row, and `grown` and
`replaced`, are history variables: they record what the counters did and are
never read by an operation. Time advances by one per pass: the polling thread
waits between two passes, and a system clock that is set back is left out.

## 3. Runs

Passing runs:

* `collector`: `LockedReadExclusive`, `HarmConfined` (what the destructor, which
  is not safe, can hurt and what it cannot), `HistoryBounded`, and `JoinReturns`
  under fairness. History 3: one row, a full history and an
  overflow all happen. Deadlock is not checked, since the destructor can
  deadlock (below).
* `registry`: sshd (pid 2), its successor (3), a child (4) that inherits or not
  and may be orphaned, an inode for each daemon on one address and another one
  for the successor, which may close the address and open it again.
  `NoneForgotten`; the status and the templates converge. `StatusConverges` says
  which open sockets are shown as open: those that their process was found with,
  and those that are the one kept for their address. One that its process has
  opened again is neither, and is shown as failed (section 5). Each host action is
  bounded by the pids and inodes, so the host becomes quiet in every behaviour, and
  what is said of "eventually" is said of a quiet host. `TemplatesConverge` is
  about the IDs that one service has: two services with one ID write the same file.
* `units`: the daemon and its successor, here on another address, so that there may
  be a service for each, with systemd, the enhancer, the handler, status requests
  and one bus error, which ends a pass in either of two ways or leaves a service
  without its unit's name: daemons and units are detected all the same. `OneOwner`: a process has two services only when `isBlackout()` has given a
  unit's service the main process of the unit. It asks only its own service
  whether the pid is known (`services/sdbus/systemdbus.cpp:161`), and TLC reaches
  that state. The child of `registry` is not in this run; the theorem has it.
* `logparser`: files of up to three lines, one rotation, one exception, history
  2: the history overflows and the file grows and is rotated during a pass.
* `ressource`: a history of two rows, a poll frequency of 2, counters modulo 4
  that grow by up to 5 in total, two pids and four passes. A counter wraps, a
  second wrap within one pass period is possible, pids are met, lost and used
  again in the middle of a pass, rows are dropped before and after the client
  has seen them. Deadlock is not checked: the bounds end a behaviour.
* `http`: over HTTP and HTTPS, one client whose requests take every path through
  the handlers and that sends a second one before or after the first is answered,
  and one that only holds its connection. An empty file, one of one buffer and one
  of one and a half. `Guarded` and `OneOperation` are what makes the timers sound,
  `BodyComplete` what makes keep-alive sound, `IdleConnectionClosed` and
  `ImplementsRequestReply` what a client sees. Deadlock is not checked: all
  connections may have ended.
* `startup`: two crashes at any point, one change by the administrator or of
  what is in the server's way, eleven directory entries among which a library and a Lua file have one name, and
  three configurations. What was configured survives (`SettingsKept`), a restart
  changes nothing (`StableConfig`), the order of `readdir()` does not matter
  (`LibraryFirst`), a collector does not start without its settings
  (`CollectorsConfigured`), the agent serves again (`EventuallyServes`, which
  names what prevents it: a torn file, an entry that cannot be read, a server that
  cannot be made or cannot listen), and no request calls a destroyed
  collector, across restarts too (`NoDanglingCall`).
* `metrics`: two items, two changes, counters modulo 5 that grow to 6: a counter
  wraps, passes the cap, and a pid is used again. `Fresh`: a row holds nothing
  older than its pass, with the exceptions that its comment names; only what the
  constructor has not seen crashes the agent; what stays is published; the
  differences are exact.
* `api`: two services, two plugin directories in every order, three system
  collectors of which one makes its resource late, one restart, and a
  `config_dir` that is empty or describes the first daemon, under its fixed key or
  under an address: links are answered, also those of an earlier process for a
  detected service with a fixed key, unless `config_dir` has a service with the
  ID of that one, which comes first and has no collectors; the document defines
  what it refers to; each crash has one of three reasons.
  Deadlock is not checked: the process may have crashed with its restarts used
  up.

Runs in which TLC shows a disagreement between the code and what the
repository says (`findings` in `PROJECT.json` has the quotations):

* `collector_destruction`: three ways in which destroying the collector of a
  dropped service goes wrong. TLC prints the shortest; each of the three
  operators of `DestructionIsSafe` is reachable.
* `configured`: a configured service swallows every process of the host.
* `logparser_newlines`: nothing is read after the first pass. For the same
  reason `HistoryIsExact` is about the first pass.

### Fairness

`CollectorThread` assumes that a runnable polling thread and a running
destructor make progress (threads of one process under the kernel's scheduler).
The end of the poll period is not assumed: `JoinReturns` must rest on `kill()`.
`ServicesManager` and `LogParser` assume that the detection thread and the
polling thread keep taking steps; both loop for ever with a bounded wait.
`SystemCollectors` assumes the same of the thread of its collector.
`HttpConnection` assumes that the io thread runs what is queued and that each
timer that is left running expires. `Startup` assumes that `main()` goes on and
is started again, by `Restart=on-failure` in
`tools/systemd/watched.agent.service.in:9`, or by the administrator once systemd's
limit of starts is reached; `Api` has no liveness property
and no fairness. Nothing is assumed of the host, of clients or of the log.

### Bounds

`LastPid`, `Inodes`, `MaxBusErrors`, `MaxLines`, `MaxFiles`, `MaxThrows`,
`MaxCollectors`, `MaxGrowth`, `MaxPasses`, `MaxRequests`, `MaxCrashes`, `MaxEdits`,
`MaxCount`, `MaxUse`, `MaxChanges`, `MaxServices` and `MaxRestarts` are bounds of the
model and not of the code; `Width`, `Cap` and `Buffer` are small stand-ins for
numbers of the code, chosen so that a counter passes them and a file is larger
than a buffer. Two generations of one daemon, one child and two addresses
are what the comparison of services can tell apart. A connection interacts with
another only through the queue, so one that is busy and one that waits are
enough. A crash in a start-up and one in the next, with a change between them,
is the shortest way to every state of the file. Two items are enough for one to
be read before and one after an exception.

## 4. Proofs

Each theorem is `Spec => []P`, or `Spec => [][A]_vars`, for every value of the
constants that satisfies the assumption of its module, by an inductive invariant
`Ind`. The type invariants of `CollectorThread`, `Agent`, `LogParser` and `Ressource`
are proved and not repeated in the runs.

* `CollectorThreadProofs` (assumes `HistoryAssumption`): `LockedReadExclusive`,
  `HarmConfined`, `HistoryBounded`, `TypeOK`. None of the first three is inductive.
  `MutexAgrees` ties the value of `lock` to the control points of the three
  threads, `LifeCycle` ties the destructor's progress to `owner`, `worker` and
  `http` (a destroyed object was never published, so no HTTP thread is in it), and
  `JoinSafe` says that the polling thread of a freed object has ended.
  `NextValueBounds` is the lemma on insertion and resize.
* `RessourceProofs` (assumes `RessourceAssumption`: positive size, frequency and
  width): `RateIsExact`, `NeverOvercounts`, `WritesOwnRow`, `ClientComplete`,
  `TypeOK`. The arithmetic is in three lemmas: `RemainderGrowth` (two
  remainders differ by the growth less a multiple of the width),
  `DifferenceBounded` (so never by more than the growth) and `DifferenceExact`
  (modulo the width it is the growth, when that is less than the width). `Tracking` is what the value kept
  under a key says of the counter now; `Ordered` (timestamps fall along the rows
  and none is in the future) gives `ClientComplete`; `OwnRow` and `PassRow` say
  when the newest row belongs to the pass that is under way, and `Unseen` that
  the client has not seen it before the pass is over.
* `LogParserProofs` (assumes `LogAssumption`): `HistoryBounded`, `TypeOK`,
  `HistoryIsExact`. The reader must be inside the file that it has open although
  another file gets the name, and no file exceeds the bound. For `HistoryIsExact`,
  `OnePass`: the reader starts at the first line of one file and counts as it
  reads, and after that pass its position is that of a failed stream.
* `ServicesManagerProofs` (assumes `HostAssumption`, `RegistryAssumption`): `TypeOK`,
  `NoneForgotten` and `OneOwner`, with or without a bus. One lemma for each
  operation of a service says which pids it keeps, gains and loses;
  `Changes(new)` then sums up a step on the registry: a service is replaced by
  one that loses no running process and gains none but those of `new`, or one is
  pushed. For `OneOwner`, a step adds pids that no service knows (`Fresh`), or is
  an `isBlackout()` that gives a service what its handler claims (`Claimed`); and
  what is claimed stays claimed, because a handler with a full path is never
  replaced and the main process of a unit was forked in it (`Bus`).
* `HttpConnectionProofs` (assumes `HttpAssumption`): `Guarded`, `OneOperation`,
  `BodyComplete`, `TypeOK`, and `ImplementsSafety`: the initial states are those of
  `RequestReply` and every step is one of its steps or none, a request whose handler
  throws being the only one that may end unanswered on an open connection. `ConnInd(c)` says how
  the socket, the pending operation, the timer and the request of one connection
  agree with its completions in the queue, as a set (`Of`); a step of another
  connection keeps it (`Frame`). An operation that was started has a timer that
  runs or whose expiry the thread has yet to see (`Timed`), and what is left of a
  file and what was sent of it are the file (`Sending`).
* `StartupProofs` (assumes `AgentAssumption`, `StartupAssumption`). Of `Agent`:
  `NoDanglingCall`, `TypeOK`, by `Reachable` (what a lookup may find, and what is
  being called, exists) and `Unpublished` (the collector still to be pushed or
  destroyed cannot be found). Of the composition: `BootTypeOK`, `SettingsKept`,
  `StableConfig`, `LibraryFirst`, `CollectorsConfigured`, by what each phase has
  already put into the factories (`Registered`, `Detectors`) and into the
  configuration (`Progress`, `Configured`; `Faithful`, of the document that is still
  to be saved as well as of the file); `Stable` says that a
  document once saved is one to which no step has anything to add (`Settled`).
  `BootImplementsAgent`: the composition implements `Agent`, from which
  `NoDanglingCall` follows across restarts.
* `SystemCollectorsProofs` (assumes `CollectorsAssumption`): `Fresh`,
  `CrashOnlyOnUnseen`, `SharesExact`, `TypeOK`. `OwnRows` and `Zones` say what a row
  may hold in the middle of a pass, `Shaped` and `Noticed` that what lacks a
  resource is a cpu that has appeared since the constructor, or belongs to a
  constructor that could not open its file, `Summed` bounds the sum over the processes by
  those already read, and `Remembered` ties the counters that `cpuuse` keeps to
  those at its last pass.
* `ApiProofs` (assumes `ApiAssumption`): `LinksAnswered`, `DynamicLinksSurvive`,
  `RefsDefined`, `CrashExplained`, `TypeOK`. `Working` follows a service through the
  enhancers: which calls have been made, and that its collectors have its present
  path (`Based`); `Complete` is what is then true of a detected and registered one,
  in every order of the enhancers, and a configured one stays without collectors
  (`Bare`). `Leads` says of each link what it was given for and
  `Led` what a link of an earlier process still says. `Document` is the state of
  `swagger.json` between the definitions and the paths of a collector.

`ApiAssumption` asks of every plugin directory that one of its enhancers renames,
as `enhance_core.lua` does; `StartupAssumption` that a Lua file is of the kind of its
directory and that the administrator writes settings, not the code's defaults;
`CollectorsAssumption` that a host has finitely many items. The other
assumptions are types.

Loops over sequences (the erasing loop of `addMainProcess()`, the searches in the
registry, the order of the enhancers) are recursive functions or `CHOOSE`s over
indices. What they compute is proved by taking the least index at which it would
be wrong (`WFMin` of the library), since the library's induction schemes cannot
be instantiated.

Only model-checked: the liveness properties (`JoinReturns`, `StatusConverges`,
`TemplatesConverge`, `NetworkServicesDetected`, `UnitsDetected`,
`IdleConnectionClosed`, `EventuallyServes`, `Covered`) and the fairness part of
`RequestReply`: fairness and ENABLED are outside the prover. Every invariant and
action property of a passing run is proved.

## 5. Not modelled

Third-party code (Selene, jsoncpp, the HTTP client, the web root), the wording of
HTML and JSON, percent decoding and hashes, the splitting of lines of `/proc`,
`getOpenLogs()` and the choice of a log monitor's files, `LuaServiceHandler` and
`LuaDetector`, for which the repository has no plugin. A page asks the handler
of each service as a status request does, which `ServicesManager` has.

Data races are represented by the state in which they happen, not by what they
corrupt: the vector of services, `subProcess`, the route map, and also
`globalCounters` (`src/collectors.cpp:46`), the sd_bus connection that two threads
use (`services/sdbus/systemdbus.cpp:136`) and `getJsonLogHistory()`, which takes no
lock (`src/services.cpp:742`).

Departures seen and not kept as runs:

* an address that is closed and opened again by one process stays failed:
  `setSocket()` returns when the service has the address (`src/services.cpp:573`),
  although the scan is said to be "updating the known socket list"
  (`src/servicesManager.cpp:691`). The run `registry` reaches it and
  `StatusConverges` excepts it; the main process of a restarted unit, which
  `isBlackout()` and the systemd detector find without its sockets, keeps the inode
  of its predecessor for the same reason;
* the constructor of `Config` tests for `thread` and assigns `threads`
  (`src/config.cpp:20`), so that a configured number of threads is overwritten at
  every start: the exception in `SettingsKept`;
* `getJsonHistory()`, which serves `/all`, reads the rows without the mutex,
  although `doGetHistory()` takes it with the remark "jsoncpp isnt thread safe"
  (`src/collectors.cpp:300`), so that `/all` can send a row that is partly filled;
* a service that `config_dir` describes gets no collectors when it is detected:
  `updateFrom()` does not copy them (`src/services.cpp:877`, a TODO); `Api` has it;
* a pass of `cpu.lua` or `io.lua` that a vanishing process ends loses the
  differences it has already taken (`luaServices/io.lua:29`);
* a failed service that the enhancer has named is answered with nothing
  (`services/sdbus/systemdbus.cpp:356`, the step `StatusThrows`);
* a stale list of sockets can make `addService()` push a second service with the
  ID of the first, and the two then share a template (`src/services.cpp:556`);
* `~Ressource()` leaves its rows in `values_count` (`src/collectors.cpp:30`);
* `LuaDetector` never sets `have_state` (`src/luacollectors.cpp:217`);
* `total_time` of the cpu service collector has 32 bits, the value it is compared
  with 64 (`services/cpu.cpp:107`);
* timestamps follow a system clock that may be set back (`src/collectors.cpp:41`);
* a poll-frequency of 0 that an administrator writes is kept and divides by zero;
* a static file that changes its size while it is sent has the length announced
  before (`src/server.cpp:142`);
* a change of the configuration during start-up is overwritten by `save()`
  (`src/agent.cpp:28`);
* the directory that `cpuspeed` opens is not closed when an exception ends its
  walk (`collectors/cpuspeed.cpp:61`);
* the percentages of `memory` overflow an int and divide by a total that may be 0
  (`collectors/memory.cpp:81`);
* a request that was read together with the one before it is lost
  (`sws/server_http.hpp:323`); `HttpConnection` has the step;
* a Lua collector whose `cfg.name` is not its file's name is linked by the one and
  looked up by the other (`src/luacollectors.cpp:11`): `Unambiguous` in `Api`;
* `io.lua` declares a property "wt" and sets "wr" (`luaServices/io.lua:53`).

## 6. Plan

1. Done: all modules above; a theorem for every invariant and every action
   property that a run checks; the safety part of the refinement of
   `RequestReply` and the refinement of `Agent` by its composition with `Startup`.
2. Next: an abstract registry, a relation between processes and services, that
   `ServicesManager` implements; a theorem on `setSocket()` and `operator==` for
   `TemplatesConverge`: a step of the scan leaves the template of its service
   current.
