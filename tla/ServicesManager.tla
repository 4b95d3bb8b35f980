--------------------------- MODULE ServicesManager ---------------------------
(***************************************************************************)
(* The registry of services (src/servicesManager.cpp), filled by the       *)
(* detection thread, which runs the systemd detector                       *)
(* (services/sdbus/systemdbus.cpp) and then the socket detector over and   *)
(* over, and read by the HTTP thread, whose status requests also update    *)
(* it.  Nothing protects the registry: the steps of the two threads and    *)
(* those of the host interleave.  A step is one unit or one process for    *)
(* the detectors, one service for a request.                               *)
(***************************************************************************)
EXTENDS Service

CONSTANTS
    Listed,         \* the units its white list accepts and its black list does not
    BlackList,      \* the paths socketDetector ignores
    LoopBack,       \* the sources it ignores
    Configured,     \* the services of config_dir: a sequence of [path, uniq, sources]
    MaxBusErrors    \* bound: how often a D-Bus call fails

ASSUME RegistryAssumption ==
    /\ HaveBus \in BOOLEAN
    /\ Listed \subseteq Units
    /\ Configured \in Seq([path: STRING, uniq: STRING, sources: SUBSET Sources])
    /\ MaxBusErrors \in Nat

VARIABLES
    services,   \* servicesManager::services
    templates,  \* ID -> the configuration its template file holds
    finder,     \* control point of the detection thread: "wait", "units", "sockets", "scan"
    todo,       \* systemdDetector::find: units not yet examined
    sockets,    \* socketDetector::find: inodes of the listening sockets read
    cursor,     \* socketDetector::find: the last pid of /proc examined
    request,    \* the status request in progress: the service it is at, and the last one
    reply,      \* what became of the last request
    busErrors,
    foundWith   \* history: open inodes that the socket detector found a process with

finderVars == <<finder, todo, sockets, cursor>>
httpVars == <<request, reply>>
vars == <<hostVars, services, templates, finderVars, httpVars, busErrors, foundWith>>

NoRequest == [at |-> 0, all |-> FALSE]

IDs == {BaseName[Exe[p]] : p \in Pids} \cup {BaseName[Configured[k].path] : k \in DOMAIN Configured}

Uniqs == Sources \cup Units \cup {"dynamic"} \cup {Configured[k].uniq : k \in DOMAIN Configured}

Indices == DOMAIN services

(* The types of the state: the host, the registry and the two threads      *)
(* that use it.                                                            *)
TypeOK ==
    /\ HostTypeOK
    /\ \A k \in Indices :
          LET s == services[k] IN
          /\ getID(s) \in IDs \X Uniqs
          /\ DOMAIN s.socks \subseteq Sources
          /\ \A a \in DOMAIN s.socks : s.socks[a] \in Inodes \cup {0}
          /\ MainPids(s) \subseteq Pids \cup {0}
          /\ s.sub \subseteq Pids
          /\ s.handler.unit \in Units \cup {NoUnit} /\ s.handler.full \in BOOLEAN
    /\ DOMAIN templates \subseteq IDs \X Uniqs
    /\ finder \in {"wait", "units", "sockets", "scan"}
    /\ todo \subseteq Units
    /\ sockets \subseteq Inodes
    /\ cursor \in 0 .. LastPid
    /\ request.at \in 0 .. Len(services) /\ request.all \in BOOLEAN
    /\ reply \in {"none", "sent", "lost"}
    /\ busErrors \in 0 .. MaxBusErrors
    /\ foundWith \subseteq Inodes

(* service(server, file): the id of a configured socket is not             *)
(* initialised, and its process has pid 0.                                 *)
FromConfig(c, ids) ==
    [NewService(ConfiguredProcess(c.path), c.uniq, NoHandler) EXCEPT
        !.socks = [a \in c.sources |-> ids[a]]]

Init ==
    /\ HostInit
    /\ \E ids \in [Sources -> Inodes \cup {0}] :
          services = [k \in DOMAIN Configured |-> FromConfig(Configured[k], ids)]
    /\ templates = <<>>
    /\ finder = "wait" /\ todo = {} /\ sockets = {} /\ cursor = 0
    /\ request = NoRequest /\ reply = "none"
    /\ busErrors = 0 /\ foundWith = {}

-----------------------------------------------------------------------------
(* The registry                                                            *)

(* The first service that satisfies a test, 0 when there is none.          *)
First(Test(_)) == SelectInSeq(services, Test)

\* Mutant: the loop of havePID() returns the answer of the first service.
KnownToFirst(pid) == services # <<>> /\ havePID(services[1], pid)

Known(pid) == \E k \in Indices : havePID(services[k], pid)

getService(pid) == First(LAMBDA s : havePID(s, pid))

Saved(s) == [id \in DOMAIN templates \cup {getID(s)} |->
                IF id = getID(s) THEN ConfigOf(s) ELSE templates[id]]

(* addService: the enhanced service completes one that is known, or one    *)
(* that misses one of its sockets, or is saved and pushed.                 *)
addService(s, answered) ==
    LET add   == Enhance(s, answered)
        same  == First(LAMBDA t : Equal(add, t))
        needs == First(LAMBDA t : needSocketFrom(t, add))
        k     == IF same # 0 THEN same ELSE needs
    IN  IF k # 0
        THEN /\ services' = [services EXCEPT ![k] = updateFrom(@, add)]
             /\ UNCHANGED templates
        ELSE /\ services' = Append(services, add)
             /\ templates' = Saved(add)

-----------------------------------------------------------------------------
(* The detection thread                                                    *)

(* timer.wait_for() is over: servicesManager::find() starts.               *)
FindStart ==
    /\ finder = "wait"
    /\ IF HaveBus THEN finder' = "units" /\ todo' = Units
                  ELSE finder' = "sockets" /\ UNCHANGED todo
    /\ UNCHANGED <<hostVars, services, templates, sockets, cursor, httpVars, busErrors, foundWith>>

(* The units cannot be listed: the systemd detector returns, and the       *)
(* socket detector runs.                                                   *)
IntrospectFails ==
    /\ finder = "wait" /\ HaveBus /\ busErrors < MaxBusErrors
    /\ busErrors' = busErrors + 1
    /\ finder' = "sockets"
    /\ UNCHANGED <<hostVars, services, templates, todo, sockets, cursor, httpVars, foundWith>>

\* Mutant: a unit that a service already has is not looked at again.
ExaminedOnce(u) ==
    /\ unit[u].pid # 0 /\ unit[u].state # "inactive" /\ u \in Listed
    /\ \A k \in Indices : services[k].handler.unit # u

(* The loop of systemdDetector::find over the units: what it does with one *)
(* that passes its tests.  A unit that failed still has the pid it had.    *)
Examined(u) == unit[u].pid # 0 /\ unit[u].state # "inactive" /\ u \in Listed

FindUnit(u) ==
    LET pid == unit[u].pid
        handler == [unit |-> u, full |-> TRUE]
        k == getService(pid)
    IN
    /\ finder = "units" /\ u \in todo
    /\ todo' = todo \ {u}
    /\ CASE Examined(u) /\ Known(pid) ->
              /\ services' = [services EXCEPT ![k] =
                                IF haveHandler(@) THEN @ ELSE [@ EXCEPT !.handler = handler]]
              /\ UNCHANGED templates
         [] Examined(u) /\ ~Known(pid) /\ getStatus(pid) ->
              addService(NewService(Process(pid), u, handler), TRUE)
         [] OTHER -> UNCHANGED <<services, templates>>
    /\ UNCHANGED <<hostVars, finder, sockets, cursor, httpVars, busErrors, foundWith>>

\* Mutant: the thread has no try block, and ends.
FindUnitThrowsUncaught ==
    /\ finder = "units" /\ todo # {} /\ busErrors < MaxBusErrors
    /\ busErrors' = busErrors + 1
    /\ finder' = "ended" /\ todo' = {}
    /\ UNCHANGED <<hostVars, services, templates, sockets, cursor, httpVars, foundWith>>

(* A property that cannot be read is a null string: the exception leaves   *)
(* find(), is caught in the thread, and the socket detector does not run.  *)
FindUnitThrows ==
    /\ finder = "units" /\ todo # {} /\ busErrors < MaxBusErrors
    /\ busErrors' = busErrors + 1
    /\ finder' = "wait" /\ todo' = {}
    /\ UNCHANGED <<hostVars, services, templates, sockets, cursor, httpVars, foundWith>>

UnitsDone ==
    /\ finder = "units" /\ todo = {}
    /\ finder' = "sockets"
    /\ UNCHANGED <<hostVars, services, templates, todo, sockets, cursor, httpVars, busErrors, foundWith>>

Listening == UNION {{i \in fds[p] : Source[i] \notin LoopBack} : p \in alive}

(* socketDetector::find reads /proc/net/*.  The agent's own socket keeps   *)
(* the list from being empty.                                              *)
FindSockets ==
    /\ finder = "sockets"
    /\ sockets' = Listening
    /\ cursor' = 0
    /\ finder' = "scan"
    /\ UNCHANGED <<hostVars, services, templates, todo, httpVars, busErrors, foundWith>>

(* readdir("/proc/") gives the running processes in ascending order.       *)
NextPid(p) == /\ p \in alive /\ p > cursor
              /\ \A q \in alive : q > cursor => p <= q

\* Mutant: the template is not saved again.
ScanKnownUnsaved(p) ==
    LET k == getService(p)
        fresh == [services[k] EXCEPT !.main =
                    [j \in DOMAIN @ |-> IF @[j].pid = p THEN setSockets(@[j]) ELSE @[j]]]
    IN
    /\ finder = "scan" /\ NextPid(p) /\ Known(p)
    /\ services' = [services EXCEPT ![k] =
                       setSocket(fresh, {i \in sockets : haveSocket(fresh, i)})]
    /\ cursor' = p
    /\ UNCHANGED <<hostVars, templates, finder, todo, sockets, httpVars, busErrors, foundWith>>

(* A process of a service: its sockets are read again, and those of the    *)
(* list that the service has are added to the service.                     *)
ScanKnown(p) ==
    LET k == getService(p)
        fresh == [services[k] EXCEPT !.main =
                    [j \in DOMAIN @ |-> IF @[j].pid = p THEN setSockets(@[j]) ELSE @[j]]]
        s == setSocket(fresh, {i \in sockets : haveSocket(fresh, i)})
    IN
    /\ finder = "scan" /\ NextPid(p) /\ Known(p)
    /\ services' = [services EXCEPT ![k] = s]
    /\ templates' = Saved(s)
    /\ cursor' = p
    /\ UNCHANGED <<hostVars, finder, todo, sockets, httpVars, busErrors, foundWith>>

(* A child of a known process: handleSubProcess.                           *)
ScanChild(p) ==
    LET k == getService(getPPID(p)) IN
    /\ finder = "scan" /\ NextPid(p) /\ ~Known(p) /\ Known(getPPID(p))
    /\ services' = [services EXCEPT ![k] = addSubProcess(@, p)]
    /\ cursor' = p
    /\ UNCHANGED <<hostVars, templates, finder, todo, sockets, httpVars, busErrors, foundWith>>

(* A process nobody knows: a service is made of its listening sockets, and *)
(* named after the first that the list gives, or after its unit if the bus *)
(* tells.                                                                  *)
ScanNew(p) ==
    LET found == IF Exe[p] \in BlackList THEN {} ELSE sockets \cap fds[p] IN
    /\ finder = "scan" /\ NextPid(p) /\ ~Known(p) /\ ~Known(getPPID(p))
    /\ \/ found = {} /\ UNCHANGED <<services, templates, busErrors>>
       \/ \E i \in found, answered \in BOOLEAN :
             /\ addService(setSocket(NewService(setSockets(Process(p)), Source[i], NoHandler),
                                     found), answered)
             /\ ~answered => HaveBus /\ busErrors < MaxBusErrors
             /\ busErrors' = IF answered THEN busErrors ELSE busErrors + 1
    /\ foundWith' = foundWith \cup found
    /\ cursor' = p
    /\ UNCHANGED <<hostVars, finder, todo, sockets, httpVars>>

ScanDone ==
    /\ finder = "scan" /\ \A p \in alive : p <= cursor
    /\ finder' = "wait" /\ sockets' = {} /\ cursor' = 0
    /\ UNCHANGED <<hostVars, services, templates, todo, httpVars, busErrors, foundWith>>

FinderStep ==
    \/ FindStart \/ IntrospectFails \/ UnitsDone \/ FindUnitThrows
    \/ FindSockets \/ ScanDone
    \/ \E u \in Units : FindUnit(u)
    \/ \E p \in Pids : ScanKnown(p) \/ ScanChild(p) \/ ScanNew(p)

-----------------------------------------------------------------------------
(* The HTTP thread                                                         *)

(* doGetServiceStatus for one service, or for all of them.                 *)
StatusRequest ==
    /\ request = NoRequest /\ services # <<>>
    /\ \E k \in Indices, all \in BOOLEAN :
          /\ all => k = 1
          /\ request' = [at |-> k, all |-> all]
    /\ UNCHANGED <<hostVars, services, templates, finderVars, reply, busErrors, foundWith>>

(* systemdHandler::isBlackout, when getJsonStatus() has a failure to       *)
(* explain: the main process of a unit that runs again replaces the one    *)
(* that is gone.  A bare unit name is no object path: the state cannot be  *)
(* read, and the null string throws.                                       *)
AskHandler(s) == haveHandler(s) /\ Failed(s)

StatusThrows(s) == AskHandler(s) /\ ~s.handler.full

isBlackout(s) ==
    LET un == unit[s.handler.unit] IN
    IF /\ AskHandler(s) /\ un.state = "active"
       /\ un.pid # 0 /\ ~havePID(s, un.pid) /\ getStatus(un.pid)
    THEN updateMainProcess(s, Process(un.pid))
    ELSE s

\* Mutant: the loop over the services goes one too far.
StatusStepPastEnd ==
    LET s == services[request.at]
        more == request.all /\ request.at <= Len(services)
    IN
    /\ request # NoRequest /\ request.at <= Len(services)
    /\ ~StatusThrows(s)
    /\ services' = [services EXCEPT ![request.at] = isBlackout(s)]
    /\ request' = IF more THEN [request EXCEPT !.at = @ + 1] ELSE NoRequest
    /\ reply' = IF more THEN reply ELSE "sent"
    /\ UNCHANGED <<hostVars, templates, finderVars, busErrors, foundWith>>

(* getJsonStatus() on the service the request is at.                       *)
StatusStep ==
    LET s == services[request.at]
        more == request.all /\ request.at < Len(services)
    IN
    /\ request # NoRequest
    /\ ~StatusThrows(s)
    /\ services' = [services EXCEPT ![request.at] = isBlackout(s)]
    /\ request' = IF more THEN [request EXCEPT !.at = @ + 1] ELSE NoRequest
    /\ reply' = IF more THEN reply ELSE "sent"
    /\ UNCHANGED <<hostVars, templates, finderVars, busErrors, foundWith>>

StatusLost ==
    /\ request # NoRequest
    /\ StatusThrows(services[request.at])
    /\ request' = NoRequest
    /\ reply' = "lost"
    /\ UNCHANGED <<hostVars, services, templates, finderVars, busErrors, foundWith>>

HttpStep == StatusRequest \/ StatusStep \/ StatusLost

(* collect() of a collector of the service calls getPIDs().                *)
Prune(k) ==
    /\ getPIDs(services[k]) # services[k]
    /\ services' = [services EXCEPT ![k] = getPIDs(@)]
    /\ UNCHANGED <<hostVars, templates, finderVars, httpVars, busErrors, foundWith>>

-----------------------------------------------------------------------------
Environment ==
    /\ HostStep
    /\ foundWith' = {i \in foundWith : \E p \in Pids : i \in fds'[p]}
    /\ UNCHANGED <<services, templates, finderVars, httpVars, busErrors>>

Next ==
    \/ FinderStep
    \/ HttpStep
    \/ Environment
    \/ \E k \in Indices : Prune(k)

(* The detection thread runs for ever.  Nothing forces the host to change, *)
(* nor a client to ask.                                                    *)
Spec == Init /\ [][Next]_vars /\ WF_vars(FinderStep)

-----------------------------------------------------------------------------
(* What holds                                                              *)

(* A process is counted by two services in one case only: the status of a  *)
(* service that the systemd detector tied to a unit was asked, and         *)
(* isBlackout() gave it the main process of the unit without looking       *)
(* whether another service has it.  Whatever the order in which parent and *)
(* child, the two detectors and the requests come across a process,        *)
(* nothing else gives it a second owner; without a bus it has one.         *)
Claims(s, p) == HaveBus /\ s.handler.full /\ MainOf(p) = s.handler.unit

OneOwner ==
    \A p \in Pids : \A j, k \in Indices :
       j # k /\ havePID(services[j], p) /\ havePID(services[k], p) =>
          Claims(services[j], p) \/ Claims(services[k], p)

(* No step forgets a process that runs: replacing a dead process, moving a *)
(* child to the sub-processes and pruning only lose dead ones.             *)
NoneForgotten ==
    [][\A p \in alive \cap alive' : Known(p) => Known(p)']_vars

IsMain(p) == \E k \in Indices : p \in MainPids(services[k])

Daemon(p) == /\ p \in alive /\ Parent[p] = 1 /\ Exe[p] \notin BlackList
             /\ \E i \in fds[p] : Source[i] \notin LoopBack

(* A daemon that keeps listening is eventually a main process of some      *)
(* service, whatever started, stopped or changed hands while the detection *)
(* thread was between its snapshot and the process.                        *)
NetworkServicesDetected == \A p \in Pids : <>[]Daemon(p) => <>[]IsMain(p)

(* The running main process of a listed unit is eventually a main process  *)
(* of some service, after any restart and although the bus may fail.       *)
UnitUp(u, p) == unit[u].pid = p /\ unit[u].state = "active" /\ p \in alive

UnitsDetected == \A u \in Listed, p \in Pids : <>[]UnitUp(u, p) => <>[]IsMain(p)

(* What getJsonStatus() shows: a socket shown as open is held open by a    *)
(* main process of the service.                                            *)
NoFalseOk ==
    \A k \in Indices : \A a \in DOMAIN services[k].socks :
       LET s == services[k] IN
       haveSocket(s, s.socks[a]) => \E p \in MainPids(s) \cap alive : s.socks[a] \in fds[p]

(* The address of an open socket of a main process is among those of the   *)
(* service, and is shown as open.                                          *)
Shows(s, i) == Source[i] \in DOMAIN s.socks /\ haveSocket(s, s.socks[Source[i]])

Watched(s, i) == \E p \in MainPids(s) \cap alive : i \in fds[p] /\ Source[i] \notin LoopBack

(* Once the host is quiet, whatever was opened, closed or taken over while *)
(* the detection thread worked with lists it had read before:              *)
(*   - nothing is shown as open that is closed;                            *)
(*   - every open socket of a main process has its address in the service; *)
(*   - it is shown as open if its process was found with it, so that the   *)
(*     successor of a daemon that ended has replaced the inodes it left;   *)
(*   - it is shown as open if it is the one the service keeps for that     *)
(*     address.                                                            *)
(* A socket that a known process opens on an address its service already   *)
(* has does not replace the one kept there, although the scan is said to   *)
(* be "updating the known socket list": setSocket() returns, and the       *)
(* address is shown as failed.                                             *)
StatusConverges ==
    <>[](/\ NoFalseOk
         /\ \A k \in Indices : \A i \in Inodes :
               LET s == services[k] IN
               Watched(s, i) =>
                  /\ Source[i] \in DOMAIN s.socks
                  /\ i \in foundWith \/ s.socks[Source[i]] = i => Shows(s, i))

(* Once the host is quiet the template file of a service that runs holds   *)
(* its current sockets and processes, if no other service has its ID: two  *)
(* with the same name and key write the same file in turn.                 *)
Running(s) == MainPids(s) \cap alive # {}

OnlyOne(id) == Cardinality({k \in Indices : getID(services[k]) = id}) = 1

TemplatesConverge ==
    <>[](\A k \in Indices :
           LET s == services[k] IN
           Running(s) /\ OnlyOne(getID(s)) =>
              getID(s) \in DOMAIN templates /\ templates[getID(s)] = ConfigOf(s))
=============================================================================
