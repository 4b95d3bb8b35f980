-------------------------------- MODULE Agent --------------------------------
(***************************************************************************)
(* The agent as a whole: main() (src/agent.cpp), the routes of the HTTP    *)
(* server (src/server.cpp over sws/server_http.hpp), and who may be called *)
(* through them.  A collector registers its own routes in its constructor, *)
(* with a lambda that holds a plain pointer to it; nothing removes them    *)
(* when the collector of a dropped service is destroyed.  The generic      *)
(* routes of servicesManager::init() go through the registry instead.      *)
(***************************************************************************)
EXTENDS Naturals, Sequences

CONSTANTS
    Services,       \* service IDs
    MaxCollectors   \* bound: collectors made by the detection thread

ASSUME AgentAssumption == MaxCollectors \in Nat

VARIABLES
    phase,      \* main(): "init", "threads", "serving"
    collectors, \* the collectors made so far: their service's ID, and whether they exist
    registry,   \* ID -> the collector of the first service with it, 0 when there is none
    routes,     \* ID -> the collector its specific route points to, 0 when there is none
    finder,     \* detection thread: "off", "wait", "insert" (in std::map), "compare"
    http,       \* HTTP thread: "idle", "search" (over the map), "call"
    path,       \* ID of the service whose history is asked for
    target      \* the collector that is called, 0 for an error reply

vars == <<phase, collectors, registry, routes, finder, http, path, target>>

Collectors == [id: Services, exists: BOOLEAN]

(* The types of the state: phase, map of routes, registry and the lookup   *)
(* of a request.                                                           *)
TypeOK ==
    /\ phase \in {"init", "threads", "serving"}
    /\ collectors \in Seq(Collectors)
    /\ Len(collectors) <= MaxCollectors
    /\ registry \in [Services -> 0 .. Len(collectors)]
    /\ routes \in [Services -> 0 .. Len(collectors)]
    /\ finder \in {"off", "wait", "insert", "compare"}
    /\ http \in {"idle", "search", "call"}
    /\ path \in Services
    /\ target \in 0 .. Len(collectors)

Init ==
    /\ phase = "init"
    /\ collectors = <<>>
    /\ registry = [id \in Services |-> 0]
    /\ routes = [id \in Services |-> 0]
    /\ finder = "off"
    /\ http = "idle" /\ path \in Services /\ target = 0

-----------------------------------------------------------------------------
(* main(): init() and save(), then startThreads(), then the server.        *)
StartThreads ==
    /\ phase = "init"
    /\ phase' = "threads"
    /\ finder' = "wait"
    /\ UNCHANGED <<collectors, registry, routes, http, path, target>>

ServerStart ==
    /\ phase = "threads"
    /\ phase' = "serving"
    /\ UNCHANGED <<collectors, registry, routes, finder, http, path, target>>

(* The process is gone, with all that it had in memory, and another one is *)
(* started.                                                                *)
Crash ==
    /\ phase' = "init"
    /\ collectors' = <<>>
    /\ registry' = [id \in Services |-> 0]
    /\ routes' = [id \in Services |-> 0]
    /\ finder' = "off"
    /\ http' = "idle" /\ target' = 0
    /\ UNCHANGED path

(* start() throws out of main(): the host is no address, or bind() or      *)
(* listen() fails.  The threads that run already go down with the process. *)
ServerFails == phase = "threads" /\ Crash

-----------------------------------------------------------------------------
(* The detection thread.  addService() makes the collectors of a service   *)
(* that it may drop afterwards.                                            *)
MakeCollector(id) ==
    /\ finder = "wait" /\ Len(collectors) < MaxCollectors
    /\ collectors' = Append(collectors, [id |-> id, exists |-> TRUE])
    /\ finder' = "insert"
    /\ UNCHANGED <<phase, registry, routes, http, path, target>>

New == Len(collectors)

(* addGetMetricRoute(): resource[regex][method] = lambda.                  *)
AddRoute ==
    /\ finder = "insert"
    /\ routes' = [routes EXCEPT ![collectors[New].id] = New]
    /\ finder' = "compare"
    /\ UNCHANGED <<phase, collectors, registry, http, path, target>>

(* The service is unlike any that is known and is pushed; of two with one  *)
(* ID the first is the one a lookup finds ...                              *)
PushService ==
    /\ finder = "compare"
    /\ registry' = [registry EXCEPT ![collectors[New].id] = IF @ = 0 THEN New ELSE @]
    /\ finder' = "wait"
    /\ UNCHANGED <<phase, collectors, routes, http, path, target>>

(* ... or it completes a known one, under this ID or another, and is       *)
(* destroyed.                                                              *)
DropService ==
    /\ finder = "compare"
    /\ collectors' = [collectors EXCEPT ![New].exists = FALSE]
    /\ finder' = "wait"
    /\ UNCHANGED <<phase, registry, routes, http, path, target>>

-----------------------------------------------------------------------------
(* The HTTP thread: a request for the history of a service's collector.    *)
Request(id) ==
    /\ phase = "serving" /\ http = "idle"
    /\ http' = "search"
    /\ path' = id
    /\ UNCHANGED <<phase, collectors, registry, routes, finder, target>>

\* Mutant: the specific routes come first.
MatchSpecific(id) == IF routes[id] # 0 THEN routes[id] ELSE registry[id]

(* find_resource() calls the first route that matches.  The map is ordered *)
(* by the text of the regex, and the generic route has a parenthesis where *)
(* a specific one has the name of the service; a parenthesis comes before  *)
(* letters and digits, so doGetCollectorHistory() looks the service up.    *)
Match(id) == registry[id]

FindResource ==
    /\ http = "search"
    /\ target' = Match(path)
    /\ http' = "call"
    /\ UNCHANGED <<phase, collectors, registry, routes, finder, path>>

Respond ==
    /\ http = "call"
    /\ http' = "idle"
    /\ target' = 0
    /\ UNCHANGED <<phase, collectors, registry, routes, finder, path>>

-----------------------------------------------------------------------------
Next ==
    \/ StartThreads \/ ServerStart \/ ServerFails
    \/ \E id \in Services : MakeCollector(id) \/ Request(id)
    \/ AddRoute \/ PushService \/ DropService
    \/ FindResource \/ Respond
    \/ Crash

Spec == Init /\ [][Next]_vars

-----------------------------------------------------------------------------
(* A request never calls a collector that has been destroyed, although the *)
(* routes of the collectors of dropped services stay in the server.        *)
NoDanglingCall == http = "call" /\ target # 0 => collectors[target].exists
=============================================================================
