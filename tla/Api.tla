---------------------------------- MODULE Api ----------------------------------
(***************************************************************************)
(* What the agent tells its clients about itself: the swagger document, on *)
(* which the backend relies, the root page and the pages of the services   *)
(* (doGetJson, doGetRootPage and doGetServiceHtml of                       *)
(* src/servicesManager.cpp), and whether the links in them are answered.   *)
(*                                                                         *)
(* A link is made of the path that the collector keeps and of its name,    *)
(* and looked up by the ID of the service and by the name of the plugin's  *)
(* file.  The enhancers rename the service and add collectors to it in the *)
(* order in which readdir() gives their files.                             *)
(***************************************************************************)
EXTENDS Naturals, Sequences, FiniteSets, SequencesExt

CONSTANTS
    Names,          \* names of the services
    Dynamic,        \* the names that enhance_core.lua gives a fixed key
    Sources,        \* addresses, the keys of the services found by a socket
    Keys,           \* file names of the plugins for services
    Plugins,        \* those that are collectors
    Handlers,       \* those that are handlers
    NameOf,         \* cfg["name"] of each collector
    Directories,    \* what services_lua may hold: sets of enhancers
    Script,         \* the calls that each of them makes
    System,         \* the system collectors in the order of their map: [name, has, late]
    Configurations, \* what config_dir may hold: sequences of [name, uniq], in its order
    Enabled,        \* which of them the configuration may enable
    Fixed,          \* name of a collector -> the resource its box on a page shows
    Shown,          \* the other names whose box shows values
    None,
    MaxServices,    \* bound: services
    MaxRestarts     \* bound: restarts of the agent

Uniqs == Sources \cup {"unit", "dynamic"}

ID == Names \X Uniqs

(* systemdEnhancer, and what a Lua enhancer may ask of the service.        *)
Systemd == "systemd"

Operations == [op: {"addCollector", "setHandler"}, arg: Keys] \cup [op: {"rename"}, arg: {None}]

(* The paths of the services and those of the system collectors are told   *)
(* apart; enhance_core.lua, which renames, is installed with the agent.    *)
ASSUME ApiAssumption ==
    /\ Dynamic \subseteq Names /\ Plugins \subseteq Keys /\ Handlers \subseteq Keys
    /\ None \notin Keys /\ None \notin ID /\ "system" \notin Names
    /\ System \in Seq([name: STRING, has: SUBSET STRING, late: SUBSET STRING])
    /\ \A d \in Directories :
         /\ Systemd \notin d /\ IsFiniteSet(d)
         /\ \A e \in d : Script[e] \in Seq(Operations) /\ Script[e] # <<>>
         /\ \E e \in d : \E j \in DOMAIN Script[e] : Script[e][j].op = "rename"
    /\ Configurations \subseteq Seq([name: Names, uniq: Uniqs])
    /\ Enabled \subseteq SUBSET DOMAIN System
    /\ MaxServices \in Nat /\ MaxRestarts \in Nat

VARIABLES
    chain,      \* the enhancers, in the order in which they are called
    enabled,    \* the system collectors that the configuration enables
    makers,     \* serviceCollectorFactory: "none", "maker", or "null": an entry without one
    services,   \* servicesManager::services
    configured, \* history: how many of them come from config_dir
    add,        \* addService(): the service, the enhancer, and the call it is at
    ressources, \* the resources of each system collector
    adding,     \* the resource its thread has inserted in the map as a null pointer
    doc,        \* doGetJson(): the document that is being written
    seen,       \* the link that a client keeps: any one of those it has been given
    old,        \* the one that it has from an earlier process
    crashed,    \* "no", "maker": a null maker was called, "null": a null resource
    restarts

detection == <<makers, services, add>>
collection == <<ressources, adding>>
clients == <<seen, old>>
vars == <<chain, enabled, configured, detection, collection, doc, clients, crashed, restarts>>

Idle == [on |-> FALSE, sys |-> 0, half |-> FALSE, at |-> 0, defs |-> {}, refs |-> {},
         links |-> {}, first |-> {}]

TypeNames == Keys \cup {System[c].name : c \in DOMAIN System}

Sys == DOMAIN System

ServiceType == [name: Names, uniq: Uniqs, base: [Keys -> ID \cup {None}]]

NoService == [s |-> None, at |-> 0, line |-> 0]

(* The types of the state: the registry, the swagger document and the      *)
(* client.                                                                 *)
TypeOK ==
    /\ enabled \subseteq Sys
    /\ makers \in [Keys -> {"none", "maker", "null"}]
    /\ services \in Seq(ServiceType) /\ configured \in 0 .. Len(services)
    /\ add # NoService => add.s \in ServiceType /\ add.at \in 1 .. Len(chain) + 1
    /\ \A c \in Sys : /\ ressources[c] \subseteq System[c].has \cup System[c].late
                      /\ adding[c] # None => adding[c] \in System[c].late \ ressources[c]
    /\ doc.sys \in Sys \cup {0, Len(System) + 1} /\ doc.first \subseteq Sys
    /\ doc.at \in 0 .. Len(services)
    /\ doc.defs \subseteq TypeNames /\ doc.refs \subseteq TypeNames
    /\ crashed \in {"no", "maker", "null"} /\ restarts \in 0 .. MaxRestarts

Up == crashed = "no"

-----------------------------------------------------------------------------
(* Start-up                                                                *)

\* Mutant: the enhancers of the libraries come after those in Lua.
ChainLast(order) == order \o <<Systemd>>

(* servicesManager::init(): the systemd enhancer, then the Lua ones, in    *)
(* the order of readdir().                                                 *)
Chain(order) == <<Systemd>> \o order

Orders(files) == {order \in [1 .. Cardinality(files) -> files] : Range(order) = files}

Makers == [p \in Keys |-> IF p \in Plugins THEN "maker" ELSE "none"]

(* service(server, file): no enhancer is called for a configured service,  *)
(* and it has no collector.                                                *)
FromConfig(d) ==
    [k \in DOMAIN d |-> [name |-> d[k].name, uniq |-> d[k].uniq, base |-> [p \in Keys |-> None]]]

Init ==
    /\ \E files \in Directories : \E order \in Orders(files) : chain = Chain(order)
    /\ enabled \in Enabled
    /\ makers = Makers
    /\ \E d \in Configurations : services = FromConfig(d)
    /\ configured = Len(services) /\ add = NoService
    /\ ressources = [c \in Sys |-> System[c].has]
    /\ adding = [c \in Sys |-> None]
    /\ doc = Idle /\ seen = {} /\ old = {}
    /\ crashed = "no" /\ restarts = 0

(* The client keeps the link it has, or takes one of these.                *)
Given(links) ==
    seen' \in {seen} \cup IF seen \cup old = {} THEN {{l} : l \in links} ELSE {}

(* What is left of a link, and whether it was to a service that has been   *)
(* detected.                                                               *)
Path(l) ==
    [base |-> l.base, coll |-> l.coll, res |-> l.res,
     found |-> l.of[1] = "service" /\ l.of[2] > configured]

(* Another process takes over; the client keeps its link.  The files in    *)
(* config_dir may have been changed meanwhile.                             *)
Restart ==
    /\ restarts < MaxRestarts
    /\ makers' = Makers
    /\ \E d \in Configurations : services' = FromConfig(d)
    /\ configured' = Len(services') /\ add' = NoService
    /\ ressources' = [c \in Sys |-> System[c].has]
    /\ adding' = [c \in Sys |-> None]
    /\ doc' = Idle /\ seen' = {} /\ crashed' = "no"
    /\ old' = {Path(l) : l \in seen}
    /\ restarts' = restarts + 1
    /\ UNCHANGED <<chain, enabled>>

-----------------------------------------------------------------------------
(* The detection thread.  A call of an enhancer works on the service, on   *)
(* the factory, and the process may crash in it.  Nobody else sees the     *)
(* service yet.                                                            *)

getID(s) == <<s.name, s.uniq>>

setService(s, p) == [s EXCEPT !.base[p] = getID(s)]

(* systemdEnhancer: the process may be one of a unit.                      *)
NameByUnit(w, unit) == IF unit THEN [w EXCEPT !.s.uniq = "unit"] ELSE w

\* Mutant: the factory is not asked whether it knows the name.
addCollectorUnknown(w, p) ==
    IF w.s.base[p] # None THEN w
    ELSE IF w.makers[p] # "maker" THEN [w EXCEPT !.crashed = "maker"]
    ELSE [w EXCEPT !.s = setService(@, p)]

(* The constructor of the collector keeps the path of its service.         *)
addCollector(w, p) ==
    IF w.s.base[p] # None \/ w.makers[p] = "none" THEN w
    ELSE IF w.makers[p] = "null" THEN [w EXCEPT !.crashed = "maker"]
    ELSE [w EXCEPT !.s = setService(@, p)]

(* The file of the handler is looked up in the factory of the collectors,  *)
(* whose operator[] adds an entry.                                         *)
setHandler(w, p) ==
    IF w.s.base[p] = None /\ p \in Handlers /\ w.makers[p] = "none"
    THEN [w EXCEPT !.makers[p] = "null"] ELSE w

\* Mutant: the collectors that were added before keep their paths.
updateBasePathsNot(s) == s

updateBasePaths(s) ==
    [s EXCEPT !.base = [p \in Keys |-> IF @[p] = None THEN None ELSE getID(s)]]

(* enhance_core.lua                                                        *)
Rename(w) ==
    IF w.s.name \in Dynamic
    THEN [w EXCEPT !.s = updateBasePaths([@ EXCEPT !.uniq = "dynamic"])] ELSE w

(* What an enhancer does with a service, call by call.                     *)
Calls(e) == IF e = Systemd THEN <<[op |-> "unit", arg |-> None]>> ELSE Script[e]

Call(w, c, unit) ==
    CASE c.op = "unit" -> NameByUnit(w, unit)
      [] c.op = "addCollector" -> addCollector(w, c.arg)
      [] c.op = "setHandler" -> setHandler(w, c.arg)
      [] c.op = "rename" -> Rename(w)

(* A detector has found a service, under its address ...                   *)
AddService(n, a) ==
    /\ Up /\ add = NoService /\ Len(services) < MaxServices
    /\ add' = [s |-> [name |-> n, uniq |-> a, base |-> [p \in Keys |-> None]],
               at |-> 1, line |-> 1]
    /\ UNCHANGED <<chain, enabled, configured, makers, services, collection, doc, clients, crashed,
                   restarts>>

(* ... the enhancers go over it ...                                        *)
Enhance(unit) ==
    LET script == Calls(chain[add.at])
        w == Call([s |-> add.s, makers |-> makers, crashed |-> crashed], script[add.line], unit)
    IN
    /\ Up /\ add # NoService /\ add.at <= Len(chain)
    /\ makers' = w.makers
    /\ crashed' = w.crashed
    /\ add' = IF add.line < Len(script) THEN [add EXCEPT !.s = w.s, !.line = @ + 1]
              ELSE [s |-> w.s, at |-> add.at + 1, line |-> 1]
    /\ UNCHANGED <<chain, enabled, configured, services, collection, doc, clients, restarts>>

(* ... and it is pushed or, if it is one of those that are known, dropped. *)
Register(new) ==
    /\ Up /\ add # NoService /\ add.at = Len(chain) + 1
    /\ new \/ services # <<>>
    /\ services' = IF new THEN Append(services, add.s) ELSE services
    /\ add' = NoService
    /\ UNCHANGED <<chain, enabled, configured, makers, collection, doc, clients, crashed, restarts>>

-----------------------------------------------------------------------------
\* Mutant: addRessource() does not ask whether there is one.
InsertAgain(c, r) ==
    /\ Up /\ c \in enabled /\ adding[c] = None
    /\ adding' = [adding EXCEPT ![c] = r]
    /\ UNCHANGED <<chain, enabled, configured, detection, ressources, doc, clients, crashed,
                   restarts>>

(* The thread of a system collector meets an item it has not seen before.  *)
(* operator[] inserts the name with a null pointer, and then the resource  *)
(* is assigned.                                                            *)
Insert(c, r) ==
    /\ Up /\ c \in enabled
    /\ adding[c] = None /\ r \in System[c].late \ ressources[c]
    /\ adding' = [adding EXCEPT ![c] = r]
    /\ UNCHANGED <<chain, enabled, configured, detection, ressources, doc, clients, crashed,
                   restarts>>

Assign(c) ==
    /\ Up /\ adding[c] # None
    /\ ressources' = [ressources EXCEPT ![c] = @ \cup {adding[c]}]
    /\ adding' = [adding EXCEPT ![c] = None]
    /\ doc' = IF doc.half /\ doc.sys = c /\ ressources[c] = {}
               THEN [doc EXCEPT !.first = @ \cup {c}] ELSE doc
    /\ UNCHANGED <<chain, enabled, configured, detection, clients, crashed, restarts>>

-----------------------------------------------------------------------------
(* The links                                                               *)

SystemLinks(c, rs) ==
    {[base |-> <<"system">>, coll |-> System[c].name, res |-> r, of |-> <<"system", c>>] :
        r \in rs}

ServiceLink(k) ==
    [base |-> getID(services[k]), coll |-> None, res |-> None, of |-> <<"service", k>>]

CollectorsOf(k) == {p \in Keys : services[k].base[p] # None}

CollectorLinks(k) ==
    {[base |-> services[k].base[p], coll |-> NameOf[p], res |-> "r", of |-> <<"service", k, p>>] :
        p \in CollectorsOf(k)}

-----------------------------------------------------------------------------
(* doGetJson(): the swagger document                                       *)

Free == Up /\ ~doc.on

DocStart ==
    /\ Free
    /\ doc' = [Idle EXCEPT !.on = TRUE, !.sys = 1]
    /\ UNCHANGED <<chain, enabled, configured, detection, collection, clients, crashed, restarts>>

(* Walking over the resources of a collector that is being given one.      *)
NullRead(c) == c \in enabled /\ adding[c] # None

getDefinitions(c) ==
    /\ Up /\ doc.sys = c /\ ~doc.half
    /\ IF NullRead(c)
       THEN crashed' = "null" /\ UNCHANGED doc
       ELSE /\ doc' = [doc EXCEPT !.half = TRUE,
                          !.defs = @ \cup IF c \in enabled /\ ressources[c] # {}
                                          THEN {System[c].name} ELSE {}]
            /\ UNCHANGED crashed
    /\ UNCHANGED <<chain, enabled, configured, detection, collection, clients, restarts>>

\* Mutant: the paths of a disabled collector too.
getPathsAll(c) ==
    /\ Up /\ doc.sys = c /\ doc.half
    /\ doc' = [doc EXCEPT !.half = FALSE, !.sys = c + 1,
                  !.refs = @ \cup IF ressources[c] # {} THEN {System[c].name} ELSE {},
                  !.links = @ \cup SystemLinks(c, ressources[c])]
    /\ UNCHANGED <<chain, enabled, configured, detection, collection, clients, crashed, restarts>>

getPaths(c) ==
    /\ Up /\ doc.sys = c /\ doc.half
    /\ IF NullRead(c)
       THEN crashed' = "null" /\ UNCHANGED doc
       ELSE LET rs == IF c \in enabled THEN ressources[c] ELSE {} IN
            /\ doc' = [doc EXCEPT !.half = FALSE, !.sys = c + 1,
                          !.refs = @ \cup IF rs = {} THEN {} ELSE {System[c].name},
                          !.links = @ \cup SystemLinks(c, rs)]
            /\ UNCHANGED crashed
    /\ UNCHANGED <<chain, enabled, configured, detection, collection, clients, restarts>>

SystemDone == doc.sys = Len(System) + 1

(* service::getJson(); services that come meanwhile are still reached.     *)
ServiceJson ==
    LET k == doc.at + 1 IN
    /\ Up /\ SystemDone /\ k <= Len(services)
    /\ doc' = [doc EXCEPT !.at = k,
                  !.defs = @ \cup CollectorsOf(k), !.refs = @ \cup CollectorsOf(k),
                  !.links = @ \cup {ServiceLink(k)} \cup CollectorLinks(k)]
    /\ UNCHANGED <<chain, enabled, configured, detection, collection, clients, crashed, restarts>>

Written == SystemDone /\ doc.at = Len(services)

DocEnd ==
    /\ Up /\ Written
    /\ Given(doc.links)
    /\ doc' = Idle
    /\ UNCHANGED <<chain, enabled, configured, detection, collection, old, crashed, restarts>>

-----------------------------------------------------------------------------
(* The pages.  What a page reads only ever grows.                          *)

(* getIndexHtml(): the resources that the box of a collector links to.     *)
Boxed(name, rs) == IF name \in DOMAIN Fixed THEN {Fixed[name]} ELSE rs

(* The box shows values, and a resource is null or has never been made.    *)
NullShown(name, rs, race) ==
    \/ name \in DOMAIN Fixed /\ Fixed[name] \notin rs
    \/ name \in Shown /\ race

RootLinks ==
    {ServiceLink(k) : k \in DOMAIN services}
    \cup UNION {SystemLinks(c, Boxed(System[c].name, ressources[c])) : c \in enabled}

doGetRootPage ==
    /\ Free
    /\ IF \E c \in enabled : NullShown(System[c].name, ressources[c], adding[c] # None)
       THEN crashed' = "null" /\ UNCHANGED seen
       ELSE Given(RootLinks) /\ UNCHANGED crashed
    /\ UNCHANGED <<chain, enabled, configured, detection, collection, doc, old, restarts>>

(* The first service with this ID, 0 when there is none.                   *)
FindService(id) == SelectInSeq(services, LAMBDA s : getID(s) = id)

doGetServiceHtml(id) ==
    LET k == FindService(id) IN
    /\ Free /\ k # 0
    /\ IF \E p \in CollectorsOf(k) : NullShown(NameOf[p], {"r"}, FALSE)
       THEN crashed' = "null" /\ UNCHANGED seen
       ELSE Given(CollectorLinks(k)) /\ UNCHANGED crashed
    /\ UNCHANGED <<chain, enabled, configured, detection, collection, doc, old, restarts>>

-----------------------------------------------------------------------------
(* How a request for a link is answered: who answers it, or nobody         *)

Nobody == <<"error", 0>>

(* The route that a system collector registers under its name; of two with *)
(* one name the last to be made has it, which is left open here.           *)
SystemAnswer(l) ==
    LET c == CHOOSE c \in Sys : System[c].name = l.coll
    IN  IF l.res \in ressources[c] THEN <<"system", c>> ELSE Nobody

(* getCollector(): by the name of the file.                                *)
getCollector(k, name) == IF name \in CollectorsOf(k) THEN <<"service", k, name>> ELSE Nobody

ServiceAnswer(l) ==
    LET k == FindService(l.base) IN
    IF k = 0 THEN Nobody
    ELSE IF l.coll = None THEN <<"service", k>> ELSE getCollector(k, l.coll)

Answer(l) == IF l.base[1] = "system" THEN SystemAnswer(l) ELSE ServiceAnswer(l)

-----------------------------------------------------------------------------
Next ==
    \/ Restart
    \/ \E n \in Names, a \in Sources : AddService(n, a)
    \/ \E b \in BOOLEAN : Enhance(b) \/ Register(b)
    \/ \E c \in Sys : (\E r \in System[c].late : Insert(c, r)) \/ Assign(c)
    \/ DocStart \/ ServiceJson \/ DocEnd
    \/ \E c \in Sys : getDefinitions(c) \/ getPaths(c)
    \/ doGetRootPage
    \/ \E id \in ID : doGetServiceHtml(id)

Spec == Init /\ [][Next]_vars

-----------------------------------------------------------------------------
(* A name that leads back: no other collector of the system has it, the    *)
(* file of a collector for services has it too, and no earlier service has *)
(* the ID.                                                                 *)
Unambiguous(of) ==
    IF of[1] = "system"
    THEN \A c \in Sys : System[c].name = System[of[2]].name => c = of[2]
    ELSE /\ FindService(getID(services[of[2]])) = of[2]
         /\ Len(of) = 3 => NameOf[of[3]] = of[3]

(* Every link that a client has ever been given by this process, in the    *)
(* document or on a page, is answered by what it was given for: in every   *)
(* order of the enhancers, whether a collector was added before or after   *)
(* its service was renamed, and whatever has been detected since.          *)
LinksAnswered == \A l \in seen : Unambiguous(l.of) => Answer(l) = l.of

(* "As its base port is not fixed, its id would change from boot to boot": *)
(* the links that an earlier process has given to such a service that it   *)
(* had detected are answered again as soon as one of that name has been    *)
(* detected and pushed, whatever address it has now and whether a unit is  *)
(* found for it or not.  The ones to its collectors are not if config_dir  *)
(* holds a service with that ID: that one comes first, it has no           *)
(* collectors, and updateFrom() does not copy them.                        *)
DynamicLinksSurvive ==
    \A l \in old :
        /\ l.found /\ l.base[1] \in Dynamic
        /\ \A p \in Plugins : NameOf[p] = l.coll => p = l.coll
        /\ \E k \in configured + 1 .. Len(services) : services[k].name = l.base[1]
        /\ l.coll = None \/ \A k \in 1 .. configured : getID(services[k]) # l.base
        => Answer(l) # Nobody

(* The document defines every type that it refers to, unless the collector *)
(* has made its first resource between its definitions and its paths.      *)
RefsDefined ==
    doc.on => \A t \in doc.refs \ doc.defs : \E c \in Sys : System[c].name = t /\ c \in doc.first

Asked(op, p) ==
    \E i \in DOMAIN chain : \E j \in DOMAIN Calls(chain[i]) :
        Calls(chain[i])[j] = [op |-> op, arg |-> p]

(* The enhancers, the document and the pages crash the process only when   *)
(* an enhancer adds a collector under the name of a handler (the entry     *)
(* without a maker stays for all services to come), while a collector is   *)
(* making a resource, or when a plugin has the name of a built-in          *)
(* collector and not its resource.                                         *)
CrashExplained ==
    /\ crashed = "maker" =>
         \E p \in Handlers \ Plugins : Asked("setHandler", p) /\ Asked("addCollector", p)
    /\ crashed = "null" =>
         \/ \E c \in enabled : \/ adding[c] # None
                               \/ System[c].name \in DOMAIN Fixed
                                    /\ Fixed[System[c].name] \notin System[c].has
         \/ \E k \in DOMAIN services : \E p \in CollectorsOf(k) : NameOf[p] \in DOMAIN Fixed
=============================================================================
