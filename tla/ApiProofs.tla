------------------------------ MODULE ApiProofs ------------------------------
(***************************************************************************)
(* What the agent tells its clients holds together, for every set of       *)
(* services, plugins, enhancers and system collectors, in every order of   *)
(* the enhancers.                                                          *)
(***************************************************************************)
EXTENDS Api, WellFoundedInduction, FiniteSetTheorems, TLAPS

-----------------------------------------------------------------------------
(* The inductive invariant                                                 *)

(* The systemd enhancer comes first and only there, and enhance_core.lua   *)
(* is one of the others.                                                   *)
Chained ==
    /\ Len(chain) \in Nat /\ Len(chain) >= 1 /\ DOMAIN chain = 1 .. Len(chain)
    /\ chain[1] = Systemd
    /\ \A i \in 2 .. Len(chain) :
         chain[i] # Systemd /\ Script[chain[i]] \in Seq(Operations) /\ Script[chain[i]] # <<>>
    /\ \E i \in 2 .. Len(chain) : \E j \in DOMAIN Script[chain[i]] : Script[chain[i]][j].op = "rename"

(* Only the name of a handler is ever without a maker.                     *)
Factory ==
    /\ makers \in [Keys -> {"none", "maker", "null"}]
    /\ \A p \in Keys : /\ makers[p] = "maker" <=> p \in Plugins
                       /\ makers[p] = "null" => p \in Handlers /\ Asked("setHandler", p)

(* The calls that the enhancers have made on the service that is added.    *)
Done(i, j) ==
    /\ i \in 1 .. Len(chain) /\ j \in 1 .. Len(Calls(chain[i]))
    /\ i < add.at \/ (i = add.at /\ j < add.line)

Made(op, p) == \E i, j \in Nat : Done(i, j) /\ Calls(chain[i])[j] = [op |-> op, arg |-> p]

(* The collectors of a service have the path of their service, whatever    *)
(* renamed it and when.                                                    *)
Based(s) == \A p \in Keys : s.base[p] # None => s.base[p] = getID(s)

Working ==
    add # NoService =>
       /\ add = [s |-> add.s, at |-> add.at, line |-> add.line]
       /\ add.s \in ServiceType /\ add.at \in 1 .. Len(chain) + 1
       /\ add.line \in Nat
       /\ add.at <= Len(chain) => add.line \in 1 .. Len(Calls(chain[add.at]))
       /\ Based(add.s)
       /\ add.at = 1 => add.line = 1 /\ \A p \in Keys : add.s.base[p] = None
       /\ \A p \in Keys : add.s.base[p] # None <=> p \in Plugins /\ Made("addCollector", p)
       /\ add.s.name \in Dynamic /\ Made("rename", None) => add.s.uniq = "dynamic"

(* What is known of a service that was detected and registered ...         *)
Complete(s) ==
    /\ Based(s)
    /\ \A p \in Keys : s.base[p] # None <=> p \in Plugins /\ Asked("addCollector", p)
    /\ s.name \in Dynamic => s.uniq = "dynamic"

(* ... and of one that is configured.                                      *)
Bare(s) == \A p \in Keys : s.base[p] = None

Registry ==
    /\ services \in Seq(ServiceType) /\ configured \in 0 .. Len(services)
    /\ \A k \in 1 .. Len(services) :
         IF k <= configured THEN Bare(services[k]) ELSE Complete(services[k])

(* The resources of a collector only grow.                                 *)
Collected ==
    /\ enabled \subseteq Sys
    /\ DOMAIN ressources = Sys /\ DOMAIN adding = Sys
    /\ ressources = [c \in Sys |-> ressources[c]] /\ adding = [c \in Sys |-> adding[c]]
    /\ \A c \in Sys : /\ ressources[c] \subseteq System[c].has \cup System[c].late
                      /\ System[c].has \subseteq ressources[c]
                      /\ adding[c] # None => adding[c] \in System[c].late \ ressources[c]

(* A link leads to what it was given for.                                  *)
Leads(l) ==
    \/ /\ l.base = <<"system">>
       /\ \E c \in Sys : /\ l.coll = System[c].name /\ l.of = <<"system", c>>
                         /\ l.res \in ressources[c]
    \/ \E k \in 1 .. Len(services) :
         /\ l.base = getID(services[k])
         /\ \/ l.coll = None /\ l.of = <<"service", k>>
            \/ \E p \in CollectorsOf(k) : l.coll = NameOf[p] /\ l.of = <<"service", k, p>>

(* What a link of an earlier process still says.                           *)
Led(l) ==
    \/ l.base = <<"system">>
    \/ \E n \in Names, u \in Uniqs :
         /\ l.base = <<n, u>> /\ (n \in Dynamic /\ l.found => u = "dynamic")
         /\ l.coll = None \/ \E p \in Plugins : Asked("addCollector", p) /\ l.coll = NameOf[p]

Links == (\A l \in seen \cup doc.links : Leads(l)) /\ (\A l \in old : Led(l))

(* The document, between the definitions and the paths of a collector too. *)
Document ==
    /\ doc = [on |-> doc.on, sys |-> doc.sys, half |-> doc.half, at |-> doc.at, defs |-> doc.defs,
              refs |-> doc.refs, links |-> doc.links, first |-> doc.first]
    /\ doc.on \in BOOLEAN /\ doc.half \in BOOLEAN
    /\ doc.sys \in 0 .. Len(System) + 1 /\ doc.at \in 0 .. Len(services)
    /\ doc.defs \subseteq TypeNames /\ doc.refs \subseteq TypeNames /\ doc.first \subseteq Sys
    /\ doc.half => doc.sys \in Sys
    /\ ~doc.on => doc.refs = {} /\ doc.sys = 0
    /\ \A t \in doc.refs \ doc.defs : \E c \in doc.first : System[c].name = t
    /\ doc.half /\ doc.sys \in enabled /\ ressources[doc.sys] # {} =>
         System[doc.sys].name \in doc.defs \/ doc.sys \in doc.first

Alive == crashed \in {"no", "maker", "null"} /\ restarts \in 0 .. MaxRestarts

Ind ==
    /\ Chained /\ Factory /\ Working /\ Registry /\ Collected /\ Links /\ Document /\ Alive
    /\ CrashExplained

-----------------------------------------------------------------------------
(* The registry                                                            *)

(* A set of numbers that is not empty has a least one.                     *)
LEMMA MinInSet ==
    ASSUME NEW S \in SUBSET Nat, S # {}
    PROVE  Min(S) \in S
<1> DEFINE R == {ss \in Nat \X Nat : ss[1] < ss[2]}
<1>1. IsWellFoundedOn(R, Nat)
  BY NatLessThanWellFounded, Zenon DEF OpToRel
<1>2. PICK x \in S : \A y \in S : ~(<<y, x>> \in R)
  BY <1>1, WFMin
<1>3. \A y \in S : <<y, x>> \in R <=> y < x
  <2> TAKE y \in S
  <2>1. <<y, x>> \in Nat \X Nat /\ <<y, x>>[1] = y /\ <<y, x>>[2] = x
    OBVIOUS
  <2> QED
    BY <2>1, Zenon
<1>4. \A y \in S : ~(y < x)
  BY <1>2, <1>3, Zenon
<1>5. \A y \in S : x <= y
  BY <1>4, SMT
<1> QED
  BY <1>5, Zenon DEF Min

(* getService(): the search finds a service with the ID, if there is one.  *)
LEMMA Found ==
    ASSUME services \in Seq(ServiceType), NEW id
    PROVE  /\ FindService(id) # 0 => /\ FindService(id) \in 1 .. Len(services)
                                     /\ getID(services[FindService(id)]) = id
           /\ \A k \in 1 .. Len(services) : getID(services[k]) = id => FindService(id) # 0
<1> DEFINE I == {i \in 1 .. Len(services) : getID(services[i]) = id}
<1>1. FindService(id) = IF I # {} THEN Min(I) ELSE 0
  BY DEF FindService, SelectInSeq
<1>2. I \in SUBSET Nat
  OBVIOUS
<1>3. I # {} => Min(I) \in I
  BY <1>2, MinInSet
<1> HIDE DEF I
<1>4. \A k \in 1 .. Len(services) : getID(services[k]) = id => k \in I
  BY DEF I
<1>5. \A k \in I : k \in 1 .. Len(services) /\ getID(services[k]) = id /\ k # 0
  BY DEF I
<1> QED
  BY <1>1, <1>3, <1>4, <1>5

-----------------------------------------------------------------------------
(* What the invariant is for                                               *)

(* doGetJson(), doGetRootPage() and doGetServiceHtml(): a link that leads  *)
(* to what it was given for is answered by it, if its name is unambiguous. *)
LEMMA LinkIsAnswered ==
    ASSUME Ind, NEW l, Leads(l), Unambiguous(l.of)
    PROVE  Answer(l) = l.of
<1>1. services \in Seq(ServiceType)
  BY DEF Ind, Registry
<1>2. CASE l.base = <<"system">> /\ \E c \in Sys : /\ l.coll = System[c].name
                                                       /\ l.of = <<"system", c>>
                                                       /\ l.res \in ressources[c]
  <2>1. PICK c \in Sys : /\ l.coll = System[c].name /\ l.of = <<"system", c>>
                         /\ l.res \in ressources[c]
    BY <1>2
  <2>2. \A d \in Sys : System[d].name = l.coll => d = c
    BY <2>1 DEF Unambiguous
  <2>3. c = CHOOSE d \in Sys : System[d].name = l.coll
    BY <2>1, <2>2
  <2>4. SystemAnswer(l) = IF l.res \in ressources[c] THEN <<"system", c>> ELSE Nobody
    BY <2>3 DEF SystemAnswer
  <2>5. l.base[1] = "system"
    BY <1>2
  <2> QED
    BY <2>1, <2>4, <2>5 DEF Answer
<1>3. CASE \E k \in 1 .. Len(services) :
             /\ l.base = getID(services[k])
             /\ \/ l.coll = None /\ l.of = <<"service", k>>
                \/ \E p \in CollectorsOf(k) : l.coll = NameOf[p] /\ l.of = <<"service", k, p>>
  <2>1. PICK k \in 1 .. Len(services) :
             /\ l.base = getID(services[k])
             /\ \/ l.coll = None /\ l.of = <<"service", k>>
                \/ \E p \in CollectorsOf(k) : l.coll = NameOf[p] /\ l.of = <<"service", k, p>>
    BY <1>3
  <2>2. services[k].name \in Names
    <3>1. services[k] \in ServiceType
      BY <1>1
    <3> QED
      BY <3>1 DEF ServiceType
  <2>3. l.base[1] # "system"
    BY <2>1, <2>2, ApiAssumption DEF getID
  <2>4. l.of[1] = "service" /\ l.of[2] = k
    BY <2>1
  <2>5. FindService(l.base) = k /\ k # 0
    BY <2>1, <2>4 DEF Unambiguous
  <2>6. CASE l.coll = None /\ l.of = <<"service", k>>
    BY <2>3, <2>5, <2>6 DEF Answer, ServiceAnswer
  <2>7. CASE \E p \in CollectorsOf(k) : l.coll = NameOf[p] /\ l.of = <<"service", k, p>>
    <3>1. PICK p \in CollectorsOf(k) : l.coll = NameOf[p] /\ l.of = <<"service", k, p>>
      BY <2>7
    <3>2. NameOf[p] = p
      <4>1. Len(l.of) = 3 /\ l.of[3] = p
        BY <3>1
      <4> QED
        BY <4>1, <2>4 DEF Unambiguous
    <3>3. l.coll # None
      BY <3>1, <3>2, ApiAssumption DEF CollectorsOf
    <3> QED
      BY <2>3, <2>5, <3>1, <3>2, <3>3 DEF Answer, ServiceAnswer, getCollector
  <2> QED
    BY <2>1, <2>6, <2>7
<1> QED
  BY <1>2, <1>3 DEF Leads

(* enhance_core.lua: a link of an earlier process to a service with a      *)
(* fixed key is answered by the service that has the key now.              *)
LEMMA OldLinkIsAnswered ==
    ASSUME Ind, NEW l, Led(l), l.found, l.base[1] \in Dynamic,
           \A p \in Plugins : NameOf[p] = l.coll => p = l.coll,
           NEW k \in configured + 1 .. Len(services), services[k].name = l.base[1],
           l.coll = None \/ \A c \in 1 .. configured : getID(services[c]) # l.base
    PROVE  Answer(l) # Nobody
<1>1. /\ services \in Seq(ServiceType) /\ configured \in Nat
      /\ \A i \in 1 .. Len(services) : i > configured => Complete(services[i])
  BY DEF Ind, Registry
<1>2. l.base[1] # "system"
  BY ApiAssumption
<1>3. PICK n \in Names, u \in Uniqs :
         /\ l.base = <<n, u>> /\ (n \in Dynamic /\ l.found => u = "dynamic")
         /\ l.coll = None \/ \E p \in Plugins : Asked("addCollector", p) /\ l.coll = NameOf[p]
  <2>1. l.base # <<"system">>
    BY <1>2
  <2> QED
    BY <2>1, Zenon DEF Led
<1>4. k \in 1 .. Len(services) /\ getID(services[k]) = l.base
  BY <1>1, <1>3 DEF Complete, getID
<1> DEFINE j == FindService(l.base)
<1>5. j # 0 /\ j \in 1 .. Len(services) /\ getID(services[j]) = l.base
  BY <1>1, <1>4, Found
<1>6. CASE l.coll = None
  BY <1>2, <1>5, <1>6 DEF Answer, ServiceAnswer, Nobody
<1>7. CASE l.coll # None
  <2>1. l.coll \in Plugins /\ Asked("addCollector", l.coll)
    BY <1>3, <1>7
  <2>2. j > configured
    BY <1>1, <1>5, <1>7
  <2>3. l.coll \in CollectorsOf(j)
    BY <1>1, <1>5, <2>1, <2>2, ApiAssumption DEF Complete, CollectorsOf
  <2> QED
    BY <1>2, <1>5, <1>7, <2>3 DEF Answer, ServiceAnswer, getCollector, Nobody
<1> QED
  BY <1>6, <1>7

(* The promises to the clients follow from the invariant.                  *)
LEMMA Consequences ==
    ASSUME Ind
    PROVE  /\ TypeOK /\ LinksAnswered /\ DynamicLinksSurvive /\ RefsDefined /\ CrashExplained
<1>1. TypeOK
  <2>1. Len(System) \in Nat /\ Sys = 1 .. Len(System)
    BY ApiAssumption DEF Sys
  <2>2. doc.sys \in Sys \cup {0, Len(System) + 1}
    BY <2>1 DEF Ind, Document
  <2> QED
    BY <2>2 DEF TypeOK, Ind, Factory, Working, Registry, Collected, Document, Alive
<1>2. LinksAnswered
  BY LinkIsAnswered DEF LinksAnswered, Ind, Links
<1>3. DynamicLinksSurvive
  BY OldLinkIsAnswered DEF DynamicLinksSurvive, Ind, Links
<1>4. RefsDefined
  BY DEF RefsDefined, Ind, Document
<1> QED
  BY <1>1, <1>2, <1>3, <1>4 DEF Ind

-----------------------------------------------------------------------------
(* The start of the process                                                *)

(* servicesManager::init(): the systemd enhancer comes before those of the *)
(* directory, and all of these are called, whatever readdir() says first.  *)
LEMMA ChainIsComplete ==
    ASSUME NEW files \in Directories, NEW order \in Orders(files), chain = Chain(order)
    PROVE  Chained
<1> DEFINE n == Cardinality(files)
<1>1. n \in Nat
  BY FS_CardinalityType, ApiAssumption
<1> HIDE DEF n
<1>2. order \in [1 .. n -> files] /\ Range(order) = files
  BY DEF Orders, n
<1>3. order \in Seq(files) /\ Len(order) = n /\ DOMAIN order = 1 .. n
  BY <1>1, <1>2
<1>4. chain = <<Systemd>> \o order
  BY DEF Chain
<1>5. Len(chain) = n + 1 /\ DOMAIN chain = 1 .. Len(chain) /\ chain[1] = Systemd
  BY <1>1, <1>3, <1>4
<1>6. \A i \in 2 .. Len(chain) : i - 1 \in 1 .. n /\ chain[i] = order[i - 1] /\ chain[i] \in files
  BY <1>1, <1>2, <1>3, <1>4, <1>5
<1>7. PICK e \in files : \E j \in DOMAIN Script[e] : Script[e][j].op = "rename"
  BY ApiAssumption
<1>8. PICK i \in 1 .. n : order[i] = e
  BY <1>2, <1>3 DEF Range
<1>9. i + 1 \in 2 .. Len(chain) /\ chain[i + 1] = e
  BY <1>1, <1>5, <1>6, <1>8
<1>10. \A k \in 2 .. Len(chain) : /\ chain[k] # Systemd
                                 /\ Script[chain[k]] \in Seq(Operations) /\ Script[chain[k]] # <<>>
  BY <1>6, ApiAssumption
<1> QED
  BY <1>1, <1>5, <1>7, <1>9, <1>10 DEF Chained

(* service(server, file): services of the configuration are services, and  *)
(* bare.                                                                   *)
LEMMA ConfiguredAreBare ==
    ASSUME NEW d \in Configurations
    PROVE  /\ FromConfig(d) \in Seq(ServiceType) /\ Len(FromConfig(d)) \in Nat
           /\ \A k \in 1 .. Len(FromConfig(d)) : Bare(FromConfig(d)[k])
<1> DEFINE T == [name: Names, uniq: Uniqs]
<1>0. d \in Seq(T)
  BY ApiAssumption
<1>1. Len(d) \in Nat /\ DOMAIN d = 1 .. Len(d) /\ \A k \in 1 .. Len(d) : d[k] \in T
  <2> HIDE DEF T
  <2> QED
    BY <1>0
<1>2. \A k \in 1 .. Len(d) : d[k].name \in Names /\ d[k].uniq \in Uniqs
  BY <1>1
<1>3. \A k \in 1 .. Len(d) :
        FromConfig(d)[k] = [name |-> d[k].name, uniq |-> d[k].uniq, base |-> [p \in Keys |-> None]]
  BY <1>1 DEF FromConfig
<1>4. ASSUME NEW k \in 1 .. Len(d)
      PROVE  FromConfig(d)[k] \in ServiceType /\ Bare(FromConfig(d)[k])
  <2> DEFINE b == [p \in Keys |-> None]
  <2>1. b \in [Keys -> ID \cup {None}] /\ \A p \in Keys : b[p] = None
    OBVIOUS
  <2>2. FromConfig(d)[k] = [name |-> d[k].name, uniq |-> d[k].uniq, base |-> b]
    BY <1>3
  <2> HIDE DEF b
  <2> QED
    BY <1>2, <2>1, <2>2 DEF ServiceType, Bare
<1>5. FromConfig(d) \in [1 .. Len(d) -> ServiceType]
  BY <1>1, <1>4 DEF FromConfig
<1>6. FromConfig(d) \in Seq(ServiceType) /\ Len(FromConfig(d)) = Len(d)
  BY <1>1, <1>5
<1> QED
  BY <1>1, <1>4, <1>6

(* A process that has just started knows the configured services, the      *)
(* plugins and the resources of the constructors, and nothing else.        *)
LEMMA FreshProcess ==
    ASSUME Chained, enabled \subseteq Sys, makers = Makers, add = NoService,
           NEW d \in Configurations, services = FromConfig(d), configured = Len(services),
           ressources = [c \in Sys |-> System[c].has], adding = [c \in Sys |-> None],
           doc = Idle, seen = {}, \A l \in old : Led(l), crashed = "no",
           restarts \in 0 .. MaxRestarts
    PROVE  Ind
<1>1. Factory
  BY ApiAssumption DEF Factory, Makers
<1>2. Working
  BY DEF Working
<1>3. Registry
  BY ConfiguredAreBare DEF Registry
<1>4. Collected
  BY DEF Collected
<1>5. Links
  BY DEF Links, Idle
<1>6. Document
  <2>1. Len(System) \in Nat /\ Len(services) \in Nat
    BY ApiAssumption, ConfiguredAreBare
  <2> QED
    BY <2>1 DEF Document, Idle
<1> QED
  BY <1>1, <1>2, <1>3, <1>4, <1>5, <1>6 DEF Ind, Alive, CrashExplained

(* main(): the invariant holds when the agent is started.                  *)
LEMMA InitInd == Init => Ind
<1> SUFFICES ASSUME Init PROVE Ind
  OBVIOUS
<1>1. Chained
  BY ChainIsComplete DEF Init
<1>2. enabled \subseteq Sys
  BY ApiAssumption DEF Init, Sys
<1>3. restarts \in 0 .. MaxRestarts
  BY ApiAssumption DEF Init
<1> QED
  BY <1>1, <1>2, <1>3, FreshProcess DEF Init

-----------------------------------------------------------------------------
(* What a step leaves alone                                                *)

(* The enhancers are those that init() has made, for the whole run.        *)
LEMMA AskedStays ==
    ASSUME UNCHANGED chain, NEW op, NEW p
    PROVE  Asked(op, p)' <=> Asked(op, p)
BY DEF Asked

(* The chain of the enhancers never changes.                               *)
LEMMA ChainedStays ==
    ASSUME Chained, UNCHANGED chain
    PROVE  Chained'
BY DEF Chained

(* Nothing touches the factory but the calls of the enhancers.             *)
LEMMA FactoryStays ==
    ASSUME Factory, UNCHANGED <<chain, makers>>
    PROVE  Factory'
BY AskedStays DEF Factory

(* Nobody else sees a service before it is registered.                     *)
LEMMA WorkingStays ==
    ASSUME Working, UNCHANGED <<chain, add>>
    PROVE  Working'
<1>1. \A op, p : Made(op, p)' <=> Made(op, p)
  BY DEF Made, Done
<1>2. \A s : Based(s)' <=> Based(s)
  BY DEF Based
<1> QED
  BY <1>1, <1>2 DEF Working

(* A registered service is never changed again.                            *)
LEMMA RegistryStays ==
    ASSUME Registry, UNCHANGED <<chain, configured, services>>
    PROVE  Registry'
<1>1. \A s : Complete(s)' <=> Complete(s)
  BY AskedStays DEF Complete, Based
<1> QED
  BY <1>1 DEF Registry, Bare

(* Only the thread of a system collector adds resources to it.             *)
LEMMA CollectedStays ==
    ASSUME Collected, UNCHANGED <<enabled, collection>>
    PROVE  Collected'
BY DEF Collected, collection

(* Services are only appended and resources only added, so that what a     *)
(* link leads to stays.                                                    *)
Grows ==
    /\ \A k \in 1 .. Len(services) : k \in 1 .. Len(services') /\ services'[k] = services[k]
    /\ \A c \in Sys : ressources[c] \subseteq ressources'[c]

(* A link that is right stays right, whatever is detected afterwards.      *)
LEMMA LeadsStays ==
    ASSUME Grows, NEW l, Leads(l)
    PROVE  Leads(l)'
<1>1. CASE l.base = <<"system">> /\ \E c \in Sys : /\ l.coll = System[c].name
                                                   /\ l.of = <<"system", c>>
                                                   /\ l.res \in ressources[c]
  BY <1>1 DEF Grows, Leads, Sys
<1>2. CASE \E k \in 1 .. Len(services) :
             /\ l.base = getID(services[k])
             /\ \/ l.coll = None /\ l.of = <<"service", k>>
                \/ \E p \in CollectorsOf(k) : l.coll = NameOf[p] /\ l.of = <<"service", k, p>>
  <2>1. PICK k \in 1 .. Len(services) :
             /\ l.base = getID(services[k])
             /\ \/ l.coll = None /\ l.of = <<"service", k>>
                \/ \E p \in CollectorsOf(k) : l.coll = NameOf[p] /\ l.of = <<"service", k, p>>
    BY <1>2
  <2>2. k \in 1 .. Len(services') /\ services'[k] = services[k] /\ CollectorsOf(k)' = CollectorsOf(k)
    BY DEF Grows, CollectorsOf
  <2>3. l.base = getID(services[k])'
    BY <2>1, <2>2 DEF getID
  <2> QED
    BY <2>1, <2>2, <2>3 DEF Leads
<1> QED
  BY <1>1, <1>2 DEF Leads

(* The links that are out stay right.                                      *)
LEMMA LinksStay ==
    ASSUME Links, Grows, UNCHANGED <<chain, clients>>, doc'.links = doc.links
    PROVE  Links'
<1>1. \A l : Leads(l) => Leads(l)'
  BY LeadsStays
<1>2. \A l : Led(l) => Led(l)'
  BY AskedStays DEF Led
<1> QED
  BY <1>1, <1>2 DEF Links, clients

(* The document is not touched by the detection thread.                    *)
LEMMA DocumentStays ==
    ASSUME Document, UNCHANGED <<doc, enabled, ressources>>,
           Len(services) \in Nat, Len(services') \in Nat, Len(services) <= Len(services')
    PROVE  Document'
<1>1. doc'.at \in 0 .. Len(services')
  BY DEF Document
<1> QED
  BY <1>1 DEF Document, TypeNames, Sys

(* Nothing is detected, and no resource is made.                           *)
LEMMA NothingGrows ==
    ASSUME UNCHANGED <<services, ressources>>
    PROVE  Grows
BY DEF Grows

(* The process runs on.                                                    *)
LEMMA NoCrash ==
    ASSUME crashed' = "no"
    PROVE  CrashExplained'
BY DEF CrashExplained

-----------------------------------------------------------------------------
(* The steps of the clients and of the collectors                          *)

(* A new process: the links of the old one lose what they led to and keep  *)
(* what they say.                                                          *)
LEMMA LeadsLed ==
    ASSUME Ind, NEW l \in seen
    PROVE  Led(Path(l))
<1>1. Leads(l)
  BY DEF Ind, Links
<1>2. CASE l.base = <<"system">>
  BY <1>2 DEF Led, Path
<1>3. CASE \E k \in 1 .. Len(services) :
             /\ l.base = getID(services[k])
             /\ \/ l.coll = None /\ l.of = <<"service", k>>
                \/ \E p \in CollectorsOf(k) : l.coll = NameOf[p] /\ l.of = <<"service", k, p>>
  <2>1. PICK k \in 1 .. Len(services) :
             /\ l.base = getID(services[k]) /\ l.of[2] = k
             /\ l.coll = None \/ \E p \in CollectorsOf(k) : l.coll = NameOf[p]
    BY <1>3
  <2>2. services[k] \in ServiceType /\ configured \in Nat
    BY DEF Ind, Registry
  <2>3. IF k <= configured THEN Bare(services[k]) ELSE Complete(services[k])
    BY DEF Ind, Registry
  <2>4. Path(l).base = l.base /\ Path(l).coll = l.coll /\ (Path(l).found => k > configured)
    BY <2>1 DEF Path
  <2> DEFINE n == services[k].name
             u == services[k].uniq
  <2>5. n \in Names /\ u \in Uniqs /\ l.base = <<n, u>>
    BY <2>1, <2>2 DEF ServiceType, getID
  <2>6. n \in Dynamic /\ Path(l).found => u = "dynamic"
    BY <2>2, <2>3, <2>4 DEF Complete
  <2>7. l.coll = None \/ \E p \in Plugins : Asked("addCollector", p) /\ l.coll = NameOf[p]
    BY <2>1, <2>2, <2>3 DEF Complete, Bare, CollectorsOf
  <2> HIDE DEF n, u
  <2> QED
    BY <2>4, <2>5, <2>6, <2>7, Zenon DEF Led
<1> QED
  BY <1>1, <1>2, <1>3 DEF Leads

(* The restart of the agent.                                               *)
LEMMA RestartInd ==
    ASSUME Ind, Restart
    PROVE  Ind'
<1> PICK d \in Configurations : services' = FromConfig(d)
  BY DEF Restart
<1>1. Chained'
  BY ChainedStays DEF Ind, Restart
<1>2. Factory'
  BY ApiAssumption DEF Factory, Makers, Restart
<1>3. Working'
  BY DEF Working, Restart, NoService
<1>4. Registry'
  <2>1. configured' = Len(services')
    BY DEF Restart
  <2>2. /\ services' \in Seq(ServiceType) /\ Len(services') \in Nat
        /\ \A k \in 1 .. Len(services') : Bare(services'[k])
    BY ConfiguredAreBare
  <2>3. \A s : Bare(s)' <=> Bare(s)
    BY DEF Bare
  <2> QED
    BY <2>1, <2>2, <2>3 DEF Registry
<1>5. Collected'
  BY DEF Collected, Restart, Ind, Sys
<1>6. Links'
  <2>1. \A l \in old' : Led(l)
    BY LeadsLed DEF Restart
  <2>2. \A l : Led(l) => Led(l)'
    BY AskedStays DEF Led, Restart
  <2>3. seen' \cup doc'.links = {}
    BY DEF Restart, Idle
  <2> QED
    BY <2>1, <2>2, <2>3 DEF Links
<1>7. Document'
  <2>1. Len(System) \in Nat /\ doc' = Idle /\ Len(services') \in Nat
    BY ApiAssumption, ConfiguredAreBare DEF Restart
  <2> QED
    BY <2>1 DEF Document, Idle
<1>8. Alive' /\ CrashExplained'
  BY ApiAssumption DEF Alive, Restart, Ind, CrashExplained
<1> QED
  BY <1>1, <1>2, <1>3, <1>4, <1>5, <1>6, <1>7, <1>8 DEF Ind

(* The thread of a system collector inserts a null pointer ...             *)
LEMMA InsertInd ==
    ASSUME Ind, NEW c \in Sys, NEW r \in System[c].late, Insert(c, r)
    PROVE  Ind'
<1>1. Chained' /\ Factory' /\ Working' /\ Registry'
  BY ChainedStays, FactoryStays, WorkingStays, RegistryStays DEF Ind, Insert, detection
<1>2. Collected'
  BY DEF Ind, Insert, Collected, Sys
<1>3. Links'
  BY NothingGrows, LinksStay DEF Ind, Insert, detection
<1>4. Document'
  BY DocumentStays DEF Ind, Insert, detection, Registry
<1>5. Alive' /\ CrashExplained'
  BY NoCrash DEF Ind, Insert, Alive, Up
<1> QED
  BY <1>1, <1>2, <1>3, <1>4, <1>5 DEF Ind

(* ... and assigns it.                                                     *)
LEMMA AssignInd ==
    ASSUME Ind, NEW c \in Sys, Assign(c)
    PROVE  Ind'
<1>1. Chained' /\ Factory' /\ Working' /\ Registry'
  BY ChainedStays, FactoryStays, WorkingStays, RegistryStays DEF Ind, Assign, detection
<1>2. Collected'
  BY DEF Ind, Assign, Collected, Sys
<1>3. Links'
  <2>1. Grows
    BY DEF Grows, Assign, Ind, Collected, detection
  <2>2. doc'.links = doc.links
    BY DEF Assign, Ind, Document
  <2> QED
    BY <2>1, <2>2, LinksStay DEF Ind, Assign
<1>4. Document'
  <2>1. UNCHANGED <<enabled, services>> /\ c \in Sys
    BY DEF Assign, detection
  <2>2. \A d \in Sys : d # c => ressources'[d] = ressources[d]
    BY DEF Assign, Ind, Collected
  <2>3. CASE doc.half /\ doc.sys = c /\ ressources[c] = {}
    <3>1. doc' = [doc EXCEPT !.first = @ \cup {c}]
      BY <2>3 DEF Assign
    <3> QED
      BY <2>1, <2>2, <2>3, <3>1 DEF Ind, Document, TypeNames, Sys
  <2>4. CASE ~(doc.half /\ doc.sys = c /\ ressources[c] = {})
    <3>1. doc' = doc
      BY <2>4 DEF Assign
    <3>2. doc.half => doc.sys \in Sys /\ (ressources'[doc.sys] # {} => ressources[doc.sys] # {})
      BY <2>2, <2>4 DEF Ind, Document
    <3> QED
      BY <2>1, <3>1, <3>2 DEF Ind, Document, TypeNames, Sys
  <2> QED
    BY <2>3, <2>4
<1>5. Alive' /\ CrashExplained'
  BY NoCrash DEF Ind, Assign, Alive, Up
<1> QED
  BY <1>1, <1>2, <1>3, <1>4, <1>5 DEF Ind

(* A request only reads what the other threads write.                      *)
LEMMA Reading ==
    ASSUME Ind, UNCHANGED <<chain, enabled, configured, detection, collection>>
    PROVE  Chained' /\ Factory' /\ Working' /\ Registry' /\ Collected'
BY ChainedStays, FactoryStays, WorkingStays, RegistryStays, CollectedStays
   DEF Ind, detection, collection

(* The links of a request are right when they are given.                   *)
LEMMA LinksGiven ==
    ASSUME Ind, UNCHANGED <<chain, detection, collection, old>>,
           \A l \in seen' \cup doc'.links : Leads(l)
    PROVE  Links'
<1>1. \A l : Leads(l) => Leads(l)'
  BY NothingGrows, LeadsStays DEF detection, collection
<1>2. \A l : Led(l) => Led(l)'
  BY AskedStays DEF Led
<1> QED
  BY <1>1, <1>2 DEF Links, Ind

(* getJson() of a system collector: its links.                             *)
LEMMA SystemLinksLead ==
    ASSUME NEW c \in Sys, NEW rs, rs \subseteq ressources[c]
    PROVE  \A l \in SystemLinks(c, rs) : Leads(l)
<1> TAKE l \in SystemLinks(c, rs)
<1>1. PICK r \in rs : l = [base |-> <<"system">>, coll |-> System[c].name, res |-> r,
                           of |-> <<"system", c>>]
  BY DEF SystemLinks
<1>2. /\ l.base = <<"system">> /\ l.coll = System[c].name /\ l.of = <<"system", c>>
      /\ l.res \in ressources[c]
  BY <1>1
<1> QED
  BY <1>2, Zenon DEF Leads

(* getJson() of a service: the links of the service and of its collectors. *)
LEMMA ServiceLinksLead ==
    ASSUME Registry, NEW k \in 1 .. Len(services)
    PROVE  /\ Leads(ServiceLink(k))
           /\ \A l \in CollectorLinks(k) : Leads(l)
<1>1. Leads(ServiceLink(k))
  <2> DEFINE l == ServiceLink(k)
  <2>1. l.base = getID(services[k]) /\ l.coll = None /\ l.of = <<"service", k>>
    BY DEF ServiceLink
  <2> HIDE DEF l
  <2>2. Leads(l)
    BY <2>1, Zenon DEF Leads
  <2> QED
    BY <2>2 DEF l
<1>2. ASSUME NEW l \in CollectorLinks(k)
      PROVE  Leads(l)
  <2>1. PICK p \in CollectorsOf(k) :
            l = [base |-> services[k].base[p], coll |-> NameOf[p], res |-> "r",
                 of |-> <<"service", k, p>>]
    BY DEF CollectorLinks
  <2>2. p \in Keys /\ services[k].base[p] # None
    BY DEF CollectorsOf
  <2>3. services[k].base[p] = getID(services[k])
    BY <2>2 DEF Registry, Complete, Bare, Based
  <2>4. l.base = getID(services[k]) /\ l.coll = NameOf[p] /\ l.of = <<"service", k, p>>
    BY <2>1, <2>3
  <2> QED
    BY <2>4, Zenon DEF Leads
<1> QED
  BY <1>1, <1>2

(* doGetJson() starts.                                                     *)
LEMMA DocStartInd ==
    ASSUME Ind, DocStart
    PROVE  Ind'
<1>1. Chained' /\ Factory' /\ Working' /\ Registry' /\ Collected'
  BY Reading DEF DocStart
<1>2. Links'
  BY LinksGiven DEF DocStart, Idle, Ind, Links, clients
<1>3. Document'
  <2>1. Len(System) \in Nat /\ Len(services') \in Nat
    BY ApiAssumption DEF Ind, Registry, DocStart, detection
  <2>2. doc' = [Idle EXCEPT !.on = TRUE, !.sys = 1]
    BY DEF DocStart
  <2>3. doc' = [on |-> TRUE, sys |-> 1, half |-> FALSE, at |-> 0, defs |-> {}, refs |-> {},
                links |-> {}, first |-> {}]
    BY <2>2 DEF Idle
  <2> QED
    BY <2>1, <2>3 DEF Document
<1>4. Alive' /\ CrashExplained'
  BY NoCrash DEF Ind, DocStart, Alive, Free, Up
<1> QED
  BY <1>1, <1>2, <1>3, <1>4 DEF Ind

(* getDefinitions() of a system collector.                                 *)
LEMMA getDefinitionsInd ==
    ASSUME Ind, NEW c \in Sys, getDefinitions(c)
    PROVE  Ind'
<1>1. Chained' /\ Factory' /\ Working' /\ Registry' /\ Collected'
  BY Reading DEF getDefinitions
<1>2. CASE NullRead(c)
  <2>1. UNCHANGED <<doc, enabled, services, ressources>>
    BY <1>2 DEF getDefinitions, detection, collection
  <2>2. Document'
    BY <2>1, DocumentStays DEF Ind, Registry
  <2>3. Links'
    BY <2>1, LinksGiven DEF getDefinitions, Ind, Links, clients
  <2>4. Alive' /\ CrashExplained'
    BY <1>2 DEF getDefinitions, NullRead, Ind, Alive, CrashExplained, collection
  <2> QED
    BY <1>1, <2>2, <2>3, <2>4 DEF Ind
<1>3. CASE ~NullRead(c)
  <2>1. /\ doc' = [doc EXCEPT !.half = TRUE,
                      !.defs = @ \cup IF c \in enabled /\ ressources[c] # {}
                                      THEN {System[c].name} ELSE {}]
        /\ UNCHANGED <<crashed, enabled, services, ressources>> /\ doc.sys = c
    BY <1>3 DEF getDefinitions, detection, collection
  <2>2. Document'
    BY <2>1 DEF Ind, Document, TypeNames, Sys
  <2>3. doc'.links = doc.links
    BY <2>1 DEF Ind, Document
  <2>4. Links'
    BY <2>3, LinksGiven DEF getDefinitions, Ind, Links, clients
  <2>5. Alive' /\ CrashExplained'
    BY <2>1, NoCrash DEF getDefinitions, Up, Ind, Alive
  <2> QED
    BY <1>1, <2>2, <2>4, <2>5 DEF Ind
<1> QED
  BY <1>2, <1>3

(* getPaths() of a system collector.                                       *)
LEMMA getPathsInd ==
    ASSUME Ind, NEW c \in Sys, getPaths(c)
    PROVE  Ind'
<1>1. Chained' /\ Factory' /\ Working' /\ Registry' /\ Collected'
  BY Reading DEF getPaths
<1>2. CASE NullRead(c)
  <2>1. UNCHANGED <<doc, enabled, services, ressources>>
    BY <1>2 DEF getPaths, detection, collection
  <2>2. Document'
    BY <2>1, DocumentStays DEF Ind, Registry
  <2>3. Links'
    BY <2>1, LinksGiven DEF getPaths, Ind, Links, clients
  <2>4. Alive' /\ CrashExplained'
    BY <1>2 DEF getPaths, NullRead, Ind, Alive, CrashExplained, collection
  <2> QED
    BY <1>1, <2>2, <2>3, <2>4 DEF Ind
<1>3. CASE ~NullRead(c)
  <2> DEFINE rs == IF c \in enabled THEN ressources[c] ELSE {}
  <2>1. /\ doc' = [doc EXCEPT !.half = FALSE, !.sys = c + 1,
                      !.refs = @ \cup IF rs = {} THEN {} ELSE {System[c].name},
                      !.links = @ \cup SystemLinks(c, rs)]
        /\ UNCHANGED <<crashed, enabled, services, ressources>> /\ doc.sys = c /\ doc.half
    BY <1>3 DEF getPaths, detection, collection
  <2>2. rs \subseteq ressources[c] /\ (rs # {} => c \in enabled /\ ressources[c] # {})
    OBVIOUS
  <2> HIDE DEF rs
  <2>3. Document'
    <3>1. c + 1 \in 0 .. Len(System) + 1
      BY ApiAssumption DEF Sys
    <3>2. doc.on /\ c # 0
      <4>1. c # 0
        BY ApiAssumption DEF Sys
      <4> QED
        BY <2>1, <4>1 DEF Ind, Document
    <3>3. doc'.refs = doc.refs \cup (IF rs = {} THEN {} ELSE {System[c].name}) /\ doc'.defs = doc.defs
      BY <2>1 DEF Ind, Document
    <3>4. \A t \in doc'.refs \ doc'.defs : \E d \in doc'.first : System[d].name = t
      BY <2>1, <2>2, <3>3 DEF Ind, Document
    <3>5. doc' = [on |-> doc.on, sys |-> c + 1, half |-> FALSE, at |-> doc.at, defs |-> doc.defs,
                  refs |-> doc'.refs, links |-> doc'.links, first |-> doc.first]
      BY <2>1 DEF Ind, Document
    <3>6. doc'.refs \subseteq TypeNames
      BY <3>3 DEF Ind, Document, TypeNames, Sys
    <3> QED
      BY <2>1, <3>1, <3>2, <3>4, <3>5, <3>6 DEF Ind, Document, TypeNames, Sys
  <2>4. Links'
    <3>1. doc'.links = doc.links \cup SystemLinks(c, rs)
      BY <2>1 DEF Ind, Document
    <3> QED
      BY <2>2, <3>1, SystemLinksLead, LinksGiven DEF getPaths, Ind, Links, clients
  <2>5. Alive' /\ CrashExplained'
    BY <2>1, NoCrash DEF getPaths, Up, Ind, Alive
  <2> QED
    BY <1>1, <2>3, <2>4, <2>5 DEF Ind
<1> QED
  BY <1>2, <1>3

(* getJson() of the next service.                                          *)
LEMMA ServiceJsonInd ==
    ASSUME Ind, ServiceJson
    PROVE  Ind'
<1> DEFINE k == doc.at + 1
<1>1. Chained' /\ Factory' /\ Working' /\ Registry' /\ Collected'
  BY Reading DEF ServiceJson
<1>2. k \in 1 .. Len(services)
  BY DEF ServiceJson, Ind, Document, Registry
<1>3. /\ doc' = [doc EXCEPT !.at = k,
                    !.defs = @ \cup CollectorsOf(k), !.refs = @ \cup CollectorsOf(k),
                    !.links = @ \cup {ServiceLink(k)} \cup CollectorLinks(k)]
      /\ UNCHANGED <<crashed, enabled, services, ressources>> /\ SystemDone
  BY DEF ServiceJson, detection, collection
<1> HIDE DEF k
<1>4. doc' = [on |-> doc.on, sys |-> doc.sys, half |-> doc.half, at |-> k,
              defs |-> doc.defs \cup CollectorsOf(k), refs |-> doc.refs \cup CollectorsOf(k),
              links |-> doc.links \cup {ServiceLink(k)} \cup CollectorLinks(k),
              first |-> doc.first]
  BY <1>3 DEF Ind, Document
<1>5. Document'
  <2>1. CollectorsOf(k) \subseteq TypeNames
    BY DEF CollectorsOf, TypeNames
  <2>2. doc.on
    BY <1>3, ApiAssumption DEF Ind, Document, SystemDone
  <2>3. \A t \in doc'.refs \ doc'.defs : \E c \in doc'.first : System[c].name = t
    BY <1>4 DEF Ind, Document
  <2>4. doc'.refs \subseteq TypeNames /\ doc'.defs \subseteq TypeNames
    BY <1>4, <2>1 DEF Ind, Document
  <2>5. doc'.half /\ doc'.sys \in enabled' /\ ressources'[doc'.sys] # {} =>
           System[doc'.sys].name \in doc'.defs \/ doc'.sys \in doc'.first
    BY <1>3, <1>4 DEF Ind, Document
  <2>6. doc'.at \in 0 .. Len(services')
    BY <1>2, <1>3, <1>4
  <2> QED
    BY <1>4, <2>2, <2>3, <2>4, <2>5, <2>6 DEF Ind, Document, TypeNames, Sys
<1>6. Links'
  <2>1. \A l \in doc'.links : Leads(l)
    BY <1>2, <1>4, ServiceLinksLead DEF Ind, Links
  <2> QED
    BY <2>1, LinksGiven DEF ServiceJson, Ind, Links, clients
<1>7. Alive' /\ CrashExplained'
  BY <1>3, NoCrash DEF ServiceJson, Up, Ind, Alive
<1> QED
  BY <1>1, <1>5, <1>6, <1>7 DEF Ind

(* A client keeps a link of those it is given.                             *)
LEMMA GivenLead ==
    ASSUME Ind, NEW links, \A l \in links : Leads(l), Given(links)
    PROVE  \A l \in seen' : Leads(l)
<1>1. \A l \in seen : Leads(l)
  BY DEF Ind, Links
<1>2. seen' = seen \/ \E l \in links : seen' = {l}
  BY DEF Given
<1> QED
  BY <1>1, <1>2

(* doGetJson() is done.                                                    *)
LEMMA DocEndInd ==
    ASSUME Ind, DocEnd
    PROVE  Ind'
<1>1. Chained' /\ Factory' /\ Working' /\ Registry' /\ Collected'
  BY Reading DEF DocEnd
<1>2. Links'
  <2>1. \A l \in seen' : Leads(l)
    BY GivenLead DEF DocEnd, Ind, Links
  <2>2. doc'.links = {}
    BY DEF DocEnd, Idle
  <2> QED
    BY <2>1, <2>2, LinksGiven DEF DocEnd
<1>3. Document'
  <2>1. Len(System) \in Nat /\ Len(services') \in Nat /\ doc' = Idle
    BY ApiAssumption DEF Ind, Registry, DocEnd, detection
  <2> QED
    BY <2>1 DEF Document, Idle
<1>4. Alive' /\ CrashExplained'
  BY NoCrash DEF DocEnd, Up, Ind, Alive
<1> QED
  BY <1>1, <1>2, <1>3, <1>4 DEF Ind

(* doGetRootPage(): the boxes of the page link to resources that exist, or *)
(* the process crashes on the one that does not.                           *)
LEMMA RootPageInd ==
    ASSUME Ind, doGetRootPage
    PROVE  Ind'
<1> DEFINE Bad(c) == NullShown(System[c].name, ressources[c], adding[c] # None)
<1>1. Chained' /\ Factory' /\ Working' /\ Registry' /\ Collected'
  BY Reading DEF doGetRootPage
<1>2. UNCHANGED <<doc, enabled, services, ressources, adding>>
  BY DEF doGetRootPage, detection, collection
<1>3. Document'
  BY <1>2, DocumentStays DEF Ind, Registry
<1>4. CASE \E c \in enabled : Bad(c)
  <2>1. PICK c \in enabled : Bad(c)
    BY <1>4
  <2>2. crashed' = "null" /\ UNCHANGED seen
    BY <1>4 DEF doGetRootPage
  <2>3. Links'
    BY <1>2, <2>2, LinksGiven DEF doGetRootPage, Ind, Links
  <2>4. \/ adding[c] # None
        \/ System[c].name \in DOMAIN Fixed /\ Fixed[System[c].name] \notin System[c].has
    BY <2>1 DEF NullShown, Ind, Collected
  <2>5. CrashExplained'
    BY <1>2, <2>1, <2>2, <2>4 DEF CrashExplained
  <2>6. Alive'
    BY <2>2 DEF doGetRootPage, Ind, Alive
  <2> QED
    BY <1>1, <1>3, <2>3, <2>5, <2>6 DEF Ind
<1>5. CASE ~\E c \in enabled : Bad(c)
  <2>1. Given(RootLinks) /\ UNCHANGED crashed
    BY <1>5 DEF doGetRootPage
  <2>2. \A c \in enabled : /\ c \in Sys
                           /\ Boxed(System[c].name, ressources[c]) \subseteq ressources[c]
    BY <1>5 DEF NullShown, Boxed, Ind, Collected
  <2>3. \A c \in enabled : \A l \in SystemLinks(c, Boxed(System[c].name, ressources[c])) : Leads(l)
    BY <2>2, SystemLinksLead
  <2>4. \A i \in DOMAIN services : Leads(ServiceLink(i))
    BY ServiceLinksLead DEF Ind, Registry
  <2>5. \A l \in RootLinks : Leads(l)
    BY <2>3, <2>4 DEF RootLinks
  <2>6. \A l \in seen' \cup doc'.links : Leads(l)
    BY <1>2, <2>1, <2>5, GivenLead DEF Ind, Links
  <2>7. Links'
    BY <2>6, LinksGiven DEF doGetRootPage
  <2>8. Alive' /\ CrashExplained'
    BY <2>1, NoCrash DEF doGetRootPage, Free, Up, Ind, Alive
  <2> QED
    BY <1>1, <1>3, <2>7, <2>8 DEF Ind
<1> QED
  BY <1>4, <1>5

(* doGetServiceHtml(): the page of a service.                              *)
LEMMA ServiceHtmlInd ==
    ASSUME Ind, NEW id \in ID, doGetServiceHtml(id)
    PROVE  Ind'
<1> DEFINE Bad(p) == NullShown(NameOf[p], {"r"}, FALSE)
<1>1. Chained' /\ Factory' /\ Working' /\ Registry' /\ Collected'
  BY Reading DEF doGetServiceHtml
<1>2. UNCHANGED <<doc, enabled, services, ressources, adding>>
  BY DEF doGetServiceHtml, detection, collection
<1>3. Document'
  BY <1>2, DocumentStays DEF Ind, Registry
<1>4. PICK k \in 1 .. Len(services) : k = FindService(id)
  BY Found DEF doGetServiceHtml, Ind, Registry
<1>5. CASE \E p \in CollectorsOf(k) : Bad(p)
  <2>1. PICK p \in CollectorsOf(k) : Bad(p)
    BY <1>5
  <2>2. crashed' = "null" /\ UNCHANGED seen
    BY <1>4, <1>5 DEF doGetServiceHtml
  <2>3. Links'
    BY <1>2, <2>2, LinksGiven DEF doGetServiceHtml, Ind, Links
  <2>4. NameOf[p] \in DOMAIN Fixed /\ p \in CollectorsOf(k)' /\ k \in DOMAIN services'
    BY <1>2, <1>4, <2>1 DEF NullShown, CollectorsOf, Ind, Registry
  <2>5. CrashExplained'
    BY <2>2, <2>4 DEF CrashExplained
  <2>6. Alive'
    BY <2>2 DEF doGetServiceHtml, Ind, Alive
  <2> QED
    BY <1>1, <1>3, <2>3, <2>5, <2>6 DEF Ind
<1>6. CASE ~\E p \in CollectorsOf(k) : Bad(p)
  <2>1. Given(CollectorLinks(k)) /\ UNCHANGED crashed
    BY <1>4, <1>6 DEF doGetServiceHtml
  <2>2. \A l \in CollectorLinks(k) : Leads(l)
    BY <1>4, ServiceLinksLead DEF Ind
  <2>3. \A l \in seen' \cup doc'.links : Leads(l)
    BY <1>2, <2>1, <2>2, GivenLead DEF Ind, Links
  <2>4. Links'
    BY <2>3, LinksGiven DEF doGetServiceHtml
  <2>5. Alive' /\ CrashExplained'
    BY <2>1, NoCrash DEF doGetServiceHtml, Free, Up, Ind, Alive
  <2> QED
    BY <1>1, <1>3, <2>4, <2>5 DEF Ind
<1> QED
  BY <1>5, <1>6

-----------------------------------------------------------------------------
(* The steps of the detection thread                                       *)

(* The calls of an enhancer.                                               *)
LEMMA CallsType ==
    ASSUME Chained, NEW i \in 1 .. Len(chain)
    PROVE  /\ Len(Calls(chain[i])) \in Nat \ {0}
           /\ DOMAIN Calls(chain[i]) = 1 .. Len(Calls(chain[i]))
           /\ i = 1 => Calls(chain[i]) = <<[op |-> "unit", arg |-> None]>>
           /\ i # 1 => Calls(chain[i]) \in Seq(Operations)
<1>1. CASE i = 1
  BY <1>1 DEF Chained, Calls
<1>2. CASE i # 1
  BY <1>2 DEF Chained, Calls
<1> QED
  BY <1>1, <1>2

(* enhance_core.lua is one of the enhancers.                               *)
LEMMA RenameAsked ==
    ASSUME Chained
    PROVE  Asked("rename", None)
<1>1. PICK i \in 2 .. Len(chain) : \E j \in DOMAIN Script[chain[i]] : Script[chain[i]][j].op = "rename"
  BY DEF Chained
<1>2. PICK j \in DOMAIN Script[chain[i]] : Script[chain[i]][j].op = "rename"
  BY <1>1
<1>3. Calls(chain[i]) = Script[chain[i]] /\ Script[chain[i]] \in Seq(Operations) /\ i \in DOMAIN chain
  BY DEF Chained, Calls
<1>4. Script[chain[i]][j] \in Operations
  BY <1>3
<1>5. Script[chain[i]][j] = [op |-> "rename", arg |-> None]
  BY <1>2, <1>4 DEF Operations
<1> QED
  BY <1>3, <1>5 DEF Asked

(* addService(): when the enhancers are through with a service, all that   *)
(* they ask for has been done to it.                                       *)
LEMMA AllMade ==
    ASSUME Chained, add.at = Len(chain) + 1, NEW op, NEW p
    PROVE  Made(op, p) <=> Asked(op, p)
<1>1. DOMAIN chain = 1 .. Len(chain) /\ Len(chain) \in Nat
  BY DEF Chained
<1>2. \A i \in 1 .. Len(chain) : /\ Len(Calls(chain[i])) \in Nat
                                 /\ DOMAIN Calls(chain[i]) = 1 .. Len(Calls(chain[i]))
  BY CallsType
<1>3. \A i, j \in Nat : Done(i, j) <=> i \in 1 .. Len(chain) /\ j \in 1 .. Len(Calls(chain[i]))
  BY <1>1, <1>2 DEF Done
<1>4. ASSUME Made(op, p) PROVE Asked(op, p)
  <2>1. PICK i, j \in Nat : Done(i, j) /\ Calls(chain[i])[j] = [op |-> op, arg |-> p]
    BY <1>4 DEF Made
  <2>2. i \in DOMAIN chain /\ j \in DOMAIN Calls(chain[i])
    BY <1>1, <1>2, <1>3, <2>1
  <2> QED
    BY <2>1, <2>2, Zenon DEF Asked
<1>5. ASSUME Asked(op, p) PROVE Made(op, p)
  <2>1. PICK i \in DOMAIN chain : \E j \in DOMAIN Calls(chain[i]) :
            Calls(chain[i])[j] = [op |-> op, arg |-> p]
    BY <1>5 DEF Asked
  <2>2. PICK j \in DOMAIN Calls(chain[i]) : Calls(chain[i])[j] = [op |-> op, arg |-> p]
    BY <2>1
  <2>3. i \in 1 .. Len(chain) /\ j \in 1 .. Len(Calls(chain[i]))
    BY <1>1, <1>2
  <2>4. i \in Nat /\ j \in Nat
    BY <1>1, <1>2, <2>3
  <2> QED
    BY <1>3, <2>2, <2>3, <2>4, Zenon DEF Made
<1> QED
  BY <1>4, <1>5

(* addService(): a detector has found a service.                           *)
LEMMA AddServiceInd ==
    ASSUME Ind, NEW n \in Names, NEW a \in Sources, AddService(n, a)
    PROVE  Ind'
<1> DEFINE s == [name |-> n, uniq |-> a, base |-> [p \in Keys |-> None]]
<1>1. Chained' /\ Factory' /\ Registry' /\ Collected'
  BY ChainedStays, FactoryStays, RegistryStays, CollectedStays DEF Ind, AddService
<1>2. Working'
  <2>1. add' = [s |-> s, at |-> 1, line |-> 1] /\ UNCHANGED chain
    BY DEF AddService
  <2>2. s \in ServiceType /\ (\A p \in Keys : s.base[p] = None) /\ s.name = n
    BY DEF ServiceType, Uniqs
  <2> HIDE DEF s
  <2>3. add'.s = s /\ add'.at = 1 /\ add'.line = 1
    BY <2>1
  <2>4. Len(chain) \in Nat /\ Len(chain) >= 1 /\ Len(Calls(chain[1])) \in Nat \ {0}
    <3>1. Len(chain) \in Nat /\ Len(chain) >= 1 /\ 1 \in 1 .. Len(chain)
      BY DEF Ind, Chained
    <3> QED
      BY <3>1, CallsType DEF Ind
  <2>5. \A i, j \in Nat : ~Done(i, j)'
    BY <2>1, <2>3, <2>4 DEF Done
  <2>6. \A op, p : ~Made(op, p)'
    BY <2>5 DEF Made
  <2>7. Based(s)'
    BY <2>2 DEF Based
  <2> QED
    BY <2>1, <2>2, <2>3, <2>4, <2>6, <2>7 DEF Working, Based
<1>3. Links'
  BY NothingGrows, LinksStay DEF Ind, AddService, collection
<1>4. Document'
  BY DocumentStays DEF Ind, AddService, collection, Registry
<1>5. Alive' /\ CrashExplained'
  BY NoCrash DEF Ind, AddService, Alive, Up
<1> QED
  BY <1>1, <1>2, <1>3, <1>4, <1>5 DEF Ind

(* addService(): the service is pushed or dropped.                         *)
LEMMA RegisterInd ==
    ASSUME Ind, NEW new \in BOOLEAN, Register(new)
    PROVE  Ind'
<1>1. Chained' /\ Factory' /\ Collected'
  BY ChainedStays, FactoryStays, CollectedStays DEF Ind, Register
<1>2. Working'
  BY DEF Working, Register, NoService
<1>3. add.s \in ServiceType /\ Complete(add.s)
  <2>1. Chained /\ add.at = Len(chain) + 1 /\ add # NoService
    BY DEF Register, Ind
  <2>2. \A op, p : Made(op, p) <=> Asked(op, p)
    BY <2>1, AllMade
  <2> QED
    BY <2>1, <2>2, RenameAsked DEF Ind, Working, Complete
<1>4. /\ services \in Seq(ServiceType) /\ configured \in 0 .. Len(services)
      /\ \A k \in 1 .. Len(services) :
           IF k <= configured THEN Bare(services[k]) ELSE Complete(services[k])
  BY DEF Ind, Registry
<1>5. /\ services' \in {services, Append(services, add.s)}
      /\ UNCHANGED <<chain, configured, doc, clients, ressources>>
  BY DEF Register, collection
<1>6. Len(services') \in Nat /\ Len(services) <= Len(services')
  BY <1>3, <1>4, <1>5
<1>7. Registry'
  <2>1. \A t : Complete(t) => Complete(t)'
    BY <1>5, AskedStays DEF Complete, Based
  <2>2. services' \in Seq(ServiceType)
    BY <1>3, <1>4, <1>5
  <2>3. \A k \in 1 .. Len(services') :
          IF k <= configured THEN Bare(services'[k]) ELSE Complete(services'[k])
    BY <1>3, <1>4, <1>5
  <2> QED
    BY <1>4, <1>5, <1>6, <2>1, <2>2, <2>3 DEF Registry, Bare
<1>8. Links'
  <2>1. Grows
    BY <1>3, <1>4, <1>5 DEF Grows
  <2> QED
    BY <1>5, <2>1, LinksStay DEF Ind
<1>9. Document'
  BY <1>4, <1>5, <1>6, DocumentStays DEF Ind, Register, Registry
<1>10. Alive' /\ CrashExplained'
  BY NoCrash DEF Ind, Register, Alive, Up
<1> QED
  BY <1>1, <1>2, <1>7, <1>8, <1>9, <1>10 DEF Ind

(* systemdEnhancer: it comes before there are collectors.                  *)
LEMMA UnitWorks ==
    ASSUME NEW s \in ServiceType, \A p \in Keys : s.base[p] = None, NEW m, NEW unit \in BOOLEAN,
           NEW w, w = NameByUnit([s |-> s, makers |-> m, crashed |-> "no"], unit)
    PROVE  /\ w.s \in ServiceType /\ w.s.name = s.name /\ w.makers = m /\ w.crashed = "no"
           /\ \A p \in Keys : w.s.base[p] = None
BY DEF NameByUnit, ServiceType, Uniqs

(* service::addCollector(): the collector keeps the path of its service.   *)
LEMMA addCollectorWorks ==
    ASSUME NEW s \in ServiceType, Based(s), NEW m \in [Keys -> {"none", "maker", "null"}],
           NEW p \in Keys, NEW w,
           w = addCollector([s |-> s, makers |-> m, crashed |-> "no"], p)
    PROVE  /\ w.s \in ServiceType /\ getID(w.s) = getID(s) /\ w.s.name = s.name /\ Based(w.s)
           /\ w.s.uniq = s.uniq
           /\ w.makers = m /\ w.crashed \in {"no", "maker"}
           /\ w.crashed = "maker" => m[p] = "null"
           /\ \A q \in Keys : w.s.base[q] # None <=> s.base[q] # None \/ (q = p /\ m[p] = "maker")
<1> DEFINE w0 == [s |-> s, makers |-> m, crashed |-> "no"]
<1>1. CASE s.base[p] # None \/ m[p] = "none"
  <2>1. w = w0
    BY <1>1 DEF addCollector
  <2> QED
    BY <1>1, <2>1
<1>2. CASE s.base[p] = None /\ m[p] = "null"
  <2>1. w = [w0 EXCEPT !.crashed = "maker"]
    BY <1>2 DEF addCollector
  <2>2. w = [s |-> s, makers |-> m, crashed |-> "maker"]
    BY <2>1
  <2> QED
    BY <1>2, <2>2
<1>3. CASE s.base[p] = None /\ m[p] = "maker"
  <2> DEFINE t == [name |-> s.name, uniq |-> s.uniq, base |-> [s.base EXCEPT ![p] = getID(s)]]
  <2>1. setService(s, p) = t
    BY DEF setService, ServiceType
  <2>2. w = [w0 EXCEPT !.s = setService(@, p)]
    BY <1>3 DEF addCollector
  <2>3. w = [s |-> t, makers |-> m, crashed |-> "no"]
    BY <2>1, <2>2
  <2>4. getID(s) \in ID /\ getID(s) # None /\ getID(t) = getID(s)
    BY ApiAssumption DEF getID, ID, ServiceType
  <2>5. t.base = [s.base EXCEPT ![p] = getID(s)] /\ s.base \in [Keys -> ID \cup {None}]
    BY DEF ServiceType
  <2>6. \A q \in Keys : t.base[q] = IF q = p THEN getID(s) ELSE s.base[q]
    BY <2>5
  <2>7. t \in ServiceType
    BY <2>4, <2>5 DEF ServiceType
  <2>8. w.s = t /\ w.makers = m /\ w.crashed = "no" /\ t.name = s.name /\ t.uniq = s.uniq
    BY <2>3
  <2> HIDE DEF t
  <2>9. Based(t)
    BY <2>4, <2>6 DEF Based
  <2> QED
    BY <1>3, <2>4, <2>6, <2>7, <2>8, <2>9
<1> QED
  BY <1>1, <1>2, <1>3

(* service::setHandler(): the lookup leaves an entry without a maker.      *)
LEMMA setHandlerWorks ==
    ASSUME NEW s \in ServiceType, NEW m \in [Keys -> {"none", "maker", "null"}], NEW p \in Keys,
           NEW w, w = setHandler([s |-> s, makers |-> m, crashed |-> "no"], p)
    PROVE  /\ w.s = s /\ w.crashed = "no" /\ w.makers \in [Keys -> {"none", "maker", "null"}]
           /\ \A q \in Keys : \/ w.makers[q] = m[q]
                              \/ /\ w.makers[q] = "null" /\ m[q] = "none"
                                 /\ q = p /\ p \in Handlers
<1> DEFINE w0 == [s |-> s, makers |-> m, crashed |-> "no"]
<1>1. CASE s.base[p] = None /\ p \in Handlers /\ m[p] = "none"
  <2>1. w = [w0 EXCEPT !.makers[p] = "null"]
    BY <1>1 DEF setHandler
  <2>2. w = [s |-> s, makers |-> [m EXCEPT ![p] = "null"], crashed |-> "no"]
    BY <2>1
  <2> QED
    BY <1>1, <2>2
<1>2. CASE ~(s.base[p] = None /\ p \in Handlers /\ m[p] = "none")
  <2>1. w = w0
    BY <1>2 DEF setHandler
  <2> QED
    BY <2>1
<1> QED
  BY <1>1, <1>2

(* enhance_core.lua: a service with a fixed key, and all its paths, get it.*)
LEMMA RenameWorks ==
    ASSUME NEW s \in ServiceType, Based(s), NEW m, NEW w,
           w = Rename([s |-> s, makers |-> m, crashed |-> "no"])
    PROVE  /\ w.s \in ServiceType /\ w.s.name = s.name /\ Based(w.s)
           /\ w.makers = m /\ w.crashed = "no"
           /\ s.name \in Dynamic => w.s.uniq = "dynamic"
           /\ \A q \in Keys : w.s.base[q] # None <=> s.base[q] # None
<1> DEFINE w0 == [s |-> s, makers |-> m, crashed |-> "no"]
<1>1. CASE s.name \notin Dynamic
  <2>1. w = w0
    BY <1>1 DEF Rename
  <2> QED
    BY <1>1, <2>1
<1>2. CASE s.name \in Dynamic
  <2> DEFINE id == <<s.name, "dynamic">>
             u == [name |-> s.name, uniq |-> "dynamic", base |-> s.base]
             t == [name |-> s.name, uniq |-> "dynamic",
                   base |-> [p \in Keys |-> IF s.base[p] = None THEN None ELSE id]]
  <2>1. [s EXCEPT !.uniq = "dynamic"] = u /\ getID(u) = id
    BY DEF ServiceType, getID
  <2>2. updateBasePaths(u) = t
    BY <2>1 DEF updateBasePaths
  <2>3. w = [w0 EXCEPT !.s = updateBasePaths([@ EXCEPT !.uniq = "dynamic"])]
    BY <1>2 DEF Rename
  <2>4. w = [s |-> t, makers |-> m, crashed |-> "no"]
    BY <2>1, <2>2, <2>3
  <2>5. id \in ID /\ id # None /\ getID(t) = id
    BY ApiAssumption DEF getID, ID, ServiceType, Uniqs
  <2>6. t \in ServiceType
    BY <2>5 DEF ServiceType, Uniqs
  <2>7. w.s = t /\ w.makers = m /\ w.crashed = "no" /\ t.name = s.name /\ t.uniq = "dynamic"
    BY <2>4
  <2>8. \A p \in Keys : t.base[p] = IF s.base[p] = None THEN None ELSE id
    OBVIOUS
  <2> HIDE DEF t, id
  <2>9. Based(t)
    BY <2>5, <2>8 DEF Based
  <2> QED
    BY <2>5, <2>6, <2>7, <2>8, <2>9
<1> QED
  BY <1>1, <1>2

(* What a call of an enhancer may do: to the service,                      *)
(* to the factory, and to the process.                                     *)
Worked(w, c) ==
    /\ w.s \in ServiceType /\ Based(w.s) /\ w.s.name = add.s.name
    /\ \A p \in Keys : w.s.base[p] # None <=>
          add.s.base[p] # None \/ (p \in Plugins /\ c = [op |-> "addCollector", arg |-> p])
    /\ /\ w.s.name \in Dynamic /\ c.op # "unit"
       /\ add.s.uniq = "dynamic" \/ c.op = "rename"
       => w.s.uniq = "dynamic"
    /\ w.makers \in [Keys -> {"none", "maker", "null"}]
    /\ \A p \in Keys : \/ w.makers[p] = makers[p]
                       \/ /\ w.makers[p] = "null" /\ makers[p] = "none" /\ p \in Handlers
                          /\ c = [op |-> "setHandler", arg |-> p]
    /\ w.crashed \in {"no", "maker"}
    /\ w.crashed = "maker" =>
          \E p \in Keys : makers[p] = "null" /\ c = [op |-> "addCollector", arg |-> p]

(* Each call of an enhancer.                                               *)
LEMMA CallWorks ==
    ASSUME Ind, add # NoService, add.at <= Len(chain), crashed = "no", NEW unit \in BOOLEAN,
           NEW c, c = Calls(chain[add.at])[add.line], NEW w,
           w = Call([s |-> add.s, makers |-> makers, crashed |-> crashed], c, unit)
    PROVE  Worked(w, c)
<1> DEFINE w0 == [s |-> add.s, makers |-> makers, crashed |-> "no"]
<1>1. /\ add.s \in ServiceType /\ Based(add.s) /\ makers \in [Keys -> {"none", "maker", "null"}]
      /\ add.at \in 1 .. Len(chain) /\ add.line \in 1 .. Len(Calls(chain[add.at]))
      /\ \A p \in Keys : makers[p] = "maker" <=> p \in Plugins
  BY DEF Ind, Working, Factory, Chained
<1>2. CASE add.at = 1
  <2>1. c = [op |-> "unit", arg |-> None]
    BY <1>1, <1>2, CallsType DEF Ind, Working
  <2>2. w = NameByUnit(w0, unit)
    BY <2>1 DEF Call
  <2>3. \A p \in Keys : add.s.base[p] = None
    BY <1>2 DEF Ind, Working
  <2>4. /\ w.s \in ServiceType /\ w.s.name = add.s.name /\ w.makers = makers /\ w.crashed = "no"
        /\ \A p \in Keys : w.s.base[p] = None
    BY <1>1, <2>2, <2>3, UnitWorks
  <2> QED
    BY <1>1, <2>1, <2>3, <2>4 DEF Worked, Based
<1>3. CASE add.at # 1
  <2>1. c \in Operations
    BY <1>1, <1>3, CallsType DEF Ind
  <2>2. CASE c.op = "addCollector"
    <3>1. c.arg \in Keys /\ c = [op |-> "addCollector", arg |-> c.arg]
      BY <2>1, <2>2 DEF Operations
    <3>2. w = addCollector(w0, c.arg)
      BY <2>2 DEF Call
    <3>3. /\ w.s \in ServiceType /\ w.s.name = add.s.name /\ Based(w.s) /\ w.s.uniq = add.s.uniq
          /\ w.makers = makers /\ w.crashed \in {"no", "maker"}
          /\ w.crashed = "maker" => makers[c.arg] = "null"
          /\ \A q \in Keys : w.s.base[q] # None <=>
                add.s.base[q] # None \/ (q = c.arg /\ makers[c.arg] = "maker")
      BY <1>1, <3>1, <3>2, addCollectorWorks
    <3>4. \A q \in Keys : c = [op |-> "addCollector", arg |-> q] <=> q = c.arg
      BY <3>1
    <3>5. c.op # "rename"
      BY <2>2
    <3> QED
      BY <1>1, <3>1, <3>3, <3>4, <3>5 DEF Worked
  <2>3. CASE c.op = "setHandler"
    <3>1. c.arg \in Keys /\ c = [op |-> "setHandler", arg |-> c.arg]
      BY <2>1, <2>3 DEF Operations
    <3>2. w = setHandler(w0, c.arg)
      BY <2>3 DEF Call
    <3>3. /\ w.s = add.s /\ w.crashed = "no" /\ w.makers \in [Keys -> {"none", "maker", "null"}]
          /\ \A q \in Keys : \/ w.makers[q] = makers[q]
                             \/ /\ w.makers[q] = "null" /\ makers[q] = "none"
                                /\ q = c.arg /\ c.arg \in Handlers
      BY <1>1, <3>1, <3>2, setHandlerWorks
    <3>4. \A q \in Keys : c # [op |-> "addCollector", arg |-> q]
      BY <2>3
    <3>5. c.op # "rename"
      BY <2>3
    <3> QED
      BY <1>1, <3>1, <3>3, <3>4, <3>5 DEF Worked
  <2>4. CASE c.op = "rename"
    <3>1. c = [op |-> "rename", arg |-> None]
      BY <2>1, <2>4 DEF Operations
    <3>2. w = Rename(w0)
      BY <2>4 DEF Call
    <3>3. /\ w.s \in ServiceType /\ w.s.name = add.s.name /\ Based(w.s)
          /\ w.makers = makers /\ w.crashed = "no"
          /\ add.s.name \in Dynamic => w.s.uniq = "dynamic"
          /\ \A q \in Keys : w.s.base[q] # None <=> add.s.base[q] # None
      BY <1>1, <3>2, RenameWorks
    <3>4. \A q \in Keys : c # [op |-> "addCollector", arg |-> q]
      BY <2>4
    <3> QED
      BY <1>1, <3>3, <3>4 DEF Worked
  <2> QED
    BY <2>1, <2>2, <2>3, <2>4 DEF Operations
<1> QED
  BY <1>2, <1>3

(* addService(): the enhancers go over the service, call by call.          *)
LEMMA EnhanceInd ==
    ASSUME Ind, NEW unit \in BOOLEAN, Enhance(unit)
    PROVE  Ind'
<1> DEFINE script == Calls(chain[add.at])
           c0 == script[add.line]
           w0 == Call([s |-> add.s, makers |-> makers, crashed |-> crashed], c0, unit)
<1>1. PICK c, w : c = c0 /\ w = w0
  OBVIOUS
<1>2. /\ crashed = "no" /\ add # NoService /\ add.at <= Len(chain)
      /\ makers' = w.makers /\ crashed' = w.crashed
      /\ add' = IF add.line < Len(script) THEN [add EXCEPT !.s = w.s, !.line = @ + 1]
                ELSE [s |-> w.s, at |-> add.at + 1, line |-> 1]
      /\ UNCHANGED <<chain, enabled, configured, services, collection, doc, clients, restarts>>
  BY <1>1 DEF Enhance, Up
<1>3. Worked(w, c)
  BY <1>1, <1>2, CallWorks
<1>4. /\ add = [s |-> add.s, at |-> add.at, line |-> add.line]
      /\ Len(chain) \in Nat /\ add.at \in 1 .. Len(chain) /\ DOMAIN chain = 1 .. Len(chain)
      /\ add.line \in 1 .. Len(script)
      /\ \A i \in 1 .. Len(chain) : Len(Calls(chain[i])) \in Nat \ {0}
      /\ DOMAIN script = 1 .. Len(script)
      /\ add.at = 1 => Len(script) = 1
      /\ add.at # 1 => c.op # "unit"
  <2>1. /\ add = [s |-> add.s, at |-> add.at, line |-> add.line]
        /\ Len(chain) \in Nat /\ add.at \in 1 .. Len(chain) /\ DOMAIN chain = 1 .. Len(chain)
        /\ add.line \in 1 .. Len(script)
    BY <1>2 DEF Ind, Working, Chained
  <2>2. \A i \in 1 .. Len(chain) : /\ Len(Calls(chain[i])) \in Nat \ {0}
                                   /\ DOMAIN Calls(chain[i]) = 1 .. Len(Calls(chain[i]))
                                   /\ i = 1 => Calls(chain[i]) = <<[op |-> "unit", arg |-> None]>>
                                   /\ i # 1 => Calls(chain[i]) \in Seq(Operations)
    BY CallsType DEF Ind
  <2>3. add.at = 1 => script = <<[op |-> "unit", arg |-> None]>>
    BY <2>1, <2>2
  <2>4. add.at = 1 => Len(script) = 1
    BY <2>3
  <2>5. add.at # 1 => c \in Operations
    BY <1>1, <2>1, <2>2
  <2>6. add.at # 1 => c.op # "unit"
    BY <2>5 DEF Operations
  <2> QED
    BY <2>1, <2>2, <2>4, <2>6
<1>5. /\ add' = [s |-> add'.s, at |-> add'.at, line |-> add'.line] /\ add'.s = w.s
      /\ \/ add.line < Len(script) /\ add'.at = add.at /\ add'.line = add.line + 1
         \/ add.line = Len(script) /\ add'.at = add.at + 1 /\ add'.line = 1
  <2>1. Len(script) \in Nat /\ add.line \in Nat /\ add.at \in Nat
    BY <1>4
  <2>2. CASE add.line < Len(script)
    BY <1>2, <1>4, <2>1, <2>2
  <2>3. CASE ~(add.line < Len(script))
    BY <1>2, <1>4, <2>1, <2>3
  <2> QED
    BY <2>2, <2>3
<1>6. \A op, p : Asked(op, p)' <=> Asked(op, p)
  BY <1>2, AskedStays
<1>7. \A op, p : c = [op |-> op, arg |-> p] => Asked(op, p)
  BY <1>1, <1>4 DEF Asked
<1>8. \A op, p : Made(op, p)' <=> Made(op, p) \/ c = [op |-> op, arg |-> p]
  <2>1. \A i, j \in Nat : Done(i, j)' <=> Done(i, j) \/ (i = add.at /\ j = add.line)
    <3> SUFFICES ASSUME NEW i \in Nat, NEW j \in Nat
                 PROVE  Done(i, j)' <=> Done(i, j) \/ (i = add.at /\ j = add.line)
      OBVIOUS
    <3>1. i \in 1 .. Len(chain) => Len(Calls(chain[i])) \in Nat
      BY <1>4
    <3>2. i = add.at => Len(Calls(chain[i])) = Len(script)
      OBVIOUS
    <3>3. Len(script) \in Nat /\ add.line \in Nat /\ add.at \in Nat
      BY <1>4
    <3> HIDE DEF script
    <3> QED
      BY <1>2, <1>4, <1>5, <3>1, <3>2, <3>3 DEF Done
  <2>2. add.at \in Nat /\ add.line \in Nat /\ Calls(chain[add.at])[add.line] = c
    BY <1>1, <1>4
  <2>3. \A i : Calls(chain[i])' = Calls(chain[i])
    BY <1>2 DEF Calls
  <2> QED
    BY <2>1, <2>2, <2>3 DEF Made
<1> HIDE DEF script, c0, w0
<1>9. Chained' /\ Registry' /\ Collected'
  BY <1>2, ChainedStays, RegistryStays, CollectedStays DEF Ind
<1>10. Factory'
  BY <1>2, <1>3, <1>6, <1>7 DEF Factory, Ind, Worked
<1>11. Working'
  <2>1. add'.s \in ServiceType /\ Based(add.s)'
    BY <1>3, <1>5 DEF Worked, Based
  <2>2. add'.at \in 1 .. Len(chain) + 1 /\ add'.line \in Nat /\ add'.at # 1
    BY <1>4, <1>5
  <2>3. add'.at <= Len(chain) => add'.line \in 1 .. Len(Calls(chain[add'.at]))
    BY <1>4, <1>5 DEF script
  <2>4. \A p \in Keys : add'.s.base[p] # None <=> p \in Plugins /\ Made("addCollector", p)'
    BY <1>2, <1>3, <1>5, <1>8 DEF Worked, Ind, Working
  <2>5. add'.s.name \in Dynamic /\ Made("rename", None)' => add'.s.uniq = "dynamic"
    <3>1. add'.s.name = add.s.name
      BY <1>3, <1>5 DEF Worked
    <3>2. CASE c = [op |-> "rename", arg |-> None]
      BY <1>3, <1>5, <3>2 DEF Worked
    <3>3. CASE Made("rename", None) /\ add.s.name \in Dynamic
      <4>1. add.s.uniq = "dynamic"
        BY <1>2, <3>3 DEF Ind, Working
      <4>2. add.at # 1
        BY <3>3, <1>4 DEF Made, Done, Ind, Working
      <4>3. c.op # "unit"
        BY <1>4, <4>2
      <4> QED
        BY <1>3, <1>5, <3>1, <3>3, <4>1, <4>3 DEF Worked
    <3> QED
      BY <1>8, <3>1, <3>2, <3>3
  <2>6. Len(chain') = Len(chain) /\ \A i : Calls(chain[i])' = Calls(chain[i])
    BY <1>2 DEF Calls
  <2>7. add'.at <= Len(chain') => add'.line \in 1 .. Len(Calls(chain'[add'.at]))
    BY <1>2, <2>3
  <2> QED
    BY <1>5, <2>1, <2>2, <2>4, <2>5, <2>6, <2>7 DEF Working, Calls
<1>12. Links'
  BY <1>2, NothingGrows, LinksStay DEF Ind, collection
<1>13. Document'
  BY <1>2, DocumentStays DEF Ind, collection, Registry
<1>14. Alive'
  BY <1>2, <1>3 DEF Ind, Alive, Worked
<1>15. CrashExplained'
  <2>1. crashed' # "null"
    BY <1>2, <1>3 DEF Worked
  <2>2. CASE crashed' = "maker"
    <3>1. PICK p \in Keys : makers[p] = "null" /\ c = [op |-> "addCollector", arg |-> p]
      BY <1>2, <1>3, <2>2 DEF Worked
    <3>2. p \in Handlers \ Plugins /\ Asked("setHandler", p)
      BY <3>1 DEF Ind, Factory
    <3>3. Asked("addCollector", p)
      BY <1>7, <3>1
    <3> QED
      BY <1>6, <2>1, <3>2, <3>3 DEF CrashExplained
  <2> QED
    BY <2>1, <2>2 DEF CrashExplained
<1> QED
  BY <1>9, <1>10, <1>11, <1>12, <1>13, <1>14, <1>15 DEF Ind

-----------------------------------------------------------------------------
(* The theorems                                                            *)

(* Every step of the agent and of its clients keeps the invariant.         *)
LEMMA NextInd == Ind /\ [Next]_vars => Ind'
<1> SUFFICES ASSUME Ind, [Next]_vars PROVE Ind'
  OBVIOUS
<1>1. CASE Restart
  BY <1>1, RestartInd
<1>2. ASSUME NEW n \in Names, NEW a \in Sources, AddService(n, a) PROVE Ind'
  BY <1>2, AddServiceInd
<1>3. ASSUME NEW b \in BOOLEAN, Enhance(b) PROVE Ind'
  BY <1>3, EnhanceInd
<1>4. ASSUME NEW b \in BOOLEAN, Register(b) PROVE Ind'
  BY <1>4, RegisterInd
<1>5. ASSUME NEW c \in Sys, NEW r \in System[c].late, Insert(c, r) PROVE Ind'
  BY <1>5, InsertInd
<1>6. ASSUME NEW c \in Sys, Assign(c) PROVE Ind'
  BY <1>6, AssignInd
<1>7. CASE DocStart
  BY <1>7, DocStartInd
<1>8. CASE ServiceJson
  BY <1>8, ServiceJsonInd
<1>9. CASE DocEnd
  BY <1>9, DocEndInd
<1>10. ASSUME NEW c \in Sys, getDefinitions(c) PROVE Ind'
  BY <1>10, getDefinitionsInd
<1>11. ASSUME NEW c \in Sys, getPaths(c) PROVE Ind'
  BY <1>11, getPathsInd
<1>12. CASE doGetRootPage
  BY <1>12, RootPageInd
<1>13. ASSUME NEW id \in ID, doGetServiceHtml(id) PROVE Ind'
  BY <1>13, ServiceHtmlInd
<1>14. CASE UNCHANGED vars
  <2>1. UNCHANGED <<chain, enabled, configured, detection, collection, doc, clients, crashed, restarts>>
    BY <1>14 DEF vars
  <2>2. Chained' /\ Factory' /\ Working' /\ Registry' /\ Collected'
    BY <2>1, Reading
  <2>3. Links'
    BY <2>1, NothingGrows, LinksStay DEF Ind, detection, collection
  <2>4. Document'
    BY <2>1, DocumentStays DEF Ind, Registry, detection, collection
  <2>5. CrashExplained' /\ Alive'
    BY <2>1 DEF Ind, Alive, CrashExplained, Asked, CollectorsOf, detection, collection
  <2> QED
    BY <2>2, <2>3, <2>4, <2>5 DEF Ind
<1> QED
  BY <1>1, <1>2, <1>3, <1>4, <1>5, <1>6, <1>7, <1>8, <1>9, <1>10, <1>11, <1>12, <1>13, <1>14
     DEF Next

(* The invariant holds throughout: addService(), the threads of the system *)
(* collectors, the requests and the restarts, in every order.              *)
THEOREM ApiInvariant == Spec => []Ind
BY InitInd, NextInd, PTL DEF Spec

(* The types of the registry, the document and the clients, always.        *)
THEOREM ApiTypeCorrect == Spec => []TypeOK
BY ApiInvariant, Consequences, PTL

(* Every link that this process has given is answered by what it was given *)
(* for, whatever the enhancers and their order, if its name is unambiguous.*)
THEOREM LinksAreAnswered == Spec => []LinksAnswered
BY ApiInvariant, Consequences, PTL

(* enhance_core.lua: the links to a detected service with a fixed key      *)
(* survive the restarts of the agent, whatever config_dir holds before and *)
(* after, but for those to the collectors of a service that config_dir     *)
(* describes under the same ID.                                            *)
THEOREM LinksSurviveRestarts == Spec => []DynamicLinksSurvive
BY ApiInvariant, Consequences, PTL

(* doGetJson(): the document defines what it refers to, except for the     *)
(* first resource of a collector that comes while it is written.           *)
THEOREM DocumentRefsDefined == Spec => []RefsDefined
BY ApiInvariant, Consequences, PTL

(* The only crashes: a collector under the name of a handler, a resource   *)
(* that is being made, a plugin with the name of a built-in collector.     *)
THEOREM CrashesAreExplained == Spec => []CrashExplained
BY ApiInvariant, Consequences, PTL
=============================================================================
