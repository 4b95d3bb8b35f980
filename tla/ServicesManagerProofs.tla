------------------------ MODULE ServicesManagerProofs ------------------------
(***************************************************************************)
(* The registry, for every host, every set of units and every service that *)
(* is configured: no step forgets a process that runs, and a process is    *)
(* counted by two services only when a unit's handler claimed it.          *)
(***************************************************************************)
EXTENDS ServicesManager, WellFoundedInduction, FiniteSetTheorems, TLAPS

-----------------------------------------------------------------------------
(* The inductive invariant                                                 *)

Paths == {Exe[p] : p \in Pids} \cup {Configured[k].path : k \in DOMAIN Configured}

Processes == [pid: Pids \cup {0}, path: Paths, sks: SUBSET Inodes]

Types == {"unknown"} \cup {TypeOf[n] : n \in DOMAIN TypeOf}

HandlerType == {NoHandler} \cup [unit: Units, full: BOOLEAN]

SocketMaps == UNION {[A -> Inodes \cup {0}] : A \in SUBSET Sources}

ServiceType == [name: IDs, type: Types, uniq: Uniqs, socks: SocketMaps, main: Seq(Processes),
                sub: SUBSET Pids, handler: HandlerType]

(* The detection thread is somewhere in its loop.                          *)
Finding ==
    /\ finder \in {"wait", "units", "sockets", "scan"}
    /\ todo \subseteq Units
    /\ sockets \subseteq Inodes
    /\ cursor \in 0 .. LastPid

(* A status request is at a service that exists.                           *)
Asking ==
    /\ request = [at |-> request.at, all |-> request.all]
    /\ request.at \in 0 .. Len(services) /\ request.all \in BOOLEAN
    /\ request # NoRequest => request.at # 0
    /\ reply \in {"none", "sent", "lost"}

(* The process of a unit is one that init forked in it, and nothing but    *)
(* the systemd detector gives a service a handler with a full path.        *)
Bus ==
    /\ \A u \in Units : unit[u].pid # 0 => MainOf(unit[u].pid) = u
    /\ finder = "units" => HaveBus
    /\ \A k \in 1 .. Len(services) : services[k].handler.full => HaveBus

Ind ==
    /\ HostTypeOK
    /\ services \in Seq(ServiceType)
    /\ DOMAIN templates \subseteq IDs \X Uniqs
    /\ Finding /\ Asking
    /\ busErrors \in 0 .. MaxBusErrors
    /\ foundWith \subseteq Inodes
    /\ Bus

-----------------------------------------------------------------------------
(* Sequences                                                               *)

(* A set of numbers that is not empty has a least element.                 *)
LEMMA LeastElement ==
    ASSUME NEW S \in SUBSET Nat, S # {}
    PROVE  \E x \in S : \A y \in S : x <= y
<1> DEFINE R == {ss \in Nat \X Nat : ss[1] < ss[2]}
<1>1. IsWellFoundedOn(R, Nat)
  BY NatLessThanWellFounded, Zenon DEF OpToRel
<1>2. PICK x \in S : \A y \in S : ~(<<y, x>> \in R)
  BY <1>1, WFMin
<1>3. \A y \in S : <<y, x>> \in R <=> y < x
  <2> TAKE y \in S
  <2>1. <<y, x>> \in Nat \X Nat /\ <<y, x>>[1] = y /\ <<y, x>>[2] = x
    OBVIOUS
  <2> QED
    BY <2>1, Zenon
<1>4. \A y \in S : ~(y < x)
  BY <1>2, <1>3, Zenon
<1> QED
  BY <1>4, SMT

(* The elements of a sequence of processes.                                *)
Elements(main) == {main[k] : k \in 1 .. Len(main)}

(* One round of the loop that takes processes out.                         *)
Round(main, gone, kept, k) ==
    IF k = 0 THEN <<>>
    ELSE IF main[k].pid \in gone THEN kept[k - 1] ELSE Append(kept[k - 1], main[k])

(* The loop of addMainProcess() over the main processes is well defined.   *)
LEMMA RoundsExist ==
    ASSUME NEW main \in Seq(Processes), NEW gone
    PROVE  \E kept : kept = [k \in 0 .. Len(main) |-> Round(main, gone, kept, k)]
<1> DEFINE Runs(n) == \E kept : kept = [k \in 0 .. n |-> Round(main, gone, kept, k)]
           B == {n \in 0 .. Len(main) : ~Runs(n)}
<1>1. SUFFICES ASSUME B # {} PROVE FALSE
  BY DEF B
<1>2. PICK n \in B : \A m \in B : n <= m
  <2>1. B \in SUBSET Nat
    OBVIOUS
  <2> QED
    BY <1>1, <2>1, LeastElement, Zenon
<1>3. n \in 0 .. Len(main) /\ ~Runs(n)
  OBVIOUS
<1>4. CASE n = 0
  <2> DEFINE h == [k \in 0 .. 0 |-> <<>>]
  <2>1. h = [k \in 0 .. 0 |-> Round(main, gone, h, k)]
    BY DEF Round
  <2> HIDE DEF h
  <2> QED
    BY <1>3, <1>4, <2>1
<1>5. CASE n # 0
  <2>1. n - 1 \in 0 .. Len(main) /\ ~(n <= n - 1) /\ n - 1 >= 0
    BY <1>3, <1>5
  <2>2. Runs(n - 1)
    BY <1>2, <2>1
  <2>3. PICK f : f = [k \in 0 .. n - 1 |-> Round(main, gone, f, k)]
    BY <2>2
  <2> DEFINE h == [k \in 0 .. n |-> IF k = n THEN Round(main, gone, f, k) ELSE f[k]]
  <2>4. \A k \in 0 .. n : Round(main, gone, h, k) = Round(main, gone, f, k)
    <3> TAKE k \in 0 .. n
    <3>1. k # 0 => h[k - 1] = f[k - 1]
      BY <1>3
    <3> QED
      BY <3>1 DEF Round
  <2>5. \A k \in 0 .. n : k # n => k \in 0 .. n - 1 /\ f[k] = Round(main, gone, f, k)
    BY <1>3, <2>3
  <2>6. h = [k \in 0 .. n |-> Round(main, gone, h, k)]
    BY <2>4, <2>5
  <2> HIDE DEF h
  <2> QED
    BY <1>3, <2>6
<1> QED
  BY <1>4, <1>5

(* addMainProcess(): the processes that stay are those that do not leave.  *)
LEMMA WithoutKeeps ==
    ASSUME NEW main \in Seq(Processes), NEW gone
    PROVE  /\ Without(main, gone) \in Seq(Processes)
           /\ Elements(Without(main, gone)) = {q \in Elements(main) : q.pid \notin gone}
<1> DEFINE kept == CHOOSE h : h = [k \in 0 .. Len(main) |-> Round(main, gone, h, k)]
<1>1. kept = [k \in 0 .. Len(main) |-> Round(main, gone, kept, k)]
  BY RoundsExist, Zenon
<1>2. Without(main, gone) = kept[Len(main)]
  BY Zenon DEF Without, Round
<1> HIDE DEF kept
<1> DEFINE Good(n) == /\ kept[n] \in Seq(Processes)
                      /\ Elements(kept[n]) = {main[k] : k \in {i \in 1 .. n : main[i].pid \notin gone}}
           B == {n \in 0 .. Len(main) : ~Good(n)}
<1>3. ASSUME B # {} PROVE FALSE
  <2>1. PICK n \in B : \A m \in B : n <= m
    <3>1. B \in SUBSET Nat
      OBVIOUS
    <3> QED
      BY <1>3, <3>1, LeastElement, Zenon
  <2>2. n \in 0 .. Len(main) /\ ~Good(n) /\ kept[n] = Round(main, gone, kept, n)
    BY <1>1
  <2>3. CASE n = 0
    <3>1. kept[n] = <<>> /\ 1 .. n = {}
      BY <2>2, <2>3 DEF Round
    <3> QED
      BY <2>2, <3>1 DEF Elements
  <2>4. CASE n # 0
    <3>1. n - 1 \in 0 .. Len(main) /\ ~(n <= n - 1) /\ n \in 1 .. Len(main)
      BY <2>2, <2>4
    <3>2. Good(n - 1)
      BY <2>1, <3>1
    <3>3. \A i : i \in 1 .. n <=> i \in 1 .. n - 1 \/ i = n
      BY <3>1
    <3>4. CASE main[n].pid \in gone
      <4>1. kept[n] = kept[n - 1]
        BY <2>2, <2>4, <3>4 DEF Round
      <4>2. {i \in 1 .. n : main[i].pid \notin gone} = {i \in 1 .. n - 1 : main[i].pid \notin gone}
        BY <3>3, <3>4
      <4> QED
        BY <2>2, <3>2, <4>1, <4>2
    <3>5. CASE main[n].pid \notin gone
      <4>1. kept[n] = Append(kept[n - 1], main[n]) /\ main[n] \in Processes
        BY <2>2, <2>4, <3>1, <3>5 DEF Round
      <4>2. {i \in 1 .. n : main[i].pid \notin gone}
               = {i \in 1 .. n - 1 : main[i].pid \notin gone} \cup {n}
        BY <3>3, <3>5
      <4>3. kept[n] \in Seq(Processes) /\ Elements(kept[n]) = Elements(kept[n - 1]) \cup {main[n]}
        BY <3>2, <4>1 DEF Elements
      <4> QED
        BY <2>2, <3>2, <4>2, <4>3
    <3> QED
      BY <3>4, <3>5
  <2> QED
    BY <2>3, <2>4
<1>4. Good(Len(main))
  <2>1. Len(main) \in 0 .. Len(main)
    OBVIOUS
  <2> QED
    BY <1>3, <2>1, Zenon
<1> QED
  BY <1>2, <1>4 DEF Elements

(* The search over a sequence finds the first that fits.                   *)
LEMMA LeastIndex ==
    ASSUME NEW n \in Nat, NEW I \in SUBSET (1 .. n), I # {}
    PROVE  Min(I) \in I
<1>1. I \in SUBSET Nat
  OBVIOUS
<1>2. \E x \in I : \A y \in I : x <= y
  BY <1>1, LeastElement
<1> QED
  BY <1>2, Zenon DEF Min

(* erase(): a process leaves, the others stay.                             *)
LEMMA RemoveAtKeeps ==
    ASSUME NEW main \in Seq(Processes), NEW i \in 1 .. Len(main)
    PROVE  /\ RemoveAt(main, i) \in Seq(Processes)
           /\ Elements(RemoveAt(main, i)) \subseteq Elements(main)
           /\ \A q \in Elements(main) : q # main[i] => q \in Elements(RemoveAt(main, i))
<1> DEFINE a == SubSeq(main, 1, i - 1)
           b == SubSeq(main, i + 1, Len(main))
           r == a \o b
<1>1. a \in Seq(Processes) /\ Len(a) = i - 1 /\ \A k \in 1 .. i - 1 : a[k] = main[k]
  OBVIOUS
<1>2. b \in Seq(Processes) /\ Len(b) = Len(main) - i /\ \A k \in 1 .. Len(main) - i : b[k] = main[i + k]
  OBVIOUS
<1> HIDE DEF a, b
<1>3. r \in Seq(Processes) /\ Len(r) = Len(main) - 1
  <2>1. a \in Seq(Processes) /\ b \in Seq(Processes)
    BY <1>1, <1>2
  <2>2. r \in Seq(Processes)
    BY <2>1
  <2>3. Len(r) = Len(a) + Len(b)
    BY <2>1
  <2>4. Len(a) = i - 1 /\ Len(b) = Len(main) - i /\ Len(main) \in Nat /\ i \in Int
    BY <1>1, <1>2
  <2> QED
    BY <2>2, <2>3, <2>4
<1>4. \A k \in 1 .. Len(r) : r[k] = IF k < i THEN main[k] ELSE main[k + 1]
  <2>1. a \in Seq(Processes) /\ b \in Seq(Processes)
    BY <1>1, <1>2
  <2>2. \A k \in 1 .. Len(a) + Len(b) : r[k] = IF k <= Len(a) THEN a[k] ELSE b[k - Len(a)]
    BY <2>1
  <2>3. Len(a) = i - 1 /\ Len(b) = Len(main) - i /\ Len(main) \in Nat /\ i \in Int
    BY <1>1, <1>2
  <2> HIDE DEF r
  <2>4. ASSUME NEW k \in 1 .. Len(r), k < i PROVE r[k] = main[k]
    <3>1. k \in 1 .. i - 1 /\ k \in 1 .. Len(a) + Len(b) /\ k <= Len(a)
      BY <1>3, <2>3, <2>4
    <3> QED
      BY <1>1, <2>2, <3>1
  <2>5. ASSUME NEW k \in 1 .. Len(r), ~(k < i) PROVE r[k] = main[k + 1]
    <3>1. /\ k - (i - 1) \in 1 .. Len(main) - i /\ k \in 1 .. Len(a) + Len(b) /\ ~(k <= Len(a))
          /\ i + (k - (i - 1)) = k + 1 /\ k - Len(a) = k - (i - 1)
      BY <1>3, <2>3, <2>5
    <3>2. r[k] = b[k - (i - 1)]
      BY <2>2, <3>1
    <3>3. b[k - (i - 1)] = main[i + (k - (i - 1))]
      BY <1>2, <3>1
    <3> QED
      BY <3>1, <3>2, <3>3
  <2> QED
    BY <2>4, <2>5
<1>5. RemoveAt(main, i) = r
  BY DEF RemoveAt, a, b
<1> HIDE DEF r
<1>6. Elements(r) \subseteq Elements(main)
  BY <1>3, <1>4 DEF Elements
<1>7. ASSUME NEW q \in Elements(main), q # main[i] PROVE q \in Elements(r)
  <2>1. PICK k \in 1 .. Len(main) : q = main[k]
    BY DEF Elements
  <2>2. k # i
    BY <1>7, <2>1
  <2>3. CASE k < i
    <3>1. k \in 1 .. Len(r) /\ r[k] = q
      BY <1>3, <1>4, <2>1, <2>3
    <3> QED
      BY <3>1 DEF Elements
  <2>4. CASE k > i
    <3>1. k - 1 \in 1 .. Len(r) /\ r[k - 1] = q
      BY <1>3, <1>4, <2>1, <2>4
    <3> QED
      BY <3>1 DEF Elements
  <2> QED
    BY <2>2, <2>3, <2>4
<1> QED
  BY <1>3, <1>5, <1>6, <1>7

(* updateMainProcess(): only a dead process makes room.                    *)
Room(main, proc) == RemoveFirstMatch(main, LAMBDA q : ~getStatus(q.pid) /\ q.path = proc.path)

(* The processes that run stay.                                            *)
LEMMA DeadMakesRoom ==
    ASSUME NEW main \in Seq(Processes), NEW proc, NEW r, r = Room(main, proc)
    PROVE  /\ r \in Seq(Processes) /\ Elements(r) \subseteq Elements(main)
           /\ \A q \in Elements(main) : getStatus(q.pid) => q \in Elements(r)
<1> DEFINE Dead(q) == ~getStatus(q.pid) /\ q.path = proc.path
           I == {i \in 1 .. Len(main) : Dead(main[i])}
<1>1. r = IF I # {} THEN RemoveAt(main, Min(I)) ELSE main
  <2>1. SelectInSeq(main, Dead) = IF I # {} THEN Min(I) ELSE 0
    BY DEF SelectInSeq
  <2>2. r = IF \E i \in 1 .. Len(main) : Dead(main[i]) THEN RemoveAt(main, SelectInSeq(main, Dead))
            ELSE main
    BY DEF Room, RemoveFirstMatch
  <2> QED
    BY <2>1, <2>2
<1>2. CASE I = {}
  BY <1>1, <1>2
<1>3. CASE I # {}
  <2>1. Min(I) \in I
    <3>1. I \in SUBSET (1 .. Len(main)) /\ Len(main) \in Nat
      OBVIOUS
    <3> QED
      BY <1>3, <3>1, LeastIndex
  <2>2. Min(I) \in 1 .. Len(main) /\ ~getStatus(main[Min(I)].pid)
    BY <2>1
  <2>3. r = RemoveAt(main, Min(I))
    BY <1>1, <1>3
  <2> HIDE DEF I
  <2> QED
    BY <2>2, <2>3, RemoveAtKeeps
<1> QED
  BY <1>2, <1>3

(* push_back()                                                             *)
LEMMA AppendAdds ==
    ASSUME NEW main \in Seq(Processes), NEW q \in Processes
    PROVE  /\ Append(main, q) \in Seq(Processes)
           /\ Elements(Append(main, q)) = Elements(main) \cup {q}
<1>1. Append(main, q) \in Seq(Processes) /\ Len(Append(main, q)) = Len(main) + 1
  OBVIOUS
<1>2. \A k \in 1 .. Len(main) : Append(main, q)[k] = main[k]
  OBVIOUS
<1>3. Append(main, q)[Len(main) + 1] = q
  OBVIOUS
<1>4. \A k : k \in 1 .. Len(main) + 1 <=> k \in 1 .. Len(main) \/ k = Len(main) + 1
  OBVIOUS
<1> QED
  BY <1>1, <1>2, <1>3, <1>4 DEF Elements

(* updateFrom() with one process to copy.                                  *)
LEMMA FoldOne ==
    ASSUME NEW s, NEW proc
    PROVE  FoldLeft(updateMainProcess, s, <<proc>>) = updateMainProcess(s, proc)
<1> DEFINE D(h) == [t \in SUBSET {1} |->
                      IF t = {} THEN s
                      ELSE updateMainProcess(h[t \ {Max(t)}], <<proc>>[Max(t)])]
           g == [t \in SUBSET {1} |-> IF t = {} THEN s ELSE updateMainProcess(s, proc)]
           it == CHOOSE h : h = D(h)
<1>1. DOMAIN <<proc>> = {1}
  OBVIOUS
<1>2. FoldLeft(updateMainProcess, s, <<proc>>) = it[DOMAIN <<proc>>]
  BY <1>1, Zenon DEF FoldLeft, MapThenFoldSet
<1>3. Max({1}) = 1
  BY DEF Max
<1>4. g = D(g)
  <2>1. \A t \in SUBSET {1} : t = {} \/ t = {1}
    OBVIOUS
  <2>2. g[{}] = s /\ {1} \ {Max({1})} = {} /\ <<proc>>[Max({1})] = proc
    BY <1>3
  <2>3. \A t \in SUBSET {1} : g[t] = D(g)[t]
    <3> TAKE t \in SUBSET {1}
    <3>1. CASE t = {}
      BY <3>1
    <3>2. CASE t = {1}
      BY <2>2, <3>2
    <3> QED
      BY <2>1, <3>1, <3>2
  <2> QED
    BY <2>3
<1>5. it = D(it)
  BY <1>4, Zenon
<1> HIDE DEF it
<1>6. it[{}] = s
  BY <1>5
<1>7. it[{1}] = updateMainProcess(it[{}], proc)
  <2>1. {1} \ {Max({1})} = {} /\ <<proc>>[Max({1})] = proc
    BY <1>3
  <2>2. it[{1}] = updateMainProcess(it[{1} \ {Max({1})}], <<proc>>[Max({1})])
    BY <1>5
  <2> QED
    BY <2>1, <2>2
<1> QED
  BY <1>1, <1>2, <1>6, <1>7

-----------------------------------------------------------------------------
(* One service                                                             *)

PidsOf(s) == MainPids(s) \cup s.sub

(* The pids of the main processes.                                         *)
LEMMA MainPidsType ==
    ASSUME NEW s \in ServiceType
    PROVE  /\ s.main \in Seq(Processes) /\ s.sub \subseteq Pids
           /\ MainPids(s) = {q.pid : q \in Elements(s.main)}
           /\ MainPids(s) \subseteq Pids \cup {0} /\ PidsOf(s) \subseteq Pids \cup {0}
<1>1. s.main \in Seq(Processes) /\ s.sub \subseteq Pids
  BY DEF ServiceType
<1>2. DOMAIN s.main = 1 .. Len(s.main)
  BY <1>1
<1>3. MainPids(s) = {q.pid : q \in Elements(s.main)}
  BY <1>2 DEF MainPids, Elements
<1>4. MainPids(s) \subseteq Pids \cup {0}
  <2>1. \A k \in DOMAIN s.main : s.main[k] \in Processes
    BY <1>1
  <2> QED
    BY <2>1 DEF MainPids, Processes
<1> QED
  BY <1>1, <1>3, <1>4 DEF PidsOf

(* A service with other processes.                                         *)
With(s, m, b) == [name |-> s.name, type |-> s.type, uniq |-> s.uniq, socks |-> s.socks,
                  main |-> m, sub |-> b, handler |-> s.handler]

(* Its other fields stay.                                                  *)
LEMMA OtherProcesses ==
    ASSUME NEW s \in ServiceType, NEW m \in Seq(Processes), NEW b \in SUBSET Pids,
           NEW t, t = With(s, m, b)
    PROVE  /\ t \in ServiceType /\ t.main = m /\ t.sub = b
           /\ t.handler = s.handler /\ t.socks = s.socks /\ getID(t) = getID(s)
BY DEF ServiceType, getID, With

(* addMainProcess(): the process is added and none is lost, whichever of   *)
(* them is the child of the other.                                         *)
LEMMA addMainProcessKeeps ==
    ASSUME NEW s \in ServiceType, NEW proc \in Processes, NEW t, t = addMainProcess(s, proc)
    PROVE  /\ t \in ServiceType /\ PidsOf(t) = PidsOf(s) \cup {proc.pid}
           /\ t.handler = s.handler /\ t.socks = s.socks /\ getID(t) = getID(s)
<1> DEFINE children == {q \in MainPids(s) : q # 0 /\ getPPID(q) = proc.pid}
<1>1. /\ s.main \in Seq(Processes) /\ s.sub \subseteq Pids
      /\ MainPids(s) = {q.pid : q \in Elements(s.main)}
      /\ MainPids(s) \subseteq Pids \cup {0} /\ PidsOf(s) \subseteq Pids \cup {0}
  BY MainPidsType
<1>2. proc.pid # 0 => proc.pid \in Pids
  BY DEF Processes
<1>3. children \subseteq Pids /\ children \subseteq MainPids(s)
  BY <1>1
<1>4. CASE proc.pid # 0 /\ getPPID(proc.pid) \in MainPids(s)
  <2>1. t = [s EXCEPT !.sub = @ \cup {proc.pid}]
    BY <1>4 DEF addMainProcess, addSubProcess
  <2>2. t = With(s, s.main, s.sub \cup {proc.pid})
    BY <2>1 DEF ServiceType, With
  <2>3. s.sub \cup {proc.pid} \in SUBSET Pids
    BY <1>1, <1>2, <1>4
  <2>4. /\ t \in ServiceType /\ t.main = s.main /\ t.sub = s.sub \cup {proc.pid}
        /\ t.handler = s.handler /\ t.socks = s.socks /\ getID(t) = getID(s)
    BY <1>1, <2>2, <2>3, OtherProcesses
  <2> QED
    BY <2>4 DEF PidsOf, MainPids
<1>5. CASE proc.pid # 0 /\ getPPID(proc.pid) \notin MainPids(s)
  <2> DEFINE m == Append(Without(s.main, children), proc)
             b == s.sub \cup children
  <2>1. t = [s EXCEPT !.sub = b, !.main = m]
    BY <1>5 DEF addMainProcess
  <2>2. /\ Without(s.main, children) \in Seq(Processes)
        /\ Elements(Without(s.main, children)) = {q \in Elements(s.main) : q.pid \notin children}
    BY <1>1, WithoutKeeps
  <2>3. m \in Seq(Processes) /\ Elements(m) = Elements(Without(s.main, children)) \cup {proc}
    BY <2>2, AppendAdds
  <2>4. b \in SUBSET Pids
    BY <1>1, <1>3
  <2>5. {q.pid : q \in Elements(m)} = (MainPids(s) \ children) \cup {proc.pid}
    <3> HIDE DEF m, children
    <3> QED
      BY <1>1, <2>2, <2>3
  <2> HIDE DEF m, b, children
  <2>6. t = With(s, m, b)
    BY <2>1 DEF ServiceType, With
  <2>7. /\ t \in ServiceType /\ t.main = m /\ t.sub = b
        /\ t.handler = s.handler /\ t.socks = s.socks /\ getID(t) = getID(s)
    BY <2>3, <2>4, <2>6, OtherProcesses
  <2>8. MainPids(t) = {q.pid : q \in Elements(m)}
    BY <2>7, MainPidsType
  <2>9. PidsOf(t) = PidsOf(s) \cup {proc.pid}
    BY <1>3, <2>5, <2>7, <2>8 DEF PidsOf, b
  <2> QED
    BY <2>7, <2>9
<1>6. CASE proc.pid = 0
  <2> DEFINE m == Append(s.main, proc)
  <2>1. t = [s EXCEPT !.main = m]
    BY <1>6 DEF addMainProcess
  <2>2. m \in Seq(Processes) /\ Elements(m) = Elements(s.main) \cup {proc}
    BY <1>1, AppendAdds
  <2> HIDE DEF m
  <2>3. t = With(s, m, s.sub)
    BY <2>1 DEF ServiceType, With
  <2>4. /\ t \in ServiceType /\ t.main = m /\ t.sub = s.sub
        /\ t.handler = s.handler /\ t.socks = s.socks /\ getID(t) = getID(s)
    BY <1>1, <2>2, <2>3, OtherProcesses
  <2>5. MainPids(t) = {q.pid : q \in Elements(m)}
    BY <2>4, MainPidsType
  <2> QED
    BY <1>1, <2>2, <2>4, <2>5 DEF PidsOf
<1> QED
  BY <1>4, <1>5, <1>6

(* updateMainProcess(): the process is added, and only dead ones go.       *)
LEMMA updateMainProcessKeeps ==
    ASSUME NEW s \in ServiceType, NEW proc \in Processes, NEW t, t = updateMainProcess(s, proc)
    PROVE  /\ t \in ServiceType /\ PidsOf(t) \subseteq PidsOf(s) \cup {proc.pid}
           /\ \A p \in PidsOf(s) : getStatus(p) => p \in PidsOf(t)
           /\ t.handler = s.handler /\ t.socks = s.socks /\ getID(t) = getID(s)
<1> DEFINE m == Room(s.main, proc)
           u == [s EXCEPT !.main = m]
<1>1. /\ s.main \in Seq(Processes) /\ s.sub \subseteq Pids
      /\ MainPids(s) = {q.pid : q \in Elements(s.main)}
  BY MainPidsType
<1>2. /\ m \in Seq(Processes) /\ Elements(m) \subseteq Elements(s.main)
      /\ \A q \in Elements(s.main) : getStatus(q.pid) => q \in Elements(m)
  BY <1>1, DeadMakesRoom
<1>3. t = addMainProcess(u, proc)
  BY DEF updateMainProcess, Room
<1> HIDE DEF m
<1>4. u = With(s, m, s.sub)
  BY DEF ServiceType, With
<1> HIDE DEF u
<1>5. /\ u \in ServiceType /\ u.main = m /\ u.sub = s.sub
      /\ u.handler = s.handler /\ u.socks = s.socks /\ getID(u) = getID(s)
  BY <1>1, <1>2, <1>4, OtherProcesses
<1>6. MainPids(u) = {q.pid : q \in Elements(m)}
  BY <1>5, MainPidsType
<1>7. PidsOf(u) \subseteq PidsOf(s) /\ \A p \in PidsOf(s) : getStatus(p) => p \in PidsOf(u)
  BY <1>1, <1>2, <1>5, <1>6 DEF PidsOf
<1>8. /\ t \in ServiceType /\ PidsOf(t) = PidsOf(u) \cup {proc.pid}
      /\ t.handler = u.handler /\ t.socks = u.socks /\ getID(t) = getID(u)
  BY <1>3, <1>5, addMainProcessKeeps
<1> QED
  BY <1>5, <1>7, <1>8

(* A service with other sockets.                                           *)
LEMMA OtherSockets ==
    ASSUME NEW s \in ServiceType, NEW f \in SocketMaps, NEW t, t = [s EXCEPT !.socks = f]
    PROVE  /\ t \in ServiceType /\ PidsOf(t) = PidsOf(s) /\ t.main = s.main /\ t.sub = s.sub
           /\ t.handler = s.handler /\ getID(t) = getID(s)
<1>1. /\ t \in ServiceType /\ t.main = s.main /\ t.sub = s.sub /\ t.handler = s.handler
      /\ getID(t) = getID(s)
  BY DEF ServiceType, getID
<1> QED
  BY <1>1 DEF PidsOf, MainPids

(* The sockets of a service, by source.                                    *)
LEMMA SocketsOf ==
    ASSUME NEW s \in ServiceType
    PROVE  DOMAIN s.socks \subseteq Sources /\ \A a \in DOMAIN s.socks : s.socks[a] \in Inodes \cup {0}
<1>1. PICK A \in SUBSET Sources : s.socks \in [A -> Inodes \cup {0}]
  BY DEF ServiceType, SocketMaps
<1> QED
  BY <1>1

(* setSocket(): sockets are added, processes are not touched.              *)
LEMMA setSocketKeeps ==
    ASSUME NEW s \in ServiceType, NEW ids \in SUBSET Inodes, NEW t, t = setSocket(s, ids)
    PROVE  /\ t \in ServiceType /\ PidsOf(t) = PidsOf(s) /\ t.main = s.main /\ t.sub = s.sub
           /\ t.handler = s.handler /\ getID(t) = getID(s)
<1> DEFINE A == DOMAIN s.socks \cup {Source[i] : i \in ids}
           f == [a \in A |-> IF a \in DOMAIN s.socks THEN s.socks[a] ELSE CHOOSE i \in ids : Source[i] = a]
<1>1. t = [s EXCEPT !.socks = f]
  BY DEF setSocket
<1>2. A \in SUBSET Sources
  BY SocketsOf DEF Sources
<1>3. \A a \in A : f[a] \in Inodes \cup {0}
  <2> TAKE a \in A
  <2>1. CASE a \in DOMAIN s.socks
    BY <2>1, SocketsOf
  <2>2. CASE a \notin DOMAIN s.socks
    <3>1. \E i \in ids : Source[i] = a
      BY <2>2
    <3>2. (CHOOSE i \in ids : Source[i] = a) \in ids
      BY <3>1
    <3> QED
      BY <2>2, <3>2
  <2> QED
    BY <2>1, <2>2
<1>4. f \in [A -> Inodes \cup {0}]
  BY <1>3
<1>5. f \in SocketMaps
  BY <1>2, <1>4 DEF SocketMaps
<1> HIDE DEF f
<1> QED
  BY <1>1, <1>5, OtherSockets

(* updateFrom(): the process of a service that was just made is added, and *)
(* of those that were there only dead ones go.                             *)
LEMMA updateFromKeeps ==
    ASSUME NEW s \in ServiceType, NEW src \in ServiceType, NEW proc \in Processes,
           src.main = <<proc>>, NEW t, t = updateFrom(s, src)
    PROVE  /\ t \in ServiceType /\ PidsOf(t) \subseteq PidsOf(s) \cup {proc.pid}
           /\ \A p \in PidsOf(s) : getStatus(p) => p \in PidsOf(t)
           /\ t.handler = s.handler
<1> DEFINE u == updateMainProcess(s, proc)
           A == DOMAIN s.socks \cup DOMAIN src.socks
           f == [a \in A |-> IF a \in DOMAIN src.socks THEN src.socks[a] ELSE s.socks[a]]
<1>1. t = [u EXCEPT !.socks = f]
  BY FoldOne DEF updateFrom
<1>2. /\ u \in ServiceType /\ PidsOf(u) \subseteq PidsOf(s) \cup {proc.pid}
      /\ \A p \in PidsOf(s) : getStatus(p) => p \in PidsOf(u)
      /\ u.handler = s.handler
  BY updateMainProcessKeeps
<1>3. f \in SocketMaps
  <2>1. A \in SUBSET Sources /\ f \in [A -> Inodes \cup {0}]
    BY SocketsOf
  <2> QED
    BY <2>1 DEF SocketMaps
<1> HIDE DEF u, f
<1>4. t \in ServiceType /\ PidsOf(t) = PidsOf(u) /\ t.handler = u.handler
  BY <1>1, <1>2, <1>3, OtherSockets
<1> QED
  BY <1>2, <1>4

(* addSubProcess()                                                         *)
LEMMA addSubProcessKeeps ==
    ASSUME NEW s \in ServiceType, NEW p \in Pids, NEW t, t = addSubProcess(s, p)
    PROVE  t \in ServiceType /\ PidsOf(t) = PidsOf(s) \cup {p} /\ t.handler = s.handler
<1>1. t = With(s, s.main, s.sub \cup {p})
  BY DEF addSubProcess, ServiceType, With
<1>2. s.main \in Seq(Processes) /\ s.sub \cup {p} \in SUBSET Pids
  BY MainPidsType
<1>3. t \in ServiceType /\ t.main = s.main /\ t.sub = s.sub \cup {p} /\ t.handler = s.handler
  BY <1>1, <1>2, OtherProcesses
<1> QED
  BY <1>3 DEF PidsOf, MainPids

(* getPIDs(): dead sub-processes go.                                       *)
LEMMA getPIDsKeeps ==
    ASSUME NEW s \in ServiceType, NEW t, t = getPIDs(s)
    PROVE  /\ t \in ServiceType /\ PidsOf(t) \subseteq PidsOf(s) /\ t.handler = s.handler
           /\ \A p \in PidsOf(s) : getStatus(p) => p \in PidsOf(t)
<1> DEFINE b == {pid \in s.sub : getStatus(pid)}
<1>1. t = With(s, s.main, b)
  BY DEF getPIDs, ServiceType, With
<1>2. s.main \in Seq(Processes) /\ b \in SUBSET Pids
  BY MainPidsType
<1>3. t \in ServiceType /\ t.main = s.main /\ t.sub = b /\ t.handler = s.handler
  BY <1>1, <1>2, OtherProcesses
<1> QED
  BY <1>3 DEF PidsOf, MainPids

(* A service is given a handler.                                           *)
LEMMA OtherHandler ==
    ASSUME NEW s \in ServiceType, NEW h \in HandlerType, NEW t, t = [s EXCEPT !.handler = h]
    PROVE  t \in ServiceType /\ PidsOf(t) = PidsOf(s) /\ t.handler = h
<1>1. t \in ServiceType /\ t.main = s.main /\ t.sub = s.sub /\ t.handler = h
  BY DEF ServiceType
<1> QED
  BY <1>1 DEF PidsOf, MainPids

(* process(pid) and setSockets(): a process of the host.                   *)
LEMMA ProcessType ==
    ASSUME HostTypeOK
    PROVE  /\ \A p \in Pids : Process(p) \in Processes /\ Process(p).pid = p
           /\ \A q \in Processes : setSockets(q) \in Processes /\ setSockets(q).pid = q.pid
<1>1. \A p \in Pids : Process(p) \in Processes /\ Process(p).pid = p
  BY DEF Process, Processes, Paths
<1>2. \A q \in Processes : setSockets(q) \in Processes /\ setSockets(q).pid = q.pid
  <2> TAKE q \in Processes
  <2>1. CASE q.pid \in alive
    <3>1. setSockets(q) = [q EXCEPT !.sks = fds[q.pid]]
      BY <2>1 DEF setSockets
    <3>2. fds[q.pid] \in SUBSET Inodes
      BY <2>1 DEF HostTypeOK
    <3> HIDE DEF Paths
    <3> QED
      BY <3>1, <3>2 DEF Processes
  <2>2. CASE q.pid \notin alive
    BY <2>2 DEF setSockets
  <2> QED
    BY <2>1, <2>2
<1> QED
  BY <1>1, <1>2

(* The constructor of a service.                                           *)
LEMMA NewServiceType ==
    ASSUME NEW proc \in Processes, NEW u \in Uniqs, NEW h \in HandlerType,
           NEW s, s = NewService(proc, u, h)
    PROVE  /\ s \in ServiceType /\ s.main = <<proc>> /\ s.sub = {} /\ s.handler = h
           /\ PidsOf(s) = {proc.pid}
<1>1. s = [name |-> BaseName[proc.path], type |-> "unknown", uniq |-> u,
           socks |-> <<>>, main |-> <<proc>>, sub |-> {}, handler |-> h]
  BY DEF NewService
<1>2. BaseName[proc.path] \in IDs
  BY DEF Processes, Paths, IDs
<1>3. <<>> \in SocketMaps
  <2>1. <<>> \in [{} -> Inodes \cup {0}] /\ {} \in SUBSET Sources
    OBVIOUS
  <2> QED
    BY <2>1 DEF SocketMaps
<1>4. <<proc>> \in Seq(Processes) /\ "unknown" \in Types /\ {} \in SUBSET Pids
  BY DEF Types
<1> HIDE DEF Types
<1>5. s \in ServiceType
  BY <1>1, <1>2, <1>3, <1>4 DEF ServiceType
<1>6. s.main = <<proc>> /\ s.sub = {} /\ s.handler = h
  BY <1>1
<1>7. MainPids(s) = {proc.pid}
  BY <1>6 DEF MainPids
<1> QED
  BY <1>5, <1>6, <1>7 DEF PidsOf

(* The enhancers name a service and do not touch its processes; the        *)
(* handler they give it has no full path.                                  *)
LEMMA EnhanceKeeps ==
    ASSUME HostTypeOK, NEW s \in ServiceType, NEW answered, NEW t, t = Enhance(s, answered)
    PROVE  /\ t \in ServiceType /\ t.main = s.main /\ PidsOf(t) = PidsOf(s)
           /\ t.handler = s.handler \/ ~t.handler.full
<1> DEFINE u == findByPID(s.main[1].pid)
           r == NamedByUnit(s, answered)
<1>1. u \in Units \cup {NoUnit}
  BY HostAssumption DEF findByPID, getStatus, HostTypeOK
<1>2. /\ r \in ServiceType /\ r.main = s.main /\ r.sub = s.sub
      /\ r.handler = s.handler \/ ~r.handler.full
  <2>1. CASE ~HaveBus \/ haveHandler(s) \/ ~answered \/ u = NoUnit
    BY <2>1 DEF NamedByUnit
  <2>2. CASE ~(~HaveBus \/ haveHandler(s) \/ ~answered \/ u = NoUnit)
    <3> DEFINE h == [unit |-> u, full |-> FALSE]
    <3>1. r = [s EXCEPT !.uniq = u, !.handler = h]
      BY <2>2 DEF NamedByUnit
    <3>2. u \in Uniqs /\ h \in HandlerType /\ h.full = FALSE
      BY <1>1, <2>2 DEF Uniqs, HandlerType
    <3> HIDE DEF u, h, r
    <3>3. r \in ServiceType /\ r.main = s.main /\ r.sub = s.sub /\ r.handler = h
      BY <3>1, <3>2 DEF ServiceType
    <3> QED
      BY <3>2, <3>3
  <2> QED
    BY <2>1, <2>2
<1> HIDE DEF r
<1>3. t = [r EXCEPT !.type = IF r.name \in DOMAIN TypeOf THEN TypeOf[r.name] ELSE @,
                    !.uniq = IF r.name \in Dynamic THEN "dynamic" ELSE @]
  BY DEF Enhance, Classified, r
<1>4. "dynamic" \in Uniqs /\ \A n \in DOMAIN TypeOf : TypeOf[n] \in Types
  BY DEF Uniqs, Types
<1>5. t \in ServiceType /\ t.main = r.main /\ t.sub = r.sub /\ t.handler = r.handler
  BY <1>2, <1>3, <1>4 DEF ServiceType
<1> QED
  BY <1>2, <1>5 DEF PidsOf, MainPids

(* socketDetector::find(): the sockets of a known process are read again.  *)
Refreshed(s, p) ==
    [s EXCEPT !.main = [j \in DOMAIN @ |-> IF @[j].pid = p THEN setSockets(@[j]) ELSE @[j]]]

(* Its processes stay.                                                     *)
LEMMA RefreshedKeeps ==
    ASSUME HostTypeOK, NEW s \in ServiceType, NEW p, NEW t, t = Refreshed(s, p)
    PROVE  t \in ServiceType /\ PidsOf(t) = PidsOf(s) /\ t.handler = s.handler
<1> DEFINE m == [j \in DOMAIN s.main |-> IF s.main[j].pid = p THEN setSockets(s.main[j]) ELSE s.main[j]]
<1>1. s.main \in Seq(Processes) /\ s.sub \in SUBSET Pids
  BY MainPidsType
<1>2. \A j \in 1 .. Len(s.main) : s.main[j] \in Processes
  BY <1>1
<1>3. m \in [1 .. Len(s.main) -> Processes] /\ \A j \in 1 .. Len(s.main) : m[j].pid = s.main[j].pid
  BY <1>1, <1>2, ProcessType
<1>4. m \in Seq(Processes) /\ Len(s.main) \in Nat
  BY <1>1, <1>3
<1>5. t = With(s, m, s.sub)
  BY DEF Refreshed, ServiceType, With
<1>6. DOMAIN m = DOMAIN s.main /\ \A j \in DOMAIN s.main : m[j].pid = s.main[j].pid
  BY <1>1, <1>3
<1> HIDE DEF m
<1>7. t \in ServiceType /\ t.main = m /\ t.sub = s.sub /\ t.handler = s.handler
  BY <1>1, <1>4, <1>5, OtherProcesses
<1> QED
  BY <1>6, <1>7 DEF PidsOf, MainPids

-----------------------------------------------------------------------------
(* The registry                                                            *)

(* havePID() in terms of the pids of a service.                            *)
LEMMA havePIDIsPidsOf ==
    \A s, p : havePID(s, p) <=> p \in PidsOf(s)
BY DEF havePID, PidsOf

(* The search finds a service, and one that passes the test.               *)
LEMMA getServiceFinds ==
    ASSUME services \in Seq(ServiceType), NEW p, Known(p)
    PROVE  getService(p) \in 1 .. Len(services) /\ p \in PidsOf(services[getService(p)])
<1> DEFINE I == {i \in 1 .. Len(services) : havePID(services[i], p)}
<1>1. getService(p) = IF I # {} THEN Min(I) ELSE 0
  BY DEF getService, First, SelectInSeq
<1>2. I # {}
  <2>1. DOMAIN services = 1 .. Len(services)
    OBVIOUS
  <2> QED
    BY <2>1 DEF Known, Indices
<1>3. I \in SUBSET (1 .. Len(services)) /\ Len(services) \in Nat
  OBVIOUS
<1>4. Min(I) \in I
  BY <1>2, <1>3, LeastIndex
<1> QED
  BY <1>1, <1>2, <1>4, havePIDIsPidsOf

(* The two searches of addService().                                       *)
Same(add) == First(LAMBDA t : Equal(add, t))

Needs(add) == First(LAMBDA t : needSocketFrom(t, add))

(* They give a service or 0.                                               *)
LEMMA SearchType ==
    ASSUME services \in Seq(ServiceType), NEW add
    PROVE  Same(add) \in 0 .. Len(services) /\ Needs(add) \in 0 .. Len(services)
<1> DEFINE I == {i \in 1 .. Len(services) : Equal(add, services[i])}
           J == {i \in 1 .. Len(services) : needSocketFrom(services[i], add)}
<1>1. Same(add) = IF I # {} THEN Min(I) ELSE 0
  BY DEF Same, First, SelectInSeq
<1>2. Needs(add) = IF J # {} THEN Min(J) ELSE 0
  BY DEF Needs, First, SelectInSeq
<1>3. /\ I \in SUBSET (1 .. Len(services)) /\ J \in SUBSET (1 .. Len(services))
      /\ Len(services) \in Nat
  OBVIOUS
<1> HIDE DEF I, J
<1>4. I # {} => Min(I) \in 1 .. Len(services)
  BY <1>3, LeastIndex
<1>5. J # {} => Min(J) \in 1 .. Len(services)
  BY <1>3, LeastIndex
<1> QED
  BY <1>1, <1>2, <1>3, <1>4, <1>5

(* A service becomes another: it gains no process but those of new, loses  *)
(* none that runs, keeps a handler with a full path, and gets one from     *)
(* nobody but the systemd detector.                                        *)
Grows(s, t, new) ==
    /\ t \in ServiceType
    /\ PidsOf(t) \subseteq PidsOf(s) \cup new
    /\ \A p \in PidsOf(s) : getStatus(p) => p \in PidsOf(t)
    /\ t.handler = s.handler \/ (~s.handler.full /\ finder = "units")

(* What a step may do to the registry.                                     *)
Replaces(new) ==
    \E k \in 1 .. Len(services), t \in ServiceType :
       services' = [services EXCEPT ![k] = t] /\ Grows(services[k], t, new)

Pushes(new) ==
    \E t \in ServiceType :
       /\ services' = Append(services, t)
       /\ PidsOf(t) \subseteq new
       /\ t.handler.full => finder = "units"

Changes(new) == UNCHANGED services \/ Replaces(new) \/ Pushes(new)

(* The registry stays one, and keeps every process that runs.              *)
LEMMA ChangesKeep ==
    ASSUME services \in Seq(ServiceType), NEW new, Changes(new)
    PROVE  /\ services' \in Seq(ServiceType) /\ Len(services) <= Len(services')
           /\ \A p \in alive : Known(p) => Known(p)'
<1>1. CASE UNCHANGED services
  BY <1>1 DEF Known, Indices
<1>2. CASE Replaces(new)
  <2>1. PICK k \in 1 .. Len(services), t \in ServiceType :
             services' = [services EXCEPT ![k] = t] /\ Grows(services[k], t, new)
    BY <1>2 DEF Replaces
  <2>2. /\ services' \in Seq(ServiceType) /\ Len(services') = Len(services)
        /\ DOMAIN services' = DOMAIN services
    BY <2>1
  <2>3. ASSUME NEW p \in alive, Known(p) PROVE Known(p)'
    <3>1. PICK j \in DOMAIN services : havePID(services[j], p)
      BY <2>3 DEF Known, Indices
    <3>2. CASE j = k
      <4>1. services'[k] = t /\ p \in PidsOf(t)
        BY <2>1, <3>1, <3>2, havePIDIsPidsOf DEF Grows, getStatus
      <4> QED
        BY <2>2, <3>2, <4>1, havePIDIsPidsOf DEF Known, Indices
    <3>3. CASE j # k
      <4>1. services'[j] = services[j]
        BY <2>1, <3>3
      <4> QED
        BY <2>2, <3>1, <4>1 DEF Known, Indices
    <3> QED
      BY <3>2, <3>3
  <2> QED
    BY <2>2, <2>3
<1>3. CASE Pushes(new)
  <2>1. PICK t \in ServiceType : services' = Append(services, t)
    BY <1>3 DEF Pushes
  <2>2. /\ services' \in Seq(ServiceType) /\ Len(services') = Len(services) + 1
        /\ \A j \in 1 .. Len(services) : services'[j] = services[j] /\ j \in DOMAIN services'
        /\ DOMAIN services = 1 .. Len(services)
    BY <2>1
  <2> QED
    BY <2>2 DEF Known, Indices
<1> QED
  BY <1>1, <1>2, <1>3 DEF Changes

(* A process has two services only when one of them claims it.             *)
Owned(p, j, k) ==
    j # k /\ p \in PidsOf(services[j]) /\ p \in PidsOf(services[k]) =>
       Claims(services[j], p) \/ Claims(services[k], p)

Owners == \A p \in Pids : \A j, k \in 1 .. Len(services) : Owned(p, j, k)

Fresh(new) == \A p \in Pids \cap new : ~Known(p)

(* A service is given the process that its handler claims.                 *)
Claimed ==
    \E k \in 1 .. Len(services), t \in ServiceType, p \in Pids :
       /\ services' = [services EXCEPT ![k] = t]
       /\ Grows(services[k], t, {p}) /\ t.handler = services[k].handler /\ Claims(t, p)

(* What a service claims it goes on claiming.                              *)
LEMMA ClaimsStay ==
    ASSUME NEW s, NEW t, NEW new, Grows(s, t, new), NEW p, Claims(s, p)
    PROVE  Claims(t, p)
BY DEF Grows, Claims

(* One service is replaced: what it is given was unknown, or is claimed.   *)
LEMMA ReplacedOwners ==
    ASSUME services \in Seq(ServiceType), Owners, NEW i \in 1 .. Len(services),
           NEW t \in ServiceType, NEW new,
           services' = [services EXCEPT ![i] = t], Grows(services[i], t, new),
           \A p \in Pids \cap new : ~Known(p) \/ Claims(t, p)
    PROVE  Owners'
<1> DEFINE n == Len(services)
<1>1. Len(services') = n /\ \A j \in 1 .. n : services'[j] = IF j = i THEN t ELSE services[j]
  OBVIOUS
<1>2. \A p \in Pids : \A j, k \in 1 .. n :
         j # k /\ p \in PidsOf(services[j]) /\ p \in PidsOf(services[k]) =>
            Claims(services[j], p) \/ Claims(services[k], p)
  BY DEF Owners, Owned
<1>3. \A p \in Pids \cap new : (\A j \in 1 .. n : p \notin PidsOf(services[j])) \/ Claims(t, p)
  <2>1. DOMAIN services = 1 .. n
    OBVIOUS
  <2> QED
    BY <2>1, havePIDIsPidsOf DEF Known, Indices
<1>4. PidsOf(t) \subseteq PidsOf(services[i]) \cup new
  BY DEF Grows
<1>5. \A p \in Pids : Claims(services[i], p) => Claims(t, p)
  BY ClaimsStay
<1>6. \A p \in Pids : \A j, k \in 1 .. n :
         j # k /\ p \in PidsOf(services'[j]) /\ p \in PidsOf(services'[k]) =>
            Claims(services'[j], p) \/ Claims(services'[k], p)
  <2> SUFFICES ASSUME NEW p \in Pids, NEW j \in 1 .. n, NEW k \in 1 .. n, j # k,
                      p \in PidsOf(services'[j]), p \in PidsOf(services'[k])
               PROVE  Claims(services'[j], p) \/ Claims(services'[k], p)
    OBVIOUS
  <2> HIDE DEF n
  <2>1. CASE j = i
    <3>1. services'[j] = t /\ services'[k] = services[k] /\ p \in PidsOf(services[k])
      BY <1>1, <2>1
    <3>2. CASE p \in PidsOf(services[i])
      BY <1>2, <1>5, <2>1, <3>1, <3>2
    <3>3. CASE p \notin PidsOf(services[i])
      BY <1>3, <1>4, <3>1, <3>3, <2>1
    <3> QED
      BY <3>2, <3>3
  <2>2. CASE k = i
    <3>1. services'[k] = t /\ services'[j] = services[j] /\ p \in PidsOf(services[j])
      BY <1>1, <2>2
    <3>2. CASE p \in PidsOf(services[i])
      BY <1>2, <1>5, <2>2, <3>1, <3>2
    <3>3. CASE p \notin PidsOf(services[i])
      BY <1>3, <1>4, <3>1, <3>3, <2>2
    <3> QED
      BY <3>2, <3>3
  <2>3. CASE j # i /\ k # i
    BY <1>1, <1>2, <2>3
  <2> QED
    BY <2>1, <2>2, <2>3
<1> QED
  BY <1>1, <1>6 DEF Owners, Owned, Claims, PidsOf, MainPids

(* A step that adds only processes nobody knows gives none a second owner. *)
LEMMA FreshOwners ==
    ASSUME services \in Seq(ServiceType), Owners, NEW new, Changes(new), Fresh(new)
    PROVE  Owners'
<1> DEFINE n == Len(services)
<1>1. CASE UNCHANGED services
  BY <1>1 DEF Owners, Owned, Claims, PidsOf, MainPids
<1>2. CASE Replaces(new)
  BY <1>2, ReplacedOwners DEF Replaces, Fresh
<1>3. CASE Pushes(new)
  <2>1. PICK t \in ServiceType : services' = Append(services, t) /\ PidsOf(t) \subseteq new
    BY <1>3 DEF Pushes
  <2>2. /\ Len(services') = n + 1 /\ n \in Nat
        /\ \A j \in 1 .. n : services'[j] = services[j]
        /\ services'[n + 1] = t
        /\ \A j \in 1 .. n + 1 : j \in 1 .. n \/ j = n + 1
    BY <2>1
  <2>3. \A p \in Pids \cap new : \A j \in 1 .. n : p \notin PidsOf(services[j])
    <3>1. DOMAIN services = 1 .. n
      OBVIOUS
    <3> QED
      BY <3>1, havePIDIsPidsOf DEF Known, Indices, Fresh
  <2>4. \A p \in Pids : \A j, k \in 1 .. n :
           j # k /\ p \in PidsOf(services[j]) /\ p \in PidsOf(services[k]) =>
              Claims(services[j], p) \/ Claims(services[k], p)
    BY DEF Owners, Owned
  <2> HIDE DEF n
  <2>5. \A p \in Pids : \A j, k \in 1 .. n + 1 :
           j # k /\ p \in PidsOf(services'[j]) /\ p \in PidsOf(services'[k]) =>
              Claims(services'[j], p) \/ Claims(services'[k], p)
    BY <2>1, <2>2, <2>3, <2>4
  <2> QED
    BY <2>2, <2>5 DEF Owners, Owned, Claims, PidsOf, MainPids
<1> QED
  BY <1>1, <1>2, <1>3 DEF Changes

(* The templates of services are named after them.                         *)
LEMMA SavedType ==
    ASSUME NEW s \in ServiceType, DOMAIN templates \subseteq IDs \X Uniqs, templates' = Saved(s)
    PROVE  DOMAIN templates' \subseteq IDs \X Uniqs
<1>1. getID(s) \in IDs \X Uniqs
  BY DEF getID, ServiceType
<1> QED
  BY <1>1 DEF Saved

(* addService() with a service of one process.                             *)
LEMMA addServiceChanges ==
    ASSUME Ind, NEW s \in ServiceType, NEW proc \in Processes, s.main = <<proc>>, s.sub = {},
           s.handler.full => finder = "units", NEW answered, addService(s, answered)
    PROVE  Changes({proc.pid}) /\ DOMAIN templates' \subseteq IDs \X Uniqs
<1> DEFINE add == Enhance(s, answered)
           k == IF Same(add) # 0 THEN Same(add) ELSE Needs(add)
<1>1. services \in Seq(ServiceType) /\ HostTypeOK /\ DOMAIN templates \subseteq IDs \X Uniqs
  BY DEF Ind
<1>2. /\ add \in ServiceType /\ add.main = <<proc>> /\ PidsOf(add) = PidsOf(s)
      /\ add.handler = s.handler \/ ~add.handler.full
  BY <1>1, EnhanceKeeps
<1>3. PidsOf(s) = {proc.pid}
  BY DEF PidsOf, MainPids
<1>4. k \in 0 .. Len(services)
  BY <1>1, SearchType
<1>5. /\ k # 0 => services' = [services EXCEPT ![k] = updateFrom(@, add)] /\ UNCHANGED templates
      /\ k = 0 => services' = Append(services, add) /\ templates' = Saved(add)
  BY DEF addService, Same, Needs
<1> HIDE DEF add, k
<1>6. CASE k # 0
  <2> DEFINE t == updateFrom(services[k], add)
  <2>1. k \in 1 .. Len(services) /\ services[k] \in ServiceType
    BY <1>1, <1>4, <1>6
  <2>2. /\ t \in ServiceType /\ PidsOf(t) \subseteq PidsOf(services[k]) \cup {proc.pid}
        /\ \A p \in PidsOf(services[k]) : getStatus(p) => p \in PidsOf(t)
        /\ t.handler = services[k].handler
    BY <1>2, <2>1, updateFromKeeps
  <2>3. services' = [services EXCEPT ![k] = t]
    BY <1>5, <1>6
  <2> HIDE DEF t
  <2> QED
    BY <1>1, <1>5, <1>6, <2>1, <2>2, <2>3 DEF Changes, Replaces, Grows
<1>7. CASE k = 0
  <2>1. services' = Append(services, add) /\ templates' = Saved(add)
    BY <1>5, <1>7
  <2>2. DOMAIN templates' \subseteq IDs \X Uniqs
    BY <1>1, <1>2, <2>1, SavedType
  <2>3. Pushes({proc.pid})
    BY <1>2, <1>3, <2>1 DEF Pushes
  <2> QED
    BY <2>2, <2>3 DEF Changes
<1> QED
  BY <1>6, <1>7

-----------------------------------------------------------------------------
(* What each step does to the registry                                     *)

(* A service that becomes another one of its kind.                         *)
LEMMA ReplacesOne ==
    ASSUME NEW k \in 1 .. Len(services), NEW new, NEW t \in ServiceType, Grows(services[k], t, new),
           services' = [services EXCEPT ![k] = t]
    PROVE  Changes(new)
BY DEF Changes, Replaces

(* systemdDetector::find() with one unit.                                  *)
LEMMA FindUnitChanges ==
    ASSUME Ind, NEW u \in Units, FindUnit(u)
    PROVE  /\ Changes({}) \/ (Changes({unit[u].pid}) /\ ~Known(unit[u].pid))
           /\ DOMAIN templates' \subseteq IDs \X Uniqs
<1> DEFINE pid == unit[u].pid
           h == [unit |-> u, full |-> TRUE]
           k == getService(pid)
<1>1. /\ services \in Seq(ServiceType) /\ HostTypeOK /\ DOMAIN templates \subseteq IDs \X Uniqs
      /\ finder = "units" /\ h \in HandlerType /\ u \in Uniqs /\ h.full = TRUE
  BY DEF Ind, FindUnit, HandlerType, Uniqs
<1> HIDE DEF h
<1>2. CASE Examined(u) /\ Known(pid)
  <2> DEFINE t == IF haveHandler(services[k]) THEN services[k]
                  ELSE [services[k] EXCEPT !.handler = h]
  <2>1. k \in 1 .. Len(services)
    BY <1>1, <1>2, getServiceFinds
  <2> HIDE DEF k, pid
  <2>2. services[k] \in ServiceType
    BY <1>1, <2>1
  <2>3. t \in ServiceType /\ PidsOf(t) = PidsOf(services[k])
    BY <1>1, <2>2, OtherHandler
  <2>4. Grows(services[k], t, {})
    BY <1>1, <2>2, <2>3, OtherHandler DEF Grows, haveHandler, NoHandler
  <2>5. services' = [services EXCEPT ![k] = t] /\ UNCHANGED templates
    BY <1>2 DEF FindUnit, k, pid, h
  <2> HIDE DEF t
  <2> QED
    BY <1>1, <2>1, <2>3, <2>4, <2>5, ReplacesOne
<1>3. CASE Examined(u) /\ ~Known(pid) /\ getStatus(pid)
  <2> DEFINE s == NewService(Process(pid), u, h)
  <2>1. pid \in Pids
    BY <1>1, <1>3 DEF HostTypeOK, getStatus
  <2>2. Process(pid) \in Processes /\ Process(pid).pid = pid
    BY <1>1, <2>1, ProcessType
  <2>3. s \in ServiceType /\ s.main = <<Process(pid)>> /\ s.sub = {}
    BY <1>1, <2>2, NewServiceType
  <2>4. addService(s, TRUE)
    BY <1>3 DEF FindUnit, h
  <2> HIDE DEF s
  <2> QED
    BY <1>1, <1>3, <2>2, <2>3, <2>4, addServiceChanges
<1>4. CASE ~(Examined(u) /\ Known(pid)) /\ ~(Examined(u) /\ ~Known(pid) /\ getStatus(pid))
  <2>1. UNCHANGED <<services, templates>>
    BY <1>4 DEF FindUnit
  <2> QED
    BY <1>1, <2>1 DEF Changes
<1> QED
  BY <1>2, <1>3, <1>4

(* socketDetector::find() with a process of a service.                     *)
LEMMA ScanKnownChanges ==
    ASSUME Ind, NEW p \in Pids, ScanKnown(p)
    PROVE  Changes({}) /\ DOMAIN templates' \subseteq IDs \X Uniqs
<1> DEFINE k == getService(p)
           fresh == Refreshed(services[k], p)
           ids == {i \in sockets : haveSocket(fresh, i)}
           s == setSocket(fresh, ids)
<1>1. /\ services \in Seq(ServiceType) /\ HostTypeOK /\ DOMAIN templates \subseteq IDs \X Uniqs
      /\ sockets \subseteq Inodes /\ Known(p)
  BY DEF Ind, Finding, ScanKnown
<1>2. services' = [services EXCEPT ![k] = s] /\ templates' = Saved(s)
  BY DEF ScanKnown, Refreshed
<1>3. k \in 1 .. Len(services)
  BY <1>1, getServiceFinds
<1> HIDE DEF k
<1>4. services[k] \in ServiceType
  BY <1>1, <1>3
<1>5. fresh \in ServiceType /\ PidsOf(fresh) = PidsOf(services[k]) /\ fresh.handler = services[k].handler
  BY <1>1, <1>4, RefreshedKeeps
<1> HIDE DEF fresh
<1>6. ids \in SUBSET Inodes
  BY <1>1
<1> HIDE DEF ids
<1>7. s \in ServiceType /\ PidsOf(s) = PidsOf(fresh) /\ s.handler = fresh.handler
  BY <1>5, <1>6, setSocketKeeps
<1> HIDE DEF s
<1>8. Grows(services[k], s, {})
  BY <1>5, <1>7 DEF Grows
<1>9. Changes({})
  BY <1>2, <1>3, <1>7, <1>8, ReplacesOne
<1> QED
  BY <1>1, <1>2, <1>7, <1>9, SavedType

(* socketDetector::find() with a child of a process of a service.          *)
LEMMA ScanChildChanges ==
    ASSUME Ind, NEW p \in Pids, ScanChild(p)
    PROVE  Changes({p}) /\ DOMAIN templates' \subseteq IDs \X Uniqs
<1> DEFINE k == getService(getPPID(p))
           t == addSubProcess(services[k], p)
<1>1. /\ services \in Seq(ServiceType) /\ DOMAIN templates \subseteq IDs \X Uniqs
      /\ Known(getPPID(p)) /\ UNCHANGED templates
  BY DEF Ind, ScanChild
<1>2. services' = [services EXCEPT ![k] = t]
  BY DEF ScanChild
<1>3. k \in 1 .. Len(services)
  BY <1>1, getServiceFinds
<1> HIDE DEF k
<1>4. services[k] \in ServiceType
  BY <1>1, <1>3
<1>5. t \in ServiceType /\ PidsOf(t) = PidsOf(services[k]) \cup {p} /\ t.handler = services[k].handler
  BY <1>4, addSubProcessKeeps
<1> HIDE DEF t
<1>6. Grows(services[k], t, {p})
  BY <1>5 DEF Grows
<1> QED
  BY <1>1, <1>2, <1>3, <1>5, <1>6, ReplacesOne

(* socketDetector::find() with a process nobody knows.                     *)
LEMMA ScanNewChanges ==
    ASSUME Ind, NEW p \in Pids, ScanNew(p)
    PROVE  Changes({p}) /\ DOMAIN templates' \subseteq IDs \X Uniqs
<1> DEFINE found == IF Exe[p] \in BlackList THEN {} ELSE sockets \cap fds[p]
           proc == setSockets(Process(p))
<1>1. /\ HostTypeOK /\ DOMAIN templates \subseteq IDs \X Uniqs /\ sockets \subseteq Inodes
  BY DEF Ind, Finding
<1>2. proc \in Processes /\ proc.pid = p
  BY <1>1, ProcessType
<1>3. found \in SUBSET Inodes
  BY <1>1
<1>4. CASE UNCHANGED <<services, templates>>
  BY <1>1, <1>4 DEF Changes
<1>5. ASSUME NEW i \in found, NEW answered \in BOOLEAN,
             addService(setSocket(NewService(proc, Source[i], NoHandler), found), answered)
      PROVE  Changes({p}) /\ DOMAIN templates' \subseteq IDs \X Uniqs
  <2> DEFINE n == NewService(proc, Source[i], NoHandler)
             s == setSocket(n, found)
  <2> HIDE DEF found, proc
  <2>1. Source[i] \in Uniqs /\ NoHandler \in HandlerType /\ NoHandler.full = FALSE
    BY <1>3 DEF Uniqs, Sources, HandlerType, NoHandler
  <2>2. n \in ServiceType /\ n.main = <<proc>> /\ n.sub = {} /\ n.handler = NoHandler
    BY <1>2, <2>1, NewServiceType
  <2> HIDE DEF n
  <2>3. s \in ServiceType /\ s.main = n.main /\ s.sub = n.sub /\ s.handler = n.handler
    BY <1>3, <2>2, setSocketKeeps
  <2>4. addService(s, answered)
    BY <1>5 DEF n
  <2> HIDE DEF s
  <2> QED
    BY <1>2, <2>1, <2>2, <2>3, <2>4, addServiceChanges
<1> QED
  BY <1>4, <1>5 DEF ScanNew

(* systemdHandler::isBlackout(): the unit's main process is added.         *)
LEMMA StatusStepChanges ==
    ASSUME Ind, StatusStep
    PROVE  (Claimed \/ UNCHANGED services) /\ UNCHANGED templates
<1> DEFINE k == request.at
           s == services[k]
           un == unit[s.handler.unit]
<1>1. /\ services \in Seq(ServiceType) /\ HostTypeOK /\ request # NoRequest
      /\ k \in 1 .. Len(services) /\ UNCHANGED templates
  BY DEF Ind, Asking, StatusStep
<1>2. services' = [services EXCEPT ![k] = isBlackout(s)] /\ ~StatusThrows(s)
  BY DEF StatusStep
<1> HIDE DEF k
<1>3. s \in ServiceType
  BY <1>1
<1>4. CASE /\ AskHandler(s) /\ un.state = "active"
           /\ un.pid # 0 /\ ~havePID(s, un.pid) /\ getStatus(un.pid)
  <2> DEFINE t == updateMainProcess(s, Process(un.pid))
  <2>1. isBlackout(s) = t
    BY <1>4 DEF isBlackout
  <2>2. un.pid \in Pids
    BY <1>1, <1>4 DEF HostTypeOK, getStatus
  <2> HIDE DEF un, s
  <2>3. Process(un.pid) \in Processes /\ Process(un.pid).pid = un.pid
    BY <1>1, <2>2, ProcessType
  <2>4. /\ t \in ServiceType /\ PidsOf(t) \subseteq PidsOf(s) \cup {un.pid}
        /\ \A p \in PidsOf(s) : getStatus(p) => p \in PidsOf(t)
        /\ t.handler = s.handler
    BY <1>3, <2>3, updateMainProcessKeeps
  <2> HIDE DEF t
  <2>5. Grows(s, t, {un.pid})
    BY <2>4 DEF Grows
  <2>6. Claims(t, un.pid)
    <3>1. s.handler.full /\ HaveBus
      BY <1>1, <1>2, <1>4 DEF StatusThrows, Ind, Bus, s
    <3>2. s.handler.unit \in Units
      BY <1>3, <3>1 DEF ServiceType, HandlerType, NoHandler
    <3>3. MainOf(un.pid) = s.handler.unit
      BY <1>4, <3>2 DEF Ind, Bus, un
    <3> QED
      BY <2>4, <3>1, <3>3 DEF Claims
  <2> QED
    BY <1>1, <1>2, <2>1, <2>2, <2>4, <2>5, <2>6 DEF Claimed, s
<1>5. CASE ~(/\ AskHandler(s) /\ un.state = "active"
             /\ un.pid # 0 /\ ~havePID(s, un.pid) /\ getStatus(un.pid))
  <2>1. isBlackout(s) = s
    BY <1>5 DEF isBlackout
  <2>2. UNCHANGED services
    BY <1>1, <1>2, <2>1
  <2> QED
    BY <1>1, <2>2
<1> QED
  BY <1>4, <1>5

(* getPIDs(), called by a collector.                                       *)
LEMMA PruneChanges ==
    ASSUME Ind, NEW k \in Indices, Prune(k)
    PROVE  Changes({})
<1> DEFINE t == getPIDs(services[k])
<1>1. services \in Seq(ServiceType) /\ k \in 1 .. Len(services) /\ services[k] \in ServiceType
  BY DEF Ind, Indices
<1>2. services' = [services EXCEPT ![k] = t]
  BY DEF Prune
<1>3. /\ t \in ServiceType /\ PidsOf(t) \subseteq PidsOf(services[k])
      /\ t.handler = services[k].handler
      /\ \A p \in PidsOf(services[k]) : getStatus(p) => p \in PidsOf(t)
  BY <1>1, getPIDsKeeps
<1> HIDE DEF t
<1>4. Grows(services[k], t, {})
  BY <1>3 DEF Grows
<1> QED
  BY <1>1, <1>2, <1>3, <1>4, ReplacesOne

-----------------------------------------------------------------------------
(* The specification                                                       *)

(* service(server, file): a configured service has no process of the host, *)
(* and no handler.                                                         *)
LEMMA FromConfigType ==
    ASSUME NEW k \in DOMAIN Configured, NEW ids \in [Sources -> Inodes \cup {0}],
           NEW s, s = FromConfig(Configured[k], ids)
    PROVE  s \in ServiceType /\ PidsOf(s) = {0} /\ s.handler.full = FALSE
<1> DEFINE c == Configured[k]
           proc == ConfiguredProcess(c.path)
           n == NewService(proc, c.uniq, NoHandler)
           f == [a \in c.sources |-> ids[a]]
<1>1. c.sources \in SUBSET Sources
  <2> DEFINE C == [path: STRING, uniq: STRING, sources: SUBSET Sources]
  <2>1. Configured \in Seq(C)
    BY RegistryAssumption, Zenon
  <2>2. c \in C
    <3> HIDE DEF C
    <3> QED
      BY <2>1
  <2> HIDE DEF c
  <2> QED
    BY <2>2
<1>2. proc \in Processes /\ proc.pid = 0 /\ c.uniq \in Uniqs
  BY DEF ConfiguredProcess, Processes, Paths, Uniqs
<1>3. NoHandler \in HandlerType /\ NoHandler.full = FALSE
  BY DEF HandlerType, NoHandler
<1>4. f \in SocketMaps
  <2>1. f \in [c.sources -> Inodes \cup {0}]
    BY <1>1
  <2> QED
    BY <1>1, <2>1 DEF SocketMaps
<1>5. s = [n EXCEPT !.socks = f]
  BY DEF FromConfig
<1> HIDE DEF f, proc, c
<1>6. n \in ServiceType /\ PidsOf(n) = {0} /\ n.handler = NoHandler
  BY <1>2, <1>3, NewServiceType
<1> HIDE DEF n
<1> QED
  BY <1>3, <1>4, <1>5, <1>6, OtherSockets

(* The registry starts with the configured services.                       *)
LEMMA InitInd ==
    ASSUME Init PROVE Ind /\ Owners
<1>1. PICK ids \in [Sources -> Inodes \cup {0}] :
           services = [k \in DOMAIN Configured |-> FromConfig(Configured[k], ids)]
  BY DEF Init
<1>2. \A k \in DOMAIN Configured : /\ services[k] \in ServiceType /\ PidsOf(services[k]) = {0}
                                   /\ services[k].handler.full = FALSE
  BY <1>1, FromConfigType
<1>3. DOMAIN Configured = 1 .. Len(Configured) /\ Len(Configured) \in Nat
  BY RegistryAssumption
<1>4. services \in [1 .. Len(Configured) -> ServiceType]
  BY <1>1, <1>2, <1>3
<1>5. services \in Seq(ServiceType) /\ Len(services) = Len(Configured)
  BY <1>3, <1>4
<1>6. HostTypeOK
  BY HostAssumption DEF Init, HostInit, HostTypeOK, Pids
<1>7. Finding /\ Asking
  BY <1>5, HostAssumption DEF Init, Finding, Asking, NoRequest
<1>8. /\ DOMAIN templates \subseteq IDs \X Uniqs /\ busErrors \in 0 .. MaxBusErrors
      /\ foundWith \subseteq Inodes
  BY RegistryAssumption DEF Init
<1>9. Bus
  <2>1. \A k \in 1 .. Len(services) : ~services[k].handler.full
    BY <1>2, <1>3, <1>5
  <2> QED
    BY <2>1 DEF Bus, Init, HostInit
<1>10. Owners
  <2>1. 0 \notin Pids
    BY DEF Pids
  <2>2. \A p \in Pids, k \in 1 .. Len(services) : p \notin PidsOf(services[k])
    BY <1>2, <1>3, <1>5, <2>1
  <2> QED
    BY <2>2 DEF Owners, Owned
<1> QED
  BY <1>5, <1>6, <1>7, <1>8, <1>9, <1>10 DEF Ind

(* The host stays one.                                                     *)
LEMMA HostStepType ==
    ASSUME HostTypeOK, HostStep PROVE HostTypeOK'
<1>1. PICK p \in Pids : Spawn(p) \/ Exit(p) \/ \E i \in Inodes : Listen(p, i) \/ Close(p, i)
  BY DEF HostStep
<1>2. CASE Spawn(p)
  <2>1. PICK inherited \in {fds[Parent[p]], {}} : fds' = [fds EXCEPT ![p] = inherited]
    BY <1>2 DEF Spawn
  <2>2. Parent[p] \in Pids
    BY <1>2 DEF Spawn, HostTypeOK
  <2>3. fds' \in [Pids -> SUBSET opened]
    BY <2>1, <2>2 DEF HostTypeOK
  <2>4. unit' \in [Units -> [pid: {0} \cup Pids, state: {"active", "inactive", "failed"}]]
    BY <1>2 DEF Spawn, HostTypeOK
  <2> QED
    BY <1>2, <2>3, <2>4 DEF Spawn, HostTypeOK
<1>3. CASE Exit(p)
  <2>1. fds' \in [Pids -> SUBSET opened]
    BY <1>3 DEF Exit, HostTypeOK
  <2>2. unit' \in [Units -> [pid: {0} \cup Pids, state: {"active", "inactive", "failed"}]]
    BY <1>3 DEF Exit, HostTypeOK
  <2> QED
    BY <1>3, <2>1, <2>2 DEF Exit, HostTypeOK
<1>4. ASSUME NEW i \in Inodes, Listen(p, i) PROVE HostTypeOK'
  <2>1. opened' \subseteq Inodes /\ opened \subseteq opened' /\ i \in opened'
    BY <1>4 DEF Listen, HostTypeOK
  <2>2. fds' \in [Pids -> SUBSET opened']
    BY <1>4, <2>1 DEF Listen, HostTypeOK
  <2> QED
    BY <1>4, <2>1, <2>2 DEF Listen, HostTypeOK
<1>5. ASSUME NEW i \in Inodes, Close(p, i) PROVE HostTypeOK'
  BY <1>5 DEF Close, HostTypeOK
<1> QED
  BY <1>1, <1>2, <1>3, <1>4, <1>5

(* The process of a unit stays one that init forked in it.                 *)
LEMMA HostStepMains ==
    ASSUME HostTypeOK, HostStep, \A u \in Units : unit[u].pid # 0 => MainOf(unit[u].pid) = u
    PROVE  \A u \in Units : unit'[u].pid # 0 => MainOf(unit'[u].pid) = u
<1>1. PICK p \in Pids : Spawn(p) \/ Exit(p) \/ \E i \in Inodes : Listen(p, i) \/ Close(p, i)
  BY DEF HostStep
<1>2. CASE Spawn(p)
  <2> SUFFICES ASSUME NEW u \in Units PROVE unit'[u].pid # 0 => MainOf(unit'[u].pid) = u
    OBVIOUS
  <2>1. unit'[u] = IF u = MainOf(p) THEN [pid |-> p, state |-> "active"] ELSE unit[u]
    BY <1>2 DEF Spawn
  <2> QED
    BY <2>1
<1>3. CASE Exit(p)
  <2> SUFFICES ASSUME NEW u \in Units PROVE unit'[u].pid # 0 => MainOf(unit'[u].pid) = u
    OBVIOUS
  <2>1. PICK s : unit' = [v \in Units |-> IF unit[v].pid = p THEN [pid |-> p, state |-> s] ELSE unit[v]]
    BY <1>3 DEF Exit
  <2>2. unit'[u].pid = unit[u].pid
    BY <2>1
  <2> QED
    BY <2>2
<1>4. CASE \E i \in Inodes : Listen(p, i) \/ Close(p, i)
  BY <1>4 DEF Listen, Close
<1> QED
  BY <1>1, <1>2, <1>3, <1>4

(* What a step does to the registry and to the templates.                  *)
Effect == /\ (\E new : Changes(new) /\ Fresh(new)) \/ Claimed
          /\ DOMAIN templates' \subseteq IDs \X Uniqs

(* Every step adds processes that nobody knows, or one that a unit claims. *)
LEMMA NextChanges ==
    ASSUME Ind, Next PROVE Effect
<1>0. DOMAIN templates \subseteq IDs \X Uniqs /\ Fresh({})
  BY DEF Ind, Fresh
<1>1. ASSUME UNCHANGED <<services, templates>> PROVE Effect
  <2>1. Changes({}) /\ UNCHANGED templates
    BY <1>1 DEF Changes
  <2> QED
    BY <1>0, <2>1 DEF Effect
<1>2. ASSUME NEW u \in Units, FindUnit(u) PROVE Effect
  <2>1. /\ Changes({}) \/ (Changes({unit[u].pid}) /\ Fresh({unit[u].pid}))
        /\ DOMAIN templates' \subseteq IDs \X Uniqs
    BY <1>2, FindUnitChanges DEF Fresh
  <2> QED
    BY <1>0, <2>1 DEF Effect
<1>3. ASSUME NEW p \in Pids, ScanKnown(p) PROVE Effect
  <2>1. Changes({}) /\ DOMAIN templates' \subseteq IDs \X Uniqs
    BY <1>3, ScanKnownChanges
  <2> QED
    BY <1>0, <2>1 DEF Effect
<1>4. ASSUME NEW p \in Pids, ScanChild(p) PROVE Effect
  <2>1. Fresh({p})
    BY <1>4 DEF ScanChild, Fresh
  <2>2. Changes({p}) /\ DOMAIN templates' \subseteq IDs \X Uniqs
    BY <1>4, ScanChildChanges
  <2> QED
    BY <2>1, <2>2 DEF Effect
<1>5. ASSUME NEW p \in Pids, ScanNew(p) PROVE Effect
  <2>1. Fresh({p})
    BY <1>5 DEF ScanNew, Fresh
  <2>2. Changes({p}) /\ DOMAIN templates' \subseteq IDs \X Uniqs
    BY <1>5, ScanNewChanges
  <2> QED
    BY <2>1, <2>2 DEF Effect
<1>6. ASSUME StatusStep PROVE Effect
  <2>1. (Claimed \/ UNCHANGED services) /\ UNCHANGED templates
    BY <1>6, StatusStepChanges
  <2> QED
    BY <1>0, <1>1, <2>1 DEF Effect
<1>7. ASSUME NEW k \in Indices, Prune(k) PROVE Effect
  <2>1. Changes({}) /\ UNCHANGED templates
    BY <1>7, PruneChanges DEF Prune
  <2> QED
    BY <1>0, <2>1 DEF Effect
<1>8. ASSUME FindStart \/ IntrospectFails \/ UnitsDone \/ FindUnitThrows \/ FindSockets \/ ScanDone
      PROVE  Effect
  BY <1>1, <1>8 DEF FindStart, IntrospectFails, UnitsDone, FindUnitThrows, FindSockets, ScanDone
<1>9. ASSUME StatusRequest \/ StatusLost \/ Environment PROVE Effect
  BY <1>1, <1>9 DEF StatusRequest, StatusLost, Environment
<1> QED
  BY <1>2, <1>3, <1>4, <1>5, <1>6, <1>7, <1>8, <1>9 DEF Next, FinderStep, HttpStep

(* A claimed process is a change like any other.                           *)
LEMMA ClaimedChanges ==
    ASSUME Claimed PROVE \E new : Changes(new)
<1>1. PICK k \in 1 .. Len(services), t \in ServiceType, p \in Pids :
           services' = [services EXCEPT ![k] = t] /\ Grows(services[k], t, {p})
  BY DEF Claimed
<1> QED
  BY <1>1, ReplacesOne

(* A handler with a full path was given by the systemd detector.           *)
LEMMA ChangesKeepBus ==
    ASSUME services \in Seq(ServiceType), NEW new, Changes(new), Bus
    PROVE  \A k \in 1 .. Len(services') : services'[k].handler.full => HaveBus
<1> DEFINE n == Len(services)
<1>1. (finder = "units" => HaveBus) /\ \A k \in 1 .. n : services[k].handler.full => HaveBus
  BY DEF Bus
<1>2. CASE UNCHANGED services
  BY <1>1, <1>2
<1>3. CASE Replaces(new)
  <2>1. PICK i \in 1 .. n, t \in ServiceType :
             services' = [services EXCEPT ![i] = t] /\ Grows(services[i], t, new)
    BY <1>3 DEF Replaces
  <2>2. Len(services') = n /\ \A j \in 1 .. n : services'[j] = IF j = i THEN t ELSE services[j]
    BY <2>1
  <2>3. t.handler.full => HaveBus
    BY <1>1, <2>1 DEF Grows
  <2> HIDE DEF n
  <2> QED
    BY <1>1, <2>2, <2>3
<1>4. CASE Pushes(new)
  <2>1. PICK t \in ServiceType : services' = Append(services, t)
                                 /\ (t.handler.full => finder = "units")
    BY <1>4 DEF Pushes
  <2>2. /\ Len(services') = n + 1 /\ n \in Nat
        /\ \A j \in 1 .. n : services'[j] = services[j]
        /\ services'[n + 1] = t
        /\ \A j \in 1 .. n + 1 : j \in 1 .. n \/ j = n + 1
    BY <2>1
  <2> HIDE DEF n
  <2> QED
    BY <1>1, <2>1, <2>2
<1> QED
  BY <1>2, <1>3, <1>4 DEF Changes

(* Every step leaves the state of the host and of the two threads in its   *)
(* type.                                                                   *)
LEMMA NextInd ==
    ASSUME Ind, Next
    PROVE  Ind' /\ (\A p \in alive : Known(p) => Known(p)')
<1>1. PICK new : Changes(new)
  BY NextChanges, ClaimedChanges DEF Effect
<1>2. /\ services' \in Seq(ServiceType) /\ Len(services) <= Len(services')
      /\ \A p \in alive : Known(p) => Known(p)'
  BY <1>1, ChangesKeep DEF Ind
<1>3. DOMAIN templates' \subseteq IDs \X Uniqs
  BY NextChanges DEF Effect
<1>4. HostTypeOK'
  <2>1. CASE UNCHANGED hostVars
    BY <2>1 DEF Ind, HostTypeOK, hostVars
  <2>2. CASE Environment
    BY <2>2, HostStepType DEF Ind, Environment
  <2> QED
    BY <2>1, <2>2 DEF Next, FinderStep, HttpStep, Prune, FindStart, IntrospectFails, UnitsDone,
       FindUnitThrows, FindSockets, ScanDone, FindUnit, ScanKnown, ScanChild, ScanNew,
       StatusRequest, StatusStep, StatusLost
<1>5. Finding'
  <2>1. CASE UNCHANGED finderVars
    BY <2>1 DEF Ind, Finding, finderVars
  <2>2. ASSUME NEW p \in Pids, ScanKnown(p) \/ ScanChild(p) \/ ScanNew(p) PROVE Finding'
    <3>1. p \in 0 .. LastPid
      BY DEF Pids
    <3>2. cursor' = p /\ UNCHANGED <<finder, todo, sockets>>
      BY <2>2 DEF ScanKnown, ScanChild, ScanNew
    <3> QED
      BY <3>1, <3>2 DEF Ind, Finding
  <2>3. ASSUME NEW u \in Units, FindUnit(u) PROVE Finding'
    <3>1. todo' = todo \ {u} /\ UNCHANGED <<finder, sockets, cursor>>
      BY <2>3 DEF FindUnit
    <3> QED
      BY <3>1 DEF Ind, Finding
  <2>4. CASE FindSockets
    <3>1. Listening \subseteq Inodes
      BY DEF Listening, Ind, HostTypeOK
    <3> QED
      BY <2>4, <3>1, HostAssumption DEF FindSockets, Ind, Finding
  <2>5. CASE FindStart \/ IntrospectFails \/ UnitsDone \/ FindUnitThrows \/ ScanDone
    BY <2>5, HostAssumption DEF FindStart, IntrospectFails, UnitsDone, FindUnitThrows, ScanDone,
       Ind, Finding
  <2>6. CASE HttpStep \/ Environment \/ \E k \in Indices : Prune(k)
    BY <2>1, <2>6 DEF HttpStep, StatusRequest, StatusStep, StatusLost, Environment, Prune
  <2> QED
    BY <2>2, <2>3, <2>4, <2>5, <2>6 DEF Next, FinderStep
<1>6. Asking'
  <2>0. Len(services) \in Nat /\ Len(services') \in Nat /\ Asking
    BY <1>2 DEF Ind
  <2>1. CASE UNCHANGED httpVars
    BY <1>2, <2>0, <2>1 DEF Asking, httpVars, NoRequest
  <2>2. CASE StatusRequest
    <3>1. PICK k \in Indices, all \in BOOLEAN : request' = [at |-> k, all |-> all]
      BY <2>2 DEF StatusRequest
    <3>2. k \in 1 .. Len(services) /\ UNCHANGED <<services, reply>>
      BY <2>2 DEF StatusRequest, Indices, Ind
    <3> QED
      BY <2>0, <3>1, <3>2 DEF Asking, NoRequest
  <2>3. CASE StatusStep
    <3>1. CASE request.all /\ request.at < Len(services)
      <4>1. request' = [at |-> request.at + 1, all |-> request.all] /\ reply' = reply
        BY <2>0, <2>3, <3>1 DEF StatusStep, Asking
      <4>2. request.at + 1 \in 1 .. Len(services')
        BY <1>2, <2>0, <3>1 DEF Asking
      <4> QED
        BY <2>0, <4>1, <4>2 DEF Asking, NoRequest
    <3>2. CASE ~(request.all /\ request.at < Len(services))
      <4>1. request' = NoRequest /\ reply' = "sent"
        BY <2>3, <3>2 DEF StatusStep
      <4> QED
        BY <2>0, <4>1 DEF Asking, NoRequest
    <3> QED
      BY <3>1, <3>2
  <2>4. CASE StatusLost
    BY <2>0, <2>4 DEF StatusLost, Asking, NoRequest
  <2>5. CASE FinderStep \/ Environment \/ \E k \in Indices : Prune(k)
    BY <2>1, <2>5 DEF FinderStep, Environment, Prune, FindStart, IntrospectFails, UnitsDone,
       FindUnitThrows, FindSockets, ScanDone, FindUnit, ScanKnown, ScanChild, ScanNew
  <2> QED
    BY <2>2, <2>3, <2>4, <2>5 DEF Next, HttpStep
<1>7. busErrors' \in 0 .. MaxBusErrors
  <2>0. busErrors \in 0 .. MaxBusErrors
    BY DEF Ind
  <2>1. ASSUME busErrors < MaxBusErrors, busErrors' = busErrors + 1
        PROVE  busErrors' \in 0 .. MaxBusErrors
    BY <2>0, <2>1, RegistryAssumption
  <2>2. CASE UNCHANGED busErrors
    BY <2>0, <2>2
  <2>3. ASSUME NEW p \in Pids, ScanNew(p)
        PROVE  UNCHANGED busErrors \/ (busErrors < MaxBusErrors /\ busErrors' = busErrors + 1)
    BY <2>3, Zenon DEF ScanNew
  <2>4. CASE IntrospectFails \/ FindUnitThrows
    BY <2>1, <2>4 DEF IntrospectFails, FindUnitThrows
  <2> QED
    BY <2>1, <2>2, <2>3, <2>4 DEF Next, FinderStep, HttpStep, Environment, Prune, FindStart,
       UnitsDone, FindSockets, ScanDone, FindUnit, ScanKnown, ScanChild, StatusRequest, StatusStep,
       StatusLost
<1>8. foundWith' \subseteq Inodes
  <2>0. foundWith \subseteq Inodes /\ sockets \subseteq Inodes
    BY DEF Ind, Finding
  <2>1. CASE Environment \/ \E p \in Pids : ScanNew(p)
    BY <2>0, <2>1 DEF Environment, ScanNew
  <2>2. CASE UNCHANGED foundWith
    BY <2>0, <2>2
  <2> QED
    BY <2>1, <2>2 DEF Next, FinderStep, HttpStep, Prune, FindStart, IntrospectFails, UnitsDone,
       FindUnitThrows, FindSockets, ScanDone, FindUnit, ScanKnown, ScanChild, StatusRequest,
       StatusStep, StatusLost
<1>9. Bus'
  <2>1. \A k \in 1 .. Len(services') : services'[k].handler.full => HaveBus
    BY <1>1, ChangesKeepBus DEF Ind
  <2>2. finder' = "units" => HaveBus
    <3>1. CASE UNCHANGED finder
      BY <3>1 DEF Ind, Bus
    <3>2. CASE FindStart \/ IntrospectFails \/ UnitsDone \/ FindUnitThrows \/ FindSockets \/ ScanDone
      BY <3>2 DEF FindStart, IntrospectFails, UnitsDone, FindUnitThrows, FindSockets, ScanDone
    <3> QED
      BY <3>1, <3>2 DEF Next, FinderStep, HttpStep, Environment, Prune, FindUnit, ScanKnown,
         ScanChild, ScanNew, StatusRequest, StatusStep, StatusLost, finderVars
  <2>3. \A u \in Units : unit'[u].pid # 0 => MainOf(unit'[u].pid) = u
    <3>1. CASE UNCHANGED unit
      BY <3>1 DEF Ind, Bus
    <3>2. CASE Environment
      BY <3>2, HostStepMains DEF Ind, Bus, Environment
    <3> QED
      BY <3>1, <3>2 DEF Next, FinderStep, HttpStep, Prune, FindStart, IntrospectFails, UnitsDone,
         FindUnitThrows, FindSockets, ScanDone, FindUnit, ScanKnown, ScanChild, ScanNew,
         StatusRequest, StatusStep, StatusLost, hostVars
  <2> QED
    BY <2>1, <2>2, <2>3 DEF Bus, MainOf
<1> QED
  BY <1>2, <1>3, <1>4, <1>5, <1>6, <1>7, <1>8, <1>9 DEF Ind

(* No step gives a process a second owner that does not claim it.          *)
LEMMA NextOwners ==
    ASSUME Ind, Owners, Next PROVE Owners'
<1>1. (\E new : Changes(new) /\ Fresh(new)) \/ Claimed
  BY NextChanges DEF Effect
<1>2. CASE \E new : Changes(new) /\ Fresh(new)
  BY <1>2, FreshOwners DEF Ind
<1>3. CASE Claimed
  <2>1. PICK k \in 1 .. Len(services), t \in ServiceType, p \in Pids :
             /\ services' = [services EXCEPT ![k] = t]
             /\ Grows(services[k], t, {p}) /\ Claims(t, p)
    BY <1>3 DEF Claimed
  <2>2. \A q \in Pids \cap {p} : ~Known(q) \/ Claims(t, q)
    BY <2>1
  <2> QED
    BY <2>1, <2>2, ReplacedOwners DEF Ind
<1> QED
  BY <1>1, <1>2, <1>3

(* The registry, the host and the two threads are always in their types,   *)
(* whatever interleaves: a status request is at a service that exists, and *)
(* every service is built of processes, sockets and units of the host.     *)
THEOREM RegistryInvariant == Spec => []Ind
<1>1. Init => Ind
  BY InitInd
<1>2. Ind /\ [Next]_vars => Ind'
  <2>1. ASSUME Ind, Next PROVE Ind'
    BY <2>1, NextInd
  <2>2. ASSUME Ind, UNCHANGED vars PROVE Ind'
    BY <2>2 DEF Ind, HostTypeOK, Finding, Asking, Bus, MainOf, vars, hostVars, finderVars, httpVars,
       NoRequest
  <2> QED
    BY <2>1, <2>2
<1> QED
  BY <1>1, <1>2, PTL DEF Spec

(* The type invariant of the registry.                                     *)
THEOREM RegistryTypeCorrect == Spec => []TypeOK
<1>1. Ind => TypeOK
  <2> SUFFICES ASSUME Ind PROVE TypeOK
    OBVIOUS
  <2>1. ASSUME NEW k \in Indices
        PROVE  LET s == services[k] IN
               /\ getID(s) \in IDs \X Uniqs
               /\ DOMAIN s.socks \subseteq Sources
               /\ \A a \in DOMAIN s.socks : s.socks[a] \in Inodes \cup {0}
               /\ MainPids(s) \subseteq Pids \cup {0}
               /\ s.sub \subseteq Pids
               /\ s.handler.unit \in Units \cup {NoUnit} /\ s.handler.full \in BOOLEAN
    <3> DEFINE s == services[k]
    <3>1. s \in ServiceType
      BY DEF Ind, Indices
    <3> HIDE DEF s
    <3>2. getID(s) \in IDs \X Uniqs
      BY <3>1 DEF ServiceType, getID
    <3>3. DOMAIN s.socks \subseteq Sources /\ \A a \in DOMAIN s.socks : s.socks[a] \in Inodes \cup {0}
      BY <3>1, SocketsOf
    <3>4. MainPids(s) \subseteq Pids \cup {0} /\ s.sub \subseteq Pids
      BY <3>1, MainPidsType
    <3>5. s.handler.unit \in Units \cup {NoUnit} /\ s.handler.full \in BOOLEAN
      <4>1. s.handler \in HandlerType
        BY <3>1 DEF ServiceType
      <4>2. \A h \in HandlerType : h.unit \in Units \cup {NoUnit} /\ h.full \in BOOLEAN
        <5>1. NoHandler.unit = NoUnit /\ NoHandler.full = FALSE
          BY DEF NoHandler
        <5>2. \A h \in [unit: Units, full: BOOLEAN] : h.unit \in Units /\ h.full \in BOOLEAN
          OBVIOUS
        <5> QED
          BY <5>1, <5>2, Zenon DEF HandlerType
      <4> QED
        BY <4>1, <4>2
    <3> QED
      BY <3>2, <3>3, <3>4, <3>5 DEF s
  <2> QED
    BY <2>1 DEF TypeOK, Ind, Finding, Asking
<1> QED
  BY <1>1, RegistryInvariant, PTL

(* For every host, every list of units and every configuration, no step of *)
(* the detection thread, of a status request or of a collector forgets a   *)
(* process that runs.                                                      *)
THEOREM NoneIsForgotten == Spec => NoneForgotten
<1>1. Ind /\ [Next]_vars => [\A p \in alive \cap alive' : Known(p) => Known(p)']_vars
  <2>1. ASSUME Ind, Next PROVE \A p \in alive \cap alive' : Known(p) => Known(p)'
    BY <2>1, NextInd
  <2> QED
    BY <2>1
<1> QED
  BY <1>1, RegistryInvariant, PTL DEF Spec, NoneForgotten

(* For every host and every order in which the detectors, the requests and *)
(* the host itself take their steps, a process has a second owner only     *)
(* when a service that the systemd detector tied to a unit claims the main *)
(* process of that unit; without a bus it has none.                        *)
THEOREM OneOwnerHolds == Spec => []OneOwner
<1>1. Init => Owners
  BY InitInd
<1>2. Ind /\ Owners /\ [Next]_vars => Owners'
  <2>1. ASSUME Ind, Owners, Next PROVE Owners'
    BY <2>1, NextOwners
  <2>2. ASSUME Owners, UNCHANGED vars PROVE Owners'
    BY <2>2 DEF Owners, Owned, Claims, MainOf, PidsOf, MainPids, vars
  <2> QED
    BY <2>1, <2>2
<1>3. Ind /\ Owners => OneOwner
  <2> SUFFICES ASSUME Ind, Owners PROVE OneOwner
    OBVIOUS
  <2>1. Indices = 1 .. Len(services)
    BY DEF Ind, Indices
  <2> QED
    BY <2>1, havePIDIsPidsOf DEF OneOwner, Owners, Owned
<1> QED
  BY <1>1, <1>2, <1>3, RegistryInvariant, PTL DEF Spec
=============================================================================
