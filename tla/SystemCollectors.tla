--------------------------- MODULE SystemCollectors ---------------------------
(***************************************************************************)
(* What the collectors read and publish: the plugins for the machine       *)
(* (collectors/*.cpp, luaCollectors/*.lua) and the Lua collectors for a    *)
(* service (luaServices/cpu.lua, io.lua, mem.lua).  The items of a         *)
(* collector (cpus, mounted file systems, thermal zones, processes) come   *)
(* and go while it walks over them, a file may fail to open, and the       *)
(* counters of the kernel are read as 32-bit integers.                     *)
(*                                                                         *)
(* A row is the set of the items whose value it holds; row Whole is the    *)
(* one of a collector that publishes one row for all its items.  What the  *)
(* history does with rows is in Ressource, the thread in CollectorThread.  *)
(***************************************************************************)
EXTENDS Integers, FiniteSets

CONSTANTS
    Items,      \* cpus, mount points, zones or processes
    Whole,      \* the row of a collector that has only one
    Swap,       \* the second one of memory
    Width,      \* a counter is read modulo Width
    Cap,        \* an iowait above this is taken for 0
    MaxCount,   \* bound: of the counters of the cpus
    MaxUse,     \* bound: of the counters of a process
    MaxChanges  \* bound: items that come and go, files that open or do not

ASSUME CollectorsAssumption ==
    /\ IsFiniteSet(Items)
    /\ Whole \notin Items /\ Swap \notin Items \cup {Whole}
    /\ Cap \in 0 .. Width - 1 /\ Width \in Nat \ {0}
    /\ MaxCount \in Nat /\ MaxUse \in 0 .. MaxCount /\ MaxChanges \in Nat

(* The collectors by what they do with their items: a resource for each,   *)
(* made in the constructor or at first sight, or one for all.              *)
Declaring == {"cpuuse", "cpuspeed.lua"}
Lazy == {"diskusage", "cpuspeed"}
Single == {"memory", "cpuload", "uptime"}
OfService == {"cpu.lua", "io.lua", "mem.lua"}

(* Those that open one file or directory in a pass, and those of them that *)
(* have opened it in the constructor already.                              *)
OneFile == Declaring \cup Lazy \cup Single \cup {"cpu.lua"}
Opening == Declaring \cup {"memory"}

Kinds == Declaring \cup Lazy \cup Single \cup OfService \cup {"thermal"}

None == -1

VARIABLES
    kind,       \* which collector this is
    pc,         \* "idle", "pass", "dead": the process has crashed
    items,      \* the items that exist
    broken,     \* those that exist but cannot be opened, or statvfs() fails on them
    shut,       \* the file that a pass reads cannot be opened
    todo,       \* the items of this pass that are still to be read
    ressources, \* the resources of the collector
    rows,       \* the newest row of each
    count,      \* the counters of the kernel
    old,        \* what the collector remembers of them
    sum,        \* the difference that is added up in this pass
    ready,      \* io.lua: found; cpu.lua: prev_total_time is not 0
    changes,
    blind,      \* history: the constructor could not open it
    made,       \* history: rows that this pass has begun
    got,        \* history: what this pass has read
    missed,     \* history: items that were not there, or not reached, in this pass
    born,       \* history: items that have appeared since the constructor
    last,       \* history: the counters at the pass before
    reused      \* history: another process has the number of one that is gone

code == <<ressources, rows, old, sum, ready>>
world == <<items, broken, shut, count, changes, blind, born, reused>>
vars == <<kind, pc, todo, code, world, made, got, missed, last>>

PerItem == kind \in Declaring \cup Lazy

Adding == kind \in {"cpu.lua", "io.lua"}

Counters == CASE kind = "cpuuse" -> {"busy", "iowait"} [] Adding -> Items [] OTHER -> {}

Ids == Items \cup {Whole, Swap}

(* The types of the state; a row belongs to a resource that exists, and    *)
(* cpu.lua and io.lua publish no negative usage unless the number of a     *)
(* process that is gone has been given to another one, since they do not   *)
(* forget a process.                                                       *)
TypeOK ==
    /\ kind \in Kinds /\ pc \in {"idle", "pass", "dead"}
    /\ items \subseteq Items /\ broken \subseteq Items
    /\ todo \subseteq Ids /\ (pc # "pass" => todo = {})
    /\ ressources \subseteq Ids
    /\ rows \in [Ids -> SUBSET Ids]
    /\ \A id \in Ids : rows[id] # {} => id \in ressources
    /\ count \in [Counters -> 0 .. MaxCount] /\ last \in [Counters -> 0 .. MaxCount]
    /\ old \in [Counters -> {None} \cup 0 .. MaxCount]
    /\ sum \in (IF reused THEN -MaxCount * Cardinality(Items) ELSE 0)
                 .. MaxCount * Cardinality(Items)
    /\ ready \in BOOLEAN /\ changes \in 0 .. MaxChanges
    /\ made \subseteq ressources /\ got \subseteq Ids
    /\ missed \subseteq Items /\ born \subseteq Items /\ reused \in BOOLEAN
    /\ shut \in BOOLEAN /\ blind \in BOOLEAN /\ (shut => kind \in OneFile)

(* The resources that the constructor makes (declare() of a Lua file):     *)
(* none, for the lines of a file that it cannot open.                      *)
Declared ==
    IF shut /\ kind \in Opening THEN {}
    ELSE CASE kind \in Declaring -> items
           [] kind \in Lazy -> {}
           [] kind = "memory" -> {Whole, Swap}
           [] OTHER -> {Whole}

Init ==
    /\ kind \in Kinds /\ pc = "idle"
    /\ items \in (SUBSET Items) \ {{}}
    /\ broken \in IF kind \in Lazy \cup {"thermal"} THEN SUBSET Items ELSE {{}}
    /\ shut \in BOOLEAN /\ (shut => kind \in OneFile) /\ blind = shut
    /\ todo = {}
    /\ ressources = Declared
    /\ rows = [id \in Ids |-> {}]
    /\ count = [c \in Counters |-> 0] /\ last = count
    /\ old = [c \in Counters |-> IF kind = "cpuuse" THEN 0 ELSE None]
    /\ sum = 0 /\ ready = FALSE /\ changes = 0
    /\ made = {} /\ got = {} /\ missed = {} /\ born = {} /\ reused = FALSE

-----------------------------------------------------------------------------
(* The machine                                                             *)

Plug(i) ==
    /\ i \notin items /\ changes < MaxChanges
    /\ kind \notin Single
    /\ items' = items \cup {i}
    /\ changes' = changes + 1
    /\ missed' = missed \cup {i}
    /\ born' = born \cup {i}
    /\ count' = IF Adding THEN [count EXCEPT ![i] = 0] ELSE count
    /\ reused' = (reused \/ (Adding /\ old[i] # None))
    /\ UNCHANGED <<kind, pc, broken, shut, blind, todo, code, made, got, last>>

(* One cpu is left.                                                        *)
Unplug(i) ==
    /\ i \in items /\ changes < MaxChanges
    /\ kind \notin Single /\ (kind \in Declaring => items # {i})
    /\ items' = items \ {i}
    /\ changes' = changes + 1
    /\ missed' = missed \cup {i}
    /\ UNCHANGED <<kind, pc, broken, shut, blind, todo, code, count, born, reused, made, got,
                   last>>

(* The agent has no descriptor left, or has one again.                     *)
Shut ==
    /\ kind \in OneFile /\ changes < MaxChanges
    /\ shut' = ~shut
    /\ changes' = changes + 1
    /\ UNCHANGED <<kind, pc, items, broken, blind, todo, code, count, born, reused, made, got,
                   missed, last>>

Tick(c) ==
    /\ count[c] < (IF Adding THEN MaxUse ELSE MaxCount)
    /\ count' = [count EXCEPT ![c] = @ + 1]
    /\ UNCHANGED <<kind, pc, items, broken, shut, blind, todo, code, changes, made, got, missed,
                   born, last, reused>>

-----------------------------------------------------------------------------
(* cpuTicks::setRaw() for the line of the whole machine.  atoi() of a      *)
(* larger counter keeps its low bits.                                      *)
Live(c) ==
    LET v == count[c] % Width IN IF c = "iowait" /\ v > Cap THEN 0 ELSE v

\* Mutant: a counter that seems to have gone back has not moved.
DiffForward(c) == IF Live(c) < old[c] THEN 0 ELSE Live(c) - old[c]

Diff(c) == ((Live(c) + Width) - old[c]) % Width

Total == (Diff("busy") + Diff("iowait")) % Width

-----------------------------------------------------------------------------
(* A pass of collect()                                                     *)

(* The collectors that begin their row before they read anything.          *)
RowFirst == kind \in {"thermal", "mem.lua"}

Poll ==
    /\ pc = "idle" /\ ~shut
    /\ pc' = "pass"
    /\ todo' = IF kind \in Single THEN {Whole} ELSE items
    /\ made' = IF RowFirst THEN {Whole} ELSE {}
    /\ got' = {} /\ missed' = Items \ items
    /\ old' = IF kind = "cpuuse" THEN [c \in Counters |-> Live(c)] ELSE old
    /\ last' = IF kind = "cpuuse" THEN count ELSE last
    /\ sum' = 0
    /\ ready' = (ready /\ kind # "io.lua")
    /\ UNCHANGED <<kind, ressources, rows, world>>

(* A pass that cannot open its file: nothing is read, and no row begun.    *)
Unopened ==
    /\ pc = "idle" /\ shut
    /\ made' = {} /\ got' = {}
    /\ UNCHANGED <<kind, pc, todo, code, world, missed, last>>

(* ressources[id]->nextValue() and setProperty(), for the resource id.     *)
Publish(id, what) ==
    /\ rows' = [rows EXCEPT ![id] = @ \cup what]
    /\ made' = made \cup {id}
    /\ got' = got \cup what

Done(i) == todo' = todo \ {i} /\ UNCHANGED pc

(* std::map::operator[] gives a null pointer for a resource that nobody    *)
(* has made.                                                               *)
NullPointer ==
    /\ pc' = "dead" /\ todo' = {}
    /\ UNCHANGED <<rows, made, got>>

\* Mutant: a cpu that the constructor has not seen is left out.
ReadDeclaredOnly(i) ==
    /\ kind \in Declaring
    /\ \/ i \in ressources /\ Publish(i, {i}) /\ Done(i)
       \/ i \notin ressources /\ Done(i) /\ UNCHANGED <<rows, made, got>>
    /\ UNCHANGED <<ressources, old, sum, ready>>

(* /proc/stat and /proc/cpuinfo are read as they were when they were       *)
(* opened.                                                                 *)
ReadDeclared(i) ==
    /\ kind \in Declaring
    /\ \/ i \in ressources /\ Publish(i, {i}) /\ Done(i)
       \/ i \notin ressources /\ NullPointer
    /\ UNCHANGED <<ressources, old, sum, ready>>

(* cpuload and uptime: a row for the line that is read.                    *)
ReadLine(i) ==
    /\ kind \in Single \ {"memory"}
    /\ Publish(Whole, {Whole}) /\ Done(i)
    /\ UNCHANGED <<ressources, old, sum, ready>>

(* The rows of swap and memory, after all lines have been read.            *)
ReadMemory(i) ==
    /\ kind = "memory"
    /\ \/ /\ Swap \in ressources
          /\ rows' = [rows EXCEPT ![Swap] = @ \cup {Swap}, ![Whole] = @ \cup {Whole}]
          /\ made' = made \cup {Whole, Swap}
          /\ got' = got \cup {Whole, Swap}
          /\ Done(i)
       \/ Swap \notin ressources /\ NullPointer
    /\ UNCHANGED <<ressources, old, sum, ready>>

\* Mutant: the row is begun before the file is read.
ReadLazyEarly(i) ==
    /\ kind \in Lazy /\ i \in items
    /\ ressources' = ressources \cup {i}
    /\ \/ i \notin broken /\ Publish(i, {i}) /\ Done(i)
       \/ /\ i \in broken
          /\ made' = made \cup {i}
          /\ rows' = [rows EXCEPT ![i] = {i}]
          /\ todo' = {} /\ pc' = "idle"
          /\ UNCHANGED got
    /\ UNCHANGED <<old, sum, ready>>

\* Mutant: the test for a resource that exists is gone.
ReadLazyUnmade(i) ==
    /\ kind \in Lazy /\ i \in items /\ i \notin broken
    /\ \/ i \in ressources /\ Publish(i, {i}) /\ Done(i)
       \/ i \notin ressources /\ NullPointer
    /\ UNCHANGED <<ressources, old, sum, ready>>

(* The resource is made when the item is seen for the first time.          *)
Seen(i) == ressources' = ressources \cup {i}

ReadLazy(i) ==
    /\ kind \in Lazy /\ i \in items /\ i \notin broken
    /\ Seen(i)
    /\ Publish(i, {i}) /\ Done(i)
    /\ UNCHANGED <<old, sum, ready>>

ReadZone(i) ==
    /\ kind = "thermal" /\ i \in items /\ i \notin broken
    /\ Publish(Whole, {i}) /\ Done(i)
    /\ UNCHANGED <<ressources, old, sum, ready>>

(* A zone that goes between two files of it: no name, and 0 degrees.       *)
ReadNameless(i) ==
    /\ kind = "thermal" /\ i \notin items
    /\ Publish(Whole, {Whole}) /\ Done(i)
    /\ UNCHANGED <<ressources, old, sum, ready>>

\* Mutant: the difference the other way round.
ReadProcessBack(i) ==
    /\ kind \in OfService /\ i \in items
    /\ IF Adding
       THEN /\ sum' = IF old[i] = None THEN sum ELSE sum + (old[i] - count[i])
            /\ old' = [old EXCEPT ![i] = count[i]]
            /\ ready' = (ready \/ (kind = "io.lua" /\ old[i] # None))
       ELSE UNCHANGED <<sum, old, ready>>
    /\ Done(i)
    /\ UNCHANGED <<ressources, rows, made, got>>

(* The counters of a process that was seen before are added up.            *)
ReadProcess(i) ==
    /\ kind \in OfService /\ i \in items
    /\ IF Adding
       THEN /\ sum' = IF old[i] = None THEN sum ELSE sum + (count[i] - old[i])
            /\ old' = [old EXCEPT ![i] = count[i]]
            /\ ready' = (ready \/ (kind = "io.lua" /\ old[i] # None))
       ELSE UNCHANGED <<sum, old, ready>>
    /\ Done(i)
    /\ UNCHANGED <<ressources, rows, made, got>>

(* The item is gone when its turn comes: stat(), statvfs() or open() says  *)
(* so.  statvfs() may fail on a mount that is there, too.                  *)
Skip(i) ==
    /\ \/ kind \in Lazy \cup OfService \cup {"thermal"} /\ i \notin items
       \/ kind = "diskusage" /\ i \in broken
    /\ Done(i)
    /\ UNCHANGED <<code, made, got>>

(* It goes before it is opened, or cannot be: tellg() is -1 and reserve()  *)
(* throws.  A process that goes while its file is read is a Lua error of   *)
(* f:lines(), or of gmatch() on the nil that read() returns.  Either ends  *)
(* the pass.                                                               *)
Throw(i) ==
    /\ \/ kind \in {"cpuspeed", "thermal"} /\ (i \notin items \/ i \in broken)
       \/ kind \in OfService /\ i \notin items
    /\ todo' = {} /\ pc' = "idle"
    /\ UNCHANGED <<code, made, got>>

Visit(i) ==
    /\ pc = "pass" /\ i \in todo
    /\ \/ ReadDeclared(i) \/ ReadLine(i) \/ ReadMemory(i) \/ ReadLazy(i)
       \/ ReadZone(i) \/ ReadNameless(i) \/ ReadProcess(i)
       \/ Skip(i) \/ Throw(i)
    /\ missed' = IF pc' = "idle" THEN missed \cup (todo \cap Items) ELSE missed
    /\ UNCHANGED <<kind, world, last>>

(* The end of the pass of a Lua collector of a service.  io.lua waits for  *)
(* a process that it knows, cpu.lua for its second pass.                   *)
Finish ==
    /\ pc = "pass" /\ todo = {}
    /\ pc' = "idle"
    /\ LET row == kind = "mem.lua" \/ (Adding /\ ready)
       IN  \/ row /\ Publish(Whole, {Whole})
           \/ ~row /\ UNCHANGED <<rows, made, got>>
    /\ ready' = (ready \/ kind = "cpu.lua")
    /\ UNCHANGED <<kind, todo, ressources, old, sum, world, missed, last>>

(* systemd starts the agent again; the constructor sees the items that     *)
(* there are now, if it can open the file.                                 *)
Restart ==
    /\ pc = "dead"
    /\ pc' = "idle"
    /\ ressources' = Declared
    /\ rows' = [id \in Ids |-> {}]
    /\ old' = [c \in Counters |-> 0]
    /\ last' = [c \in Counters |-> 0]
    /\ sum' = 0 /\ ready' = FALSE
    /\ born' = {} /\ blind' = shut
    /\ made' = {} /\ got' = {} /\ missed' = {}
    /\ UNCHANGED <<kind, items, broken, shut, todo, count, changes, reused>>

-----------------------------------------------------------------------------
Collect == Poll \/ Unopened \/ (\E i \in Ids : Visit(i)) \/ Finish \/ Restart

Next ==
    \/ Collect
    \/ \E i \in Items : Plug(i) \/ Unplug(i)
    \/ Shut
    \/ \E c \in Counters : Tick(c)

(* The thread of the collector polls again and again.                      *)
Spec == Init /\ [][Next]_vars /\ WF_vars(Collect)

-----------------------------------------------------------------------------
(* The row that a pass leaves behind holds what this pass has read and     *)
(* nothing older, whatever disappears or fails meanwhile: nextValue()      *)
(* copies the row before, so a collector that begins its row and then      *)
(* fails would publish the values of that one again.  The temperatures of  *)
(* zones that were not there for the whole pass, or that an exception has  *)
(* kept from being read, are such copies, and so is the row of mem.lua     *)
(* when a process goes.                                                    *)
Fresh ==
    pc = "idle" /\ kind # "mem.lua" =>
        \A id \in made : rows[id] \subseteq
            got \cup (IF kind = "thermal" THEN missed \cup {Whole} ELSE {})

(* collect() uses a null pointer only for what the constructor has not     *)
(* seen: a cpu that has appeared since, or all of it, when the file that   *)
(* opens now could not be opened then.  Of mounts, zones, frequencies and  *)
(* processes any may come and go, and a file that fails to open in a pass  *)
(* does no harm after a constructor that has opened it.                    *)
CrashOnlyOnUnseen ==
    pc = "dead" => kind \in Opening /\ (blind \/ (kind \in Declaring /\ born # {}))

(* The item that is there to stay is published sooner or later: after the  *)
(* crash of an agent that does not know its cpu, and although a frequency  *)
(* that goes ends the pass.  A frequency that cannot be opened at all may  *)
(* keep those that follow it in the directory from being read; a mount on  *)
(* which statvfs() fails does not.                                         *)
Readable(i) == i \in items /\ (broken = {} \/ (kind = "diskusage" /\ i \notin broken))

Covered ==
    \A i \in Items : Readable(i) /\ PerItem ~> i \notin items \/ shut \/ rows[i] # {}

Exact(c) == Diff(c) = count[c] - last[c]

Cut(n) == n % Width > Cap

(* The shares of cpuuse: the differences are the true ones also when a     *)
(* counter has passed 32 bits, and so is their sum, by which they are      *)
(* divided, unless iowait is above the cap in one of the two passes only;  *)
(* above it in both, it counts for nothing.                                *)
SharesExact ==
    [][Poll /\ kind = "cpuuse"
         /\ (count["busy"] - last["busy"]) + (count["iowait"] - last["iowait"]) < Width =>
         /\ Exact("busy")
         /\ ~Cut(count["iowait"]) /\ ~Cut(last["iowait"])
               => Exact("iowait") /\ Total = (count["busy"] - last["busy"])
                                              + (count["iowait"] - last["iowait"])
         /\ Cut(count["iowait"]) /\ Cut(last["iowait"])
               => Diff("iowait") = 0 /\ Total = count["busy"] - last["busy"]]_vars
=============================================================================
