------------------------------ MODULE Ressource ------------------------------
(***************************************************************************)
(* The values of the histories: tickRessource and pidRessource             *)
(* (include/collectors.h, src/collectors.cpp) turn counters of the kernel  *)
(* into differences, and a client follows the rows with                    *)
(* history?since=<timestamp>.                                              *)
(*   - A "tick" resource has the counter of one device (netdev, diskstats, *)
(*     vmstat, interrupts); a "pid" resource adds up the counters of the   *)
(*     processes of a service (io, and cpu by the same rule).              *)
(*   - The counters are read through atoi() into 32 bits, while they grow. *)
(*   - A device may be removed and come back, a pid may be used again by   *)
(*     another process: the counter restarts under the same key.           *)
(* collect() holds the collector's mutex, and so does the client's read    *)
(* (CollectorThread): a read happens between two passes.                   *)
(***************************************************************************)
EXTENDS Integers, Sequences

CONSTANTS
    Size,       \* (*cfg)["history"]
    Freq,       \* (*cfg)["poll-frequency"]
    Width,      \* 2^32: the counters are read modulo Width
    Device,     \* the device of a tick resource
    Pids,       \* the pids of the host
    MaxGrowth,  \* bound: how much all counters grow
    MaxPasses   \* bound: how often collect() is called

ASSUME RessourceAssumption ==
    /\ Size \in Nat \ {0}
    /\ Freq \in Nat \ {0}
    /\ Width \in Nat \ {0}
    /\ MaxGrowth \in Nat
    /\ MaxPasses \in Nat

VARIABLES
    kind,       \* "tick" or "pid"
    counter,    \* the counter of each source, as the kernel has it
    growth,     \* how much all of them have grown
    grown,      \* how much each has grown since collect() last read it
    replaced,   \* the sources whose counter has restarted since then
    known,      \* the keys of tickRessource::old, pidRessource::values
    old,        \* the values under these keys
    v,          \* Ressource::v, newest first
    pending,    \* the sources that this pass of collect() has still to read
    clock,      \* the time of the current or last pass
    since,      \* the timestamp of the newest row the client has seen
    received    \* the rows the client has been sent, by timestamp

host == <<counter, growth>>
client == <<since, received>>
vars == <<kind, host, grown, replaced, known, old, v, pending, clock, client>>

Sources == IF kind = "tick" THEN {Device} ELSE Pids

AllSources == {Device} \cup Pids

NoValue == -1       \* the row has no such member

(* A row.  truth and exact are not in the code: they say by how much the   *)
(* counters behind the value had grown, and whether a difference modulo    *)
(* Width can know it.                                                      *)
Rows == [timestamp : Nat, value : Int, truth : Nat, exact : BOOLEAN]

(* The types of the state: the rows, the remembered counters and the       *)
(* client.                                                                 *)
TypeOK ==
    /\ kind \in {"tick", "pid"}
    /\ counter \in [AllSources -> Nat]
    /\ growth \in 0 .. MaxGrowth
    /\ grown \in [AllSources -> Nat]
    /\ replaced \subseteq AllSources
    /\ known \subseteq AllSources
    /\ old \in [AllSources -> 0 .. Width - 1]
    /\ v \in Seq(Rows) /\ Len(v) <= Size
    /\ pending \subseteq Sources
    /\ clock \in 0 .. MaxPasses
    /\ since \in 0 .. clock
    /\ received \in [1 .. MaxPasses -> Int]

Init ==
    /\ kind \in {"tick", "pid"}
    /\ counter = [s \in AllSources |-> 0]
    /\ growth = 0
    /\ grown = [s \in AllSources |-> 0]
    /\ replaced = {}
    /\ known = {}
    /\ old = [s \in AllSources |-> 0]
    /\ v = <<>>
    /\ pending = {}
    /\ clock = 0
    /\ since = 0
    /\ received = [t \in 1 .. MaxPasses |-> NoValue]

-----------------------------------------------------------------------------
(* The host                                                                *)

Grow(s) ==
    /\ growth < MaxGrowth
    /\ growth' = growth + 1
    /\ counter' = [counter EXCEPT ![s] = @ + 1]
    /\ grown' = [grown EXCEPT ![s] = @ + 1]
    /\ UNCHANGED <<kind, replaced, known, old, v, pending, clock, client>>

(* The device is gone and back, the pid belongs to another process.        *)
Replace(s) ==
    /\ counter[s] # 0
    /\ counter' = [counter EXCEPT ![s] = 0]
    /\ replaced' = replaced \cup {s}
    /\ UNCHANGED <<kind, growth, grown, known, old, v, pending, clock, client>>

-----------------------------------------------------------------------------
(* The resources                                                           *)

(* atoi() into uint or uint32_t.                                           *)
Parsed(s) == counter[s] % Width

(* Ressource::nextValue: the newest row is copied in front with the time   *)
(* of this pass, rows beyond the size are dropped.                         *)
Copied(rows, now) ==
    IF rows = <<>>
    THEN [timestamp |-> now, value |-> NoValue, truth |-> 0, exact |-> FALSE]
    ELSE [rows[1] EXCEPT !.timestamp = now]

Resized(rows) == IF Len(rows) > Size THEN SubSeq(rows, 1, Size) ELSE rows

nextValue(rows, now) == Resized(<<Copied(rows, now)>> \o rows)

(* pidRessource::nextValue: no row before a value is known, then a row     *)
(* that starts from zero.                                                  *)
Zeroed(rows) == [rows EXCEPT ![1] = [@ EXCEPT !.value = 0, !.truth = 0]]

\* Mutant: a row is added only once every pid of the host is known.
pidNextValueLate(rows, now) ==
    IF known # Pids THEN rows ELSE Zeroed(nextValue(rows, now))

pidNextValue(rows, now) ==
    IF known = {} THEN rows ELSE Zeroed(nextValue(rows, now))

\* Mutant: a counter that is smaller than before counts as no change.
setTickValueOrdered(s) ==
    IF s \in known /\ old[s] < Parsed(s) THEN (Parsed(s) - old[s]) \div Freq ELSE 0

(* tickRessource::setTickValue: unsigned difference, unsigned division.    *)
setTickValue(s) ==
    IF s \in known THEN ((Parsed(s) - old[s]) % Width) \div Freq ELSE 0

\* Mutant: a pid that is not known yet is taken to have been at zero.
CountsUnknown(s) == old[s] < Parsed(s)

(* pidRessource::setPidValue: only a known pid whose counter is larger     *)
(* than before adds to the row.                                            *)
Counts(s) == s \in known /\ old[s] < Parsed(s)

setPidValue(s) == IF Counts(s) THEN Parsed(s) - old[s] ELSE 0

-----------------------------------------------------------------------------
(* collect()                                                               *)

(* The devices that /proc lists, or the pids of getPIDs(): what is there   *)
(* is read one by one.  A device that is not listed gets no row.           *)
BeginPass(listed) ==
    /\ pending = {} /\ clock < MaxPasses
    /\ clock' = clock + 1
    /\ pending' = listed
    /\ \/ kind = "pid" /\ v' = pidNextValue(v, clock')
       \/ kind = "tick" /\ listed # {} /\ v' = nextValue(v, clock')
       \/ kind = "tick" /\ listed = {} /\ v' = v
    /\ UNCHANGED <<kind, host, grown, replaced, known, old, client>>

(* The value is in the map, whatever became of the row.                    *)
Remember(s) ==
    /\ known' = known \cup {s}
    /\ old' = [old EXCEPT ![s] = Parsed(s)]
    /\ grown' = [grown EXCEPT ![s] = 0]
    /\ replaced' = replaced \ {s}
    /\ pending' = pending \ {s}
    /\ UNCHANGED <<kind, host, clock, client>>

ReadDevice(s) ==
    /\ kind = "tick" /\ s \in pending
    /\ v' = [v EXCEPT ![1] = [timestamp |-> @.timestamp, value |-> setTickValue(s),
                              truth |-> grown[s],
                              exact |-> s \in known \ replaced /\ grown[s] < Width]]
    /\ Remember(s)

(* What the agent can have seen of the growth: nothing of a pid it meets.  *)
Observed(s) == IF s \in known THEN grown[s] ELSE 0

Added(row, s) == [row EXCEPT !.value = @ + setPidValue(s), !.truth = @ + Observed(s)]

ReadPid(s) ==
    /\ kind = "pid" /\ s \in pending
    /\ v' = [v EXCEPT ![1] = Added(@, s)]
    /\ Remember(s)

(* The file of the process, or the line of the counter, is not there: the  *)
(* row keeps what it has.                                                  *)
Skip(s) ==
    /\ s \in pending
    /\ pending' = pending \ {s}
    /\ UNCHANGED <<kind, host, grown, replaced, known, old, v, clock, client>>

-----------------------------------------------------------------------------
(* doGetHistory() with the timestamp of the newest row seen so far         *)

getHistory == {i \in 1 .. Len(v) : v[i].timestamp >= since}

(* The rows are sent oldest first: the last one is the newest.             *)
Deliver ==
    /\ getHistory # {}
    /\ received' = [t \in 1 .. MaxPasses |->
                      IF \E i \in getHistory : v[i].timestamp = t
                      THEN v[CHOOSE i \in getHistory : v[i].timestamp = t].value
                      ELSE received[t]]
    /\ since' = v[1].timestamp
    /\ UNCHANGED <<kind, host, grown, replaced, known, old, v, pending, clock>>

(* The mutex: no pass is under way.                                        *)
doGetHistory == pending = {} /\ Deliver

-----------------------------------------------------------------------------
Next ==
    \/ \E s \in Sources : Grow(s) \/ Replace(s)
    \/ \E listed \in SUBSET Sources : BeginPass(listed)
    \/ \E s \in pending : ReadDevice(s) \/ ReadPid(s) \/ Skip(s)
    \/ doGetHistory

Spec == Init /\ [][Next]_vars

-----------------------------------------------------------------------------
(* A difference of two 32-bit readings is the growth of the counter, also  *)
(* across the wrap-around, as long as the counter has not gone round or    *)
(* restarted in between; the row keeps it for as long as it is kept.       *)
RateIsExact == \A i \in 1 .. Len(v) : v[i].exact => v[i].value = v[i].truth \div Freq

(* The sum over the processes of a service never says more than they did   *)
(* since they were last looked at: not when a counter wraps, not when a    *)
(* pid is used again between two passes or in the middle of one, not for a *)
(* process that the service has just got.                                  *)
NeverOvercounts == kind = "pid" => \A i \in 1 .. Len(v) : v[i].value <= v[i].truth

(* setPidValue() and setTickValue() write v[0] without looking: whenever a *)
(* source that is still to be read would be written, there is a row, and   *)
(* it is the row of this pass.                                             *)
Writes(s) == kind = "tick" \/ Counts(s)

WritesOwnRow ==
    (\E s \in pending : Writes(s)) => v # <<>> /\ v[1].timestamp = clock

(* A client that asks with the newest timestamp it knows has every kept    *)
(* row up to that timestamp, with the value the row has now: nothing that  *)
(* is kept is missed and nothing is sent before it is complete.            *)
ClientComplete ==
    \A i \in 1 .. Len(v) : v[i].timestamp <= since => received[v[i].timestamp] = v[i].value
=============================================================================
