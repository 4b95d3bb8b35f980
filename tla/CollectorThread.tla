--------------------------- MODULE CollectorThread ---------------------------
(***************************************************************************)
(* One Collector object (include/collectors.h, src/collectors.cpp) and the *)
(* three threads that touch it:                                            *)
(*   - its own polling thread, started by startThread();                   *)
(*   - the HTTP thread, which reads the history either under the           *)
(*     collector's mutex (doGetHistory) or without it (getJsonHistory);    *)
(*   - the detection thread, which creates the object inside addService()  *)
(*     and either publishes the service that owns it or, when the service  *)
(*     is already known, drops it, which runs ~Collector().                *)
(* logParser (src/services.cpp) has the same thread and the same           *)
(* destructor; LogParser.tla models what its thread does.                  *)
(***************************************************************************)
EXTENDS Naturals, Sequences

CONSTANT History        \* (*cfg)["history"]: number of rows kept

ASSUME HistoryAssumption == History \in Nat \ {0}

VARIABLES
    kind,       \* does collect() hold a reference to the service ("pinning"), or not?
    active,     \* Collector::active
    terminate,  \* timer_killer::terminate
    lock,       \* the thread that holds Collector::lock, or "none"
    owner,      \* what addService() made of the service: "new", "published", "dropped"
    worker,     \* control point of the polling thread
    http,       \* control point of the HTTP thread in this object
    dtor,       \* control point of the destructor
    v,          \* Ressource::v, newest first: has the row its own values yet?
    count       \* globalCounters["values_count"]: add - del

vars == <<kind, active, terminate, lock, owner, worker, http, dtor, v, count>>

Threads == {"worker", "http", "dtor"}

(* The types of the state: the collector, its three threads and its rows.  *)
TypeOK ==
    /\ kind \in {"pinning", "plain"}
    /\ active \in BOOLEAN
    /\ terminate \in BOOLEAN
    /\ lock \in Threads \cup {"none"}
    /\ owner \in {"new", "published", "dropped"}
    /\ worker \in {"unstarted", "test", "acquire", "check", "enter", "collect",
                   "fill", "release", "sleep", "ended", "abort", "stuck"}
    /\ http \in {"idle", "acquire", "read", "json"}
    /\ dtor \in {"alive", "derived", "locked", "join", "freed"}
    /\ v \in Seq({"copied", "final"})
    /\ count \in Nat

(* The constructor: no thread, no row, nobody else knows the object.  The  *)
(* cpu, mem and io collectors pin the service for the time of collect();   *)
(* SelfCollector and the log parsers do not.                               *)
Init ==
    /\ kind \in {"pinning", "plain"}
    /\ active = FALSE
    /\ terminate = FALSE
    /\ lock = "none"
    /\ owner = "new"
    /\ worker = "unstarted"
    /\ http = "idle"
    /\ dtor = "alive"
    /\ v = <<>>
    /\ count = 0

-----------------------------------------------------------------------------
(* Ressource                                                               *)

(* Ressource::nextValue: a copy of the newest row is inserted in front of  *)
(* it and the oldest rows beyond the configured size are dropped.          *)
Inserted(rows) == <<"copied">> \o rows

Resized(rows) == IF Len(rows) > History THEN SubSeq(rows, 1, History) ELSE rows

\* Mutant: the rows that resize() drops are not counted as deleted.
NextValueUncounted ==
    /\ v' = Resized(Inserted(v))
    /\ count' = count + 1

nextValue ==
    /\ v' = Resized(Inserted(v))
    /\ count' = (count + 1) - (Len(Inserted(v)) - Len(v'))

(* Ressource::setProperty on the newest row.                               *)
setProperty ==
    /\ v' = [v EXCEPT ![1] = "final"]
    /\ UNCHANGED count

-----------------------------------------------------------------------------
(* The polling thread                                                      *)

(* startThread(), called by addCollector() on a collector that is enabled. *)
StartThread ==
    /\ owner = "new" /\ dtor = "alive"
    /\ worker = "unstarted" /\ ~active
    /\ active' = TRUE
    /\ worker' = "test"
    /\ UNCHANGED <<kind, terminate, lock, owner, http, dtor, v, count>>

(* while(active)                                                           *)
TestActive ==
    /\ worker = "test"
    /\ worker' = IF active THEN "acquire" ELSE "ended"
    /\ UNCHANGED <<kind, active, terminate, lock, owner, http, dtor, v, count>>

\* Mutant: the locker of the polling thread is left out.
WorkerLockIgnored ==
    /\ worker = "acquire"
    /\ worker' = "check"
    /\ UNCHANGED <<kind, active, terminate, lock, owner, http, dtor, v, count>>

WorkerLock ==
    /\ worker = "acquire" /\ lock = "none"
    /\ lock' = "worker"
    /\ worker' = "check"
    /\ UNCHANGED <<kind, active, terminate, owner, http, dtor, v, count>>

(* if (active) collect(): collect() is virtual.  While the derived part is *)
(* being destroyed the call may still find the derived collect(); once     *)
(* ~Collector() is entered it finds the pure Collector::collect(), which   *)
(* aborts the process.                                                     *)
CheckActive ==
    /\ worker = "check"
    /\ \/ ~active /\ worker' = "release"
       \/ active /\ worker' = "enter"
       \/ active /\ dtor = "derived" /\ worker' = "abort"
    /\ UNCHANGED <<kind, active, terminate, lock, owner, http, dtor, v, count>>

\* Mutant: collect() uses its service without testing the pointer it got.
EnterCollectUntested ==
    /\ worker = "enter"
    /\ worker' = "collect"
    /\ UNCHANGED <<kind, active, terminate, lock, owner, http, dtor, v, count>>

(* serv_p = onService.lock(): a service that is gone is left alone.        *)
EnterCollect ==
    /\ worker = "enter"
    /\ worker' = IF kind = "pinning" /\ owner = "dropped" THEN "release" ELSE "collect"
    /\ UNCHANGED <<kind, active, terminate, lock, owner, http, dtor, v, count>>

(* A collect() that runs on members the derived destructor has destroyed   *)
(* may go on or may bring the process down.                                *)
OnDestroyedMembers ==
    /\ kind = "plain" /\ dtor = "derived"
    /\ worker \in {"enter", "collect", "fill"}
    /\ worker' = "abort"
    /\ UNCHANGED <<kind, active, terminate, lock, owner, http, dtor, v, count>>

(* The end of collect(): serv_p goes away.  When addService() has dropped  *)
(* the service meanwhile this was the last reference, and ~Collector() of  *)
(* this very collector runs on this thread, which holds the mutex that the *)
(* destructor locks.                                                       *)
LeaveCollect ==
    /\ worker' = IF kind = "pinning" /\ owner = "dropped" THEN "stuck" ELSE "release"
    /\ dtor' = IF kind = "pinning" /\ owner = "dropped" THEN "derived" ELSE dtor

(* collect() adds a row, then sets its properties.                         *)
CollectRow ==
    /\ worker = "collect"
    /\ nextValue
    /\ worker' = "fill"
    /\ UNCHANGED <<kind, active, terminate, lock, owner, http, dtor>>

CollectProperties ==
    /\ worker = "fill"
    /\ setProperty
    /\ LeaveCollect
    /\ UNCHANGED <<kind, active, terminate, lock, owner, http>>

(* collect() returns early (a /proc file is missing) or throws: a row      *)
(* already added keeps the copied values.                                  *)
CollectFails ==
    /\ worker \in {"collect", "fill"}
    /\ LeaveCollect
    /\ UNCHANGED <<kind, active, terminate, lock, owner, http, v, count>>

WorkerUnlock ==
    /\ worker = "release"
    /\ lock' = "none"
    /\ worker' = "sleep"
    /\ UNCHANGED <<kind, active, terminate, owner, http, dtor, v, count>>

(* timer.wait_for() returns when the poll period is over ...               *)
Timeout ==
    /\ worker = "sleep"
    /\ worker' = "test"
    /\ UNCHANGED <<kind, active, terminate, lock, owner, http, dtor, v, count>>

(* ... or as soon as kill() has set terminate.                             *)
Killed ==
    /\ worker = "sleep" /\ terminate
    /\ worker' = "test"
    /\ UNCHANGED <<kind, active, terminate, lock, owner, http, dtor, v, count>>

-----------------------------------------------------------------------------
(* The detection thread: what addService() does with the enhanced service  *)

Publish ==
    /\ owner = "new" /\ dtor = "alive"
    /\ owner' = "published"
    /\ UNCHANGED <<kind, active, terminate, lock, worker, http, dtor, v, count>>

(* The service is known: addService() lets go of it.  Unless collect() has *)
(* it pinned the destructor of the derived collector runs now, without any *)
(* lock.                                                                   *)
Pinned == kind = "pinning" /\ worker \in {"collect", "fill"}

Drop ==
    /\ owner = "new" /\ dtor = "alive"
    /\ owner' = "dropped"
    /\ dtor' = IF Pinned THEN "alive" ELSE "derived"
    /\ UNCHANGED <<kind, active, terminate, lock, worker, http, v, count>>

(* ~Collector(): locker(lock) lives until the end of the destructor.       *)
DtorLock ==
    /\ dtor = "derived" /\ lock = "none"
    /\ lock' = "dtor"
    /\ dtor' = "locked"
    /\ UNCHANGED <<kind, active, terminate, owner, worker, http, v, count>>

\* Mutant: the destructor clears active but forgets timer.kill().
DtorNoKill ==
    /\ dtor = "locked"
    /\ active' = FALSE
    /\ dtor' = "join"
    /\ UNCHANGED <<kind, terminate, lock, owner, worker, http, v, count>>

DtorKill ==
    /\ dtor = "locked"
    /\ terminate' = (terminate \/ active)
    /\ active' = FALSE
    /\ dtor' = "join"
    /\ UNCHANGED <<kind, lock, owner, worker, http, v, count>>

(* my_thread.join(), then the locker and the members are destroyed, the    *)
(* rows with them; ~Ressource() does not touch values_count.               *)
DtorJoined ==
    /\ dtor = "join" /\ worker \in {"unstarted", "ended"}
    /\ lock' = "none"
    /\ dtor' = "freed"
    /\ v' = <<>>
    /\ UNCHANGED <<kind, active, terminate, owner, worker, http, count>>

-----------------------------------------------------------------------------
(* The HTTP thread: it reaches only collectors of published services       *)

(* doGetHistory(): getHistory() under the collector's mutex.               *)
HttpHistory ==
    /\ owner = "published" /\ http = "idle"
    /\ http' = "acquire"
    /\ UNCHANGED <<kind, active, terminate, lock, owner, worker, dtor, v, count>>

HttpLock ==
    /\ http = "acquire" /\ lock = "none"
    /\ lock' = "http"
    /\ http' = "read"
    /\ UNCHANGED <<kind, active, terminate, owner, worker, dtor, v, count>>

HttpUnlock ==
    /\ http = "read"
    /\ lock' = "none"
    /\ http' = "idle"
    /\ UNCHANGED <<kind, active, terminate, owner, worker, dtor, v, count>>

(* getJsonHistory(), for doGetAllJson(): no mutex.                         *)
JsonBegin ==
    /\ owner = "published" /\ http = "idle"
    /\ http' = "json"
    /\ UNCHANGED <<kind, active, terminate, lock, owner, worker, dtor, v, count>>

JsonEnd ==
    /\ http = "json"
    /\ http' = "idle"
    /\ UNCHANGED <<kind, active, terminate, lock, owner, worker, dtor, v, count>>

-----------------------------------------------------------------------------
(* The process has aborted, or the object is gone.                         *)
Finished ==
    /\ worker = "abort" \/ dtor = "freed"
    /\ UNCHANGED vars

WorkerStep ==
    \/ TestActive \/ WorkerLock \/ CheckActive \/ OnDestroyedMembers
    \/ EnterCollect \/ CollectRow \/ CollectProperties \/ CollectFails
    \/ WorkerUnlock \/ Killed

DetectionStep == StartThread \/ Publish \/ Drop

DtorStep == DtorLock \/ DtorKill \/ DtorJoined

HttpStep == HttpHistory \/ HttpLock \/ HttpUnlock \/ JsonBegin \/ JsonEnd

Next ==
    \/ /\ worker # "abort"
       /\ WorkerStep \/ Timeout \/ DetectionStep \/ DtorStep \/ HttpStep
    \/ Finished

(* A runnable thread runs.  The poll period is not assumed to end: what    *)
(* must end without it has to end because of kill().                       *)
Fairness ==
    /\ WF_vars(worker # "abort" /\ WorkerStep)
    /\ WF_vars(worker # "abort" /\ DtorStep)

Spec == Init /\ [][Next]_vars /\ Fairness

-----------------------------------------------------------------------------
(* What holds                                                              *)

Collecting == worker \in {"collect", "fill"}

(* A history request that takes the mutex (doGetHistory) never overlaps a  *)
(* collect(): it cannot see a row that is still being filled, nor read the *)
(* vector while nextValue() moves it.  A row that a failing collect() left *)
(* with the values of the one before it stays, and is read like any other. *)
LockedReadExclusive == http = "read" => ~Collecting

(* What the missing synchronisation of the destructor can hurt, and what   *)
(* it cannot.  A collector that holds a reference to its service for the   *)
(* time of collect() is whole until collect() returns, whenever            *)
(* addService() lets go of the service; one that holds none may be caught  *)
(* while its derived part is destroyed, but never once ~Collector() has    *)
(* the mutex; and only a service that addService() dropped is hit, never   *)
(* one that requests can reach.                                            *)
HarmConfined ==
    /\ Collecting => dtor = "alive" \/ (dtor = "derived" /\ kind = "plain")
    /\ worker \in {"abort", "stuck"} => owner = "dropped"

(* While the object exists, values_count agrees with the rows it keeps and *)
(* the configured history is never exceeded, even when collect() throws    *)
(* between two resources.                                                  *)
HistoryBounded == dtor # "freed" => count = Len(v) /\ Len(v) <= History

(* timer.kill() makes the join prompt: once the destructor joins a thread  *)
(* that is not waiting for the destructor's own mutex, the object is freed *)
(* without the poll period having to end.                                  *)
JoinReturns == (dtor = "join" /\ worker # "acquire") ~> (dtor = "freed")

-----------------------------------------------------------------------------
(* What the code says of itself and does not keep                          *)

(* The destructor holds the mutex while it joins, so a thread between      *)
(* while(active) and the locker is waited for forever.                     *)
DestructorDeadlocked == dtor = "join" /\ worker = "acquire"

(* active is cleared only in ~Collector(), after the derived part is gone. *)
CollectedDestroyed == worker = "abort"

(* The reference that collect() holds makes the polling thread destroy its *)
(* own collector and wait for the mutex it holds.                          *)
DestroysItself == worker = "stuck"

(* "if we've been locked by the destructor..." (startThread): the polling  *)
(* thread is expected to get the mutex after the destructor, to find       *)
(* active cleared and to leave the object alone.  There are three ways out *)
(* of that expectation.                                                    *)
DestructionIsSafe == ~(DestructorDeadlocked \/ CollectedDestroyed \/ DestroysItself)
=============================================================================
