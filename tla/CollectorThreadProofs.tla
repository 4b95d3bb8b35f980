------------------------ MODULE CollectorThreadProofs ------------------------
(***************************************************************************)
(* The safety of CollectorThread for every history size.  The invariants   *)
(* are not inductive alone: what makes them so is the agreement between    *)
(* the mutex and the three control points (MutexAgrees) and the life cycle *)
(* of the object (LifeCycle).                                              *)
(***************************************************************************)
EXTENDS CollectorThread, TLAPS

-----------------------------------------------------------------------------
(* The inductive invariant *)

(* Whoever is inside a locked section of the code holds Collector::lock.   *)
MutexAgrees ==
    /\ lock = "worker" <=> worker \in {"check", "enter", "collect", "fill",
                                       "release", "abort", "stuck"}
    /\ lock = "http" <=> http = "read"
    /\ lock = "dtor" <=> dtor \in {"locked", "join"}

(* Only a service that addService() dropped is destroyed, only a published *)
(* one is reached by a request, and no row is filled before it is added.   *)
LifeCycle ==
    /\ dtor # "alive" => owner = "dropped"
    /\ http # "idle" => owner = "published"
    /\ worker = "fill" => v # <<>>

(* join() keeps the members alive until the polling thread has left its    *)
(* loop.                                                                   *)
JoinSafe == dtor = "freed" => worker \in {"unstarted", "ended"}

Ind == TypeOK /\ MutexAgrees /\ LifeCycle /\ JoinSafe /\ HistoryBounded
       /\ HarmConfined

-----------------------------------------------------------------------------
(* Ressource::nextValue adds one row and keeps the bound.                  *)
LEMMA NextValueBounds ==
    ASSUME v \in Seq({"copied", "final"}), count = Len(v), Len(v) <= History,
           nextValue
    PROVE  /\ v' \in Seq({"copied", "final"})
           /\ v' # <<>>
           /\ count' = Len(v')
           /\ Len(v') <= History
           /\ count' \in Nat
<1> DEFINE w == Inserted(v)
<1>1. w \in Seq({"copied", "final"}) /\ Len(w) = Len(v) + 1
  BY DEF Inserted
<1>2. CASE Len(w) > History
  <2>1. v' = SubSeq(w, 1, History)
    BY <1>2 DEF nextValue, Resized
  <2>2. History \in 1..Len(w)
    BY <1>1, <1>2, HistoryAssumption
  <2>3. v' \in Seq({"copied", "final"}) /\ Len(v') = History
    BY <1>1, <2>1, <2>2
  <2>4. count' = (count + 1) - (Len(w) - Len(v'))
    BY DEF nextValue
  <2> HIDE DEF w
  <2> QED
    BY <1>1, <2>3, <2>4, HistoryAssumption
<1>3. CASE ~(Len(w) > History)
  <2>1. v' = w
    BY <1>3 DEF nextValue, Resized
  <2>2. count' = (count + 1) - (Len(w) - Len(v'))
    BY DEF nextValue
  <2> HIDE DEF w
  <2> QED
    BY <1>1, <1>3, <2>1, <2>2, HistoryAssumption
<1> QED
  BY <1>2, <1>3

(* Ressource::setProperty changes no length.                               *)
LEMMA SetPropertyKeepsLength ==
    ASSUME v \in Seq({"copied", "final"}), v # <<>>, setProperty
    PROVE  v' \in Seq({"copied", "final"}) /\ Len(v') = Len(v)
<1>1. v' = [v EXCEPT ![1] = "final"]
  BY DEF setProperty
<1> QED
  BY <1>1

-----------------------------------------------------------------------------
(* The constructor leaves the object in a state where Ind holds.           *)
LEMMA InitInd == Init => Ind
<1> SUFFICES ASSUME Init PROVE Ind
  OBVIOUS
<1>1. v \in Seq({"copied", "final"}) /\ Len(v) = 0 /\ count = 0
  BY DEF Init
<1>2. TypeOK
  <2>1. active \in BOOLEAN /\ terminate \in BOOLEAN
    BY Zenon DEF Init
  <2>2. count \in Nat
    BY <1>1
  <2> QED
    BY <1>1, <2>1, <2>2, Zenon DEF Init, TypeOK, Threads
<1>3. MutexAgrees /\ LifeCycle /\ JoinSafe /\ HarmConfined
  BY DEF Init, MutexAgrees, LifeCycle, JoinSafe, HarmConfined, Collecting
<1>4. HistoryBounded
  BY <1>1, HistoryAssumption DEF HistoryBounded
<1> QED
  BY <1>2, <1>3, <1>4 DEF Ind

(* Every step of every thread preserves Ind.                               *)
LEMMA NextInd == Ind /\ [Next]_vars => Ind'
<1> SUFFICES ASSUME Ind, [Next]_vars PROVE Ind'
  OBVIOUS
<1> USE DEF Ind
<1>1. CASE UNCHANGED vars
  BY <1>1 DEF vars, TypeOK, MutexAgrees, LifeCycle, JoinSafe, HistoryBounded,
     HarmConfined, Collecting
<1>2. CASE StartThread
  BY <1>2 DEF StartThread, TypeOK, Threads, MutexAgrees, LifeCycle, JoinSafe, HistoryBounded,
     HarmConfined, Collecting
<1>3. CASE TestActive
  BY <1>3 DEF TestActive, TypeOK, Threads, MutexAgrees, LifeCycle, JoinSafe, HistoryBounded,
     HarmConfined, Collecting
<1>4. CASE WorkerLock
  BY <1>4 DEF WorkerLock, TypeOK, Threads, MutexAgrees, LifeCycle, JoinSafe, HistoryBounded,
     HarmConfined, Collecting
<1>5. CASE CheckActive
  BY <1>5 DEF CheckActive, TypeOK, Threads, MutexAgrees, LifeCycle, JoinSafe, HistoryBounded,
     HarmConfined, Collecting
<1>6. CASE EnterCollect
  BY <1>6 DEF EnterCollect, TypeOK, Threads, MutexAgrees, LifeCycle, JoinSafe, HistoryBounded,
     HarmConfined, Collecting
<1>7. CASE OnDestroyedMembers
  BY <1>7 DEF OnDestroyedMembers, TypeOK, Threads, MutexAgrees, LifeCycle, JoinSafe, HistoryBounded,
     HarmConfined, Collecting
<1>8. CASE CollectRow
  <2>1. dtor # "freed"
    BY <1>8 DEF CollectRow, JoinSafe
  <2>2. /\ v' \in Seq({"copied", "final"}) /\ v' # <<>>
        /\ count' = Len(v') /\ Len(v') <= History /\ count' \in Nat
    BY <1>8, <2>1, NextValueBounds DEF CollectRow, TypeOK, HistoryBounded
  <2> QED
    BY <1>8, <2>1, <2>2 DEF CollectRow, TypeOK, MutexAgrees, LifeCycle, JoinSafe, HistoryBounded,
     HarmConfined, Collecting
<1>9. CASE CollectProperties
  <2>1. dtor # "freed"
    BY <1>9 DEF CollectProperties, JoinSafe
  <2>2. v' \in Seq({"copied", "final"}) /\ Len(v') = Len(v)
    BY <1>9, SetPropertyKeepsLength DEF CollectProperties, TypeOK, LifeCycle
  <2>3. count' = count
    BY <1>9 DEF CollectProperties, setProperty
  <2>4. worker' \in {"stuck", "release"} /\ dtor' \in {dtor, "derived"}
    BY <1>9 DEF CollectProperties, LeaveCollect
  <2> QED
    BY <1>9, <2>1, <2>2, <2>3, <2>4 DEF CollectProperties, LeaveCollect, TypeOK,
       MutexAgrees, LifeCycle, JoinSafe, HistoryBounded,
     HarmConfined, Collecting
<1>10. CASE CollectFails
  BY <1>10 DEF CollectFails, LeaveCollect, TypeOK, MutexAgrees, LifeCycle, JoinSafe, HistoryBounded,
     HarmConfined, Collecting
<1>11. CASE WorkerUnlock
  BY <1>11 DEF WorkerUnlock, TypeOK, Threads, MutexAgrees, LifeCycle, JoinSafe, HistoryBounded,
     HarmConfined, Collecting
<1>12. CASE Timeout \/ Killed
  BY <1>12 DEF Timeout, Killed, TypeOK, MutexAgrees, LifeCycle, JoinSafe, HistoryBounded,
     HarmConfined, Collecting
<1>13. CASE Publish
  BY <1>13 DEF Publish, TypeOK, MutexAgrees, LifeCycle, JoinSafe, HistoryBounded,
     HarmConfined, Collecting
<1>14. CASE Drop
  BY <1>14 DEF Drop, Pinned, TypeOK, MutexAgrees, LifeCycle, JoinSafe, HistoryBounded,
     HarmConfined, Collecting
<1>15. CASE DtorLock
  BY <1>15 DEF DtorLock, TypeOK, Threads, MutexAgrees, LifeCycle, JoinSafe, HistoryBounded,
     HarmConfined, Collecting
<1>16. CASE DtorKill
  BY <1>16 DEF DtorKill, TypeOK, MutexAgrees, LifeCycle, JoinSafe, HistoryBounded,
     HarmConfined, Collecting
<1>17. CASE DtorJoined
  BY <1>17 DEF DtorJoined, TypeOK, Threads, MutexAgrees, LifeCycle, JoinSafe, HistoryBounded,
     HarmConfined, Collecting
<1>18. CASE HttpHistory \/ JsonBegin \/ JsonEnd
  BY <1>18 DEF HttpHistory, JsonBegin, JsonEnd, TypeOK, MutexAgrees, LifeCycle,
     JoinSafe, HistoryBounded,
     HarmConfined, Collecting
<1>19. CASE HttpLock \/ HttpUnlock
  BY <1>19 DEF HttpLock, HttpUnlock, TypeOK, Threads, MutexAgrees, LifeCycle,
     JoinSafe, HistoryBounded,
     HarmConfined, Collecting
<1>20. CASE Finished
  BY <1>20, <1>1 DEF Finished
<1> QED
  BY <1>1, <1>2, <1>3, <1>4, <1>5, <1>6, <1>7, <1>8, <1>9, <1>10, <1>11, <1>12,
     <1>13, <1>14, <1>15, <1>16, <1>17, <1>18, <1>19, <1>20
     DEF Next, WorkerStep, DetectionStep, DtorStep, HttpStep

(* Ind holds in every reachable state.                                     *)
LEMMA IndInvariant == Spec => []Ind
  BY InitInd, NextInd, PTL DEF Spec

-----------------------------------------------------------------------------
(* A request under the collector's mutex never reads the rows while        *)
(* collect() writes them, whatever the detection thread does meanwhile.    *)
THEOREM LockedReadExclusiveHolds == Spec => []LockedReadExclusive
<1>1. Ind => LockedReadExclusive
  BY DEF Ind, MutexAgrees, LockedReadExclusive, Collecting
<1> QED
  BY <1>1, IndInvariant, PTL

(* Whatever instant addService() picks to drop a service, a collector that *)
(* pins its service is whole while it collects, no collector is entered    *)
(* once ~Collector() has the mutex, and a published one is never hit.      *)
THEOREM HarmConfinedHolds == Spec => []HarmConfined
<1>1. Ind => HarmConfined
  BY DEF Ind
<1> QED
  BY <1>1, IndInvariant, PTL

(* The rows never exceed the configured history and values_count follows   *)
(* them, for every history size.                                           *)
THEOREM HistoryBoundedHolds == Spec => []HistoryBounded
<1>1. Ind => HistoryBounded
  BY DEF Ind
<1> QED
  BY <1>1, IndInvariant, PTL

(* Type correctness of the collector's state.                              *)
THEOREM TypeCorrect == Spec => []TypeOK
<1>1. Ind => TypeOK
  BY DEF Ind
<1> QED
  BY <1>1, IndInvariant, PTL
=============================================================================
