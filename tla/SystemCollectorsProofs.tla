----------------------- MODULE SystemCollectorsProofs -----------------------
(***************************************************************************)
(* What the collectors publish, for every set of items, every width of a   *)
(* counter and every cap.                                                  *)
(***************************************************************************)
EXTENDS SystemCollectors, FiniteSetTheorems, TLAPS

-----------------------------------------------------------------------------
(* The inductive invariant                                                 *)

(* TypeOK without the bounds of the sum.                                   *)
Types ==
    /\ kind \in Kinds /\ pc \in {"idle", "pass", "dead"}
    /\ items \subseteq Items /\ broken \subseteq Items
    /\ todo \subseteq Ids /\ (pc # "pass" => todo = {})
    /\ ressources \subseteq Ids
    /\ rows \in [Ids -> SUBSET Ids]
    /\ \A id \in Ids : rows[id] # {} => id \in ressources
    /\ count \in [Counters -> 0 .. MaxCount] /\ last \in [Counters -> 0 .. MaxCount]
    /\ old \in [Counters -> {None} \cup 0 .. MaxCount]
    /\ sum \in Int
    /\ ready \in BOOLEAN /\ changes \in 0 .. MaxChanges
    /\ made \subseteq ressources /\ got \subseteq Ids
    /\ missed \subseteq Items /\ born \subseteq Items /\ reused \in BOOLEAN
    /\ shut \in BOOLEAN /\ blind \in BOOLEAN /\ (shut => kind \in OneFile)

(* What a pass walks over, and the resources that its rows need.           *)
Shaped ==
    /\ todo \subseteq (IF kind \in Single THEN {Whole} ELSE Items)
    /\ ~PerItem /\ kind # "memory" => Whole \in ressources
    /\ kind = "memory" => {Whole, Swap} \subseteq ressources \/ (blind /\ Swap \notin ressources)

(* A cpu without a resource is one that has appeared since the constructor *)
(* looked, if it could.                                                    *)
Noticed ==
    /\ kind \in Declaring /\ ~blind => items \cup todo \subseteq ressources \cup born
    /\ pc = "dead" => kind \in Opening /\ (blind \/ (kind \in Declaring /\ born # {}))

(* A row holds nothing but its own value, which the pass has read, unless  *)
(* it is the row of all zones, or of mem.lua.                              *)
OwnRows ==
    kind \notin {"thermal", "mem.lua"} =>
        made \subseteq got /\ \A id \in Ids : rows[id] \subseteq {id}

(* A zone is still to be read, was read, or was not there.                 *)
Zones ==
    kind = "thermal" =>
        /\ pc = "pass" => made # {} /\ Items \ items \subseteq missed
        /\ made \subseteq {Whole} /\ rows[Whole] \subseteq Items \cup {Whole}
        /\ made # {} => Items \subseteq got \cup missed \cup todo

(* What one process may add to the sum, times those that were read.        *)
Most == MaxCount * (Cardinality(Items) - Cardinality(todo))

Summed ==
    /\ ~Adding => sum = 0
    /\ Adding => -Most <= sum /\ sum <= Most
    /\ ~reused => sum >= 0
    /\ Adding /\ ~reused => \A i \in Items : old[i] <= count[i]

(* cpuuse remembers what it has read of the counters at its last pass.     *)
Kept(c, n) == IF c = "iowait" /\ n % Width > Cap THEN 0 ELSE n % Width

Remembered ==
    kind = "cpuuse" => \A c \in Counters : last[c] <= count[c] /\ old[c] = Kept(c, last[c])

Ind == Types /\ Shaped /\ Noticed /\ OwnRows /\ Zones /\ Summed /\ Remembered

-----------------------------------------------------------------------------
(* The collector stays the one it is, and its counters with it.            *)
LEMMA SameKind ==
    ASSUME kind' = kind
    PROVE  /\ Counters' = Counters /\ (Adding' <=> Adding) /\ (PerItem' <=> PerItem)
           /\ (RowFirst' <=> RowFirst)
BY DEF Counters, Adding, PerItem, RowFirst

(* Which collector has which counters.                                     *)
LEMMA CountersAre ==
    /\ kind = "cpuuse" => Counters = {"busy", "iowait"} /\ ~Adding
    /\ Adding => Counters = Items
    /\ kind # "cpuuse" /\ ~Adding => Counters = {}
BY DEF Counters, Adding

(* A process that was read, or that is gone, may have added to the sum.    *)
LEMMA MostGrows ==
    ASSUME todo \subseteq Items, NEW i \in todo, todo' = todo \ {i}
    PROVE  Most \in Nat /\ Most' = Most + MaxCount
<1> DEFINE n == Cardinality(Items)
           t == Cardinality(todo)
           s == Cardinality(todo')
<1>1. IsFiniteSet(Items) /\ MaxCount \in Nat
  BY CollectorsAssumption
<1>2. IsFiniteSet(todo) /\ t \in Nat /\ n \in Nat /\ t <= n
  BY <1>1, FS_Subset, FS_CardinalityType
<1>3. s = t - 1
  BY <1>2, FS_RemoveElement
<1> HIDE DEF n, t, s
<1>4. n - t \in Nat /\ n - s = (n - t) + 1
  BY <1>2, <1>3
<1>5. MaxCount * (n - t) \in Nat /\ MaxCount * (n - s) = MaxCount * (n - t) + MaxCount
  BY <1>1, <1>4
<1>. QED
  BY <1>5 DEF Most, n, t, s

(* The bound of the sum is a number, and the largest when all are read.    *)
LEMMA MostBounded ==
    ASSUME todo \subseteq Items
    PROVE  Most \in Nat /\ Most <= MaxCount * Cardinality(Items)
<1> DEFINE n == Cardinality(Items)
           t == Cardinality(todo)
<1>1. IsFiniteSet(Items) /\ MaxCount \in Nat
  BY CollectorsAssumption
<1>2. t \in Nat /\ n \in Nat /\ t <= n
  BY <1>1, FS_Subset, FS_CardinalityType
<1> HIDE DEF n, t
<1>3. n - t \in Nat /\ MaxCount * n = MaxCount * (n - t) + MaxCount * t
  BY <1>1, <1>2
<1>4. MaxCount * (n - t) \in Nat /\ MaxCount * t \in Nat
  BY <1>1, <1>2, <1>3
<1>. QED
  BY <1>3, <1>4 DEF Most, n, t

(* The constructor's state.                                                *)
LEMMA InitInd == ASSUME Init PROVE Ind
<1> USE CollectorsAssumption DEF Init
<1>1. items \subseteq Items /\ kind \in Kinds
  OBVIOUS
<1>2. Types
  <2>1. ressources \subseteq Ids
    BY <1>1 DEF Declared, Ids
  <2>2. broken \subseteq Items
    OBVIOUS
  <2>3. /\ count \in [Counters -> 0 .. MaxCount] /\ last \in [Counters -> 0 .. MaxCount]
        /\ old \in [Counters -> {None} \cup 0 .. MaxCount]
    OBVIOUS
  <2>4. rows \in [Ids -> SUBSET Ids] /\ \A id \in Ids : rows[id] = {}
    OBVIOUS
  <2>5. /\ pc = "idle" /\ todo = {} /\ sum = 0 /\ ready = FALSE /\ changes = 0
        /\ made = {} /\ got = {} /\ missed = {} /\ born = {} /\ reused = FALSE
        /\ shut \in BOOLEAN /\ blind \in BOOLEAN /\ (shut => kind \in OneFile)
    OBVIOUS
  <2>6. 0 \in Int /\ 0 \in 0 .. MaxChanges
    OBVIOUS
  <2>. QED
    BY <1>1, <2>1, <2>2, <2>3, <2>4, <2>5, <2>6 DEF Types
<1>3. Shaped /\ Noticed
  BY DEF Shaped, Noticed, Declared, PerItem, Declaring, Lazy, Single, Opening
<1>4. OwnRows /\ Zones
  BY DEF OwnRows, Zones, Ids
<1>5. Summed
  <2>1. Most \in Nat
    BY MostBounded
  <2>2. ~reused /\ sum = 0 /\ (Adding => \A i \in Items : old[i] <= count[i])
    BY CountersAre DEF None, Adding
  <2>. QED
    BY <2>1, <2>2 DEF Summed
<1>6. Remembered
  <2>1. 0 % Width = 0
    OBVIOUS
  <2>2. ASSUME kind = "cpuuse", NEW c \in Counters PROVE last[c] = 0 /\ count[c] = 0 /\ old[c] = 0
    BY <2>2
  <2>. QED
    BY <2>1, <2>2 DEF Remembered, Kept
<1>. QED
  BY <1>2, <1>3, <1>4, <1>5, <1>6 DEF Ind

(* An item appears: its counter starts again, and if its number was that   *)
(* of a process that is gone, the sum says nothing any more.               *)
LEMMA PlugInd == ASSUME Ind, NEW i \in Items, Plug(i) PROVE Ind'
<1> USE CollectorsAssumption DEF Plug, code
<1>1. Types /\ kind' = kind
  BY DEF Ind
<1>2. Counters' = Counters /\ (Adding' <=> Adding) /\ (PerItem' <=> PerItem)
  BY <1>1, SameKind
<1>3. count' \in [Counters -> 0 .. MaxCount]
  BY <1>1, CountersAre DEF Types
<1>4. Types'
  BY <1>1, <1>2, <1>3 DEF Types
<1>5. Shaped' /\ Noticed'
  BY <1>1, <1>2 DEF Ind, Shaped, Noticed
<1>6. OwnRows' /\ Zones'
  BY <1>1 DEF Ind, OwnRows, Zones
<1>7. Summed'
  <2>1. Summed /\ Most' = Most
    BY DEF Ind, Most
  <2>2. ASSUME Adding, ~reused', NEW j \in Items PROVE old'[j] <= count'[j]
    <3>1. old[j] <= count[j] /\ (j = i => old[j] = None)
      BY <2>1, <2>2 DEF Summed
    <3>2. count'[j] = IF j = i THEN 0 ELSE count[j]
      BY <1>1, <2>2, CountersAre DEF Types
    <3>. QED
      BY <3>1, <3>2 DEF None
  <2>. QED
    BY <1>2, <2>1, <2>2 DEF Summed
<1>8. Remembered'
  BY <1>1, <1>2, CountersAre DEF Ind, Remembered, Kept
<1>. QED
  BY <1>4, <1>5, <1>6, <1>7, <1>8 DEF Ind

(* An item goes.                                                           *)
LEMMA UnplugInd == ASSUME Ind, NEW i \in Items, Unplug(i) PROVE Ind'
<1> USE CollectorsAssumption DEF Unplug, code
<1>1. Types /\ kind' = kind
  BY DEF Ind
<1>2. Counters' = Counters /\ (Adding' <=> Adding) /\ (PerItem' <=> PerItem)
  BY <1>1, SameKind
<1>3. Types'
  BY <1>1, <1>2 DEF Types
<1>4. Shaped' /\ Noticed'
  BY <1>1, <1>2 DEF Ind, Shaped, Noticed
<1>5. OwnRows' /\ Zones'
  BY <1>1 DEF Ind, OwnRows, Zones
<1>6. Summed' /\ Remembered'
  BY <1>1, <1>2 DEF Ind, Summed, Most, Remembered, Kept
<1>. QED
  BY <1>3, <1>4, <1>5, <1>6 DEF Ind

(* The file opens no more, or again.                                       *)
LEMMA ShutInd == ASSUME Ind, Shut PROVE Ind'
<1> USE CollectorsAssumption DEF Shut, code
<1>1. Types /\ kind' = kind
  BY DEF Ind
<1>2. Counters' = Counters /\ (Adding' <=> Adding) /\ (PerItem' <=> PerItem)
  BY <1>1, SameKind
<1>3. Types'
  BY <1>1, <1>2 DEF Types
<1>4. Shaped' /\ Noticed'
  BY <1>1, <1>2 DEF Ind, Shaped, Noticed
<1>5. OwnRows' /\ Zones'
  BY <1>1 DEF Ind, OwnRows, Zones
<1>6. Summed' /\ Remembered'
  BY <1>1, <1>2 DEF Ind, Summed, Most, Remembered, Kept
<1>. QED
  BY <1>3, <1>4, <1>5, <1>6 DEF Ind

(* A pass that does not open the file.                                     *)
LEMMA UnopenedInd == ASSUME Ind, Unopened PROVE Ind'
<1> USE CollectorsAssumption DEF Unopened, code, world
<1>1. Types /\ kind' = kind
  BY DEF Ind
<1>2. Counters' = Counters /\ (Adding' <=> Adding) /\ (PerItem' <=> PerItem)
  BY <1>1, SameKind
<1>3. Types'
  BY <1>1, <1>2 DEF Types
<1>4. Shaped' /\ Noticed'
  BY <1>1, <1>2 DEF Ind, Shaped, Noticed
<1>5. OwnRows' /\ Zones'
  BY <1>1 DEF Ind, OwnRows, Zones
<1>6. Summed' /\ Remembered'
  BY <1>1, <1>2 DEF Ind, Summed, Most, Remembered, Kept
<1>. QED
  BY <1>3, <1>4, <1>5, <1>6 DEF Ind

(* A counter grows.                                                        *)
LEMMA TickInd == ASSUME Ind, NEW c \in Counters, Tick(c) PROVE Ind'
<1> USE CollectorsAssumption DEF Tick, code
<1>1. Types /\ kind' = kind
  BY DEF Ind
<1>2. Counters' = Counters /\ (Adding' <=> Adding) /\ (PerItem' <=> PerItem)
  BY <1>1, SameKind
<1>3. count' \in [Counters -> 0 .. MaxCount]
  BY <1>1 DEF Types
<1>4. Types'
  BY <1>1, <1>2, <1>3 DEF Types
<1>5. Shaped' /\ Noticed'
  BY <1>1, <1>2 DEF Ind, Shaped, Noticed
<1>6. OwnRows' /\ Zones'
  BY <1>1 DEF Ind, OwnRows, Zones
<1>7. \A d \in Counters : count'[d] >= count[d] /\ count[d] \in Nat /\ count'[d] \in Nat
  BY <1>1 DEF Types
<1>8. Summed'
  <2>1. Summed /\ Most' = Most
    BY DEF Ind, Most
  <2>2. ASSUME Adding, ~reused, NEW j \in Items PROVE old[j] <= count'[j]
    <3>1. old[j] <= count[j] /\ old[j] \in Int /\ j \in Counters
      BY <1>1, <2>1, <2>2, CountersAre DEF Summed, Types, None
    <3>. QED
      BY <1>7, <3>1
  <2>. QED
    BY <1>2, <2>1, <2>2 DEF Summed
<1>9. Remembered'
  <2>1. ASSUME kind = "cpuuse", NEW d \in Counters PROVE last[d] <= count'[d] /\ old[d] = Kept(d, last[d])
    <3>1. last[d] <= count[d] /\ old[d] = Kept(d, last[d]) /\ last[d] \in Nat
      BY <1>1, <2>1 DEF Ind, Remembered, Types
    <3>. QED
      BY <1>7, <3>1
  <2>. QED
    BY <1>1, <1>2, <2>1 DEF Remembered, Kept
<1>. QED
  BY <1>4, <1>5, <1>6, <1>8, <1>9 DEF Ind

(* A pass begins.                                                          *)
LEMMA PollInd == ASSUME Ind, Poll PROVE Ind'
<1> USE CollectorsAssumption DEF Poll, world
<1>1. Types /\ kind' = kind
  BY DEF Ind
<1>2. /\ Counters' = Counters /\ (Adding' <=> Adding) /\ (PerItem' <=> PerItem)
  BY <1>1, SameKind
<1>3. ASSUME kind = "cpuuse", NEW c \in Counters
      PROVE  /\ Live(c) = Kept(c, count[c]) /\ Live(c) \in 0 .. MaxCount
             /\ count[c] \in 0 .. MaxCount
  <2>1. count[c] \in Nat /\ count[c] <= MaxCount
    BY <1>1, <1>3 DEF Types
  <2>2. count[c] % Width \in Nat /\ count[c] % Width <= count[c]
    BY <2>1
  <2>. QED
    BY <2>1, <2>2 DEF Live, Kept
<1>4. old' \in [Counters -> {None} \cup 0 .. MaxCount] /\ last' \in [Counters -> 0 .. MaxCount]
  BY <1>1, <1>3 DEF Types
<1>5. todo' \subseteq IF kind \in Single THEN {Whole} ELSE Items
  BY <1>1 DEF Types
<1>6. made' \subseteq ressources
  BY <1>1 DEF Ind, Shaped, RowFirst, PerItem, Declaring, Lazy
<1>7. Types'
  <2>1. todo' \subseteq Ids /\ ready' \in BOOLEAN /\ sum' \in Int /\ pc' = "pass"
        /\ got' = {} /\ missed' \subseteq Items
    BY <1>1, <1>5 DEF Types, Ids
  <2>. QED
    BY <1>1, <1>2, <1>4, <1>6, <2>1 DEF Types
<1>8. Shaped' /\ Noticed'
  BY <1>1, <1>2, <1>5 DEF Ind, Shaped, Noticed, Declaring, Single
<1>9. OwnRows'
  BY <1>1 DEF Ind, OwnRows, RowFirst
<1>10. Zones'
  BY <1>1 DEF Ind, Zones, Types, Single, RowFirst
<1>11. Summed'
  <2>1. Adding => todo' \subseteq Items /\ kind # "cpuuse" /\ old' = old
    BY <1>5 DEF Adding, Single
  <2>2. Adding => Most' \in Nat
    <3>1. ASSUME Adding PROVE Most' \in Nat
      <4>1. IsFiniteSet(todo') /\ Cardinality(todo') \in Nat /\ Cardinality(Items) \in Nat
            /\ Cardinality(todo') <= Cardinality(Items) /\ MaxCount \in Nat
        BY <2>1, <3>1, FS_Subset, FS_CardinalityType
      <4>. QED
        BY <4>1 DEF Most
    <3>. QED
      BY <3>1
  <2>. QED
    BY <1>2, <2>1, <2>2 DEF Ind, Summed
<1>12. Remembered'
  <2>1. ASSUME kind = "cpuuse", NEW c \in Counters
        PROVE  last'[c] <= count[c] /\ old'[c] = Kept(c, last'[c])
    <3>1. last'[c] = count[c] /\ old'[c] = Live(c)
      BY <2>1
    <3>. QED
      BY <1>3, <2>1, <3>1
  <2>. QED
    BY <1>2, <2>1 DEF Remembered, Kept
<1>. QED
  BY <1>7, <1>8, <1>9, <1>10, <1>11, <1>12 DEF Ind

(* The end of a pass.                                                      *)
LEMMA FinishInd == ASSUME Ind, Finish PROVE Ind'
<1> USE CollectorsAssumption DEF Finish, world
<1>1. Types /\ kind' = kind
  BY DEF Ind
<1>2. Counters' = Counters /\ (Adding' <=> Adding) /\ (PerItem' <=> PerItem)
  BY <1>1, SameKind
<1>3. \/ /\ kind \in OfService /\ Whole \in ressources
         /\ rows' = [rows EXCEPT ![Whole] = @ \cup {Whole}]
         /\ made' = made \cup {Whole} /\ got' = got \cup {Whole}
      \/ UNCHANGED <<rows, made, got>>
  BY DEF Publish, Ind, Shaped, OfService, Adding, PerItem, Declaring, Lazy
<1>4. Types'
  <2>1. Whole \in Ids /\ ready' \in BOOLEAN
    BY <1>1 DEF Ids, Types
  <2>. QED
    BY <1>1, <1>2, <1>3, <2>1 DEF Types
<1>5. Shaped' /\ Noticed'
  BY <1>1, <1>2 DEF Ind, Shaped, Noticed
<1>6. OwnRows'
  BY <1>1, <1>3 DEF Ind, OwnRows, Types
<1>7. Zones'
  BY <1>1, <1>3 DEF Ind, Zones, OfService
<1>8. Summed' /\ Remembered'
  BY <1>1, <1>2 DEF Ind, Summed, Most, Remembered, Kept
<1>. QED
  BY <1>4, <1>5, <1>6, <1>7, <1>8 DEF Ind

(* The agent is started again: the constructor sees what there is now.     *)
LEMMA RestartInd == ASSUME Ind, Restart PROVE Ind'
<1> USE CollectorsAssumption DEF Restart
<1>1. Types /\ kind' = kind /\ kind \in Opening /\ todo = {} /\ todo' = {}
  BY DEF Ind, Types, Noticed
<1>2. Counters' = Counters /\ (Adding' <=> Adding) /\ (PerItem' <=> PerItem)
  BY <1>1, SameKind
<1>3. /\ ressources' = Declared /\ items' = items /\ ~Adding /\ Declared \subseteq Ids
      /\ Declared = IF shut THEN {} ELSE IF kind = "memory" THEN {Whole, Swap} ELSE items
      /\ ~PerItem => kind = "memory"
  <2>1. ~Adding /\ (~PerItem => kind = "memory")
    BY <1>1 DEF PerItem, Adding, Declaring, Opening
  <2>2. Declared = IF shut THEN {} ELSE IF kind = "memory" THEN {Whole, Swap} ELSE items
    <3>1. CASE shut
      BY <1>1, <3>1 DEF Declared
    <3>2. CASE ~shut /\ kind \in Declaring
      BY <3>2 DEF Declared, Declaring, Lazy
    <3>3. CASE ~shut /\ kind = "memory"
      BY <3>3 DEF Declared, Declaring, Lazy
    <3>. QED
      BY <1>1, <3>1, <3>2, <3>3 DEF Opening
  <2>3. Declared \subseteq Ids
    BY <1>1, <2>2 DEF Types, Ids
  <2>. QED
    BY <2>1, <2>2, <2>3
<1>4. Types'
  <2>1. /\ old' \in [Counters -> {None} \cup 0 .. MaxCount]
        /\ last' \in [Counters -> 0 .. MaxCount]
        /\ rows' \in [Ids -> SUBSET Ids] /\ \A id \in Ids : rows'[id] = {}
    OBVIOUS
  <2>2. 0 \in Int /\ FALSE \in BOOLEAN
    OBVIOUS
  <2>. QED
    BY <1>1, <1>2, <1>3, <2>1, <2>2 DEF Types
<1>5. Shaped' /\ Noticed'
  BY <1>1, <1>2, <1>3 DEF Shaped, Noticed, Declaring
<1>6. OwnRows' /\ Zones'
  BY <1>1 DEF OwnRows, Zones, Declaring, Opening, Ids
<1>7. Summed'
  BY <1>2, <1>3 DEF Summed
<1>8. Remembered'
  <2>1. ASSUME kind = "cpuuse", NEW c \in Counters
        PROVE  last'[c] <= count[c] /\ old'[c] = Kept(c, last'[c])
    <3>1. last'[c] = 0 /\ old'[c] = 0 /\ count[c] \in Nat /\ 0 % Width = 0
      BY <1>1 DEF Types
    <3>. QED
      BY <3>1 DEF Kept
  <2>. QED
    BY <1>2, <2>1 DEF Remembered, Kept
<1>. QED
  BY <1>4, <1>5, <1>6, <1>7, <1>8 DEF Ind

-----------------------------------------------------------------------------
(* One item of a pass                                                      *)

(* What Visit does besides reading item i.                                 *)
Visiting(i) ==
    /\ pc = "pass" /\ i \in todo
    /\ missed' = IF pc' = "idle" THEN missed \cup (todo \cap Items) ELSE missed
    /\ UNCHANGED <<kind, world, last>>

(* A visit that reads no counter leaves the sums as they are: one item     *)
(* less is to be read, or none.                                            *)
LEMMA VisitSums ==
    ASSUME Ind, NEW i, Visiting(i), UNCHANGED <<old, sum>>,
           todo' = todo \ {i} \/ todo' = {}
    PROVE  Summed' /\ Remembered'
<1> USE DEF Visiting, world
<1>1. Types /\ kind' = kind /\ Summed
  BY DEF Ind
<1>2. Counters' = Counters /\ (Adding' <=> Adding)
  BY <1>1, SameKind
<1>3. Remembered'
  BY <1>1, <1>2 DEF Ind, Remembered, Kept
<1>4. CASE ~Adding
  BY <1>1, <1>2, <1>3, <1>4 DEF Summed
<1>5. CASE Adding
  <2>1. todo \subseteq Items /\ sum \in Int /\ MaxCount \in Nat
    BY <1>1, <1>5, CollectorsAssumption DEF Ind, Shaped, Adding, Single, Types
  <2>2. Most \in Nat /\ Most' \in Nat /\ Most <= Most'
    <3>1. CASE todo' = todo \ {i}
      BY <2>1, <3>1, MostGrows
    <3>2. CASE todo' = {}
      <4>1. Most' = MaxCount * Cardinality(Items) /\ Most' \in Nat
        BY <2>1, <3>2, CollectorsAssumption, FS_EmptySet, FS_CardinalityType DEF Most
      <4>. QED
        BY <2>1, <4>1, MostBounded
    <3>. QED
      BY <3>1, <3>2
  <2>3. -Most' <= sum /\ sum <= Most'
    <3>1. -Most <= sum /\ sum <= Most
      BY <1>1, <1>5 DEF Summed
    <3>2. \A m \in Nat, n \in Nat : m <= n /\ -m <= sum /\ sum <= m => -n <= sum /\ sum <= n
      BY <2>1
    <3>. QED
      BY <2>2, <3>1, <3>2
  <2>. QED
    BY <1>1, <1>2, <1>3, <1>5, <2>3 DEF Summed
<1>. QED
  BY <1>4, <1>5

(* A visit after which the pass goes on with one item less and the same    *)
(* resources.                                                              *)
LEMMA VisitDone ==
    ASSUME Ind, NEW i, Visiting(i), Done(i), ressources \subseteq ressources',
           ressources' \subseteq ressources \cup {i},
           rows' \in [Ids -> SUBSET Ids], \A id \in Ids : rows'[id] # {} => id \in ressources',
           made' \subseteq ressources', got' \subseteq Ids,
           old' \in [Counters -> {None} \cup 0 .. MaxCount], sum' \in Int, ready' \in BOOLEAN
    PROVE  Types' /\ Shaped' /\ Noticed' /\ missed' = missed
<1> USE DEF Visiting, Done, world
<1>1. Types /\ kind' = kind
  BY DEF Ind
<1>2. Counters' = Counters /\ (PerItem' <=> PerItem)
  BY <1>1, SameKind
<1>3. i \in Ids /\ pc' = "pass" /\ missed' = missed
  BY <1>1 DEF Types
<1>4. Types'
  BY <1>1, <1>2, <1>3 DEF Types
<1>5. kind = "memory" => i # Swap
  BY CollectorsAssumption DEF Ind, Shaped, Single
<1>6. Shaped'
  BY <1>1, <1>2, <1>3, <1>5 DEF Ind, Shaped
<1>7. Noticed'
  BY <1>1, <1>2, <1>3 DEF Ind, Noticed
<1>. QED
  BY <1>3, <1>4, <1>6, <1>7

(* A row of its own for what is read, in a resource that exists or is made *)
(* for it.                                                                 *)
LEMMA PublishOwn ==
    ASSUME Ind, NEW i, Visiting(i), Done(i), NEW id \in Ids, Publish(id, {id}),
           kind \notin OfService \cup {"thermal"},
           id \in ressources', ressources \subseteq ressources',
           ressources' \subseteq ressources \cup {i}, UNCHANGED <<old, sum, ready>>
    PROVE  Ind'
<1> USE DEF Publish
<1>1. Types /\ kind' = kind
  BY DEF Ind, Visiting
<1>2. /\ rows' \in [Ids -> SUBSET Ids] /\ \A j \in Ids : rows'[j] # {} => j \in ressources'
      /\ made' \subseteq ressources' /\ got' \subseteq Ids
      /\ old' \in [Counters -> {None} \cup 0 .. MaxCount] /\ sum' \in Int /\ ready' \in BOOLEAN
  BY <1>1 DEF Types
<1>3. Types' /\ Shaped' /\ Noticed'
  BY <1>2, VisitDone
<1>4. Summed' /\ Remembered'
  BY VisitSums DEF Done
<1>5. kind \notin {"thermal", "mem.lua"}
  BY DEF OfService
<1>6. OwnRows'
  BY <1>1, <1>5 DEF Ind, OwnRows, Types
<1>7. Zones'
  BY <1>1, <1>5 DEF Zones
<1>. QED
  BY <1>3, <1>4, <1>6, <1>7 DEF Ind

(* Nothing is read of the item, and nothing published.                     *)
LEMMA PassBy ==
    ASSUME Ind, NEW i, Visiting(i), Done(i), UNCHANGED <<code, made, got>>,
           kind = "thermal" => i \notin items
    PROVE  Ind'
<1> USE DEF code
<1>1. Types /\ kind' = kind /\ items' = items
  BY DEF Ind, Visiting, world
<1>2. Types' /\ Shaped' /\ Noticed' /\ missed' = missed
  BY <1>1, VisitDone DEF Types
<1>3. Summed' /\ Remembered'
  BY VisitSums DEF Done
<1>4. OwnRows'
  BY <1>1 DEF Ind, OwnRows
<1>5. Zones'
  <2>1. CASE kind = "thermal"
    <3>1. i \in Items /\ i \in missed /\ pc' = pc
      BY <1>1, <2>1 DEF Ind, Zones, Shaped, Visiting, Done, Single
    <3>. QED
      BY <1>1, <1>2, <2>1, <3>1 DEF Ind, Zones, Done
  <2>2. CASE kind # "thermal"
    BY <1>1, <2>2 DEF Zones
  <2>. QED
    BY <2>1, <2>2
<1>. QED
  BY <1>2, <1>3, <1>4, <1>5 DEF Ind

(* cpuuse and cpuspeed.lua: a cpu of the constructor, or a crash.          *)
LEMMA ReadDeclaredInd == ASSUME Ind, NEW i, Visiting(i), ReadDeclared(i) PROVE Ind'
<1>1. /\ Types /\ kind' = kind /\ kind \in Declaring /\ i \in Ids /\ i \in todo
      /\ UNCHANGED <<ressources, old, sum, ready>>
  BY DEF Ind, Visiting, ReadDeclared, Types
<1>2. CASE i \in ressources /\ Publish(i, {i}) /\ Done(i)
  <2>1. kind \notin OfService \cup {"thermal"}
    BY <1>1 DEF Declaring, OfService
  <2>. QED
    BY <1>1, <1>2, <2>1, PublishOwn
<1>3. CASE i \notin ressources /\ NullPointer
  <2> USE DEF NullPointer, Visiting, world
  <2>1. Counters' = Counters /\ (PerItem' <=> PerItem) /\ PerItem /\ ~Adding
    BY <1>1, SameKind DEF PerItem, Adding, Declaring
  <2>2. /\ blind \/ born # {}
        /\ born' = born /\ pc' = "dead" /\ missed' = missed /\ kind \in Opening
    BY <1>1, <1>3 DEF Ind, Noticed, Opening
  <2>3. Types'
    BY <1>1, <1>3, <2>1, <2>2 DEF Types
  <2>4. Shaped' /\ Noticed'
    BY <1>1, <1>3, <2>1, <2>2 DEF Ind, Shaped, Noticed
  <2>5. OwnRows' /\ Zones'
    BY <1>1, <1>3 DEF Ind, OwnRows, Zones, Declaring
  <2>6. Summed' /\ Remembered'
    BY <1>1, <1>3, <2>1, VisitSums
  <2>. QED
    BY <2>3, <2>4, <2>5, <2>6 DEF Ind
<1>. QED
  BY <1>2, <1>3 DEF ReadDeclared

(* cpuload and uptime.                                                     *)
LEMMA ReadLineInd == ASSUME Ind, NEW i, Visiting(i), ReadLine(i) PROVE Ind'
<1>1. kind \in Single \ {"memory"} /\ kind \notin OfService \cup {"thermal"} /\ Whole \in Ids
  BY DEF ReadLine, Single, OfService, Ids
<1>2. Whole \in ressources
  BY <1>1 DEF Ind, Shaped, PerItem, Single, Declaring, Lazy
<1>. QED
  BY <1>1, <1>2, PublishOwn DEF ReadLine

(* memory: two rows, of two resources.                                     *)
LEMMA ReadMemoryInd == ASSUME Ind, NEW i, Visiting(i), ReadMemory(i) PROVE Ind'
<1>1. /\ Types /\ kind' = kind /\ kind = "memory" /\ Whole \in Ids /\ Swap \in Ids
      /\ UNCHANGED <<ressources, old, sum, ready>>
  BY DEF Ind, Visiting, Ids, ReadMemory
<1>2. CASE Swap \notin ressources /\ NullPointer
  <2> USE DEF NullPointer, Visiting, world
  <2>1. Counters' = Counters /\ (PerItem' <=> PerItem)
    BY <1>1, SameKind
  <2>2. /\ blind /\ blind' = blind /\ pc' = "dead" /\ missed' = missed /\ kind \in Opening
        /\ kind \notin Declaring
    BY <1>1, <1>2 DEF Ind, Shaped, Opening, Declaring
  <2>3. Types'
    BY <1>1, <1>2, <2>1, <2>2 DEF Types
  <2>4. Shaped' /\ Noticed'
    BY <1>1, <1>2, <2>1, <2>2 DEF Ind, Shaped, Noticed
  <2>5. OwnRows' /\ Zones'
    BY <1>1, <1>2 DEF Ind, OwnRows, Zones
  <2>6. Summed' /\ Remembered'
    BY <1>1, <1>2, VisitSums
  <2>. QED
    BY <2>3, <2>4, <2>5, <2>6 DEF Ind
<1> SUFFICES ASSUME Swap \in ressources,
                    rows' = [rows EXCEPT ![Swap] = @ \cup {Swap}, ![Whole] = @ \cup {Whole}],
                    made' = made \cup {Whole, Swap}, got' = got \cup {Whole, Swap}, Done(i)
             PROVE  Ind'
  BY <1>2 DEF ReadMemory
<1>12. Whole \in ressources
  BY <1>1 DEF Ind, Shaped
<1>3. \A id \in Ids : rows'[id] = IF id \in {Whole, Swap} THEN rows[id] \cup {id} ELSE rows[id]
  BY <1>1, CollectorsAssumption DEF Types
<1>4. rows' \in [Ids -> SUBSET Ids]
  BY <1>1 DEF Types
<1>5. Types' /\ Shaped' /\ Noticed'
  BY <1>1, <1>12, <1>3, <1>4, VisitDone DEF Types
<1>6. Summed' /\ Remembered'
  BY <1>1, VisitSums DEF Done
<1>7. made \subseteq got /\ \A id \in Ids : rows[id] \subseteq {id}
  BY <1>1 DEF Ind, OwnRows
<1>8. OwnRows'
  <2>1. made' \subseteq got' /\ Ids' = Ids
    BY <1>7 DEF Ids
  <2>2. \A id \in Ids : rows'[id] \subseteq {id}
    <3> TAKE id \in Ids
    <3>1. rows[id] \subseteq {id}
      BY <1>7
    <3>2. rows'[id] \subseteq rows[id] \cup {id}
      BY <1>3
    <3>. QED
      BY <3>1, <3>2
  <2>. QED
    BY <2>1, <2>2 DEF OwnRows
<1>9. Zones'
  BY <1>1 DEF Zones
<1>. QED
  BY <1>5, <1>6, <1>8, <1>9 DEF Ind

(* diskusage and cpuspeed: the resource is made when it is missing.        *)
LEMMA ReadLazyInd == ASSUME Ind, NEW i, Visiting(i), ReadLazy(i) PROVE Ind'
<1>1. i \in Ids /\ kind \notin OfService \cup {"thermal"}
  BY DEF Ind, Types, Visiting, ReadLazy, Lazy, OfService
<1>. QED
  BY <1>1, PublishOwn DEF ReadLazy, Seen

(* thermal: a zone, or one that has just lost its name.                    *)
LEMMA ReadZoneInd ==
    ASSUME Ind, NEW i, Visiting(i), ReadZone(i) \/ ReadNameless(i)
    PROVE  Ind'
<1> DEFINE what == IF i \in items THEN {i} ELSE {Whole}
<1>1. /\ kind = "thermal" /\ Publish(Whole, what) /\ Done(i)
      /\ UNCHANGED <<ressources, old, sum, ready>>
  BY DEF ReadZone, ReadNameless
<1>2. Types /\ kind' = kind /\ items' = items /\ pc' = pc /\ pc = "pass"
  BY <1>1 DEF Ind, Visiting, world, Done
<1>3. i \in Items /\ Whole \in Ids /\ what \subseteq Items \cup {Whole} /\ Items \subseteq Ids
  BY <1>1 DEF Ind, Shaped, Single, Visiting, Ids
<1>4. Whole \in ressources
  BY <1>1 DEF Ind, Shaped, PerItem, Declaring, Lazy
<1>5. i \in items => i \in what
  OBVIOUS
<1> HIDE DEF what
<1>6. rows' \in [Ids -> SUBSET Ids] /\ rows'[Whole] = rows[Whole] \cup what
  BY <1>1, <1>2, <1>3 DEF Publish, Types, Ids
<1>7. \A id \in Ids : rows'[id] # {} => id \in ressources'
  BY <1>1, <1>2, <1>4 DEF Publish, Types
<1>8. made' \subseteq ressources' /\ got' \subseteq Ids
  BY <1>1, <1>2, <1>3, <1>4 DEF Publish, Types, Ids
<1>9. Types' /\ Shaped' /\ Noticed' /\ missed' = missed
  BY <1>1, <1>2, <1>6, <1>7, <1>8, VisitDone DEF Types
<1>10. Summed' /\ Remembered'
  BY <1>1, VisitSums DEF Done
<1>11. Zones'
  <2>1. Zones
    BY DEF Ind
  <2>2. i \in items \/ i \in missed
    BY <1>1, <1>2, <1>3, <2>1 DEF Zones
  <2>3. Items \ items \subseteq missed /\ Items \subseteq got' \cup missed \cup todo'
    <3>1. Items \ items \subseteq missed /\ Items \subseteq got \cup missed \cup todo
      BY <1>1, <1>2, <2>1 DEF Zones
    <3>. QED
      BY <1>1, <1>5, <2>2, <3>1 DEF Publish, Done
  <2>. QED
    BY <1>1, <1>2, <1>3, <1>6, <1>9, <2>1, <2>3 DEF Zones, Publish
<1>12. OwnRows'
  BY <1>1, <1>2 DEF OwnRows
<1>. QED
  BY <1>9, <1>10, <1>11, <1>12 DEF Ind

(* The counters of a process of the service: what it adds to the sum is    *)
(* within one MaxCount, and not negative unless its number was reused.     *)
LEMMA ReadProcessInd == ASSUME Ind, NEW i, Visiting(i), ReadProcess(i) PROVE Ind'
<1>1. /\ Types /\ kind' = kind /\ kind \in OfService /\ Done(i) /\ todo' = todo \ {i}
      /\ UNCHANGED <<ressources, rows, made, got>> /\ reused' = reused /\ count' = count
  BY DEF Ind, Visiting, ReadProcess, Done, world
<1>2. Counters' = Counters /\ (Adding' <=> Adding)
  BY <1>1, SameKind
<1>3. todo \subseteq Items /\ i \in Items /\ i \in todo
  BY <1>1 DEF Ind, Shaped, Visiting, OfService, Single
<1>4. OwnRows' /\ Zones'
  BY <1>1 DEF Ind, OwnRows, Zones, OfService
<1>5. CASE ~Adding
  <2>1. UNCHANGED <<sum, old, ready>>
    BY <1>5 DEF ReadProcess
  <2>2. Types' /\ Shaped' /\ Noticed'
    BY <1>1, <2>1, VisitDone DEF Types
  <2>3. Summed' /\ Remembered'
    BY <1>1, <2>1, VisitSums
  <2>. QED
    BY <1>4, <2>2, <2>3 DEF Ind
<1>6. CASE Adding
  <2>1. /\ Counters = Items /\ count[i] \in 0 .. MaxCount /\ MaxCount \in Nat
        /\ old[i] = None \/ old[i] \in 0 .. MaxCount
        /\ sum \in Int
    BY <1>1, <1>3, <1>6, CountersAre, CollectorsAssumption DEF Types
  <2>2. /\ sum' = IF old[i] = None THEN sum ELSE sum + (count[i] - old[i])
        /\ old' = [old EXCEPT ![i] = count[i]]
        /\ ready' = (ready \/ (kind = "io.lua" /\ old[i] # None))
    BY <1>6 DEF ReadProcess
  <2>3. old' \in [Counters -> {None} \cup 0 .. MaxCount] /\ sum' \in Int /\ ready' \in BOOLEAN
    <3>1. sum' \in Int
      BY <2>1, <2>2 DEF None
    <3>2. old' \in [Counters -> {None} \cup 0 .. MaxCount]
      BY <1>1, <2>1, <2>2 DEF Types
    <3>3. ready' \in BOOLEAN
      BY <1>1, <2>2 DEF Types
    <3>. QED
      BY <3>1, <3>2, <3>3
  <2>4. Types' /\ Shaped' /\ Noticed'
    BY <1>1, <2>3, VisitDone DEF Types
  <2>5. Summed'
    <3>1. Most \in Nat /\ Most' = Most + MaxCount
      BY <1>1, <1>3, MostGrows
    <3>2. -Most <= sum /\ sum <= Most
      BY <1>6 DEF Ind, Summed
    <3>3. -Most' <= sum' /\ sum' <= Most'
      BY <2>1, <2>2, <3>1, <3>2
    <3>4. ASSUME ~reused PROVE sum' >= 0 /\ \A j \in Items : old'[j] <= count[j]
      <4>1. sum >= 0 /\ \A j \in Items : old[j] <= count[j]
        BY <1>6, <3>4 DEF Ind, Summed
      <4>2. sum' >= 0
        BY <1>3, <2>1, <2>2, <4>1
      <4>3. \A j \in Items : old'[j] = IF j = i THEN count[i] ELSE old[j]
        BY <1>1, <2>1, <2>2 DEF Types
      <4>4. count[i] <= count[i]
        BY <2>1
      <4>. QED
        BY <4>1, <4>2, <4>3, <4>4
    <3>. QED
      BY <1>1, <1>2, <1>6, <3>3, <3>4 DEF Summed
  <2>6. Remembered'
    BY <1>1, <1>6 DEF Remembered, Adding
  <2>. QED
    BY <1>4, <2>4, <2>5, <2>6 DEF Ind
<1>. QED
  BY <1>5, <1>6

(* The pass ends with an exception: the items that are left were missed.   *)
LEMMA ThrowInd == ASSUME Ind, NEW i, Visiting(i), Throw(i) PROVE Ind'
<1> USE DEF Throw, code
<1>1. /\ Types /\ kind' = kind /\ kind \notin Declaring
      /\ pc' = "idle" /\ todo' = {} /\ missed' = missed \cup (todo \cap Items)
      /\ UNCHANGED <<ressources, rows, old, sum, ready, made, got, world, last>>
  BY DEF Ind, Visiting, Declaring, OfService
<1>2. Counters' = Counters /\ (PerItem' <=> PerItem)
  BY <1>1, SameKind
<1>3. Types'
  BY <1>1, <1>2 DEF Types, world
<1>4. Shaped' /\ Noticed'
  BY <1>1, <1>2 DEF Ind, Shaped, Noticed, world, Declaring
<1>5. OwnRows'
  BY <1>1 DEF Ind, OwnRows
<1>6. Zones'
  BY <1>1 DEF Ind, Zones
<1>7. Summed' /\ Remembered'
  BY <1>1, <1>2, VisitSums
<1>. QED
  BY <1>3, <1>4, <1>5, <1>6, <1>7 DEF Ind

(* Every step of the machine and of the collector.                         *)
LEMMA NextInd == ASSUME Ind, [Next]_vars PROVE Ind'
<1>1. CASE UNCHANGED vars
  <2>1. /\ UNCHANGED <<kind, pc, items, broken, todo, ressources, rows, count, old, sum>>
        /\ UNCHANGED <<ready, changes, made, got, missed, born, last, reused, shut, blind>>
    BY <1>1 DEF vars, code, world
  <2>2. Counters' = Counters /\ (Adding' <=> Adding) /\ (PerItem' <=> PerItem)
    BY <2>1, SameKind
  <2>3. Types' /\ Shaped' /\ Noticed'
    BY <2>1, <2>2 DEF Ind, Types, Shaped, Noticed
  <2>4. OwnRows' /\ Zones' /\ Summed' /\ Remembered'
    BY <2>1, <2>2 DEF Ind, OwnRows, Zones, Summed, Most, Remembered, Kept
  <2>. QED
    BY <2>3, <2>4 DEF Ind
<1>2. ASSUME NEW i \in Ids, Visit(i) PROVE Ind'
  <2>1. Visiting(i)
    BY <1>2 DEF Visit, Visiting
  <2>2. CASE ReadDeclared(i)
    BY <2>1, <2>2, ReadDeclaredInd
  <2>3. CASE ReadLine(i) \/ ReadMemory(i) \/ ReadLazy(i)
    BY <2>1, <2>3, ReadLineInd, ReadMemoryInd, ReadLazyInd
  <2>4. CASE ReadZone(i) \/ ReadNameless(i)
    BY <2>1, <2>4, ReadZoneInd
  <2>5. CASE ReadProcess(i)
    BY <2>1, <2>5, ReadProcessInd
  <2>6. CASE Skip(i)
    <3>1. /\ Done(i) /\ UNCHANGED <<code, made, got>>
          /\ kind = "thermal" => i \notin items
      BY <2>6 DEF Skip
    <3>. QED
      BY <2>1, <3>1, PassBy
  <2>7. CASE Throw(i)
    BY <2>1, <2>7, ThrowInd
  <2>. QED
    BY <1>2, <2>2, <2>3, <2>4, <2>5, <2>6, <2>7 DEF Visit
<1>. QED
  BY <1>1, <1>2, PollInd, UnopenedInd, FinishInd, RestartInd, PlugInd, UnplugInd, ShutInd, TickInd
  DEF Next, Collect

(* The invariant holds however the items come and go.                      *)
THEOREM CollectorsInvariant == Spec => []Ind
<1>1. Init => Ind
  BY InitInd
<1>2. Ind /\ [Next]_vars => Ind'
  BY NextInd
<1>. QED
  BY <1>1, <1>2, PTL DEF Spec

(* The sum of a pass is within the bound of all processes.                 *)
LEMMA IndTypeOK == ASSUME Ind PROVE TypeOK
<1>1. Types /\ Summed
  BY DEF Ind
<1> DEFINE top == MaxCount * Cardinality(Items)
<1>2. top \in Nat /\ MaxCount \in Nat /\ -MaxCount * Cardinality(Items) = -top
  <2>1. MaxCount \in Nat /\ Cardinality(Items) \in Nat
    BY CollectorsAssumption, FS_CardinalityType
  <2>. QED
    BY <2>1
<1>3. Adding => Most \in Nat /\ Most <= top
  BY MostBounded DEF Ind, Shaped, Adding, Single
<1> HIDE DEF top
<1>4. sum \in Int /\ -top <= sum /\ sum <= top /\ (~reused => 0 <= sum)
  BY <1>1, <1>2, <1>3 DEF Types, Summed
<1>5. sum \in (IF reused THEN -top ELSE 0) .. top
  BY <1>2, <1>4
<1>6. sum \in (IF reused THEN -MaxCount * Cardinality(Items) ELSE 0) .. MaxCount * Cardinality(Items)
  BY <1>2, <1>5 DEF top
<1>. QED
  BY <1>1, <1>6 DEF Types, TypeOK

(* What is in a row was read in the pass, or was missed.                   *)
LEMMA IndFresh == ASSUME Ind PROVE Fresh
<1>1. Types /\ OwnRows /\ Zones
  BY DEF Ind
<1>2. ASSUME pc = "idle", kind # "mem.lua", NEW id \in made
      PROVE  rows[id] \subseteq got \cup (IF kind = "thermal" THEN missed \cup {Whole} ELSE {})
  <2>1. id \in Ids /\ todo = {}
    BY <1>1, <1>2 DEF Types
  <2>2. CASE kind = "thermal"
    BY <1>1, <1>2, <2>1, <2>2 DEF Zones
  <2>3. CASE kind # "thermal"
    BY <1>1, <1>2, <2>1, <2>3 DEF OwnRows
  <2>. QED
    BY <2>2, <2>3
<1>. QED
  BY <1>2 DEF Fresh

(* The state of a collector has its type, and cpu.lua and io.lua publish   *)
(* no negative usage unless the number of a process was given away again.  *)
THEOREM CollectorsTypeCorrect == Spec => []TypeOK
BY CollectorsInvariant, IndTypeOK, PTL

(* A row that a pass leaves behind holds what this pass has read, whatever *)
(* disappears or fails meanwhile: nextValue() copies no old value into it. *)
THEOREM RowsAreFresh == Spec => []Fresh
BY CollectorsInvariant, IndFresh, PTL

(* collect() uses a null pointer only for a cpu that has appeared since    *)
(* the constructor looked, or after a constructor that could not open the  *)
(* file of cpuuse, memory or cpuspeed.lua; whatever else comes, goes or    *)
(* fails to open, the agent does not crash.                                *)
THEOREM CrashOnlyOnUnseenHolds == Spec => []CrashOnlyOnUnseen
<1>1. Ind => CrashOnlyOnUnseen
  BY DEF Ind, Noticed, CrashOnlyOnUnseen
<1>. QED
  BY <1>1, CollectorsInvariant, PTL

-----------------------------------------------------------------------------
(* The shares of cpuuse                                                    *)

(* Two readings of a counter modulo W that has grown by less than W.       *)
LEMMA WrapExact ==
    ASSUME NEW W \in Nat \ {0}, NEW b \in Nat, NEW c \in Nat, b <= c, c - b < W
    PROVE  (((c % W) + W) - (b % W)) % W = c - b
<1> DEFINE p == b \div W
           q == c \div W
           x == b % W
           y == c % W
           g == c - b
<1>1. p \in Int /\ q \in Int /\ x \in 0 .. W - 1 /\ y \in 0 .. W - 1
  OBVIOUS
<1>2. b = (W * p) + x /\ c = (W * q) + y /\ g \in 0 .. W - 1 /\ c = b + g
  OBVIOUS
<1> HIDE DEF p, q, x, y, g
<1>3. \A n \in Int : ((W * n) + g) % W = g
  BY <1>2
<1>4. (p - q) + 1 \in Int /\ (y + W) - x = (W * ((p - q) + 1)) + g
  BY <1>1, <1>2
<1>5. ((y + W) - x) % W = g
  BY <1>3, <1>4
<1>. QED
  BY <1>5 DEF x, y, g

(* A number below W is its own remainder.                                  *)
LEMMA SmallRemainder == ASSUME NEW W \in Nat \ {0}, NEW n \in 0 .. W - 1 PROVE n % W = n
OBVIOUS

(* The differences that a pass computes, from what the pass before has     *)
(* left.                                                                   *)
LEMMA SharesAreExact ==
    ASSUME Ind, kind = "cpuuse",
           (count["busy"] - last["busy"]) + (count["iowait"] - last["iowait"]) < Width
    PROVE  /\ Exact("busy")
           /\ ~Cut(count["iowait"]) /\ ~Cut(last["iowait"])
                 => Exact("iowait") /\ Total = (count["busy"] - last["busy"])
                                                + (count["iowait"] - last["iowait"])
           /\ Cut(count["iowait"]) /\ Cut(last["iowait"])
                 => Diff("iowait") = 0 /\ Total = count["busy"] - last["busy"]
<1> DEFINE a == last["busy"]
           b == last["iowait"]
           c == count["busy"]
           d == count["iowait"]
<1>1. Width \in Nat \ {0} /\ Cap \in Nat
  BY CollectorsAssumption
<1>2. /\ Counters = {"busy", "iowait"} /\ Remembered
      /\ count \in [Counters -> 0 .. MaxCount] /\ last \in [Counters -> 0 .. MaxCount]
  BY CountersAre DEF Ind, Types
<1>3. /\ a \in Nat /\ b \in Nat /\ c \in Nat /\ d \in Nat /\ a <= c /\ b <= d
      /\ old["busy"] = Kept("busy", a) /\ old["iowait"] = Kept("iowait", b)
      /\ Live("busy") = Kept("busy", c) /\ Live("iowait") = Kept("iowait", d)
  BY <1>2, CollectorsAssumption DEF Remembered, Live, Kept
<1> HIDE DEF a, b, c, d
<1>4. (c - a) + (d - b) \in 0 .. Width - 1 /\ c - a \in 0 .. Width - 1 /\ d - b \in 0 .. Width - 1
  BY <1>1, <1>3 DEF a, b, c, d
<1>5. c - a < Width /\ d - b < Width
  BY <1>1, <1>3, <1>4
<1>6. Diff("busy") = c - a
  <2>1. Live("busy") = c % Width /\ old["busy"] = a % Width
    BY <1>3 DEF Kept
  <2>2. (((c % Width) + Width) - (a % Width)) % Width = c - a
    BY <1>1, <1>3, <1>5, WrapExact, Zenon
  <2>. QED
    BY <2>1, <2>2 DEF Diff
<1>7. ASSUME ~Cut(d), ~Cut(b) PROVE Diff("iowait") = d - b /\ Total = (c - a) + (d - b)
  <2>1. Live("iowait") = d % Width /\ old["iowait"] = b % Width
    BY <1>3, <1>7 DEF Kept, Cut
  <2>2. (((d % Width) + Width) - (b % Width)) % Width = d - b
    BY <1>1, <1>3, <1>5, WrapExact, Zenon
  <2>3. Diff("iowait") = d - b
    BY <2>1, <2>2 DEF Diff
  <2>4. ((c - a) + (d - b)) % Width = (c - a) + (d - b)
    BY <1>1, <1>4, SmallRemainder
  <2>. QED
    BY <1>6, <2>3, <2>4 DEF Total
<1>8. ASSUME Cut(d), Cut(b) PROVE Diff("iowait") = 0 /\ Total = c - a
  <2>1. Live("iowait") = 0 /\ old["iowait"] = 0
    BY <1>3, <1>8 DEF Kept, Cut
  <2>2. ((0 + Width) - 0) % Width = 0 /\ (c - a) + 0 = c - a /\ (c - a) % Width = c - a
    BY <1>1, <1>4, SmallRemainder
  <2>. QED
    BY <1>6, <2>1, <2>2 DEF Diff, Total
<1>. QED
  BY <1>3, <1>4, <1>6, <1>7, <1>8 DEF Exact, a, b, c, d

(* cpuTicks::setRaw(): the differences of a pass are the true ones also    *)
(* when a counter has passed its width, and so is the sum by which they    *)
(* are divided, for every width and every cap on iowait.                   *)
THEOREM SharesExactHolds == Spec => SharesExact
<1>1. Ind /\ [Next]_vars =>
        [Poll /\ kind = "cpuuse"
           /\ (count["busy"] - last["busy"]) + (count["iowait"] - last["iowait"]) < Width =>
           /\ Exact("busy")
           /\ ~Cut(count["iowait"]) /\ ~Cut(last["iowait"])
                 => Exact("iowait") /\ Total = (count["busy"] - last["busy"])
                                                + (count["iowait"] - last["iowait"])
           /\ Cut(count["iowait"]) /\ Cut(last["iowait"])
                 => Diff("iowait") = 0 /\ Total = count["busy"] - last["busy"]]_vars
  BY SharesAreExact
<1>. QED
  BY <1>1, CollectorsInvariant, PTL DEF Spec, SharesExact
=============================================================================
