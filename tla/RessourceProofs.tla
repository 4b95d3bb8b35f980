--------------------------- MODULE RessourceProofs ---------------------------
(***************************************************************************)
(* What the resources say is right for every history size, poll frequency, *)
(* word width and set of pids.                                             *)
(***************************************************************************)
EXTENDS Ressource, TLAPS

-----------------------------------------------------------------------------
(* Remainders                                                              *)

(* Two readings of a counter that has grown by g: what the remainders      *)
(* differ by is g without the times the counter went round.                *)
LEMMA RemainderGrowth ==
    ASSUME NEW W \in Nat \ {0}, NEW b \in Nat, NEW g \in Nat
    PROVE  \E k \in Nat : ((b + g) % W) - (b % W) = g - (W * k)
<1> DEFINE p == b \div W
           q == (b + g) \div W
           x == b % W
           y == (b + g) % W
<1>1. p \in Nat /\ q \in Nat /\ x \in 0 .. W - 1 /\ y \in 0 .. W - 1
  OBVIOUS
<1>2. b = (W * p) + x /\ b + g = (W * q) + y
  OBVIOUS
<1> HIDE DEF p, q, x, y
<1>3. y - x = g - (W * (q - p))
  BY <1>1, <1>2
<1>4. q >= p
  <2> SUFFICES ASSUME q < p PROVE FALSE
    BY <1>1
  <2>1. PICK n \in Nat : p = q + 1 + n
    <3>1. p - q - 1 \in Nat /\ p = q + 1 + (p - q - 1)
      BY <1>1
    <3>. QED
      BY <3>1
  <2>2. W * p = (W * q) + W + (W * n) /\ W * n \in Nat
    BY <2>1, <1>1
  <2>. QED
    BY <2>2, <1>1, <1>2
<1>5. q - p \in Nat
  BY <1>1, <1>4
<1>. QED
  BY <1>3, <1>5 DEF x, y

(* A difference that is counted only when it is positive never exceeds the *)
(* growth.                                                                 *)
LEMMA DifferenceBounded ==
    ASSUME NEW W \in Nat \ {0}, NEW b \in Nat, NEW g \in Nat
    PROVE  ((b + g) % W) - (b % W) <= g
<1>1. PICK k \in Nat : ((b + g) % W) - (b % W) = g - (W * k)
  BY RemainderGrowth
<1>2. W * k \in Nat
  OBVIOUS
<1>. QED
  BY <1>1, <1>2

(* The unsigned difference is the growth when that fits in the width.      *)
LEMMA DifferenceExact ==
    ASSUME NEW W \in Nat \ {0}, NEW b \in Nat, NEW g \in Nat, g < W
    PROVE  (((b + g) % W) - (b % W)) % W = g
<1>1. PICK k \in Nat : ((b + g) % W) - (b % W) = g - (W * k)
  BY RemainderGrowth
<1>2. \A n \in Int : ((W * n) + g) % W = g
  BY g \in 0 .. W - 1
<1>3. -k \in Int /\ g - (W * k) = (W * (-k)) + g
  BY <1>1
<1>. QED
  BY <1>1, <1>2, <1>3

-----------------------------------------------------------------------------
(* Rows                                                                    *)

(* Ressource::nextValue: a first row with the time of the pass, then the   *)
(* rows there were, as many as the size allows.                            *)
LEMMA NextValueRows ==
    ASSUME NEW rows \in Seq(Rows), Len(rows) <= Size, NEW now \in Nat
    PROVE  /\ nextValue(rows, now) \in Seq(Rows)
           /\ Len(nextValue(rows, now)) \in 1 .. Size
           /\ Len(nextValue(rows, now)) <= Len(rows) + 1
           /\ nextValue(rows, now)[1] = Copied(rows, now)
           /\ \A i \in 2 .. Len(nextValue(rows, now)) :
                 nextValue(rows, now)[i] = rows[i - 1]
<1> DEFINE c == Copied(rows, now)
           w == <<c>> \o rows
<1>1. c \in Rows
  <2>1. CASE rows = <<>>
    BY <2>1 DEF Copied, Rows, NoValue
  <2>2. CASE rows # <<>>
    <3>1. rows[1] \in Rows
      BY <2>2
    <3>. QED
      BY <2>2, <3>1 DEF Copied, Rows
  <2>. QED
    BY <2>1, <2>2
<1> HIDE DEF c
<1>2. w \in Seq(Rows) /\ Len(w) = Len(rows) + 1 /\ w[1] = c
  BY <1>1
<1>3. \A i \in 2 .. Len(w) : w[i] = rows[i - 1]
  BY <1>1
<1> HIDE DEF w
<1> DEFINE n == IF Len(w) > Size THEN Size ELSE Len(w)
<1>4. n \in 1 .. Len(w) /\ n <= Size /\ n \in Nat
  BY <1>2, RessourceAssumption
<1>5. SubSeq(w, 1, n) \in Seq(Rows) /\ Len(SubSeq(w, 1, n)) = n
  BY <1>2, <1>4
<1>6. \A i \in 1 .. n : SubSeq(w, 1, n)[i] = w[i]
  BY <1>2, <1>4
<1>7. Resized(w) = SubSeq(w, 1, n)
  <2>1. CASE Len(w) > Size
    BY <2>1 DEF Resized
  <2>2. CASE ~(Len(w) > Size)
    <3>1. SubSeq(w, 1, Len(w)) = w
      BY <1>2
    <3>. QED
      BY <2>2, <3>1 DEF Resized
  <2>. QED
    BY <2>1, <2>2
<1>8. nextValue(rows, now) = SubSeq(w, 1, n)
  BY <1>7 DEF nextValue, w, c
<1> HIDE DEF n
<1>9. Len(nextValue(rows, now)) = n
  BY <1>5, <1>8
<1>10. \A i \in 1 .. n : nextValue(rows, now)[i] = w[i]
  BY <1>6, <1>8
<1>. QED
  BY <1>2, <1>3, <1>4, <1>5, <1>8, <1>9, <1>10 DEF c

(* A write to the newest row: nothing else changes, and nothing at all     *)
(* when there is no row.                                                   *)
LEMMA WrittenRows ==
    ASSUME NEW rows \in Seq(Rows), NEW r, rows # <<>> => r \in Rows
    PROVE  /\ [rows EXCEPT ![1] = r] \in Seq(Rows)
           /\ Len([rows EXCEPT ![1] = r]) = Len(rows)
           /\ \A i \in 1 .. Len(rows) :
                 [rows EXCEPT ![1] = r][i] = IF i = 1 THEN r ELSE rows[i]
<1> DEFINE w == [rows EXCEPT ![1] = r]
<1>1. CASE rows = <<>>
  <2>1. w = rows
    BY <1>1
  <2>2. Len(rows) = 0
    BY <1>1
  <2> HIDE DEF w
  <2>3. w \in Seq(Rows) /\ Len(w) = Len(rows)
    BY <2>1
  <2>4. \A i \in 1 .. Len(rows) : w[i] = IF i = 1 THEN r ELSE rows[i]
    BY <2>2
  <2>. QED
    BY <2>3, <2>4 DEF w
<1>2. CASE rows # <<>>
  BY <1>2
<1>. QED
  BY <1>1, <1>2

-----------------------------------------------------------------------------
(* The inductive invariant                                                 *)

(* The rows are sorted by time, and none is from the future.               *)
Ordered ==
    /\ \A i \in 1 .. Len(v) : v[i].timestamp \in 1 .. clock
    /\ \A i, j \in 1 .. Len(v) : i < j => v[j].timestamp < v[i].timestamp

(* During a pass the newest row is the one of the pass, unless this is the *)
(* first pass of a pid resource: then no pid is known that is still to be  *)
(* read.                                                                   *)
OwnRow ==
    (kind = "tick" /\ pending # {}) \/ known \cap pending # {}
        => v # <<>> /\ v[1].timestamp = clock

(* Whatever the newest row is during a pass, it is the one of the pass:    *)
(* a pid resource has no row at all before it knows a pid.                 *)
PassRow ==
    /\ pending # {} /\ v # <<>> => v[1].timestamp = clock
    /\ kind = "pid" /\ known = {} => v = <<>>

(* The client has not seen the row that is being written.                  *)
Unseen == pending # {} => since < clock

(* What was read of a known source, and what has happened to it since.     *)
Tracked(s) ==
    \/ s \in replaced /\ counter[s] <= grown[s]
    \/ s \notin replaced /\ \E b \in Nat : counter[s] = b + grown[s] /\ old[s] = b % Width

Tracking == \A s \in known : Tracked(s)

PidInexact == kind = "pid" => \A i \in 1 .. Len(v) : ~v[i].exact

Ind ==
    /\ TypeOK /\ Ordered /\ OwnRow /\ PassRow /\ Unseen /\ Tracking /\ PidInexact
    /\ RateIsExact /\ NeverOvercounts /\ ClientComplete

(* The constructor's state.                                                *)
LEMMA InitInd == Init => Ind
<1> SUFFICES ASSUME Init PROVE Ind
    OBVIOUS
<1>1. v \in Seq(Rows) /\ Len(v) = 0 /\ Len(v) <= Size
  BY RessourceAssumption DEF Init
<1>2. TypeOK
  BY <1>1, RessourceAssumption DEF Init, TypeOK, Sources, AllSources, NoValue
<1>3. Ordered /\ PidInexact /\ RateIsExact /\ NeverOvercounts /\ ClientComplete
  BY <1>1 DEF Ordered, PidInexact, RateIsExact, NeverOvercounts, ClientComplete
<1>4. OwnRow /\ PassRow /\ Unseen /\ Tracking
  BY DEF Init, OwnRow, PassRow, Unseen, Tracking
<1>. QED
  BY <1>2, <1>3, <1>4 DEF Ind

(* A counter grows or restarts: what is known of it stays what it was.     *)
LEMMA HostInd ==
    ASSUME Ind, NEW s \in Sources, Grow(s) \/ Replace(s)
    PROVE  Ind'
<1> USE DEF Ind
<1>1. s \in AllSources
  BY DEF Sources, AllSources
<1>2. TypeOK'
  <2>1. CASE Grow(s)
    BY <1>1, <2>1, RessourceAssumption DEF TypeOK, Grow, Sources, client
  <2>2. CASE Replace(s)
    BY <1>1, <2>2 DEF TypeOK, Replace, Sources, client
  <2>. QED
    BY <2>1, <2>2
<1>3. UNCHANGED <<kind, known, old, v, pending, clock, since, received>>
  BY DEF Grow, Replace, client
<1>4. Tracking'
  <2> SUFFICES ASSUME NEW t \in known PROVE Tracked(t)'
    BY <1>3 DEF Tracking
  <2>0. Tracked(t) /\ t \in AllSources
    BY DEF Tracking, TypeOK
  <2>1. CASE t # s
    <3>1. counter'[t] = counter[t] /\ grown'[t] = grown[t]
      BY <1>1, <2>0, <2>1 DEF Grow, Replace, TypeOK
    <3>2. t \in replaced' <=> t \in replaced
      BY <2>1 DEF Grow, Replace
    <3>. QED
      BY <1>3, <2>0, <3>1, <3>2 DEF Tracked
  <2>2. CASE t = s /\ Grow(s)
    <3>1. counter'[t] = counter[t] + 1 /\ grown'[t] = grown[t] + 1 /\ replaced' = replaced
      BY <1>1, <2>2 DEF Grow, TypeOK
    <3>2. counter[t] \in Nat /\ grown[t] \in Nat
      BY <2>0 DEF TypeOK
    <3>3. CASE t \in replaced
      BY <2>0, <3>1, <3>2, <3>3 DEF Tracked
    <3>4. CASE t \notin replaced
      <4>1. PICK b \in Nat : counter[t] = b + grown[t] /\ old[t] = b % Width
        BY <2>0, <3>4 DEF Tracked
      <4>2. counter'[t] = b + grown'[t] /\ old'[t] = b % Width
        BY <1>3, <3>1, <3>2, <4>1
      <4>. QED
        BY <3>1, <3>4, <4>2 DEF Tracked
    <3>. QED
      BY <3>3, <3>4
  <2>3. CASE t = s /\ Replace(s)
    <3>1. counter'[t] = 0 /\ grown'[t] = grown[t] /\ t \in replaced'
      BY <1>1, <2>3 DEF Replace, TypeOK
    <3>2. grown[t] \in Nat
      BY <2>0 DEF TypeOK
    <3>. QED
      BY <3>1, <3>2 DEF Tracked
  <2>. QED
    BY <2>1, <2>2, <2>3
<1>5. Ordered' /\ OwnRow' /\ PassRow' /\ Unseen'
  BY <1>3 DEF Ordered, OwnRow, PassRow, Unseen
<1>6. PidInexact' /\ RateIsExact' /\ NeverOvercounts' /\ ClientComplete'
  BY <1>3 DEF PidInexact, RateIsExact, NeverOvercounts, ClientComplete
<1>. QED
  BY <1>2, <1>4, <1>5, <1>6

(* A pass begins: at most one row is added, and it is later than all rows  *)
(* and than all the client has seen.                                       *)
LEMMA BeginPassInd ==
    ASSUME Ind, NEW listed \in SUBSET Sources, BeginPass(listed)
    PROVE  Ind'
<1> USE DEF Ind
<1> DEFINE now == clock + 1
           w == nextValue(v, now)
           z == Zeroed(w)
<1>1. now \in 1 .. MaxPasses /\ now \in Nat /\ clock \in Nat /\ clock' = now /\ pending' = listed
  BY RessourceAssumption DEF BeginPass, TypeOK
<1>2. UNCHANGED <<kind, counter, growth, grown, replaced, known, old, since, received>>
  BY DEF BeginPass, host, client
<1>3. v \in Seq(Rows) /\ Len(v) <= Size /\ kind \in {"tick", "pid"}
  BY DEF TypeOK
<1>4. /\ w \in Seq(Rows) /\ Len(w) \in 1 .. Size /\ Len(w) <= Len(v) + 1
      /\ w[1] = Copied(v, now) /\ \A i \in 2 .. Len(w) : w[i] = v[i - 1]
  BY <1>1, <1>3, NextValueRows
<1> HIDE DEF w
<1>5. w[1] \in Rows /\ w[1].timestamp = now
  <2>1. w # <<>> /\ w[1] \in Rows
    BY <1>4
  <2>2. CASE v = <<>>
    BY <1>4, <2>1, <2>2 DEF Copied
  <2>3. CASE v # <<>>
    <3>1. v[1] \in Rows
      BY <1>3, <2>3
    <3>. QED
      BY <1>4, <2>1, <2>3, <3>1 DEF Copied, Rows
  <2>. QED
    BY <2>1, <2>2, <2>3
<1> DEFINE r == [w[1] EXCEPT !.value = 0, !.truth = 0]
<1>6. r \in Rows /\ r.timestamp = now /\ r.value = 0 /\ r.truth = 0 /\ (r.exact <=> w[1].exact)
  <2>1. r.value = 0 /\ r.truth = 0 /\ r.timestamp = now
    BY <1>5 DEF Rows
  <2>3. r \in Rows
    <3> DEFINE q == [w[1] EXCEPT !.value = 0]
    <3>1. q \in Rows
      BY <1>5 DEF Rows
    <3>2. r = [q EXCEPT !.truth = 0]
      BY <1>5 DEF Rows
    <3> HIDE DEF q, r
    <3>. QED
      BY <3>1, <3>2 DEF Rows
  <2>2. r.exact <=> w[1].exact
    BY <1>5 DEF Rows
  <2>. QED
    BY <2>1, <2>2, <2>3
<1> HIDE DEF r
<1>7. z \in Seq(Rows) /\ Len(z) = Len(w)
      /\ \A i \in 1 .. Len(w) : z[i] = IF i = 1 THEN r ELSE w[i]
  <2>1. z = [w EXCEPT ![1] = r]
    BY DEF Zeroed, r
  <2>. QED
    BY <1>4, <1>6, <2>1, WrittenRows
<1> HIDE DEF z
(* The three ways to begin. *)
<1>8. \/ v' = v /\ ((kind = "pid" /\ known = {}) \/ (kind = "tick" /\ listed = {}))
      \/ v' = z /\ kind = "pid" /\ known # {}
      \/ v' = w /\ kind = "tick"
  BY <1>1, <1>3 DEF BeginPass, pidNextValue, z, w
<1>9. CASE v' = v /\ ((kind = "pid" /\ known = {}) \/ (kind = "tick" /\ listed = {}))
  <2>1. TypeOK'
    BY <1>1, <1>2, <1>9 DEF TypeOK, Sources
  <2>2. Ordered'
    BY <1>1, <1>3, <1>9 DEF Ordered
  <2>3. OwnRow' /\ PassRow' /\ Unseen'
    BY <1>1, <1>2, <1>9 DEF OwnRow, PassRow, Unseen, TypeOK
  <2>4. Tracking' /\ PidInexact' /\ RateIsExact' /\ NeverOvercounts' /\ ClientComplete'
    BY <1>2, <1>9
       DEF Tracking, Tracked, PidInexact, RateIsExact, NeverOvercounts, ClientComplete
  <2>. QED
    BY <2>1, <2>2, <2>3, <2>4
<1>10. ASSUME \/ v' = z /\ kind = "pid" /\ known # {}
              \/ v' = w /\ kind = "tick"
       PROVE  Ind'
  <2>1. /\ v' \in Seq(Rows) /\ Len(v') \in 1 .. Size /\ Len(v') <= Len(v) + 1
        /\ v'[1] \in Rows /\ v'[1].timestamp = now
        /\ \A i \in 2 .. Len(v') : v'[i] = v[i - 1]
    BY <1>4, <1>5, <1>6, <1>7, <1>10
  <2>2. \A i \in 2 .. Len(v') : i - 1 \in 1 .. Len(v) /\ v'[i] = v[i - 1]
    BY <1>3, <2>1
  <2>3. \A i \in 1 .. Len(v') : i = 1 \/ i \in 2 .. Len(v')
    BY <2>1
  <2>4. TypeOK'
    BY <1>1, <1>2, <2>1, RessourceAssumption DEF TypeOK, Sources
  <2>5. Ordered'
    <3>1. ASSUME NEW i \in 1 .. Len(v') PROVE v'[i].timestamp \in 1 .. now
      <4>1. CASE i = 1
        BY <1>1, <2>1, <4>1
      <4>2. CASE i \in 2 .. Len(v')
        <5>1. v[i - 1].timestamp \in 1 .. clock
          BY <2>2, <4>2 DEF Ordered
        <5>. QED
          BY <1>1, <2>2, <4>2, <5>1
      <4>. QED
        BY <2>3, <4>1, <4>2
    <3>2. ASSUME NEW i \in 1 .. Len(v'), NEW j \in 1 .. Len(v'), i < j
          PROVE  v'[j].timestamp < v'[i].timestamp
      <4>1. j \in 2 .. Len(v')
        BY <2>1, <3>2
      <4>2. CASE i = 1
        <5>1. v'[j].timestamp \in 1 .. clock
          BY <2>2, <4>1 DEF Ordered
        <5>. QED
          BY <1>1, <2>1, <4>2, <5>1
      <4>3. CASE i \in 2 .. Len(v')
        <5>1. i - 1 < j - 1 /\ i - 1 \in 1 .. Len(v) /\ j - 1 \in 1 .. Len(v)
          BY <2>2, <3>2, <4>1, <4>3
        <5>2. v[j - 1].timestamp < v[i - 1].timestamp
          BY <5>1 DEF Ordered
        <5>. QED
          BY <2>2, <4>1, <4>3, <5>2
      <4>. QED
        BY <2>3, <4>2, <4>3
    <3>. QED
      BY <1>1, <3>1, <3>2 DEF Ordered
  <2>6. OwnRow' /\ PassRow' /\ Unseen'
    <3>1. v' # <<>>
      BY <2>1
    <3>2. since < clock'
      BY <1>1 DEF TypeOK
    <3>. QED
      BY <1>1, <1>2, <1>10, <2>1, <3>1, <3>2 DEF OwnRow, PassRow, Unseen
  <2>7. Tracking'
    BY <1>2 DEF Tracking, Tracked
  <2>8. kind = "tick" => (v'[1].exact => v'[1].value = v'[1].truth \div Freq)
    <3>1. CASE kind = "tick" /\ v = <<>>
      BY <1>4, <1>10, <3>1 DEF Copied
    <3>2. CASE kind = "tick" /\ v # <<>>
      <4>1. v'[1] = [v[1] EXCEPT !.timestamp = now] /\ v[1] \in Rows /\ 1 \in 1 .. Len(v)
        BY <1>3, <1>4, <1>10, <3>2 DEF Copied
      <4>2. v[1].exact => v[1].value = v[1].truth \div Freq
        BY <4>1 DEF RateIsExact
      <4>. QED
        BY <4>1, <4>2 DEF Rows
    <3>. QED
      BY <1>3, <3>1, <3>2
  <2>9. kind = "pid" => ~v'[1].exact /\ v'[1].value <= v'[1].truth
    <3> SUFFICES ASSUME kind = "pid" PROVE ~v'[1].exact /\ v'[1].value <= v'[1].truth
      OBVIOUS
    <3>1. v'[1] = r
      BY <1>4, <1>7, <1>10
    <3>2. CASE v = <<>>
      <4>1. w[1].exact = FALSE
        BY <1>4, <3>2 DEF Copied
      <4>. QED
        BY <1>6, <3>1, <4>1
    <3>3. CASE v # <<>>
      <4>1. w[1] = [v[1] EXCEPT !.timestamp = now] /\ v[1] \in Rows /\ 1 \in 1 .. Len(v)
        BY <1>3, <1>4, <3>3 DEF Copied
      <4>2. ~v[1].exact
        BY <4>1 DEF PidInexact
      <4>. QED
        BY <1>6, <3>1, <4>1, <4>2 DEF Rows
    <3>. QED
      BY <3>2, <3>3
  <2>10. PidInexact'
    BY <1>2, <2>2, <2>3, <2>9 DEF PidInexact
  <2>11. RateIsExact'
    <3> SUFFICES ASSUME NEW i \in 1 .. Len(v'), v'[i].exact
                 PROVE  v'[i].value = v'[i].truth \div Freq
      BY DEF RateIsExact
    <3>1. CASE i = 1
      <4>1. v'[1].exact
        BY <3>1
      <4>2. v'[1].value = v'[1].truth \div Freq
        BY <1>3, <2>8, <2>9, <4>1
      <4>. QED
        BY <3>1, <4>2
    <3>2. CASE i \in 2 .. Len(v')
      BY <2>2, <3>2 DEF RateIsExact
    <3>. QED
      BY <2>3, <3>1, <3>2
  <2>12. NeverOvercounts'
    BY <1>2, <2>2, <2>3, <2>9 DEF NeverOvercounts
  <2>13. ClientComplete'
    <3>1. ~(v'[1].timestamp <= since)
      BY <1>1, <2>1 DEF TypeOK
    <3>. QED
      BY <1>2, <2>2, <2>3, <3>1 DEF ClientComplete
  <2>. QED
    BY <2>4, <2>5, <2>6, <2>7, <2>10, <2>11, <2>12, <2>13
<1>. QED
  BY <1>8, <1>9, <1>10

(* A source has been read: from now on it is tracked from this reading.    *)
LEMMA RememberTracking ==
    ASSUME Ind, NEW s \in pending, Remember(s)
    PROVE  /\ Tracking'
           /\ s \in AllSources
           /\ known' \subseteq AllSources /\ replaced' \subseteq AllSources
           /\ old' \in [AllSources -> 0 .. Width - 1]
           /\ grown' \in [AllSources -> Nat]
           /\ pending' = pending \ {s}
           /\ UNCHANGED <<kind, counter, growth, clock, since, received>>
<1> USE DEF Ind
<1>1. s \in AllSources
  BY DEF TypeOK, Sources, AllSources
<1>2. counter[s] \in Nat /\ counter[s] % Width \in 0 .. Width - 1
  BY <1>1, RessourceAssumption DEF TypeOK
<1>3. /\ UNCHANGED <<kind, counter, growth, clock, since, received>>
      /\ known' = known \cup {s} /\ replaced' = replaced \ {s} /\ pending' = pending \ {s}
      /\ old' = [old EXCEPT ![s] = counter[s] % Width]
      /\ grown' = [grown EXCEPT ![s] = 0]
  BY DEF Remember, Parsed, host, client
<1>4. /\ old' \in [AllSources -> 0 .. Width - 1]
      /\ grown' \in [AllSources -> Nat]
      /\ known' \subseteq AllSources /\ replaced' \subseteq AllSources
  BY <1>1, <1>2, <1>3 DEF TypeOK
<1>5. Tracking'
  <2> SUFFICES ASSUME NEW t \in known' PROVE Tracked(t)'
    BY DEF Tracking
  <2>1. CASE t = s
    <3>1. t \notin replaced' /\ counter'[t] = counter[s] + grown'[t] /\ old'[t] = counter[s] % Width
      BY <1>1, <1>2, <1>3, <2>1 DEF TypeOK
    <3>. QED
      BY <1>2, <3>1 DEF Tracked
  <2>2. CASE t # s
    <3>1. t \in known /\ t \in AllSources
      BY <1>3, <2>2 DEF TypeOK
    <3>2. Tracked(t)
      BY <3>1 DEF Tracking
    <3>3. /\ counter'[t] = counter[t] /\ grown'[t] = grown[t] /\ old'[t] = old[t]
          /\ t \in replaced' <=> t \in replaced
      BY <1>1, <1>3, <2>2, <3>1 DEF TypeOK
    <3>. QED
      BY <3>2, <3>3 DEF Tracked
  <2>. QED
    BY <2>1, <2>2
<1>. QED
  BY <1>1, <1>3, <1>4, <1>5

(* A row is written that is the one of this pass, or none is there.  What  *)
(* the write does to the order of the rows and to the client is nothing.   *)
LEMMA WriteInd ==
    ASSUME Ind, NEW s \in pending, Remember(s),
           NEW r, v' = [v EXCEPT ![1] = r],
           v # <<>> => r \in Rows /\ r.timestamp = v[1].timestamp
    PROVE  /\ TypeOK' /\ Ordered' /\ OwnRow' /\ PassRow' /\ Unseen' /\ Tracking'
           /\ ClientComplete'
           /\ Len(v') = Len(v)
           /\ \A i \in 1 .. Len(v) : v'[i] = IF i = 1 THEN r ELSE v[i]
<1> USE DEF Ind
<1>1. v \in Seq(Rows) /\ Len(v) <= Size
  BY DEF TypeOK
<1>2. v' \in Seq(Rows) /\ Len(v') = Len(v)
      /\ \A i \in 1 .. Len(v) : v'[i] = IF i = 1 THEN r ELSE v[i]
  BY <1>1, WrittenRows
<1>3. \A i \in 1 .. Len(v) : v'[i].timestamp = v[i].timestamp
  <2> SUFFICES ASSUME NEW i \in 1 .. Len(v) PROVE v'[i].timestamp = v[i].timestamp
    OBVIOUS
  <2>1. v # <<>>
    BY <1>1
  <2>. QED
    BY <1>2, <2>1
<1>4. /\ Tracking'
      /\ s \in AllSources
      /\ known' \subseteq AllSources /\ replaced' \subseteq AllSources
      /\ old' \in [AllSources -> 0 .. Width - 1]
      /\ grown' \in [AllSources -> Nat]
      /\ pending' = pending \ {s}
      /\ UNCHANGED <<kind, counter, growth, clock, since, received>>
  BY RememberTracking
<1>5. TypeOK'
  BY <1>1, <1>2, <1>4 DEF TypeOK, Sources
<1>6. Ordered'
  BY <1>2, <1>3, <1>4 DEF Ordered
<1>7. OwnRow' /\ PassRow'
  <2>1. known' = known \cup {s}
    BY DEF Remember
  <2>2. known' \cap pending' # {} => known \cap pending # {}
    BY <1>4, <2>1
  <2>3. v # <<>> => v' # <<>> /\ v'[1].timestamp = v[1].timestamp
    <3> SUFFICES ASSUME v # <<>> PROVE v' # <<>> /\ v'[1].timestamp = v[1].timestamp
      OBVIOUS
    <3>1. 1 \in 1 .. Len(v)
      BY <1>1
    <3>. QED
      BY <1>2, <1>3, <3>1
  <2>4. v' # <<>> => v # <<>>
    BY <1>1, <1>2
  <2>. QED
    BY <1>2, <1>4, <2>1, <2>2, <2>3, <2>4 DEF OwnRow, PassRow
<1>8. Unseen'
  BY <1>4 DEF Unseen
<1>9. ClientComplete'
  <2> SUFFICES ASSUME NEW i \in 1 .. Len(v), v'[i].timestamp <= since
               PROVE  received[v'[i].timestamp] = v'[i].value
    BY <1>2, <1>4 DEF ClientComplete
  <2>1. i # 1
    <3> SUFFICES ASSUME i = 1 PROVE FALSE
      OBVIOUS
    <3>1. v'[1].timestamp = clock
      BY <1>1, <1>3 DEF PassRow
    <3>2. since < clock
      BY DEF Unseen
    <3>. QED
      BY <3>1, <3>2 DEF TypeOK
  <2>2. v'[i] = v[i]
    BY <1>2, <2>1
  <2>. QED
    BY <2>2 DEF ClientComplete
<1>. QED
  BY <1>2, <1>4, <1>5, <1>6, <1>7, <1>8, <1>9

(* A device has been read: the value is the unsigned difference.           *)
LEMMA ReadDeviceInd ==
    ASSUME Ind, NEW s \in pending, ReadDevice(s)
    PROVE  Ind'
<1> USE DEF Ind
<1> DEFINE r == [timestamp |-> v[1].timestamp, value |-> setTickValue(s), truth |-> grown[s],
                 exact |-> s \in known \ replaced /\ grown[s] < Width]
<1>1. kind = "tick" /\ v' = [v EXCEPT ![1] = r] /\ Remember(s)
  BY DEF ReadDevice
<1>2. s \in AllSources /\ kind' = kind
  BY <1>1, RememberTracking
<1>3. counter[s] \in Nat /\ grown[s] \in Nat /\ old[s] \in 0 .. Width - 1
  BY <1>2 DEF TypeOK
<1>4. Parsed(s) = counter[s] % Width /\ Parsed(s) \in 0 .. Width - 1
  BY <1>3, RessourceAssumption DEF Parsed
<1>5. setTickValue(s) \in Int
  <2>1. (Parsed(s) - old[s]) % Width \in Nat
    BY <1>3, <1>4, RessourceAssumption
  <2>2. ((Parsed(s) - old[s]) % Width) \div Freq \in Int
    BY <2>1, RessourceAssumption
  <2>. QED
    BY <2>2 DEF setTickValue
<1>6. s \in known /\ s \notin replaced /\ grown[s] < Width => setTickValue(s) = grown[s] \div Freq
  <2> SUFFICES ASSUME s \in known, s \notin replaced, grown[s] < Width
               PROVE  setTickValue(s) = grown[s] \div Freq
    OBVIOUS
  <2>1. PICK b \in Nat : counter[s] = b + grown[s] /\ old[s] = b % Width
    BY DEF Tracking, Tracked
  <2>2. (((b + grown[s]) % Width) - (b % Width)) % Width = grown[s]
    BY <1>3, DifferenceExact, RessourceAssumption
  <2>3. (Parsed(s) - old[s]) % Width = grown[s]
    BY <1>4, <2>1, <2>2
  <2>. QED
    BY <2>3 DEF setTickValue
<1>7. v # <<>> => r \in Rows /\ r.timestamp = v[1].timestamp
  <2> SUFFICES ASSUME v # <<>> PROVE r \in Rows /\ r.timestamp = v[1].timestamp
    OBVIOUS
  <2>1. v[1] \in Rows
    BY DEF TypeOK
  <2>2. v[1].timestamp \in Nat
    BY <2>1 DEF Rows
  <2>. QED
    BY <1>3, <1>5, <2>2 DEF Rows
<1>8. r.exact => r.value = r.truth \div Freq
  BY <1>6
<1> HIDE DEF r
<1>9. /\ TypeOK' /\ Ordered' /\ OwnRow' /\ PassRow' /\ Unseen' /\ Tracking' /\ ClientComplete'
      /\ Len(v') = Len(v)
      /\ \A i \in 1 .. Len(v) : v'[i] = IF i = 1 THEN r ELSE v[i]
  BY <1>1, <1>7, WriteInd
<1>10. RateIsExact'
  <2> SUFFICES ASSUME NEW i \in 1 .. Len(v), v'[i].exact
               PROVE  v'[i].value = v'[i].truth \div Freq
    BY <1>9 DEF RateIsExact
  <2>1. CASE i = 1
    BY <1>8, <1>9, <2>1
  <2>2. CASE i # 1
    BY <1>9, <2>2 DEF RateIsExact
  <2>. QED
    BY <2>1, <2>2
<1>11. PidInexact' /\ NeverOvercounts'
  BY <1>1, <1>2 DEF PidInexact, NeverOvercounts
<1>. QED
  BY <1>9, <1>10, <1>11

(* A process has been read: what is added is no more than it did.          *)
LEMMA ReadPidInd ==
    ASSUME Ind, NEW s \in pending, ReadPid(s)
    PROVE  Ind'
<1> USE DEF Ind
<1> DEFINE a == setPidValue(s)
           o == Observed(s)
           r == Added(v[1], s)
<1>1. kind = "pid" /\ v' = [v EXCEPT ![1] = r] /\ Remember(s)
  BY DEF ReadPid
<1>2. s \in AllSources /\ kind' = kind
  BY <1>1, RememberTracking
<1>3. counter[s] \in Nat /\ grown[s] \in Nat /\ old[s] \in 0 .. Width - 1
  BY <1>2 DEF TypeOK
<1>4. Parsed(s) = counter[s] % Width /\ Parsed(s) \in 0 .. Width - 1
  BY <1>3, RessourceAssumption DEF Parsed
<1>5. a \in Nat /\ o \in Nat /\ a <= o
  <2>1. CASE ~Counts(s)
    BY <1>3, <2>1 DEF setPidValue, Observed
  <2>2. CASE Counts(s) /\ s \in replaced
    <3>1. counter[s] <= grown[s] /\ s \in known /\ old[s] < Parsed(s)
      BY <2>2 DEF Counts, Tracking, Tracked
    <3>2. Parsed(s) <= counter[s]
      BY <1>3, <1>4, RessourceAssumption
    <3>. QED
      BY <1>3, <1>4, <2>2, <3>1, <3>2 DEF setPidValue, Observed
  <2>3. CASE Counts(s) /\ s \notin replaced
    <3>1. s \in known /\ old[s] < Parsed(s)
      BY <2>3 DEF Counts
    <3>2. PICK b \in Nat : counter[s] = b + grown[s] /\ old[s] = b % Width
      BY <2>3, <3>1 DEF Tracking, Tracked
    <3>3. ((b + grown[s]) % Width) - (b % Width) <= grown[s]
      BY <1>3, DifferenceBounded, RessourceAssumption
    <3>4. Parsed(s) - old[s] <= grown[s]
      BY <1>4, <3>2, <3>3
    <3>. QED
      BY <1>3, <1>4, <2>3, <3>1, <3>4 DEF setPidValue, Observed
  <2>. QED
    BY <2>1, <2>2, <2>3
<1> HIDE DEF a, o
<1>6. v # <<>> => /\ v[1] \in Rows
                  /\ v[1].value \in Int /\ v[1].truth \in Nat /\ v[1].exact \in BOOLEAN
                  /\ 1 \in 1 .. Len(v)
  <2> SUFFICES ASSUME v # <<>> PROVE v[1] \in Rows /\ 1 \in 1 .. Len(v)
    BY DEF Rows
  <2>. QED
    BY DEF TypeOK
<1>7. v # <<>> => /\ r.timestamp = v[1].timestamp
                  /\ r.value = v[1].value + a /\ r.truth = v[1].truth + o
  BY <1>6 DEF Rows, Added, a, o
<1>8. v # <<>> => (r.exact <=> v[1].exact)
  BY <1>6 DEF Rows, Added
<1>9. v # <<>> => r \in Rows
  <2> SUFFICES ASSUME v # <<>> PROVE r \in Rows
    OBVIOUS
  <2> DEFINE q == [v[1] EXCEPT !.value = @ + a]
  <2>1. v[1].value + a \in Int /\ v[1].truth + o \in Nat
    BY <1>5, <1>6
  <2>2. q \in Rows
    BY <1>6, <2>1 DEF Rows
  <2>3. r = [q EXCEPT !.truth = v[1].truth + o]
    BY <1>6 DEF Rows, Added, a, o
  <2> HIDE DEF q, r
  <2>. QED
    BY <2>1, <2>2, <2>3 DEF Rows
<1> HIDE DEF r
<1>10. /\ TypeOK' /\ Ordered' /\ OwnRow' /\ PassRow' /\ Unseen' /\ Tracking' /\ ClientComplete'
       /\ Len(v') = Len(v)
       /\ \A i \in 1 .. Len(v) : v'[i] = IF i = 1 THEN r ELSE v[i]
  BY <1>1, <1>7, <1>9, WriteInd
<1>11. PidInexact' /\ RateIsExact'
  <2>1. ASSUME NEW i \in 1 .. Len(v) PROVE ~v'[i].exact
    <3>1. v # <<>> /\ ~v[i].exact
      BY <1>1 DEF PidInexact, TypeOK
    <3>2. CASE i = 1
      BY <1>8, <1>10, <3>1, <3>2
    <3>3. CASE i # 1
      BY <1>10, <3>1, <3>3
    <3>. QED
      BY <3>2, <3>3
  <2>. QED
    BY <1>10, <2>1 DEF PidInexact, RateIsExact
<1>12. NeverOvercounts'
  <2> SUFFICES ASSUME NEW i \in 1 .. Len(v) PROVE v'[i].value <= v'[i].truth
    BY <1>10 DEF NeverOvercounts
  <2>1. v # <<>> /\ v[i].value <= v[i].truth
    BY <1>1 DEF NeverOvercounts, TypeOK
  <2>2. CASE i = 1
    BY <1>5, <1>6, <1>7, <1>10, <2>1, <2>2
  <2>3. CASE i # 1
    BY <1>10, <2>1, <2>3
  <2>. QED
    BY <2>2, <2>3
<1>. QED
  BY <1>10, <1>11, <1>12

(* A source that could not be read leaves the row alone.                   *)
LEMMA SkipInd ==
    ASSUME Ind, NEW s \in pending, Skip(s)
    PROVE  Ind'
<1> USE DEF Ind
<1>1. pending' = pending \ {s}
  BY DEF Skip
<1>2. UNCHANGED <<kind, counter, growth, grown, replaced, known, old, v, clock, since, received>>
  BY DEF Skip, host, client
<1>3. TypeOK'
  BY <1>1, <1>2 DEF TypeOK, Sources
<1>4. Ordered' /\ OwnRow' /\ PassRow' /\ Unseen' /\ Tracking'
  BY <1>1, <1>2 DEF Ordered, OwnRow, PassRow, Unseen, Tracking, Tracked
<1>5. PidInexact' /\ RateIsExact' /\ NeverOvercounts' /\ ClientComplete'
  BY <1>2 DEF PidInexact, RateIsExact, NeverOvercounts, ClientComplete
<1>. QED
  BY <1>3, <1>4, <1>5

(* The client reads between two passes: it gets every row that is not      *)
(* older than the newest one it had.                                       *)
LEMMA DoGetHistoryInd ==
    ASSUME Ind, doGetHistory
    PROVE  Ind'
<1> USE DEF Ind
<1>1. UNCHANGED <<kind, counter, growth, grown, replaced, known, old, v, pending, clock>>
  BY DEF doGetHistory, Deliver, host
<1>2. pending = {} /\ getHistory # {} /\ since' = v[1].timestamp
  BY DEF doGetHistory, Deliver
<1>3. v \in Seq(Rows) /\ clock \in Nat /\ clock <= MaxPasses /\ since \in Nat
  BY RessourceAssumption DEF TypeOK
<1>4. Len(v) \in Nat /\ 1 \in 1 .. Len(v)
  BY <1>2, <1>3 DEF getHistory
<1>5. \A i \in 1 .. Len(v) : /\ v[i].value \in Int
                             /\ v[i].timestamp \in 1 .. clock
                             /\ v[i].timestamp \in 1 .. MaxPasses
  <2> SUFFICES ASSUME NEW i \in 1 .. Len(v)
               PROVE  v[i].value \in Int /\ v[i].timestamp \in 1 .. clock
    BY <1>3, RessourceAssumption
  <2>1. v[i] \in Rows
    BY <1>3
  <2>. QED
    BY <2>1 DEF Rows, Ordered
<1>6. \A i, j \in 1 .. Len(v) : v[i].timestamp = v[j].timestamp => i = j
  <2> SUFFICES ASSUME NEW i \in 1 .. Len(v), NEW j \in 1 .. Len(v),
                      v[i].timestamp = v[j].timestamp, i # j
               PROVE  FALSE
    OBVIOUS
  <2>1. i < j \/ j < i
    BY <1>4
  <2>. QED
    BY <1>5, <2>1 DEF Ordered
<1> DEFINE pick(t) == CHOOSE i \in getHistory : v[i].timestamp = t
<1>7. received' = [t \in 1 .. MaxPasses |->
                     IF \E i \in getHistory : v[i].timestamp = t
                     THEN v[pick(t)].value ELSE received[t]]
  BY DEF doGetHistory, Deliver
<1>8. \A t : (\E i \in getHistory : v[i].timestamp = t)
               => pick(t) \in getHistory /\ v[pick(t)].timestamp = t
  OBVIOUS
<1> HIDE DEF pick
<1>9. getHistory \subseteq 1 .. Len(v)
  BY DEF getHistory
<1>10. TypeOK'
  <2>1. since' \in 0 .. clock
    BY <1>2, <1>3, <1>4, <1>5
  <2>2. \A t \in 1 .. MaxPasses :
            (IF \E i \in getHistory : v[i].timestamp = t
             THEN v[pick(t)].value ELSE received[t]) \in Int
    BY <1>5, <1>8, <1>9 DEF TypeOK
  <2>3. received' \in [1 .. MaxPasses -> Int]
    BY <1>7, <2>2
  <2>. QED
    BY <1>1, <2>1, <2>3 DEF TypeOK, Sources
<1>11. ClientComplete'
  <2> SUFFICES ASSUME NEW i \in 1 .. Len(v)
               PROVE  received'[v[i].timestamp] = v[i].value
    BY <1>1 DEF ClientComplete
  <2> DEFINE t == v[i].timestamp
  <2>1. t \in 1 .. MaxPasses /\ t \in Nat
    BY <1>5
  <2>2. CASE t >= since
    <3>1. i \in getHistory
      BY <2>2 DEF getHistory
    <3>2. pick(t) \in getHistory /\ v[pick(t)].timestamp = t
      BY <1>8, <3>1
    <3>3. pick(t) = i
      BY <1>6, <1>9, <3>2
    <3>. QED
      BY <1>7, <2>1, <3>1, <3>3
  <2>3. CASE t < since
    <3>1. ~\E j \in getHistory : v[j].timestamp = t
      BY <1>3, <2>1, <2>3 DEF getHistory
    <3>2. received[t] = v[i].value
      BY <1>3, <2>1, <2>3 DEF ClientComplete
    <3>. QED
      BY <1>7, <2>1, <3>1, <3>2
  <2>. QED
    BY <1>3, <2>1, <2>2, <2>3
<1>12. Ordered' /\ OwnRow' /\ PassRow' /\ Unseen' /\ Tracking'
  BY <1>1, <1>2 DEF Ordered, OwnRow, PassRow, Unseen, Tracking, Tracked
<1>13. PidInexact' /\ RateIsExact' /\ NeverOvercounts'
  BY <1>1 DEF PidInexact, RateIsExact, NeverOvercounts
<1>. QED
  BY <1>10, <1>11, <1>12, <1>13

(* Every step keeps the invariant.                                         *)
LEMMA NextInd == Ind /\ [Next]_vars => Ind'
<1> SUFFICES ASSUME Ind, [Next]_vars PROVE Ind'
    OBVIOUS
<1>1. ASSUME NEW s \in Sources, Grow(s) \/ Replace(s) PROVE Ind'
  BY <1>1, HostInd
<1>2. ASSUME NEW listed \in SUBSET Sources, BeginPass(listed) PROVE Ind'
  BY <1>2, BeginPassInd
<1>3. ASSUME NEW s \in pending, ReadDevice(s) \/ ReadPid(s) \/ Skip(s) PROVE Ind'
  BY <1>3, ReadDeviceInd, ReadPidInd, SkipInd
<1>4. CASE doGetHistory
  BY <1>4, DoGetHistoryInd
<1>5. CASE UNCHANGED vars
  BY <1>5 DEF Ind, vars, host, client, TypeOK, Sources, Ordered, OwnRow, PassRow, Unseen,
              Tracking, Tracked, PidInexact, RateIsExact, NeverOvercounts, ClientComplete
<1>. QED
  BY <1>1, <1>2, <1>3, <1>4, <1>5 DEF Next

(* The inductive invariant holds in every state.                           *)
LEMMA Invariance == Spec => []Ind
  BY InitInd, NextInd, PTL DEF Spec

-----------------------------------------------------------------------------
(* Type correctness, with the history never longer than its size.          *)
THEOREM RessourceTypeCorrect == Spec => []TypeOK
<1>1. Ind => TypeOK
  BY DEF Ind
<1>. QED
  BY <1>1, Invariance, PTL

(* tickRessource::setTickValue: the rate of a counter is exact across the  *)
(* wrap-around of its 32 bits.                                             *)
THEOREM RateIsExactHolds == Spec => []RateIsExact
<1>1. Ind => RateIsExact
  BY DEF Ind
<1>. QED
  BY <1>1, Invariance, PTL

(* pidRessource::setPidValue: no process is counted for more than it did,  *)
(* whatever happens to its counter and to its pid.                         *)
THEOREM NeverOvercountsHolds == Spec => []NeverOvercounts
<1>1. Ind => NeverOvercounts
  BY DEF Ind
<1>. QED
  BY <1>1, Invariance, PTL

(* pidRessource::nextValue, setPidValue: the row that is written exists    *)
(* and belongs to the pass that writes it.                                 *)
THEOREM WritesOwnRowHolds == Spec => []WritesOwnRow
<1>1. Ind => WritesOwnRow
  BY DEF Ind, OwnRow, WritesOwnRow, Writes, Counts
<1>. QED
  BY <1>1, Invariance, PTL

(* Ressource::getHistory with since: a client that follows a resource      *)
(* misses no row that is kept and has the final value of each.             *)
THEOREM ClientCompleteHolds == Spec => []ClientComplete
<1>1. Ind => ClientComplete
  BY DEF Ind
<1>. QED
  BY <1>1, Invariance, PTL
=============================================================================
