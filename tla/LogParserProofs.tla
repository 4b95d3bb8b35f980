--------------------------- MODULE LogParserProofs ---------------------------
(***************************************************************************)
(* The entries of a log monitor never exceed the configured history, for   *)
(* every history size, every log and every behaviour of the plugin.  The   *)
(* bound needs that the entries are a sequence, which rests on the reader  *)
(* being inside the file it has open: TypeOK is the invariant to carry.    *)
(***************************************************************************)
EXTENDS LogParser, TLAPS

(* The file that has the name is bounded, and so is the one that is read.  *)
FilesBounded == \A f \in 1 .. Len(files) : Len(files[f]) <= MaxLines

Ind == TypeOK /\ FilesBounded /\ HistoryBounded

(* resize(): the newest rows are kept, and no more than the history.       *)
LEMMA ResizedBounds ==
    ASSUME NEW S, NEW rows \in Seq(S)
    PROVE  Resized(rows) \in Seq(S) /\ Len(Resized(rows)) <= History
<1> DEFINE n == IF Len(rows) > History THEN History ELSE Len(rows)
<1>1. n \in 0 .. Len(rows) /\ n <= History
  BY LogAssumption
<1>2. SubSeq(rows, 1, n) \in Seq(S) /\ Len(SubSeq(rows, 1, n)) = n
  BY <1>1
<1>. QED
  BY <1>1, <1>2 DEF Resized

(* The monitor starts with no entry, in front of a log that may have one   *)
(* line.                                                                   *)
LEMMA InitInd == Init => Ind
<1> SUFFICES ASSUME Init PROVE Ind
    OBVIOUS
<1>1. PICK first \in Seq(Lines) : files = <<first>> /\ Len(first) \in 0 .. 1
  <2>1. <<>> \in Seq(Lines) /\ Len(<<>>) = 0
    OBVIOUS
  <2>2. \A line \in Lines : <<line>> \in Seq(Lines) /\ Len(<<line>>) = 1
    OBVIOUS
  <2>3. ASSUME NEW none, none = <<>>, files = <<none>>
        PROVE  \E first \in Seq(Lines) : files = <<first>> /\ Len(first) \in 0 .. 1
    <3>1. none \in Seq(Lines) /\ Len(none) \in 0 .. 1
      BY <2>1, <2>3
    <3>. QED
      BY <2>3, <3>1
  <2>4. ASSUME NEW line \in Lines, files = << <<line>> >>
        PROVE  \E first \in Seq(Lines) : files = <<first>> /\ Len(first) \in 0 .. 1
    <3>1. <<line>> \in Seq(Lines) /\ Len(<<line>>) \in 0 .. 1
      BY <2>2
    <3>. QED
      BY <2>4, <3>1
  <2>. QED
    BY <2>3, <2>4 DEF Init
<1>2. files \in Seq(Seq(Lines)) /\ Len(files) = 1 /\ files[1] = first
  BY <1>1
<1>3. TypeOK
  BY <1>1, <1>2, LogAssumption DEF Init, TypeOK
<1>4. FilesBounded
  <2>1. Len(first) <= MaxLines
    BY <1>1, LogAssumption
  <2>2. \A f \in 1 .. Len(files) : files[f] = first
    BY <1>2
  <2>. QED
    BY <2>1, <2>2 DEF FilesBounded
<1>5. HistoryBounded
  BY LogAssumption DEF Init, HistoryBounded
<1>. QED
  BY <1>3, <1>4, <1>5 DEF Ind

(* What the actions rely on: the file that has the name and the file that  *)
(* is read are sequences of lines within the bound.                        *)
LEMMA FileTypes ==
    ASSUME Ind
    PROVE  /\ Len(files) \in 1 .. Len(files)
           /\ files[Len(files)] \in Seq(Lines)
           /\ Len(files[Len(files)]) \in 0 .. MaxLines
           /\ files[open] \in Seq(Lines)
           /\ Len(files[open]) \in 0 .. MaxLines
<1>1. Len(files) \in 1 .. Len(files) /\ open \in 1 .. Len(files)
  BY LogAssumption DEF Ind, TypeOK
<1>2. \A f \in 1 .. Len(files) : files[f] \in Seq(Lines) /\ Len(files[f]) <= MaxLines
  BY DEF Ind, TypeOK, FilesBounded
<1>3. \A f \in 1 .. Len(files) : Len(files[f]) \in 0 .. MaxLines
  BY <1>2, LogAssumption
<1>. QED
  BY <1>1, <1>2, <1>3

(* The daemon, logrotate and every step of parseLog() preserve it.         *)
LEMMA NextInd == Ind /\ [Next]_vars => Ind'
<1> SUFFICES ASSUME Ind, [Next]_vars PROVE Ind'
    OBVIOUS
<1>1. ASSUME NEW line \in Lines, AppendLine(line) PROVE Ind'
  <2> DEFINE last == Append(files[Len(files)], line)
  <2>1. last \in Seq(Lines) /\ Len(last) = Len(files[Len(files)]) + 1
    BY FileTypes
  <2>2. files' = [files EXCEPT ![Len(files)] = last]
    BY <1>1 DEF AppendLine
  <2> HIDE DEF last
  <2>3. files' \in Seq(Seq(Lines)) /\ Len(files') = Len(files)
    BY <2>1, <2>2, FileTypes DEF Ind, TypeOK
  <2>4. \A f \in 1 .. Len(files) : files'[f] = IF f = Len(files) THEN last ELSE files[f]
    BY <2>2, FileTypes DEF Ind, TypeOK
  <2>5. Len(last) <= MaxLines
    BY <1>1, <2>1, FileTypes, LogAssumption DEF AppendLine
  <2>6. FilesBounded'
    BY <2>3, <2>4, <2>5 DEF Ind, FilesBounded
  <2>7. at \in -1 .. Len(files'[open])
    BY <2>1, <2>4, FileTypes DEF Ind, TypeOK
  <2>8. TypeOK'
    BY <1>1, <2>3, <2>7 DEF AppendLine, Ind, TypeOK
  <2>. QED
    BY <1>1, <2>6, <2>8 DEF AppendLine, Ind, HistoryBounded
<1>2. CASE Rotate
  <2>1. /\ files' \in Seq(Seq(Lines)) /\ Len(files') = Len(files) + 1
        /\ \A f \in 1 .. Len(files) : files'[f] = files[f]
        /\ files'[Len(files) + 1] = <<>>
    BY <1>2 DEF Rotate, Ind, TypeOK
  <2>2. FilesBounded'
    <3>1. \A f \in 1 .. Len(files') : f \in 1 .. Len(files) \/ f = Len(files) + 1
      BY <2>1 DEF Ind, TypeOK
    <3>2. Len(<<>>) <= MaxLines
      BY LogAssumption
    <3>. QED
      BY <2>1, <3>1, <3>2 DEF Ind, FilesBounded
  <2>3. TypeOK'
    BY <1>2, <2>1, LogAssumption DEF Rotate, Ind, TypeOK
  <2>. QED
    BY <1>2, <2>2, <2>3 DEF Rotate, Ind, HistoryBounded
<1>3. CASE ParseStart
  <2>1. TypeOK'
    BY <1>3, FileTypes, LogAssumption DEF ParseStart, seekg, Ind, TypeOK
  <2>. QED
    BY <1>3, <2>1 DEF ParseStart, Ind, FilesBounded, HistoryBounded
<1>4. CASE Getline
  <2> DEFINE entry == [file |-> open, place |-> at + 1, line_no |-> lineNo + 1]
  <2>1. at + 1 \in 1 .. Len(files[open]) /\ at + 1 \in 1 .. MaxLines
    BY <1>4, FileTypes, LogAssumption DEF Getline, Ind, TypeOK
  <2>2. entry \in Entries
    BY <2>1, LogAssumption DEF Ind, TypeOK, Entries
  <2> HIDE DEF entry
  <2>3. <<entry>> \o v \in Seq(Entries)
    BY <2>2 DEF Ind, TypeOK
  <2>4. v' = Resized(<<entry>> \o v) \/ v' = v
    BY <1>4 DEF Getline, entry
  <2>5. v' \in Seq(Entries) /\ Len(v') <= History
    BY <2>3, <2>4, ResizedBounds DEF Ind, TypeOK, HistoryBounded
  <2>6. TypeOK'
    BY <1>4, <2>1, <2>5 DEF Getline, Ind, TypeOK
  <2>. QED
    BY <1>4, <2>5, <2>6 DEF Getline, Ind, FilesBounded, HistoryBounded
<1>5. CASE ParseEnd
  BY <1>5, LogAssumption DEF ParseEnd, tellg, Ind, TypeOK, FilesBounded, HistoryBounded
<1>6. CASE ParseThrows
  BY <1>6, LogAssumption DEF ParseThrows, Ind, TypeOK, FilesBounded, HistoryBounded
<1>7. CASE UNCHANGED vars
  BY <1>7 DEF vars, Ind, TypeOK, FilesBounded, HistoryBounded
<1>. QED
  BY <1>1, <1>2, <1>3, <1>4, <1>5, <1>6, <1>7 DEF Next, Parse

(* The invariant holds in every reachable state.                           *)
LEMMA IndInvariant == Spec => []Ind
BY InitInd, NextInd, PTL DEF Spec

(* parseLog() never keeps more entries than the configured history, also   *)
(* when the plugin throws and lines are read again, for every size.        *)
THEOREM LogHistoryBounded == Spec => []HistoryBounded
<1>1. Ind => HistoryBounded
  BY DEF Ind
<1>. QED
  BY <1>1, IndInvariant, PTL

(* The reader never leaves the file it has open, although the file that    *)
(* has the name changes under it.                                          *)
THEOREM LogTypeCorrect == Spec => []TypeOK
<1>1. Ind => TypeOK
  BY DEF Ind
<1>. QED
  BY <1>1, IndInvariant, PTL

-----------------------------------------------------------------------------
(* What the entries are.  Exact alone is not inductive: that no line is    *)
(* read twice rests on where the reader is.  It starts at the first line   *)
(* of one file, counts as it reads, and after that pass its position is    *)
(* that of a failed stream, from which nothing is ever read again.         *)
OnePass ==
    throws = 0 =>
       \/ pc = "idle" /\ pos = 0 /\ lineNo = 0 /\ v = <<>>
       \/ pc = "reading" /\ pos = 0 /\ at = lineNo /\ Exact(open)
       \/ pos = -1 /\ (pc = "reading" => at = -1) /\ \E f \in 1 .. Len(files) : Exact(f)

(* Files are sequences of lines.                                           *)
LEMMA Lengths ==
    ASSUME NEW fs \in Seq(Seq(Lines))
    PROVE  Len(fs) \in Nat /\ \A f \in 1 .. Len(fs) : Len(fs[f]) \in Nat
<1>1. Len(fs) \in Nat
  OBVIOUS
<1>2. \A f \in 1 .. Len(fs) : fs[f] \in Seq(Lines)
  OBVIOUS
<1>. QED
  BY <1>1, <1>2

(* What OnePass needs of the types.                                        *)
LEMMA FilesFacts ==
    ASSUME Ind
    PROVE  /\ files \in Seq(Seq(Lines)) /\ Len(files) \in Nat
           /\ \A f \in 1 .. Len(files) : Len(files[f]) \in Nat
           /\ 1 \in 1 .. Len(files) /\ open \in 1 .. Len(files)
<1>1. files \in Seq(Seq(Lines)) /\ Len(files) \in 1 .. MaxFiles /\ open \in 1 .. Len(files)
  BY DEF Ind, TypeOK
<1>2. Len(files) \in Nat /\ \A f \in 1 .. Len(files) : Len(files[f]) \in Nat
  BY <1>1, Lengths
<1>3. 1 \in 1 .. Len(files)
  BY <1>1, LogAssumption
<1>. QED
  BY <1>1, <1>2, <1>3

(* A file that grows, or that another one replaces, keeps its lines.       *)
LEMMA ExactStays ==
    ASSUME Ind, NEW f \in 1 .. Len(files), Exact(f), UNCHANGED <<lineNo, v>>,
           Len(files'[f]) \in Nat, Len(files[f]) <= Len(files'[f]),
           \A i \in 1 .. Len(files[f]) : files'[f][i] = files[f][i]
    PROVE  Exact(f)'
<1>1. lineNo \in Nat /\ Len(files[f]) \in Nat /\ lineNo <= Len(files[f])
  BY DEF Ind, TypeOK, Exact
<1>2. ToReport(f, lineNo)' = ToReport(f, lineNo)
  BY <1>1 DEF ToReport
<1>3. lineNo' <= Len(files'[f])
  BY <1>1
<1>. QED
  BY <1>2, <1>3 DEF Exact

(* The new entry comes first, and the last one goes when there is no room. *)
LEMMA Pushed ==
    ASSUME NEW rows \in Seq(Entries), NEW e \in Entries, Len(rows) <= History
    PROVE  LET new == Resized(<<e>> \o rows)
           IN  /\ Len(new) = IF Len(rows) = History THEN History ELSE Len(rows) + 1
               /\ new[1] = e
               /\ \A k \in 2 .. Len(new) : new[k] = rows[k - 1]
<1> DEFINE all == <<e>> \o rows
           n == IF Len(all) > History THEN History ELSE Len(all)
<1>1. Len(rows) \in Nat /\ History \in Nat /\ History >= 1
  BY LogAssumption
<1>2. /\ all \in Seq(Entries) /\ Len(all) = Len(rows) + 1
      /\ all[1] = e
      /\ \A k \in 2 .. Len(all) : all[k] = rows[k - 1]
  OBVIOUS
<1>3. n \in 1 .. Len(all) /\ n = IF Len(rows) = History THEN History ELSE Len(rows) + 1
  BY <1>1, <1>2
<1>4. Resized(all) = SubSeq(all, 1, n)
  BY DEF Resized
<1>. HIDE DEF all, n
<1>5. /\ Len(SubSeq(all, 1, n)) = n
      /\ \A k \in 1 .. n : SubSeq(all, 1, n)[k] = all[k]
  BY <1>2, <1>3
<1>6. /\ Len(Resized(all)) = n /\ Resized(all)[1] = e
      /\ \A k \in 2 .. n : Resized(all)[k] = rows[k - 1]
  BY <1>1, <1>2, <1>3, <1>4, <1>5
<1>. QED
  BY <1>3, <1>6 DEF all

(* One turn of the loop adds the line that is read, if it is to report.    *)
LEMMA GetlineExact ==
    ASSUME Ind, Getline, at = lineNo, Exact(open)
    PROVE  at' = lineNo' /\ Exact(open)'
<1>1. /\ lineNo \in Nat /\ open \in 1 .. Len(files) /\ v \in Seq(Entries)
      /\ Len(v) \in Nat /\ Len(files[open]) \in Nat /\ History \in Nat \ {0}
  BY LogAssumption, FileTypes DEF Ind, TypeOK
<1>2. /\ lineNo < Len(files[open]) /\ at' = at + 1 /\ lineNo' = lineNo + 1
      /\ UNCHANGED <<files, open>>
  BY DEF Getline
<1> DEFINE line == files[open][lineNo + 1]
           e == [file |-> open, place |-> lineNo + 1, line_no |-> lineNo + 1]
<1>3. v' = IF line = "report" THEN Resized(<<e>> \o v) ELSE v
  BY DEF Getline
<1>4. ToReport(open, lineNo)' = IF line = "report" THEN ToReport(open, lineNo) \cup {lineNo + 1}
                                ELSE ToReport(open, lineNo)
  BY <1>1, <1>2 DEF ToReport
<1>5. /\ lineNo <= Len(files[open]) /\ Len(v) <= History
      /\ \A k \in 1 .. Len(v) : v[k].file = open /\ v[k].line_no = v[k].place
                                  /\ v[k].place \in ToReport(open, lineNo)
      /\ \A j, k \in 1 .. Len(v) : j < k => v[j].place > v[k].place
      /\ \A i \in ToReport(open, lineNo) :
           \/ \E k \in 1 .. Len(v) : v[k].place = i
           \/ Len(v) = History /\ i < v[History].place
  BY DEF Exact
<1>6. \A i \in ToReport(open, lineNo) : i \in Nat /\ i <= lineNo
  BY <1>1 DEF ToReport
<1>7. CASE line # "report"
  <2>1. v' = v /\ ToReport(open, lineNo)' = ToReport(open, lineNo)
    BY <1>3, <1>4, <1>7
  <2>2. lineNo' <= Len(files'[open'])
    BY <1>1, <1>2
  <2>. QED
    BY <1>2, <1>5, <2>1, <2>2 DEF Exact
<1>8. CASE line = "report"
  <2>1. e \in Entries
    <3>1. lineNo + 1 \in 1 .. MaxLines
      BY <1>1, <1>2, FileTypes, LogAssumption
    <3>2. open \in 1 .. MaxFiles
      BY <1>1, LogAssumption DEF Ind, TypeOK
    <3>. QED
      BY <1>1, <3>1, <3>2 DEF Entries
  <2>2. /\ Len(v') = IF Len(v) = History THEN History ELSE Len(v) + 1
        /\ v'[1] = e
        /\ \A k \in 2 .. Len(v') : v'[k] = v[k - 1]
    BY <1>1, <1>3, <1>5, <1>8, <2>1, Pushed
  <2>3. e.file = open /\ e.place = lineNo + 1 /\ e.line_no = lineNo + 1
    OBVIOUS
  <2>. HIDE DEF e, line
  <2>4. Len(v') \in Nat /\ Len(v') <= History /\ Len(v') >= 1 /\ Len(v') <= Len(v) + 1
    BY <1>1, <1>5, <2>2
  <2>5. \A k \in 2 .. Len(v') : k - 1 \in 1 .. Len(v)
    BY <1>1, <2>4
  <2>6. ToReport(open, lineNo)' = ToReport(open, lineNo) \cup {lineNo + 1}
    BY <1>4, <1>8
  <2>7. ASSUME NEW k \in 1 .. Len(v')
        PROVE  v'[k].file = open /\ v'[k].line_no = v'[k].place
                 /\ v'[k].place \in ToReport(open, lineNo)'
    <3>1. CASE k = 1
      BY <2>2, <2>3, <2>6, <3>1
    <3>2. CASE k # 1
      <4>1. k \in 2 .. Len(v')
        BY <2>4, <3>2
      <4>. QED
        BY <1>5, <2>2, <2>5, <2>6, <4>1
    <3>. QED
      BY <3>1, <3>2
  <2>8. ASSUME NEW j \in 1 .. Len(v'), NEW k \in 1 .. Len(v'), j < k
        PROVE  v'[j].place > v'[k].place
    <3>1. k \in 2 .. Len(v') /\ k - 1 \in 1 .. Len(v) /\ v'[k] = v[k - 1]
      BY <2>2, <2>4, <2>5, <2>8
    <3>2. CASE j = 1
      <4>1. v[k - 1].place \in Nat /\ v[k - 1].place <= lineNo
        BY <1>5, <1>6, <3>1
      <4>. QED
        BY <1>1, <2>2, <2>3, <3>1, <3>2, <4>1
    <3>3. CASE j # 1
      <4>1. j \in 2 .. Len(v') /\ j - 1 \in 1 .. Len(v) /\ v'[j] = v[j - 1] /\ j - 1 < k - 1
        BY <2>2, <2>4, <2>5, <2>8, <3>3
      <4>. QED
        BY <1>5, <3>1, <4>1
    <3>. QED
      BY <3>2, <3>3
  <2>9. ASSUME NEW i \in ToReport(open, lineNo)'
        PROVE  \/ \E k \in 1 .. Len(v') : v'[k].place = i
               \/ Len(v') = History /\ i < v'[History].place
    <3>1. CASE i = lineNo + 1
      BY <2>2, <2>3, <2>4, <3>1
    <3>2. CASE i # lineNo + 1
      <4>1. i \in ToReport(open, lineNo) /\ i \in Nat /\ i <= lineNo
        BY <1>6, <2>6, <3>2
      <4>2. ASSUME NEW k \in 1 .. Len(v), v[k].place = i, k + 1 <= Len(v')
            PROVE  \E m \in 1 .. Len(v') : v'[m].place = i
        <5>1. k + 1 \in 2 .. Len(v') /\ k + 1 \in 1 .. Len(v') /\ k + 1 - 1 = k
          BY <2>4, <4>2
        <5>2. v'[k + 1] = v[k]
          BY <2>2, <5>1
        <5>. QED
          BY <4>2, <5>1, <5>2
      <4>3. ASSUME Len(v) = History, i <= v[History].place
            PROVE  Len(v') = History /\ i < v'[History].place
        <5>1. Len(v') = History
          BY <2>2, <4>3
        <5>2. v'[History].place > v[History].place
          <6>1. CASE History = 1
            <7>1. v[1].place \in Nat /\ v[1].place <= lineNo
              BY <1>1, <1>5, <1>6, <4>3, <6>1
            <7>. QED
              BY <1>1, <2>2, <2>3, <6>1, <7>1
          <6>2. CASE History # 1
            <7>1. /\ History \in 2 .. Len(v') /\ v'[History] = v[History - 1]
                  /\ History - 1 \in 1 .. Len(v) /\ History \in 1 .. Len(v)
              BY <1>1, <2>2, <4>3, <5>1, <6>2
            <7>. QED
              BY <1>5, <7>1
          <6>. QED
            BY <6>1, <6>2
        <5>3. v[History].place \in Nat /\ v'[History].place \in Nat
          <6>1. History \in 1 .. Len(v) /\ History \in 1 .. Len(v')
            BY <1>1, <4>3, <5>1
          <6>2. v'[History].place \in ToReport(open, lineNo)'
            BY <2>7, <6>1
          <6>. QED
            BY <1>1, <1>5, <1>6, <2>6, <6>1, <6>2
        <5>. QED
          BY <4>1, <4>3, <5>1, <5>2, <5>3
      <4>4. CASE \E k \in 1 .. Len(v) : v[k].place = i
        <5>1. PICK k \in 1 .. Len(v) : v[k].place = i
          BY <4>4
        <5>2. CASE k + 1 <= Len(v')
          BY <4>2, <5>1, <5>2
        <5>3. CASE ~(k + 1 <= Len(v'))
          <6>1. Len(v) = History /\ k = History
            BY <1>1, <1>5, <2>2, <5>3
          <6>2. i <= v[History].place
            BY <4>1, <5>1, <6>1
          <6>. QED
            BY <4>3, <6>1, <6>2
        <5>. QED
          BY <5>2, <5>3
      <4>5. CASE Len(v) = History /\ i < v[History].place
        <5>1. v[History].place \in Nat
          <6>1. History \in 1 .. Len(v)
            BY <1>1, <4>5
          <6>. QED
            BY <1>5, <1>6, <6>1
        <5>. QED
          BY <4>1, <4>3, <4>5, <5>1
      <4>. QED
        BY <1>5, <4>1, <4>4, <4>5
    <3>. QED
      BY <3>1, <3>2
  <2>10. lineNo' <= Len(files'[open'])
    BY <1>1, <1>2
  <2>. QED
    BY <1>2, <2>4, <2>7, <2>8, <2>9, <2>10 DEF Exact
<1>. QED
  BY <1>2, <1>7, <1>8

(* An empty list is exact for a log of which nothing has been read.        *)
LEMMA NothingRead ==
    ASSUME Ind, lineNo = 0, v = <<>>, NEW f \in 1 .. Len(files)
    PROVE  Exact(f)
<1>1. ToReport(f, lineNo) = {}
  BY DEF ToReport
<1>2. lineNo <= Len(files[f]) /\ Len(v) = 0 /\ Len(v) <= History
  BY LogAssumption DEF Ind, TypeOK
<1>. QED
  BY <1>1, <1>2 DEF Exact

(* Every step of the log and of parseLog() preserves it.                   *)
LEMMA OnePassStep == Ind /\ Ind' /\ OnePass /\ [Next]_vars => OnePass'
<1> SUFFICES ASSUME Ind, Ind', OnePass, [Next]_vars, throws' = 0 PROVE OnePass'
    BY DEF OnePass
<1>1. throws = 0 /\ throws' = throws
  <2>1. throws \in Nat
    BY LogAssumption DEF Ind, TypeOK
  <2>2. throws' = throws \/ throws' = throws + 1
    BY DEF Next, Parse, AppendLine, Rotate, ParseStart, Getline, ParseEnd, ParseThrows, vars
  <2>. QED
    BY <2>1, <2>2
<1>2. ASSUME UNCHANGED <<pos, lineNo, v, pc, open, at>>,
             Len(files) <= Len(files'),
             \A f \in 1 .. Len(files) :
                /\ Len(files[f]) <= Len(files'[f])
                /\ \A i \in 1 .. Len(files[f]) : files'[f][i] = files[f][i]
      PROVE  OnePass'
  <2>1. /\ Len(files) \in Nat /\ open \in 1 .. Len(files)
        /\ Len(files') \in Nat /\ \A f \in 1 .. Len(files') : Len(files'[f]) \in Nat
    <3>1. files' \in Seq(Seq(Lines))
      BY DEF Ind, TypeOK
    <3>. QED
      BY <3>1, Lengths, FilesFacts
  <2>2. \A f \in 1 .. Len(files) : f \in 1 .. Len(files')
    BY <1>2, <2>1
  <2>3. \A f \in 1 .. Len(files) : Len(files'[f]) \in Nat
    BY <2>1, <2>2
  <2>4. \A f \in 1 .. Len(files) : Exact(f) => Exact(f)'
    BY <1>2, <2>3, ExactStays
  <2>5. CASE pc = "reading" /\ pos = 0 /\ at = lineNo /\ Exact(open)
    <3>1. Exact(open)'
      BY <1>2, <2>1, <2>4, <2>5 DEF Exact, ToReport
    <3>. QED
      BY <1>2, <2>5, <3>1 DEF OnePass
  <2>6. CASE pos = -1 /\ (pc = "reading" => at = -1) /\ \E f \in 1 .. Len(files) : Exact(f)
    <3>1. \E f \in 1 .. Len(files') : Exact(f)'
      BY <2>2, <2>4, <2>6
    <3>. QED
      BY <1>2, <2>6, <3>1 DEF OnePass
  <2>. QED
    BY <1>1, <1>2, <2>5, <2>6 DEF OnePass
<1>3. ASSUME NEW line \in Lines, AppendLine(line) PROVE OnePass'
  <2> DEFINE last == Append(files[Len(files)], line)
  <2>1. /\ Len(last) = Len(files[Len(files)]) + 1
        /\ \A i \in 1 .. Len(files[Len(files)]) : last[i] = files[Len(files)][i]
        /\ Len(files[Len(files)]) \in Nat
    BY FileTypes
  <2>2. files' = [files EXCEPT ![Len(files)] = last]
    BY <1>3 DEF AppendLine
  <2> HIDE DEF last
  <2>3. Len(files') = Len(files) /\ Len(files) \in Nat
    BY <2>2 DEF Ind, TypeOK
  <2>4. \A f \in 1 .. Len(files) : files'[f] = IF f = Len(files) THEN last ELSE files[f]
    BY <2>2 DEF Ind, TypeOK
  <2>5. \A f \in 1 .. Len(files) : Len(files[f]) \in Nat
    BY FilesFacts
  <2>6. \A f \in 1 .. Len(files) :
           /\ Len(files[f]) <= Len(files'[f])
           /\ \A i \in 1 .. Len(files[f]) : files'[f][i] = files[f][i]
    BY <2>1, <2>4, <2>5
  <2>7. UNCHANGED <<pos, lineNo, v, pc, open, at>> /\ Len(files) <= Len(files')
    BY <1>3, <2>3 DEF AppendLine
  <2>. QED
    BY <1>2, <2>6, <2>7
<1>4. CASE Rotate
  <2>1. /\ Len(files') = Len(files) + 1 /\ Len(files) \in Nat
        /\ \A f \in 1 .. Len(files) : files'[f] = files[f]
    BY <1>4 DEF Rotate, Ind, TypeOK
  <2>2. \A f \in 1 .. Len(files) : Len(files[f]) \in Nat
    BY FilesFacts
  <2>. QED
    BY <1>2, <1>4, <2>1, <2>2 DEF Rotate
<1>5. CASE ParseStart
  <2>1. /\ pc = "idle" /\ pc' = "reading" /\ open' = Len(files) /\ UNCHANGED <<files, v>>
        /\ Len(files[Len(files)]) \in Nat /\ Len(files) \in 1 .. Len(files)
    BY <1>5, FileTypes DEF ParseStart
  <2>2. pos \in {0, -1}
    BY <1>1, <2>1 DEF OnePass
  <2>3. pos' = pos /\ lineNo' = lineNo /\ at' = pos
    BY <1>5, <2>1, <2>2 DEF ParseStart, seekg
  <2>4. CASE pos = 0
    <3>1. lineNo = 0 /\ v = <<>>
      BY <1>1, <2>1, <2>4 DEF OnePass
    <3>2. Exact(Len(files))
      BY <2>1, <3>1, NothingRead
    <3>3. Exact(open)'
      BY <2>1, <2>3, <3>2 DEF Exact, ToReport
    <3>. QED
      BY <2>1, <2>3, <2>4, <3>1, <3>3 DEF OnePass
  <2>5. CASE pos = -1
    <3>1. PICK f \in 1 .. Len(files) : Exact(f)
      BY <1>1, <2>5 DEF OnePass
    <3>2. Exact(f)'
      BY <2>1, <2>3, <3>1 DEF Exact, ToReport
    <3>. QED
      BY <2>1, <2>3, <2>5, <3>2 DEF OnePass
  <2>. QED
    BY <2>2, <2>4, <2>5
<1>6. CASE Getline
  <2>1. pc = "reading" /\ at # -1 /\ UNCHANGED <<pos, pc>>
    BY <1>6 DEF Getline
  <2>2. pos = 0 /\ at = lineNo /\ Exact(open)
    BY <1>1, <2>1 DEF OnePass
  <2>3. at' = lineNo' /\ Exact(open)'
    BY <1>6, <2>2, GetlineExact
  <2>. QED
    BY <2>1, <2>2, <2>3 DEF OnePass
<1>7. CASE ParseEnd
  <2>1. pc = "reading" /\ pc' = "idle" /\ pos' = -1 /\ UNCHANGED <<files, lineNo, v, open>>
    BY <1>7 DEF ParseEnd, tellg
  <2>2. \E f \in 1 .. Len(files) : Exact(f)
    BY <1>1, <2>1 DEF OnePass, Ind, TypeOK
  <2>3. PICK f \in 1 .. Len(files) : Exact(f)
    BY <2>2
  <2>4. Exact(f)'
    BY <2>1, <2>3 DEF Exact, ToReport
  <2>. QED
    BY <2>1, <2>3, <2>4 DEF OnePass
<1>8. CASE ParseThrows
  <2>1. throws \in Nat /\ throws' = throws + 1
    BY <1>8, LogAssumption DEF ParseThrows, Ind, TypeOK
  <2>. QED
    BY <1>1, <2>1
<1>9. CASE UNCHANGED vars
  <2>1. /\ UNCHANGED <<files, pos, lineNo, v, pc, open, at>>
        /\ Len(files) \in Nat
        /\ \A f \in 1 .. Len(files) : Len(files[f]) \in Nat
    BY <1>9 DEF vars, Ind, TypeOK
  <2>. QED
    BY <1>2, <2>1
<1>. QED
  BY <1>3, <1>4, <1>5, <1>6, <1>7, <1>8, <1>9 DEF Next, Parse

(* parseLog() reports every line of what it reads once, in order and with  *)
(* its number, up to the configured history, for every log, every growth   *)
(* and every rotation, as long as the plugin does not throw.               *)
THEOREM LogHistoryIsExact == Spec => []HistoryIsExact
<1>1. Init => OnePass
  BY DEF Init, OnePass
<1>2. Ind /\ OnePass => HistoryIsExact
  <2>1. SUFFICES ASSUME Ind, OnePass, throws = 0 PROVE \E f \in 1 .. Len(files) : Exact(f)
    BY DEF HistoryIsExact
  <2>2. 1 \in 1 .. Len(files) /\ open \in 1 .. Len(files)
    BY <2>1, FilesFacts
  <2>3. CASE lineNo = 0 /\ v = <<>>
    BY <2>1, <2>2, <2>3, NothingRead
  <2>. QED
    BY <2>1, <2>2, <2>3 DEF OnePass
<1>3. Spec => []OnePass
  BY <1>1, IndInvariant, OnePassStep, PTL DEF Spec
<1>. QED
  BY <1>2, <1>3, IndInvariant, PTL
=============================================================================
