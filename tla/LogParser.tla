------------------------------ MODULE LogParser ------------------------------
(***************************************************************************)
(* logParser::parseLog (src/services.cpp), which the polling thread of a   *)
(* log monitor runs under the monitor's mutex, and the log file it         *)
(* follows, which a daemon appends to and logrotate replaces at any time,  *)
(* also between two getline().  The thread itself is that of               *)
(* CollectorThread.                                                        *)
(*                                                                         *)
(* A position in the file is a number of lines: tellg() and seekg() are    *)
(* only ever used at the end of a line.                                    *)
(***************************************************************************)
EXTENDS Integers, Sequences

CONSTANTS
    History,    \* (*cfg)["history"]
    MaxLines,   \* bound: lines of one file
    MaxFiles,   \* bound: files logrotate makes
    MaxThrows   \* bound: exceptions of the parser plugin

ASSUME LogAssumption ==
    /\ History \in Nat \ {0}
    /\ MaxLines \in Nat \ {0} /\ MaxFiles \in Nat \ {0} /\ MaxThrows \in Nat

(* What the plugin makes of a line: a level other than ok and a date       *)
(* ("report"), a level and no date, or the level ok.                       *)
Lines == {"report", "undated", "ok"}

VARIABLES
    files,      \* the files that had the name so far; the last one has it now
    pos,        \* logParser::pos
    lineNo,     \* logParser::lineNo
    v,          \* logParser::v, newest first: file, place in it, and line_no
    pc,         \* "idle" or "reading"
    open,       \* the file that infile has open
    at,         \* the position of infile, -1 when seekg() failed
    throws

vars == <<files, pos, lineNo, v, pc, open, at, throws>>

Entries == [file: 1 .. MaxFiles, place: 1 .. MaxLines, line_no: Nat]

(* The types of the state: the files, the position in the open one and     *)
(* the entries.                                                            *)
TypeOK ==
    /\ files \in Seq(Seq(Lines)) /\ Len(files) \in 1 .. MaxFiles
    /\ pos \in -1 .. MaxLines
    /\ lineNo \in Nat
    /\ v \in Seq(Entries)
    /\ pc \in {"idle", "reading"}
    /\ open \in 1 .. Len(files)
    /\ at \in -1 .. Len(files[open])
    /\ throws \in 0 .. MaxThrows

(* The monitor starts on a log that may have lines already.                *)
Init ==
    /\ files \in {<< <<>> >>} \cup {<< <<line>> >> : line \in Lines}
    /\ pos = 0 /\ lineNo = 0 /\ v = <<>>
    /\ pc = "idle" /\ open = 1 /\ at = 0
    /\ throws = 0

-----------------------------------------------------------------------------
(* The log file                                                            *)

AppendLine(line) ==
    /\ Len(files[Len(files)]) < MaxLines
    /\ files' = [files EXCEPT ![Len(files)] = Append(@, line)]
    /\ UNCHANGED <<pos, lineNo, v, pc, open, at, throws>>

Rotate ==
    /\ Len(files) < MaxFiles
    /\ files' = Append(files, <<>>)
    /\ UNCHANGED <<pos, lineNo, v, pc, open, at, throws>>

-----------------------------------------------------------------------------
(* parseLog                                                                *)

(* seekg() to a position that is not one sets the failbit.                 *)
seekg(p) == p

(* tellg() of a stream that has failed, as every one has whose getline()   *)
(* has returned false.                                                     *)
tellg == -1

(* The size against pos: nothing new, rotated, or lines to read from pos.  *)
ParseStart ==
    LET newSize == Len(files[Len(files)])
        from == IF newSize < pos THEN 0 ELSE pos
    IN
    /\ pc = "idle" /\ newSize # pos
    /\ pc' = "reading"
    /\ open' = Len(files)
    /\ pos' = from
    /\ lineNo' = IF newSize < pos THEN 0 ELSE lineNo
    /\ at' = seekg(from)
    /\ UNCHANGED <<files, v, throws>>

\* Mutant: the rows beyond the configured size are kept.
NotResized(rows) == rows

Resized(rows) == SubSeq(rows, 1, IF Len(rows) > History THEN History ELSE Len(rows))

\* Mutant: only the lines that are reported are counted.
GetlineCountsReports ==
    LET line == files[open][at + 1] IN
    /\ pc = "reading" /\ at # -1 /\ at < Len(files[open])
    /\ at' = at + 1
    /\ lineNo' = IF line = "report" THEN lineNo + 1 ELSE lineNo
    /\ v' = IF line = "report"
            THEN Resized(<<[file |-> open, place |-> at', line_no |-> lineNo']>> \o v)
            ELSE v
    /\ UNCHANGED <<files, pos, pc, open, throws>>

(* One turn of the loop.                                                   *)
Getline ==
    LET line == files[open][at + 1] IN
    /\ pc = "reading" /\ at # -1 /\ at < Len(files[open])
    /\ at' = at + 1
    /\ lineNo' = lineNo + 1
    /\ v' = IF line = "report"
            THEN Resized(<<[file |-> open, place |-> at', line_no |-> lineNo']>> \o v)
            ELSE v
    /\ UNCHANGED <<files, pos, pc, open, throws>>

(* getline() has failed: the end of the file, or a stream that seekg() has *)
(* failed on.                                                              *)
ParseEnd ==
    /\ pc = "reading" /\ (at = -1 \/ at = Len(files[open]))
    /\ pos' = tellg
    /\ pc' = "idle"
    /\ UNCHANGED <<files, lineNo, v, open, at, throws>>

(* getLevel() or getDate() throws: the line is counted, pos is not moved.  *)
ParseThrows ==
    /\ pc = "reading" /\ at # -1 /\ at < Len(files[open])
    /\ throws < MaxThrows
    /\ throws' = throws + 1
    /\ lineNo' = lineNo + 1
    /\ pc' = "idle"
    /\ UNCHANGED <<files, pos, v, open, at>>

Parse == ParseStart \/ Getline \/ ParseEnd \/ ParseThrows

Next ==
    \/ \E line \in Lines : AppendLine(line)
    \/ Rotate
    \/ Parse

(* The polling thread polls for ever.                                      *)
Spec == Init /\ [][Next]_vars /\ WF_vars(Parse)

-----------------------------------------------------------------------------
(* The places of the lines to report among the first n of a file.          *)
ToReport(f, n) == {i \in 1 .. n : files[f][i] = "report"}

(* The entries are the last History lines to report among the lineNo first *)
(* lines of file f, the newest first, each with its line number.           *)
Exact(f) ==
    /\ lineNo <= Len(files[f]) /\ Len(v) <= History
    /\ \A k \in 1 .. Len(v) :
         v[k].file = f /\ v[k].line_no = v[k].place /\ v[k].place \in ToReport(f, lineNo)
    /\ \A j, k \in 1 .. Len(v) : j < k => v[j].place > v[k].place
    /\ \A i \in ToReport(f, lineNo) :
         \/ \E k \in 1 .. Len(v) : v[k].place = i
         \/ Len(v) = History /\ i < v[History].place

(* As long as the plugin does not throw, the entries are exactly the last  *)
(* History lines to report of what has been read of one file, with their   *)
(* line numbers, none twice, none out of order, although the file grows    *)
(* and is rotated while it is read.                                        *)
HistoryIsExact == throws = 0 => \E f \in 1 .. Len(files) : Exact(f)

(* The configured size is never exceeded, also when the plugin throws and  *)
(* lines are read again.                                                   *)
HistoryBounded == Len(v) <= History

(* "Service log monitoring" (README): a line to report is reported.  The   *)
(* position after the first pass is that of a failed stream, so no line    *)
(* written later is ever read.                                             *)
NewLinesReported ==
    \A i \in 1 .. MaxLines :
       (i <= Len(files[1]) /\ files[1][i] = "report")
          ~> (\E k \in DOMAIN v : v[k].file = 1 /\ v[k].place = i)
=============================================================================
