-------------------------------- MODULE Host --------------------------------
(***************************************************************************)
(* The host the agent watches, as the agent sees it: the processes of      *)
(* /proc, their listening sockets, and the systemd units.  Nothing here is *)
(* the agent's own code: the actions are what may happen on a host between *)
(* two reads of the agent.  What the agent asks of a process (class        *)
(* process, src/services.cpp) is at the end.                               *)
(*                                                                         *)
(* A pid and a socket inode are used once.  A process that restarts is     *)
(* another pid with the same executable; a socket opened again on the same *)
(* address is another inode with the same source.                          *)
(***************************************************************************)
EXTENDS Integers, FiniteSets

CONSTANTS
    LastPid,    \* the pids are 1 .. LastPid, and 1 is init
    Inodes,     \* the inodes of listening sockets
    Exe,        \* pid -> path of its executable
    Parent,     \* pid -> the pid that forks it; 0 for init
    Opens,      \* pid -> inodes it may open
    Source,     \* inode -> the address it listens on
    Units,      \* systemd service units
    UnitOf,     \* pid -> the unit whose control group it is born in, or NoUnit
    NoUnit

Pids == 1 .. LastPid

ASSUME HostAssumption ==
    /\ LastPid \in Nat \ {0}
    /\ Parent \in [Pids -> 0 .. LastPid]
    /\ Parent[1] = 0
    /\ \A p \in Pids \ {1} : Parent[p] \in 1 .. p - 1
    /\ Opens \in [Pids -> SUBSET Inodes]
    /\ NoUnit \notin Units
    /\ UnitOf \in [Pids -> Units \cup {NoUnit}]

VARIABLES
    alive,      \* the running processes
    born,       \* the pids used so far
    fds,        \* pid -> its open listening sockets
    opened,     \* the inodes used so far
    unit        \* unit -> its ExecMainPID and ActiveState

hostVars == <<alive, born, fds, opened, unit>>

HostTypeOK ==
    /\ 1 \in alive
    /\ alive \subseteq born /\ born \subseteq Pids
    /\ fds \in [Pids -> SUBSET opened] /\ opened \subseteq Inodes
    /\ unit \in [Units -> [pid: {0} \cup Pids, state: {"active", "inactive", "failed"}]]

HostInit ==
    /\ alive = {1}
    /\ born = {1}
    /\ fds = [p \in Pids |-> {}]
    /\ opened = {}
    /\ unit = [u \in Units |-> [pid |-> 0, state |-> "inactive"]]

-----------------------------------------------------------------------------
(* A process that init forks in a unit is the unit's main process.         *)
MainOf(p) == IF Parent[p] = 1 THEN UnitOf[p] ELSE NoUnit

(* fork and exec: a child of a daemon inherits its listening sockets, or   *)
(* has closed them.  systemd starts a unit again only once its main        *)
(* process is gone.                                                        *)
Spawn(p) ==
    /\ p \notin born /\ Parent[p] \in alive
    /\ MainOf(p) # NoUnit => unit[MainOf(p)].pid \notin alive
    /\ alive' = alive \cup {p}
    /\ born' = born \cup {p}
    /\ \E inherited \in {fds[Parent[p]], {}} : fds' = [fds EXCEPT ![p] = inherited]
    /\ unit' = [u \in Units |-> IF u = MainOf(p) THEN [pid |-> p, state |-> "active"]
                                                  ELSE unit[u]]
    /\ UNCHANGED opened

(* A process ends: its unit was stopped, or has failed.                    *)
Exit(p) ==
    /\ p \in alive \ {1}
    /\ alive' = alive \ {p}
    /\ fds' = [fds EXCEPT ![p] = {}]
    /\ \E s \in {"inactive", "failed"} :
          unit' = [u \in Units |-> IF unit[u].pid = p THEN [pid |-> p, state |-> s]
                                                      ELSE unit[u]]
    /\ UNCHANGED <<born, opened>>

(* The kernel refuses an address another socket listens on.                *)
Listen(p, i) ==
    /\ p \in alive /\ i \in Opens[p] \ opened
    /\ \A q \in alive : \A j \in fds[q] : Source[j] # Source[i]
    /\ fds' = [fds EXCEPT ![p] = @ \cup {i}]
    /\ opened' = opened \cup {i}
    /\ UNCHANGED <<alive, born, unit>>

Close(p, i) ==
    /\ p \in alive /\ i \in fds[p]
    /\ fds' = [fds EXCEPT ![p] = @ \ {i}]
    /\ UNCHANGED <<alive, born, opened, unit>>

HostStep ==
    \E p \in Pids :
       \/ Spawn(p)
       \/ Exit(p)
       \/ \E i \in Inodes : Listen(p, i) \/ Close(p, i)

-----------------------------------------------------------------------------
(* class process                                                           *)

(* process::getStatus: /proc/<pid> exists.  The pid 0 of a process read    *)
(* from a configuration file never does.                                   *)
getStatus(pid) == pid \in alive

(* process::getPPID: field 4 of /proc/<pid>/stat, 0 when there is none.    *)
(* An orphan belongs to init.                                              *)
getPPID(pid) ==
    IF pid \notin alive THEN 0
    ELSE IF pid = 1 \/ Parent[pid] \in alive THEN Parent[pid]
    ELSE 1

(* process(pid), and the process read from a configuration file.  sks are  *)
(* the inodes that setSockets() found.                                     *)
Process(p) == [pid |-> p, path |-> Exe[p], sks |-> {}]

ConfiguredProcess(path) == [pid |-> 0, path |-> path, sks |-> {}]

(* process::setSockets: the cached list is replaced by the open sockets.   *)
setSockets(proc) ==
    IF proc.pid \in alive THEN [proc EXCEPT !.sks = fds[proc.pid]] ELSE proc
=============================================================================
