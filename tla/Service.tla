------------------------------- MODULE Service -------------------------------
(***************************************************************************)
(* class service (src/services.cpp): the operations on one service, as     *)
(* operators from the record before to the record after.                   *)
(*                                                                         *)
(*   name, type, uniq   the identity; getID() is name-uniq                 *)
(*   socks              source -> inode of the socket kept for it          *)
(*   main               mainProcess, in order                              *)
(*   sub                the pids of subProcess (their sockets are never    *)
(*                      looked at, their order does not matter)            *)
(*   handler            the systemd unit that isBlackout() asks about, and *)
(*                      whether its id is a full D-Bus path                *)
(***************************************************************************)
EXTENDS Host, SequencesExt

CONSTANTS
    BaseName,       \* path -> name of the executable
    TypeOf,         \* the names enhance_core.lua classifies -> their type
    Dynamic,        \* the names whose uniq it replaces by "dynamic"
    HaveBus         \* have_bus: systemdDetector could connect to the system bus

NoHandler == [unit |-> NoUnit, full |-> FALSE]

Sources == {Source[i] : i \in Inodes}

getID(s) == <<s.name, s.uniq>>

haveHandler(s) == s.handler # NoHandler

-----------------------------------------------------------------------------
(* Queries                                                                 *)

MainPids(s) == {s.main[k].pid : k \in DOMAIN s.main}

havePID(s, pid) == pid \in MainPids(s) \cup s.sub

(* service::haveSocket(id): a running main process has the inode in the    *)
(* list its last setSockets() found.                                       *)
haveSocket(s, id) ==
    \E k \in DOMAIN s.main : getStatus(s.main[k].pid) /\ id \in s.main[k].sks

(* A socket or a main process that getJsonStatus() shows as "failed".      *)
Failed(s) ==
    \/ \E a \in DOMAIN s.socks : ~haveSocket(s, s.socks[a])
    \/ \E pid \in MainPids(s) : ~getStatus(pid)

(* s.needSocketFrom(t): t has a socket that s shows as failed.             *)
needSocketFrom(s, t) ==
    \E a \in DOMAIN s.socks \cap DOMAIN t.socks : ~haveSocket(s, s.socks[a])

(* operator==: every socket of s is one of t.                              *)
Equal(s, t) ==
    /\ s.name = t.name
    /\ s.type = t.type
    /\ DOMAIN s.socks \subseteq DOMAIN t.socks

-----------------------------------------------------------------------------
(* Updates                                                                 *)

(* service::setSocket, for each of ids: a source that is known keeps the   *)
(* inode it has.  The order does not matter, no two open sockets have one  *)
(* source.                                                                 *)
setSocket(s, ids) ==
    [s EXCEPT !.socks = [a \in DOMAIN @ \cup {Source[i] : i \in ids} |->
                            IF a \in DOMAIN s.socks THEN s.socks[a]
                            ELSE CHOOSE i \in ids : Source[i] = a]]

addSubProcess(s, pid) == [s EXCEPT !.sub = @ \cup {pid}]

(* The processes that stay when others leave, in order.                    *)
Without(main, gone) ==
    LET Kept[k \in 0 .. Len(main)] ==
          IF k = 0 THEN <<>>
          ELSE IF main[k].pid \in gone THEN Kept[k - 1] ELSE Append(Kept[k - 1], main[k])
    IN  Kept[Len(main)]

(* service::addMainProcess: a child of a main process goes to the          *)
(* sub-processes, and the children of the new one leave the main ones.     *)
addMainProcess(s, proc) ==
    LET children == {q \in MainPids(s) : q # 0 /\ getPPID(q) = proc.pid}
    IN  IF proc.pid # 0 /\ getPPID(proc.pid) \in MainPids(s)
        THEN addSubProcess(s, proc.pid)
        ELSE IF proc.pid # 0
        THEN [s EXCEPT !.sub = @ \cup children,
                       !.main = Append(Without(@, children), proc)]
        ELSE [s EXCEPT !.main = Append(@, proc)]

\* Mutant: a running process with the same executable is replaced too.
ReplaceAnyProcess(s, proc) ==
    addMainProcess([s EXCEPT !.main = RemoveFirstMatch(@,
                        LAMBDA q : q.path = proc.path)], proc)

(* service::updateMainProcess: the first dead process with the same        *)
(* executable makes room for the new one.                                  *)
updateMainProcess(s, proc) ==
    addMainProcess([s EXCEPT !.main = RemoveFirstMatch(@,
                        LAMBDA q : ~getStatus(q.pid) /\ q.path = proc.path)], proc)

\* Mutant: the sockets that are known are not replaced.
UpdateKeepsSockets(s, src) ==
    [FoldLeft(updateMainProcess, s, src.main) EXCEPT
        !.socks = [a \in DOMAIN s.socks \cup DOMAIN src.socks |->
                      IF a \in DOMAIN s.socks THEN s.socks[a] ELSE src.socks[a]]]

(* service::updateFrom: the main processes, then the sockets, of src.  The *)
(* handler, the sub-processes and the collectors of src are lost.          *)
updateFrom(s, src) ==
    [FoldLeft(updateMainProcess, s, src.main) EXCEPT
        !.socks = [a \in DOMAIN s.socks \cup DOMAIN src.socks |->
                      IF a \in DOMAIN src.socks THEN src.socks[a] ELSE s.socks[a]]]

(* service::getPIDs, called by the collectors: dead sub-processes go.      *)
getPIDs(s) == [s EXCEPT !.sub = {pid \in @ : getStatus(pid)}]

(* service::setDefaultConfig: what the template of the service holds.      *)
ConfigOf(s) == [sockets |-> DOMAIN s.socks,
                process |-> [k \in DOMAIN s.main |-> s.main[k].path]]

-----------------------------------------------------------------------------
(* Construction                                                            *)

NewService(proc, uniq, handler) ==
    [name |-> BaseName[proc.path], type |-> "unknown", uniq |-> uniq,
     socks |-> <<>>, main |-> <<proc>>, sub |-> {}, handler |-> handler]

(* GetUnitByPID: the unit of a process, none for one that is gone.         *)
findByPID(pid) == IF getStatus(pid) THEN UnitOf[pid] ELSE NoUnit

(* systemdEnhancer: with a bus, a service without a handler is named after *)
(* its unit, and the bare unit name becomes the handler's id.  A call that *)
(* is not answered yields the empty name, and the service keeps its own.   *)
NamedByUnit(s, answered) ==
    LET u == findByPID(s.main[1].pid) IN
    IF ~HaveBus \/ haveHandler(s) \/ ~answered \/ u = NoUnit THEN s
    ELSE [s EXCEPT !.uniq = u, !.handler = [unit |-> u, full |-> FALSE]]

(* enhance_core.lua: the type by the name, and one ID for the daemons      *)
(* whose port changes from boot to boot.                                   *)
Classified(s) ==
    [s EXCEPT !.type = IF s.name \in DOMAIN TypeOf THEN TypeOf[s.name] ELSE @,
              !.uniq = IF s.name \in Dynamic THEN "dynamic" ELSE @]

(* The enhancers, in the order in which addService() calls them.           *)
Enhance(s, answered) == Classified(NamedByUnit(s, answered))
=============================================================================
