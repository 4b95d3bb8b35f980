----------------------------- MODULE MCServices -----------------------------
(***************************************************************************)
(* Small hosts for ServicesManager.                                        *)
(*                                                                         *)
(* Restart: sshd (2) and its successor (3) listen on the same address,     *)
(*   each with its own inode; 3 may close the address and open it again,   *)
(*   which is another inode (4), and listen on a second address (3); 4 is  *)
(*   a child of 2 that inherits its sockets or not, and is left to init    *)
(*   when 2 ends.                                                          *)
(* Reopen: one daemon, which may open each of its sockets and close it;    *)
(*   with SshdConfigured, a service that the configuration describes.      *)
(* A run chooses how many of the pids and inodes exist.                    *)
(***************************************************************************)
EXTENDS ServicesManager

NoUnits == [p \in Pids |-> NoUnit]

SshdType == [n \in {"sshd"} |-> "system"]
Names == [path \in {"/usr/bin/init", "/usr/sbin/sshd"} |->
            IF path = "/usr/bin/init" THEN "init" ELSE "sshd"]

RestartExe == [p \in Pids |-> IF p = 1 THEN "/usr/bin/init" ELSE "/usr/sbin/sshd"]
RestartParent == [p \in Pids |-> IF p = 1 THEN 0 ELSE IF p = 4 THEN 2 ELSE 1]
RestartOpens == [p \in Pids |-> (IF p = 2 THEN {1} ELSE IF p = 3 THEN {2, 3, 4} ELSE {}) \cap Inodes]
RestartSource == [i \in Inodes |-> IF i = 3 THEN "tcp_B" ELSE "tcp_A"]
RestartUnit == [p \in Pids |-> IF p = 1 THEN NoUnit ELSE "ssh"]

ReopenOpens == [p \in Pids |-> IF p = 2 THEN {1, 2} \cap Inodes ELSE {}]

NoneConfigured == <<>>
SshdConfigured == <<[path |-> "/usr/sbin/sshd", uniq |-> "tcp_A", sources |-> {"tcp_A"}]>>
=============================================================================
