---------------------------- MODULE RequestReply ----------------------------
(***************************************************************************)
(* What a client of the agent may rely on, whatever the other clients do:  *)
(* a connection takes one request at a time, a request is answered at most *)
(* once and before the next one is taken, nothing is answered on a         *)
(* connection that was given up or closed, and the server does not keep a  *)
(* request for ever: it answers it, or gives the connection up and closes  *)
(* it.  There is one exception, a request of its own kind from the start:  *)
(* one whose handler throws may end without an answer on a connection that *)
(* goes on.  HttpConnection implements this.                               *)
(***************************************************************************)
EXTENDS Naturals

CONSTANT Conns      \* the connections of the clients

VARIABLES
    state,      \* of each connection
    answers     \* how many requests have been answered on it

vars == <<state, answers>>

Init ==
    /\ state = [c \in Conns |-> "off"]
    /\ answers = [c \in Conns |-> 0]

Becomes(c, from, to) ==
    /\ state[c] \in from
    /\ state' = [state EXCEPT ![c] = to]

Open(c) == Becomes(c, {"off"}, "idle") /\ UNCHANGED answers

(* A request is taken; the handler of a failing one will throw.            *)
Take(c) == Becomes(c, {"idle"}, "busy") /\ UNCHANGED answers

TakeFailing(c) == Becomes(c, {"idle"}, "failing") /\ UNCHANGED answers

Answer(c) == Becomes(c, {"busy"}, "done") /\ answers' = [answers EXCEPT ![c] = @ + 1]

(* A request whose handler threw is over, and its client has heard nothing.*)
Forget(c) == Becomes(c, {"failing"}, "done") /\ UNCHANGED answers

Reuse(c) == Becomes(c, {"done"}, "idle") /\ UNCHANGED answers

(* Nobody serves the connection any more: it is still to be closed.        *)
GiveUp(c) == Becomes(c, {"idle", "busy", "failing", "done"}, "given up") /\ UNCHANGED answers

Close(c) ==
    /\ Becomes(c, {"idle", "busy", "failing", "done", "given up"}, "closed")
    /\ UNCHANGED answers

Settle(c) ==
    /\ state[c] \in {"busy", "failing", "given up"}
    /\ Answer(c) \/ Forget(c) \/ GiveUp(c) \/ Close(c)

Next ==
    \E c \in Conns :
       \/ Open(c) \/ Take(c) \/ TakeFailing(c) \/ Answer(c) \/ Forget(c) \/ Reuse(c)
       \/ GiveUp(c) \/ Close(c)

Spec == Init /\ [][Next]_vars /\ \A c \in Conns : WF_vars(Settle(c))
=============================================================================
