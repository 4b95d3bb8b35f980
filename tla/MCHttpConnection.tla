-------------------------- MODULE MCHttpConnection --------------------------
(***************************************************************************)
(* Requests that take every path through the handlers.                     *)
(***************************************************************************)
EXTENDS HttpConnection

Plain == [parses |-> TRUE, length |-> "none", resource |-> "route",
          connection |-> "none", recent |-> TRUE, size |-> 0]

File(size) == [Plain EXCEPT !.resource = "file", !.size = size]

AllRequests ==
    {Plain,
     [Plain EXCEPT !.parses = FALSE],
     [Plain EXCEPT !.length = "bad"],
     [Plain EXCEPT !.length = "body", !.resource = "none"],
     [Plain EXCEPT !.resource = "throws", !.recent = FALSE, !.connection = "keep-alive"],
     [Plain EXCEPT !.resource = "page", !.recent = FALSE],
     [File(3) EXCEPT !.connection = "close"],
     File(2),
     File(0)}

(* One client takes every path and sends a second request before or after  *)
(* the first is answered; another one only holds its connection.           *)
SomeRequests == [c \in Conns |-> IF c = "c1" THEN AllRequests ELSE {}]

Counts == [c \in Conns |-> IF c = "c1" THEN 2 ELSE 0]
=============================================================================
