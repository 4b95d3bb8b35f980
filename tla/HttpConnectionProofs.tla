------------------------ MODULE HttpConnectionProofs ------------------------
(***************************************************************************)
(* The connections of the HTTP server, for every number of clients, every  *)
(* mix of requests and every size of the buffer.                           *)
(*                                                                         *)
(* None of the properties is inductive by itself.  ConnInd says of one     *)
(* connection how its socket, the pending operation, the timer and the     *)
(* request agree with what waits for it in the queue of the thread.  It    *)
(* speaks of the queue only through Of (the completions of a connection)   *)
(* and Single, so that a step leaves every other connection alone.         *)
(***************************************************************************)
EXTENDS HttpConnection, FiniteSetTheorems, SequenceTheorems, TLAPS

(* The completions of connection c that are queued.                        *)
Of(q, c) == {q[i] : i \in {j \in DOMAIN q : q[j].conn = c}}

(* No two operations of c have completed and wait for the thread.          *)
Single(q, c) ==
    \A i, j \in DOMAIN q :
        /\ q[i].conn = c /\ q[i].kind # "timer"
        /\ q[j].conn = c /\ q[j].kind # "timer"
        => i = j

(* Of says nothing else than Pending does.                                 *)
LEMMA OfElements ==
    ASSUME NEW q \in Seq(Completions), NEW c
    PROVE  /\ \A e \in Of(q, c) : e \in Completions /\ e.conn = c
           /\ \A i \in DOMAIN q : q[i].conn = c => q[i] \in Of(q, c)
           /\ \A e \in Of(q, c) : \E i \in DOMAIN q : q[i] = e /\ q[i].conn = c
           /\ Of(q, c) = {} <=> {i \in DOMAIN q : q[i].conn = c} = {}
BY DEF Of

(* A completion is queued.                                                 *)
LEMMA AppendOf ==
    ASSUME NEW q \in Seq(Completions), NEW e \in Completions
    PROVE  /\ Append(q, e) \in Seq(Completions)
           /\ Of(Append(q, e), e.conn) = Of(q, e.conn) \cup {e}
           /\ \A c : c # e.conn => Of(Append(q, e), c) = Of(q, c)
<1> DEFINE r == Append(q, e)
<1>1. /\ r \in Seq(Completions) /\ Len(q) \in Nat
      /\ DOMAIN q = 1 .. Len(q) /\ DOMAIN r = 1 .. Len(q) + 1
      /\ \A i \in 1 .. Len(q) : r[i] = q[i]
      /\ r[Len(q) + 1] = e
  OBVIOUS
<1>. QED
  BY <1>1 DEF Of

(* What is queued keeps Single when it is a timer, belongs to another      *)
(* connection, or is the only operation of c.                              *)
LEMMA AppendSingle ==
    ASSUME NEW q \in Seq(Completions), NEW e \in Completions, NEW c, Single(q, c),
           e.conn # c \/ e.kind = "timer" \/ \A d \in Of(q, c) : d.kind = "timer"
    PROVE  Single(Append(q, e), c)
<1> DEFINE r == Append(q, e)
<1>1. /\ r \in Seq(Completions) /\ Len(q) \in Nat
      /\ DOMAIN q = 1 .. Len(q) /\ DOMAIN r = 1 .. Len(q) + 1
      /\ \A i \in 1 .. Len(q) : r[i] = q[i]
      /\ r[Len(q) + 1] = e
  OBVIOUS
<1>2. \A i \in DOMAIN q : q[i].conn = c => q[i] \in Of(q, c)
  BY OfElements
<1>. QED
  BY <1>1, <1>2 DEF Single

(* The thread takes the first completion.                                  *)
LEMMA TailOf ==
    ASSUME NEW q \in Seq(Completions), q # <<>>, NEW c
    PROVE  /\ Tail(q) \in Seq(Completions)
           /\ Head(q) \in Completions
           /\ Head(q).conn = c => Head(q) \in Of(q, c)
           /\ Of(Tail(q), c) \subseteq Of(q, c)
           /\ Of(q, c) \subseteq Of(Tail(q), c) \cup {Head(q)}
           /\ Head(q).conn # c => Of(Tail(q), c) = Of(q, c)
<1> DEFINE r == Tail(q)
<1>1. /\ r \in Seq(Completions) /\ Len(q) \in Nat \ {0}
      /\ DOMAIN q = 1 .. Len(q) /\ DOMAIN r = 1 .. Len(q) - 1
      /\ \A i \in 1 .. Len(q) - 1 : r[i] = q[i + 1]
      /\ Head(q) = q[1] /\ q[1] \in Completions
  OBVIOUS
<1>2. \A i \in DOMAIN q : i = 1 \/ (i - 1 \in DOMAIN r /\ r[i - 1] = q[i])
  BY <1>1
<1>3. \A i \in DOMAIN r : i + 1 \in DOMAIN q /\ r[i] = q[i + 1]
  BY <1>1
<1>4. Of(r, c) \subseteq Of(q, c)
  BY <1>3 DEF Of
<1>5. Of(q, c) \subseteq Of(r, c) \cup {q[1]}
  BY <1>2 DEF Of
<1>6. q[1].conn # c => Of(r, c) = Of(q, c)
  BY <1>2, <1>4 DEF Of
<1>7. q[1].conn = c => q[1] \in Of(q, c)
  BY <1>1 DEF Of
<1>. QED
  BY <1>1, <1>4, <1>5, <1>6, <1>7

(* Single is kept when a completion is taken, and what stays of its        *)
(* connection are timers.                                                  *)
LEMMA TailSingle ==
    ASSUME NEW q \in Seq(Completions), q # <<>>, NEW c, Single(q, c)
    PROVE  /\ Single(Tail(q), c)
           /\ Head(q).conn = c /\ Head(q).kind # "timer" =>
                 \A d \in Of(Tail(q), c) : d.kind = "timer"
<1> DEFINE r == Tail(q)
<1>1. /\ r \in Seq(Completions) /\ Len(q) \in Nat \ {0}
      /\ DOMAIN q = 1 .. Len(q) /\ DOMAIN r = 1 .. Len(q) - 1
      /\ \A i \in 1 .. Len(q) - 1 : r[i] = q[i + 1]
      /\ Head(q) = q[1]
  OBVIOUS
<1>2. \A i \in DOMAIN r : i + 1 \in DOMAIN q /\ i + 1 # 1 /\ r[i] = q[i + 1]
  BY <1>1
<1>3. Single(r, c)
  BY <1>1, <1>2 DEF Single
<1>4. ASSUME q[1].conn = c, q[1].kind # "timer", NEW d \in Of(r, c) PROVE d.kind = "timer"
  BY <1>1, <1>2, <1>4 DEF Single, Of
<1>. QED
  BY <1>1, <1>3, <1>4

-----------------------------------------------------------------------------
(* The inductive invariant                                                 *)

(* The completions of c that stand for an operation, and not for a timer.  *)
Calls(c) == {e \in Of(queue, c) : e.kind # "timer"}

Types ==
    /\ secure \in BOOLEAN /\ accepting \in BOOLEAN
    /\ queue \in Seq(Completions)
    /\ sock \in [Conns -> {"none", "open", "closed"}]
    /\ op \in [Conns -> Operations \cup {"none"}]
    /\ timer \in [Conns -> BOOLEAN]
    /\ request \in [Conns -> RequestType \cup {NoRequest}]
    /\ unread \in [Conns -> Nat] /\ body \in [Conns -> Nat]
    /\ client \in [Conns -> {"away", "here", "left"}]
    /\ wire \in [Conns -> Nat] /\ asked \in [Conns -> Nat] /\ answers \in [Conns -> Nat]

(* Only an accept that has failed belongs to no connection.                *)
Rightful(e) == IF e.kind = "accept" /\ ~e.ok THEN e.conn = NoConn ELSE e.conn \in Conns

OwnedIn(q) == \A i \in DOMAIN q : Rightful(q[i])

Owned == OwnedIn(queue)

(* One operation at a time, on a socket that is open.                      *)
Exclusive(c) ==
    /\ Single(queue, c)
    /\ op[c] # "none" => sock[c] = "open" /\ Calls(c) = {}

(* Before the client connects there is nothing of its connection.          *)
Unborn(c) ==
    /\ client[c] = "away" => sock[c] = "none"
    /\ sock[c] = "none" => /\ op[c] = "none" /\ ~timer[c] /\ Of(queue, c) = {}
                           /\ request[c] = NoRequest

(* A timer of c has expired, and the thread has yet to see it.             *)
Rung(c) == \E e \in Of(queue, c) : e.kind = "timer"

Rings(c) == timer[c] \/ Rung(c)

(* An operation that was started has its timer, which is still running or  *)
(* has yet to be seen by the thread.                                       *)
Timed(c) ==
    sock[c] = "open" =>
        /\ op[c] # "none" => Rings(c)
        /\ \A e \in Calls(c) : e.kind # "accept" => Rings(c)
        /\ Rings(c) \/ Calls(c) # {}

(* A read has no request yet; what follows it has one.                     *)
HasRequest(kind, ok) == kind \in {"content", "chunk", "send"} \/ (kind = "head" /\ ok)

Reading(c) ==
    /\ op[c] # "none" => (HasRequest(op[c], FALSE) <=> request[c] # NoRequest)
    /\ \A e \in Calls(c) : HasRequest(e.kind, e.ok) <=> request[c] # NoRequest
    /\ request[c] \in Requests[c] \cup {NoRequest}

(* An operation fails only when the client or the socket is gone.          *)
Failing(c) == \A e \in Calls(c) : ~e.ok => client[c] = "left" \/ sock[c] = "closed"

(* What is left of a file and what was sent of it are the file.            *)
Sending(c) ==
    request[c] # NoRequest /\ request[c].resource = "file" =>
        /\ op[c] = "chunk" \/ (\E e \in Calls(c) : e.kind = "chunk")
              => unread[c] + body[c] = request[c].size
        /\ op[c] = "send" => body[c] = request[c].size \/ client[c] = "left"

(* A request that is neither on the wire nor answered.                     *)
InFlight(c) ==
    \/ op[c] \in {"content", "chunk", "send"}
    \/ \E e \in Calls(c) : e.kind \in {"content", "chunk"} \/ (e.kind = "head" /\ e.ok)

Budget(c) ==
    /\ answers[c] + wire[c] + (IF InFlight(c) THEN 1 ELSE 0) <= asked[c]
    /\ asked[c] <= MaxRequests[c]

ConnInd(c) ==
    Exclusive(c) /\ Unborn(c) /\ Timed(c) /\ Reading(c) /\ Failing(c) /\ Sending(c) /\ Budget(c)

Ind == Types /\ Owned /\ \A c \in Conns : ConnInd(c)

(* A completion that belongs to its connection is queued.                  *)
LEMMA AppendOwned ==
    ASSUME NEW q \in Seq(Completions), OwnedIn(q), NEW e \in Completions, Rightful(e)
    PROVE  OwnedIn(Append(q, e))
BY DEF OwnedIn

(* The completion that is taken belongs to its connection.                 *)
LEMMA TailOwned ==
    ASSUME NEW q \in Seq(Completions), q # <<>>, OwnedIn(q)
    PROVE  OwnedIn(Tail(q)) /\ Rightful(Head(q))
BY DEF OwnedIn

(* A step changes nothing of connection d.                                 *)
Same(d) ==
    /\ sock'[d] = sock[d] /\ op'[d] = op[d] /\ timer'[d] = timer[d]
    /\ request'[d] = request[d] /\ unread'[d] = unread[d] /\ body'[d] = body[d]
    /\ client'[d] = client[d] /\ wire'[d] = wire[d]
    /\ asked'[d] = asked[d] /\ answers'[d] = answers[d]
    /\ Of(queue', d) = Of(queue, d) /\ Single(queue', d)

(* Held and Sent in terms of Calls.                                        *)
Holds(c) == op[c] # "none" \/ Calls(c) # {}

Sends(c) == \E e \in Calls(c) : e.kind = "send" /\ e.ok

(* What a step of connection c is to the client: nothing, or a step of     *)
(* RequestReply.                                                           *)
Moved(c) ==
    \/ /\ UNCHANGED answers
       /\ \/ Stage(c)' = Stage(c)
          \/ Stage(c) = "off" /\ Stage(c)' = "idle"
          \/ Stage(c) = "idle" /\ Stage(c)' \in {"busy", "failing"}
          \/ Stage(c) = "failing" /\ Stage(c)' = "done"
          \/ Stage(c) = "done" /\ Stage(c)' = "idle"
          \/ Stage(c) \in {"idle", "busy", "failing", "done"} /\ Stage(c)' = "given up"
          \/ /\ Stage(c) \in {"idle", "busy", "failing", "done", "given up"}
             /\ Stage(c)' = "closed"
    \/ /\ Stage(c) = "busy" /\ Stage(c)' = "done"
       /\ answers' = [answers EXCEPT ![c] = @ + 1]

StepOf(c) == Moved(c) /\ \A d \in Conns : d # c => Same(d)

(* A step of one connection, or of none.                                   *)
Steps ==
    \/ \E c \in Conns : StepOf(c)
    \/ UNCHANGED answers /\ \A d \in Conns : Same(d)

(* A completion is in the queue at some place or is an element of Of: the  *)
(* two say the same of the work that is left.                              *)
LEMMA HeldOf ==
    ASSUME NEW q \in Seq(Completions), NEW c
    PROVE  /\ (\E i \in {i \in DOMAIN q : q[i].conn = c} : q[i].kind # "timer")
                  <=> {e \in Of(q, c) : e.kind # "timer"} # {}
           /\ (\E i \in {i \in DOMAIN q : q[i].conn = c} : q[i].kind = "send" /\ q[i].ok)
                  <=> (\E e \in {e \in Of(q, c) : e.kind # "timer"} : e.kind = "send" /\ e.ok)
BY DEF Of

(* Holds and Sends stand for Held and Sent, before and after a step.       *)
LEMMA HeldIs ==
    ASSUME NEW c \in Conns, Types, Types'
    PROVE  /\ Held(c) <=> Holds(c)
           /\ Held(c)' <=> Holds(c)'
           /\ Sent(c) <=> Sends(c)
           /\ Sent(c)' <=> Sends(c)'
<1>1. queue \in Seq(Completions) /\ queue' \in Seq(Completions)
  BY DEF Types
<1>2. (Held(c) <=> Holds(c)) /\ (Sent(c) <=> Sends(c))
  BY <1>1, HeldOf DEF Held, Sent, Holds, Sends, Pending, Calls
<1>3. (Held(c)' <=> Holds(c)') /\ (Sent(c)' <=> Sends(c)')
  BY <1>1, HeldOf DEF Held, Sent, Holds, Sends, Pending, Calls
<1>. QED
  BY <1>2, <1>3

(* The client sees no change while the socket, the request and the work    *)
(* that is left for it stay.                                               *)
LEMMA SameStage ==
    ASSUME NEW c \in Conns, Types, Types', sock'[c] = sock[c], request'[c] = request[c],
           Holds(c)' <=> Holds(c), Sends(c)' <=> Sends(c)
    PROVE  Stage(c)' = Stage(c)
BY HeldIs DEF Stage

(* A step that changes nothing of a connection keeps its invariant.        *)
LEMMA Frame ==
    ASSUME NEW d \in Conns, ConnInd(d), Same(d)
    PROVE  ConnInd(d)'
<1>1. Calls(d)' = Calls(d)
  BY DEF Calls, Same
<1>2. Exclusive(d)' /\ Unborn(d)'
  BY <1>1 DEF ConnInd, Exclusive, Unborn, Same
<1>3. Timed(d)'
  BY <1>1 DEF ConnInd, Timed, Rings, Rung, Same
<1>4. Reading(d)' /\ Failing(d)'
  BY <1>1 DEF ConnInd, Reading, Failing, Same
<1>5. Sending(d)'
  BY <1>1 DEF ConnInd, Sending, Same
<1>6. Budget(d)'
  BY <1>1 DEF ConnInd, Budget, InFlight, Same
<1>. QED
  BY <1>2, <1>3, <1>4, <1>5, <1>6 DEF ConnInd

(* The numbers of a client do not grow without a new request.              *)
LEMMA BudgetStep ==
    ASSUME NEW c \in Conns, Types, Types', Budget(c), InFlight(c)' => InFlight(c),
           wire'[c] \in {0, wire[c]}, asked'[c] = asked[c], answers'[c] = answers[c]
    PROVE  Budget(c)'
<1> DEFINE n == IF InFlight(c) THEN 1 ELSE 0
           m == IF InFlight(c)' THEN 1 ELSE 0
<1>1. n \in 0 .. 1 /\ m \in 0 .. 1 /\ m <= n
  OBVIOUS
<1>2. /\ answers[c] \in Nat /\ wire[c] \in Nat /\ asked[c] \in Nat /\ wire'[c] \in Nat
      /\ answers[c] + wire[c] + n <= asked[c] /\ asked[c] <= MaxRequests[c]
  BY DEF Types, Budget
<1> HIDE DEF n, m
<1>3. answers'[c] + wire'[c] + m <= asked'[c] /\ asked'[c] <= MaxRequests[c]
  BY <1>1, <1>2
<1>. QED
  BY <1>3 DEF Budget, m

(* A completion of connection c is queued.                                 *)
LEMMA QueueStep ==
    ASSUME Ind, NEW e \in Completions, queue' = Append(queue, e),
           Rightful(e),
           e.kind = "timer" \/ e.conn = NoConn \/ Calls(e.conn) = {}
    PROVE  /\ queue' \in Seq(Completions) /\ Owned'
           /\ Calls(e.conn)' = IF e.kind = "timer" THEN Calls(e.conn) ELSE {e} \cup Calls(e.conn)
           /\ Rung(e.conn)' <=> Rung(e.conn) \/ e.kind = "timer"
           /\ \A d \in Conns : d # e.conn => Of(queue', d) = Of(queue, d)
           /\ \A d \in Conns : Single(queue', d)
<1>1. queue \in Seq(Completions)
  BY DEF Ind, Types
<1>2. /\ queue' \in Seq(Completions)
      /\ Of(queue', e.conn) = Of(queue, e.conn) \cup {e}
      /\ \A d \in Conns : d # e.conn => Of(queue', d) = Of(queue, d)
  BY <1>1, AppendOf
<1>3. Owned'
  BY <1>1, AppendOwned DEF Ind, Owned
<1>4. ASSUME NEW d \in Conns PROVE Single(queue', d)
  <2>1. Single(queue, d)
    BY DEF Ind, ConnInd, Exclusive
  <2>2. e.conn # d \/ e.kind = "timer" \/ \A f \in Of(queue, d) : f.kind = "timer"
    BY HttpAssumption DEF Calls
  <2>. QED
    BY <1>1, <2>1, <2>2, AppendSingle
<1>5. Calls(e.conn)' = IF e.kind = "timer" THEN Calls(e.conn) ELSE {e} \cup Calls(e.conn)
  BY <1>2 DEF Calls
<1>6. Rung(e.conn)' <=> Rung(e.conn) \/ e.kind = "timer"
  BY <1>2 DEF Rung
<1>. QED
  BY <1>2, <1>3, <1>4, <1>5, <1>6

(* The kernel accepts a client.                                            *)
LEMMA ConnectInd == ASSUME Ind, NEW c \in Conns, Connect(c) PROVE Ind' /\ StepOf(c)
<1> DEFINE e == Completion(c, "accept", TRUE)
<1> USE DEF Connect
<1>1. Types /\ Owned /\ ConnInd(c)
  BY DEF Ind
<1>2. /\ Calls(c) = {} /\ ~Rung(c)
      /\ sock[c] = "none" /\ op[c] = "none" /\ request[c] = NoRequest
  BY <1>1 DEF ConnInd, Unborn, Calls, Rung
<1>3. e \in Completions /\ e.conn = c /\ e.kind = "accept" /\ e.ok
  BY DEF Completions, Completion
<1>4. /\ queue' \in Seq(Completions) /\ Owned' /\ Calls(c)' = {e}
      /\ \A d \in Conns : d # c => Of(queue', d) = Of(queue, d)
      /\ \A d \in Conns : Single(queue', d)
  BY <1>2, <1>3, QueueStep DEF Rightful
<1>5. Types'
  BY <1>1, <1>4 DEF Types, io, reply, peer
<1>6. ASSUME NEW d \in Conns, d # c PROVE Same(d)
  BY <1>1, <1>4, <1>6 DEF Types, Same, reply
<1>7. ConnInd(c)'
  <2>1. /\ op'[c] = "none" /\ sock'[c] = "open" /\ client'[c] = "here"
        /\ request'[c] = NoRequest /\ wire'[c] = wire[c]
        /\ asked'[c] = asked[c] /\ answers'[c] = answers[c]
    BY <1>1, <1>2 DEF Types, reply
  <2>2. Exclusive(c)' /\ Unborn(c)' /\ Timed(c)'
    BY <1>3, <1>4, <2>1 DEF Exclusive, Unborn, Timed
  <2>3. Reading(c)' /\ Failing(c)' /\ Sending(c)'
    BY <1>3, <1>4, <2>1 DEF Reading, HasRequest, Failing, Sending
  <2>4. ~InFlight(c)'
    BY <1>3, <1>4, <2>1 DEF InFlight
  <2>5. Budget(c)'
    BY <1>1, <1>5, <2>1, <2>4, BudgetStep DEF ConnInd
  <2>. QED
    BY <2>2, <2>3, <2>5 DEF ConnInd
<1>8. Moved(c)
  <2>1. sock'[c] = "open" /\ request'[c] = NoRequest /\ answers' = answers
    BY <1>1, <1>2 DEF Types, reply
  <2>2. Held(c)'
    BY <1>1, <1>4, <1>5, HeldIs DEF Holds
  <2>3. Stage(c) = "off" /\ Stage(c)' = "idle"
    BY <1>2, <2>1, <2>2 DEF Stage
  <2>. QED
    BY <2>1, <2>3 DEF Moved
<1>9. \A d \in Conns : ConnInd(d)'
  BY <1>6, <1>7, Frame DEF Ind
<1>. QED
  BY <1>4, <1>5, <1>6, <1>7, <1>8, <1>9 DEF Ind, StepOf

(* An accept fails, which is the business of no connection.                *)
LEMMA AcceptFailsInd == ASSUME Ind, NEW c \in Conns, AcceptFails(c) PROVE Ind' /\ StepOf(c)
<1> DEFINE e == Completion(NoConn, "accept", FALSE)
<1> USE DEF AcceptFails
<1>1. Types /\ Owned /\ ConnInd(c)
  BY DEF Ind
<1>2. e \in Completions /\ e.conn = NoConn /\ e.kind = "accept" /\ ~e.ok
  BY DEF Completions, Completion
<1>3. /\ queue' \in Seq(Completions) /\ Owned'
      /\ \A d \in Conns : Of(queue', d) = Of(queue, d) /\ Single(queue', d)
  BY <1>2, QueueStep, HttpAssumption DEF Rightful
<1>4. Types'
  BY <1>1, <1>3 DEF Types, io, reply, peer
<1>5. ASSUME NEW d \in Conns, d # c PROVE Same(d)
  BY <1>1, <1>3, <1>5 DEF Types, Same, reply
<1>6. ConnInd(c)'
  <2>1. /\ op' = op /\ sock' = sock /\ client'[c] = "left" /\ timer' = timer
        /\ request' = request /\ wire' = wire /\ unread' = unread /\ body' = body
        /\ asked' = asked /\ answers' = answers /\ sock[c] = "none" /\ op[c] = "none"
        /\ Calls(c)' = Calls(c) /\ Of(queue', c) = Of(queue, c) /\ Calls(c) = {}
    BY <1>1, <1>3 DEF Types, reply, ConnInd, Unborn, Calls
  <2>2. Exclusive(c)' /\ Unborn(c)' /\ Timed(c)'
    BY <1>1, <1>3, <2>1 DEF Exclusive, Unborn, Timed, ConnInd
  <2>3. Reading(c)' /\ Failing(c)' /\ Sending(c)' /\ Budget(c)'
    BY <1>1, <2>1 DEF Reading, Failing, Sending, Budget, InFlight, ConnInd
  <2>. QED
    BY <2>2, <2>3 DEF ConnInd
<1>7. Moved(c)
  <2>1. sock' = sock /\ answers' = answers
    OBVIOUS
  <2>2. sock[c] = "none"
    BY <1>1 DEF ConnInd, Unborn
  <2>3. Stage(c)' = Stage(c)
    BY <2>1, <2>2 DEF Stage
  <2>. QED
    BY <2>1, <2>3 DEF Moved
<1>8. \A d \in Conns : ConnInd(d)'
  BY <1>5, <1>6, Frame DEF Ind
<1>. QED
  BY <1>3, <1>4, <1>5, <1>6, <1>7, <1>8 DEF Ind, StepOf

(* A client sends a request: its budget grows with what is on the wire.    *)
LEMMA AskInd == ASSUME Ind, NEW c \in Conns, Ask(c) PROVE Ind' /\ StepOf(c)
<1> USE DEF Ask
<1>1. Types /\ Owned /\ ConnInd(c)
  BY DEF Ind
<1>2. Types' /\ Owned'
  BY <1>1 DEF Types, Owned, OwnedIn, io, reply
<1>3. ASSUME NEW d \in Conns, d # c PROVE Same(d)
  BY <1>1, <1>3 DEF Types, Same, io, reply, Ind, ConnInd, Exclusive
<1>4. ConnInd(c)'
  <2>1. /\ op' = op /\ sock' = sock /\ client' = client /\ timer' = timer /\ queue' = queue
        /\ request' = request /\ unread' = unread /\ body' = body
        /\ wire'[c] = wire[c] + 1 /\ asked'[c] = asked[c] + 1 /\ answers'[c] = answers[c]
        /\ wire[c] \in Nat /\ asked[c] \in Nat /\ answers[c] \in Nat
        /\ MaxRequests[c] \in Nat /\ asked[c] < MaxRequests[c]
    BY <1>1, HttpAssumption DEF Types, io, reply
  <2>2. Calls(c)' = Calls(c) /\ Rings(c)' = Rings(c) /\ InFlight(c)' = InFlight(c)
    BY <2>1 DEF Calls, Rings, Rung, InFlight
  <2>3. Exclusive(c)' /\ Unborn(c)' /\ Timed(c)'
    BY <1>1, <2>1, <2>2 DEF Exclusive, Unborn, Timed, ConnInd
  <2>4. Reading(c)' /\ Failing(c)' /\ Sending(c)'
    BY <1>1, <2>1, <2>2 DEF Reading, Failing, Sending, ConnInd
  <2>5. Budget(c)'
    BY <1>1, <2>1, <2>2 DEF Budget, ConnInd
  <2>. QED
    BY <2>3, <2>4, <2>5 DEF ConnInd
<1>5. Moved(c)
  <2>1. sock' = sock /\ request' = request /\ op' = op /\ queue' = queue /\ answers' = answers
    BY DEF io, reply
  <2>2. (Holds(c)' <=> Holds(c)) /\ (Sends(c)' <=> Sends(c))
    BY <2>1 DEF Holds, Sends, Calls
  <2>. QED
    BY <1>1, <1>2, <2>1, <2>2, SameStage DEF Moved
<1>6. \A d \in Conns : ConnInd(d)'
  BY <1>3, <1>4, Frame DEF Ind
<1>. QED
  BY <1>2, <1>3, <1>4, <1>5, <1>6 DEF Ind, StepOf

(* A client goes away, which only weakens what is said of it.              *)
LEMMA LeaveInd == ASSUME Ind, NEW c \in Conns, Leave(c) PROVE Ind' /\ StepOf(c)
<1> USE DEF Leave
<1>1. Types /\ Owned /\ ConnInd(c)
  BY DEF Ind
<1>2. Types' /\ Owned'
  BY <1>1 DEF Types, Owned, OwnedIn, io, reply
<1>3. ASSUME NEW d \in Conns, d # c PROVE Same(d)
  BY <1>1, <1>3 DEF Types, Same, io, reply, Ind, ConnInd, Exclusive
<1>4. ConnInd(c)'
  <2>1. /\ op' = op /\ sock' = sock /\ client'[c] = "left" /\ timer' = timer /\ queue' = queue
        /\ request' = request /\ unread' = unread /\ body' = body
        /\ wire' = wire /\ asked' = asked /\ answers' = answers /\ sock[c] = "open"
    BY <1>1 DEF Types, io, reply
  <2>2. Calls(c)' = Calls(c) /\ Rings(c)' = Rings(c) /\ InFlight(c)' = InFlight(c)
    BY <2>1 DEF Calls, Rings, Rung, InFlight
  <2>3. Exclusive(c)' /\ Unborn(c)' /\ Timed(c)'
    BY <1>1, <2>1, <2>2 DEF Exclusive, Unborn, Timed, ConnInd
  <2>4. Reading(c)' /\ Failing(c)' /\ Sending(c)' /\ Budget(c)'
    BY <1>1, <2>1, <2>2 DEF Reading, Failing, Sending, Budget, ConnInd
  <2>. QED
    BY <2>3, <2>4 DEF ConnInd
<1>5. Moved(c)
  <2>1. sock' = sock /\ request' = request /\ op' = op /\ queue' = queue /\ answers' = answers
    BY DEF io, reply
  <2>2. (Holds(c)' <=> Holds(c)) /\ (Sends(c)' <=> Sends(c))
    BY <2>1 DEF Holds, Sends, Calls
  <2>. QED
    BY <1>1, <1>2, <2>1, <2>2, SameStage DEF Moved
<1>6. \A d \in Conns : ConnInd(d)'
  BY <1>3, <1>4, Frame DEF Ind
<1>. QED
  BY <1>2, <1>3, <1>4, <1>5, <1>6 DEF Ind, StepOf

(* A timer expires: it is no longer running, and it is in the queue.       *)
LEMMA ExpireInd == ASSUME Ind, NEW c \in Conns, Expire(c) PROVE Ind' /\ StepOf(c)
<1> DEFINE e == Completion(c, "timer", TRUE)
<1> USE DEF Expire
<1>1. Types /\ Owned /\ ConnInd(c)
  BY DEF Ind
<1>2. e \in Completions /\ e.conn = c /\ e.kind = "timer"
  BY DEF Completions, Completion
<1>3. /\ queue' \in Seq(Completions) /\ Owned' /\ Calls(c)' = Calls(c) /\ Rung(c)'
      /\ \A d \in Conns : d # c => Of(queue', d) = Of(queue, d)
      /\ \A d \in Conns : Single(queue', d)
  BY <1>2, QueueStep DEF Rightful
<1>4. Types'
  BY <1>1, <1>3 DEF Types, reply, peer
<1>5. ASSUME NEW d \in Conns, d # c PROVE Same(d)
  BY <1>1, <1>3, <1>5 DEF Types, Same, reply, peer
<1>6. ConnInd(c)'
  <2>1. /\ op' = op /\ sock' = sock /\ client' = client /\ ~timer'[c]
        /\ request' = request /\ unread' = unread /\ body' = body
        /\ wire' = wire /\ asked' = asked /\ answers' = answers
        /\ sock[c] # "none" /\ client[c] # "away"
    BY <1>1 DEF Types, reply, peer, ConnInd, Unborn
  <2>2. Exclusive(c)' /\ Unborn(c)' /\ Timed(c)'
    BY <1>1, <1>3, <2>1 DEF Exclusive, Unborn, Timed, Rings, ConnInd
  <2>3. InFlight(c)' = InFlight(c)
    BY <1>3, <2>1 DEF InFlight
  <2>4. Reading(c)' /\ Failing(c)' /\ Sending(c)' /\ Budget(c)'
    BY <1>1, <1>3, <2>1, <2>3 DEF Reading, Failing, Sending, Budget, ConnInd
  <2>. QED
    BY <2>2, <2>4 DEF ConnInd
<1>7. Moved(c)
  <2>1. sock' = sock /\ request' = request /\ op' = op /\ answers' = answers
    BY DEF reply
  <2>2. (Holds(c)' <=> Holds(c)) /\ (Sends(c)' <=> Sends(c))
    BY <1>3, <2>1 DEF Holds, Sends
  <2>. QED
    BY <1>1, <1>4, <2>1, <2>2, SameStage DEF Moved
<1>8. \A d \in Conns : ConnInd(d)'
  BY <1>5, <1>6, Frame DEF Ind
<1>. QED
  BY <1>3, <1>4, <1>5, <1>6, <1>7, <1>8 DEF Ind, StepOf

(* The kernel completes the operation that is pending.                     *)
LEMMA CompleteStep ==
    ASSUME Ind, NEW c \in Conns, NEW ok \in BOOLEAN, op[c] # "none", Complete(c, ok)
    PROVE  /\ queue' \in Seq(Completions) /\ Owned'
           /\ op' \in [Conns -> Operations \cup {"none"}] /\ op'[c] = "none"
           /\ Calls(c)' = {Completion(c, op[c], ok)} /\ (Rung(c)' <=> Rung(c))
           /\ Completion(c, op[c], ok).kind = op[c] /\ Completion(c, op[c], ok).ok = ok
           /\ op[c] \in Operations /\ sock[c] = "open" /\ client[c] # "away" /\ Rings(c)
           /\ \A d \in Conns : d # c => Of(queue', d) = Of(queue, d) /\ op'[d] = op[d]
           /\ \A d \in Conns : Single(queue', d)
<1> DEFINE e == Completion(c, op[c], ok)
<1>1. Types /\ ConnInd(c)
  BY DEF Ind
<1>2. /\ op[c] \in Operations /\ op[c] # "timer" /\ op[c] # "accept"
      /\ Calls(c) = {} /\ sock[c] = "open"
  BY <1>1 DEF Types, ConnInd, Exclusive, Operations
<1>3. client[c] # "away" /\ Rings(c)
  BY <1>1, <1>2 DEF ConnInd, Unborn, Timed
<1>4. e \in Completions /\ e.conn = c /\ e.kind = op[c] /\ e.ok = ok
  BY <1>2 DEF Completion, Completions
<1> HIDE DEF e
<1>5. queue' = Append(queue, e) /\ op' = [op EXCEPT ![c] = "none"]
  BY DEF Complete, e
<1>6. /\ queue' \in Seq(Completions) /\ Owned' /\ Calls(c)' = {e} \cup Calls(c)
      /\ Rung(c)' <=> Rung(c)
      /\ \A d \in Conns : d # c => Of(queue', d) = Of(queue, d)
      /\ \A d \in Conns : Single(queue', d)
  BY <1>2, <1>4, <1>5, QueueStep DEF Rightful
<1>7. op' \in [Conns -> Operations \cup {"none"}] /\ op'[c] = "none"
         /\ \A d \in Conns : d # c => op'[d] = op[d]
  BY <1>1, <1>5 DEF Types
<1>8. Calls(c)' = {e}
  BY <1>2, <1>6
<1>. QED
  BY <1>2, <1>3, <1>4, <1>6, <1>7, <1>8 DEF e

(* A completion that leaves the request alone: a handshake, a body that    *)
(* has arrived, a piece that is written, an error.                         *)
LEMMA CompleteInd ==
    ASSUME Ind, NEW c \in Conns, NEW ok \in BOOLEAN, NEW n \in 0 .. 1,
           op[c] # "none", Complete(c, ok), UNCHANGED <<reply, peer>>,
           ok \/ client[c] = "left", op[c] = "head" => ~ok,
           answers' = [answers EXCEPT ![c] = @ + n],
           n = 1 <=> op[c] = "send" /\ ok /\ request[c].resource # "throws"
    PROVE  Ind' /\ StepOf(c)
<1> DEFINE e == Completion(c, op[c], ok)
<1>1. Types /\ Owned /\ ConnInd(c)
  BY DEF Ind
<1>2. /\ queue' \in Seq(Completions) /\ Owned'
      /\ op' \in [Conns -> Operations \cup {"none"}] /\ op'[c] = "none"
      /\ Calls(c)' = {e} /\ (Rung(c)' <=> Rung(c))
      /\ e.kind = op[c] /\ e.ok = ok
      /\ op[c] \in Operations /\ sock[c] = "open" /\ client[c] # "away" /\ Rings(c)
      /\ \A d \in Conns : d # c => Of(queue', d) = Of(queue, d) /\ op'[d] = op[d]
      /\ \A d \in Conns : Single(queue', d)
  BY CompleteStep
<1> HIDE DEF e
<1>3. Types'
  BY <1>1, <1>2 DEF Types, reply, peer, Complete
<1>4. ASSUME NEW d \in Conns, d # c PROVE Same(d)
  BY <1>1, <1>2, <1>4 DEF Types, Same, reply, peer, Complete
<1>5. ConnInd(c)'
  <2>1. /\ sock' = sock /\ client' = client /\ timer' = timer
        /\ request' = request /\ unread' = unread /\ body' = body
        /\ wire' = wire /\ asked' = asked
    BY DEF reply, peer, Complete
  <2>2. Exclusive(c)' /\ Unborn(c)' /\ Timed(c)'
    BY <1>1, <1>2, <2>1 DEF Exclusive, Unborn, Timed, Rings, ConnInd
  <2>3. Reading(c)'
    BY <1>1, <1>2, <2>1 DEF Reading, HasRequest, ConnInd
  <2>4. Failing(c)' /\ Sending(c)'
    BY <1>1, <1>2, <2>1 DEF Failing, Sending, ConnInd
  <2>5. Budget(c)'
    <3>1. CASE n = 0
      <4>1. InFlight(c)' => InFlight(c)
        BY <1>2 DEF InFlight
      <4>2. answers'[c] = answers[c]
        BY <1>1, <3>1 DEF Types
      <4>. QED
        BY <1>1, <1>3, <2>1, <4>1, <4>2, BudgetStep DEF ConnInd
    <3>2. CASE n = 1
      <4>1. ~InFlight(c)' /\ InFlight(c)
        BY <1>2, <3>2 DEF InFlight
      <4>. QED
        BY <1>1, <2>1, <3>2, <4>1 DEF Types, ConnInd, Budget
    <3>. QED
      BY <3>1, <3>2
  <2>. QED
    BY <2>2, <2>3, <2>4, <2>5 DEF ConnInd
<1>6. Moved(c)
  <2>1. /\ sock' = sock /\ request' = request /\ sock[c] = "open"
        /\ Holds(c) /\ Holds(c)' /\ ~Sends(c) /\ (Sends(c)' <=> op[c] = "send" /\ ok)
    BY <1>1, <1>2 DEF reply, Complete, Holds, Sends, ConnInd, Exclusive
  <2>2. Held(c) /\ Held(c)' /\ ~Sent(c) /\ (Sent(c)' <=> op[c] = "send" /\ ok)
    BY <1>1, <1>3, <2>1, HeldIs
  <2>3. n = 0 => answers' = answers
    BY <1>1 DEF Types
  <2>4. CASE ~(op[c] = "send" /\ ok)
    <3>1. Stage(c)' = Stage(c)
      BY <1>1, <1>3, <2>1, <2>4, SameStage
    <3>2. answers' = answers
      BY <2>3, <2>4
    <3>. QED
      BY <3>1, <3>2 DEF Moved
  <2>5. CASE op[c] = "send" /\ ok
    <3>1. request[c] # NoRequest
      BY <1>1, <2>5 DEF ConnInd, Reading, HasRequest
    <3>2. CASE request[c].resource = "throws"
      <4>1. Stage(c) = "failing" /\ Stage(c)' = "done"
        BY <2>1, <2>2, <2>5, <3>1, <3>2 DEF Stage
      <4>2. answers' = answers
        BY <2>3, <3>2
      <4>. QED
        BY <4>1, <4>2 DEF Moved
    <3>3. CASE request[c].resource # "throws"
      <4>1. Stage(c) = "busy" /\ Stage(c)' = "done"
        BY <2>1, <2>2, <2>5, <3>1, <3>3 DEF Stage
      <4>2. answers' = [answers EXCEPT ![c] = @ + 1]
        BY <2>5, <3>3
      <4>. QED
        BY <4>1, <4>2 DEF Moved
    <3>. QED
      BY <3>2, <3>3
  <2>. QED
    BY <2>4, <2>5
<1>7. \A d \in Conns : ConnInd(d)'
  BY <1>4, <1>5, Frame DEF Ind
<1>. QED
  BY <1>2, <1>3, <1>4, <1>5, <1>6, <1>7 DEF Ind, StepOf

(* A request is read, and with it requests that are never answered: they   *)
(* leave the wire, and one of them is in flight.                           *)
LEMMA ReadHeadInd ==
    ASSUME Ind, NEW c \in Conns, NEW r \in Requests[c], NEW swallowed \in Nat,
           ReadHead(c, r, swallowed)
    PROVE  Ind' /\ StepOf(c)
<1> DEFINE e == Completion(c, op[c], TRUE)
<1>1. Types /\ Owned /\ ConnInd(c) /\ op[c] = "head" /\ Complete(c, TRUE)
  BY DEF Ind, ReadHead
<1>2. /\ queue' \in Seq(Completions) /\ Owned'
      /\ op' \in [Conns -> Operations \cup {"none"}] /\ op'[c] = "none"
      /\ Calls(c)' = {e} /\ (Rung(c)' <=> Rung(c))
      /\ e.kind = "head" /\ e.ok = TRUE
      /\ sock[c] = "open" /\ client[c] # "away" /\ Rings(c)
      /\ \A d \in Conns : d # c => Of(queue', d) = Of(queue, d) /\ op'[d] = op[d]
      /\ \A d \in Conns : Single(queue', d)
  BY <1>1, CompleteStep
<1> HIDE DEF e
<1>3. r \in RequestType /\ r # NoRequest
  BY HttpAssumption
<1>4. wire[c] - 1 - swallowed \in Nat /\ wire[c] \in Nat
  BY <1>1 DEF Types, ReadHead
<1>5. Types'
  BY <1>1, <1>2, <1>3, <1>4 DEF Types, ReadHead, Complete
<1>6. ASSUME NEW d \in Conns, d # c PROVE Same(d)
  BY <1>1, <1>2, <1>6 DEF Types, Same, ReadHead, Complete
<1>7. ConnInd(c)'
  <2>1. /\ sock' = sock /\ client' = client /\ timer' = timer
        /\ request'[c] = r /\ unread' = unread /\ body' = body
        /\ wire'[c] = wire[c] - 1 - swallowed /\ asked' = asked /\ answers' = answers
    BY <1>1 DEF ReadHead, Complete, Types
  <2>2. Exclusive(c)' /\ Unborn(c)' /\ Timed(c)'
    BY <1>1, <1>2, <2>1 DEF Exclusive, Unborn, Timed, Rings, ConnInd
  <2>3. Reading(c)' /\ Failing(c)' /\ Sending(c)'
    BY <1>2, <1>3, <2>1 DEF Reading, HasRequest, Failing, Sending
  <2>4. ~InFlight(c)
    BY <1>1 DEF InFlight, ConnInd, Exclusive
  <2>5. Budget(c)'
    BY <1>1, <1>4, <2>1, <2>4 DEF Types, ConnInd, Budget
  <2>. QED
    BY <2>2, <2>3, <2>5 DEF ConnInd
<1>8. Moved(c)
  <2>1. /\ sock' = sock /\ sock[c] = "open" /\ request[c] = NoRequest /\ request'[c] = r
        /\ answers' = answers
    BY <1>1, <1>2 DEF ReadHead, Complete, Types, ConnInd, Reading, HasRequest
  <2>2. Holds(c) /\ Holds(c)' /\ ~Sends(c)'
    BY <1>1, <1>2 DEF Holds, Sends
  <2>3. Held(c) /\ Held(c)' /\ ~Sent(c)'
    BY <1>1, <1>5, <2>2, HeldIs
  <2>4. Stage(c) = "idle" /\ Stage(c)' \in {"busy", "failing"}
    BY <1>3, <2>1, <2>3 DEF Stage
  <2>. QED
    BY <2>1, <2>4 DEF Moved
<1>9. \A d \in Conns : ConnInd(d)'
  BY <1>6, <1>7, Frame DEF Ind
<1>. QED
  BY <1>2, <1>5, <1>6, <1>7, <1>8, <1>9 DEF Ind, StepOf

(* Whatever the kernel completes.                                          *)
LEMMA KernelInd == ASSUME Ind, NEW c \in Conns, Kernel(c) PROVE Ind' /\ StepOf(c)
<1>1. answers \in [Conns -> Nat]
  BY DEF Ind, Types
<1>2. CASE Cooperates(c)
  <2>1. answers' = [answers EXCEPT ![c] = @ + 0]
    BY <1>1, <1>2 DEF Cooperates
  <2>. QED
    <3>1. /\ op[c] \notin {"none", "head", "send"} /\ Complete(c, TRUE)
          /\ UNCHANGED <<reply, peer>>
      BY <1>2 DEF Cooperates
    <3>. QED
      BY <2>1, <3>1, CompleteInd, 0 \in 0 .. 1, 0 # 1, TRUE \in BOOLEAN
<1>3. CASE Written(c)
  <2>1. Heard(c) \in 0 .. 1 /\ (Heard(c) = 1 <=> op[c] = "send" /\ request[c].resource # "throws")
    BY DEF Heard
  <2>2. /\ op[c] # "none" /\ op[c] # "head" /\ Complete(c, TRUE) /\ UNCHANGED <<reply, peer>>
        /\ answers' = [answers EXCEPT ![c] = @ + Heard(c)]
    BY <1>3 DEF Written
  <2>. QED
    BY <2>1, <2>2, CompleteInd, TRUE \in BOOLEAN
<1>4. CASE Reset(c)
  <2>1. answers' = [answers EXCEPT ![c] = @ + 0]
    BY <1>1, <1>4 DEF Reset
  <2>. QED
    <3>1. /\ op[c] # "none" /\ client[c] = "left" /\ Complete(c, FALSE)
          /\ UNCHANGED <<reply, peer>>
      BY <1>4 DEF Reset
    <3>. QED
      BY <2>1, <3>1, CompleteInd, 0 \in 0 .. 1, 0 # 1, FALSE \in BOOLEAN
<1>5. ASSUME NEW r \in Requests[c], NEW swallowed \in 0 .. MaxRequests[c] - 1,
             ReadHead(c, r, swallowed)
      PROVE  Ind' /\ StepOf(c)
  BY <1>5, ReadHeadInd, HttpAssumption
<1>. QED
  BY <1>2, <1>3, <1>4, <1>5 DEF Kernel

-----------------------------------------------------------------------------
(* The completion handlers                                                 *)

(* The thread has taken a completion of c that is not a timer: nothing     *)
(* else of c is pending or queued but timers.                              *)
Taken(c) == queue # <<>> /\ Conn = c /\ Head(queue).kind # "timer"

(* What a handler finds when it has taken a completion that is not a       *)
(* timer.                                                                  *)
LEMMA TakenStep ==
    ASSUME Ind, NEW c \in Conns, Taken(c)
    PROVE  /\ Waiting \in Seq(Completions) /\ OwnedIn(Waiting)
           /\ \A f \in Of(Waiting, c) : f.kind = "timer"
           /\ \A f : f.kind = "timer" => (f \in Of(Waiting, c) <=> f \in Of(queue, c))
           /\ Queued(c) = {} <=> ~Rung(c)
           /\ \A d \in Conns : Single(Waiting, d)
           /\ \A d \in Conns : d # c => Of(Waiting, d) = Of(queue, d)
           /\ Calls(c) = {Head(queue)} /\ op[c] = "none"
           /\ sock[c] # "none" /\ client[c] # "away"
<1>1. queue \in Seq(Completions) /\ Owned /\ ConnInd(c)
  BY DEF Ind, Types
<1>2. queue # <<>> /\ Head(queue).conn = c /\ Head(queue).kind # "timer"
  BY DEF Taken, Conn
<1>3. Waiting \in Seq(Completions) /\ OwnedIn(Waiting)
  BY <1>1, <1>2, TailOf, TailOwned DEF Waiting, Owned
<1>4. /\ \A d \in Conns : Single(Waiting, d)
      /\ \A f \in Of(Waiting, c) : f.kind = "timer"
  BY <1>1, <1>2, TailSingle DEF Waiting, Ind, ConnInd, Exclusive
<1>5. /\ \A d \in Conns : d # c => Of(Waiting, d) = Of(queue, d)
      /\ Head(queue) \in Of(queue, c)
      /\ Of(Waiting, c) \subseteq Of(queue, c)
      /\ Of(queue, c) \subseteq Of(Waiting, c) \cup {Head(queue)}
  BY <1>1, <1>2, TailOf DEF Waiting
<1>6. Calls(c) = {Head(queue)}
  BY <1>2, <1>4, <1>5 DEF Calls
<1>7. op[c] = "none" /\ sock[c] # "none" /\ client[c] # "away"
  BY <1>1, <1>6 DEF ConnInd, Exclusive, Unborn, Calls
<1>8. \A f : f.kind = "timer" => (f \in Of(Waiting, c) <=> f \in Of(queue, c))
  BY <1>2, <1>5
<1>9. Queued(c) = {} <=> Of(Waiting, c) = {}
  BY <1>3, OfElements DEF Queued
<1>10. Of(Waiting, c) = {} <=> ~Rung(c)
  BY <1>4, <1>8 DEF Rung
<1>. QED
  BY <1>3, <1>4, <1>5, <1>6, <1>7, <1>8, <1>9, <1>10

(* The next operation is pending, or it has failed already and waits for   *)
(* the thread.                                                             *)
LEMMA StartOpStep ==
    ASSUME Ind, NEW c \in Conns, Taken(c), NEW kind \in Operations, StartOp(c, kind)
    PROVE  /\ queue' \in Seq(Completions) /\ Owned'
           /\ op' \in [Conns -> Operations \cup {"none"}]
           /\ Rung(c)' <=> Rung(c)
           /\ sock[c] = "open" => op'[c] = kind /\ Calls(c)' = {}
           /\ sock[c] # "open" => op'[c] = "none" /\ Calls(c)' = {Completion(c, kind, FALSE)}
           /\ \A d \in Conns : d # c => Of(queue', d) = Of(queue, d) /\ op'[d] = op[d]
           /\ \A d \in Conns : Single(queue', d)
<1> DEFINE e == Completion(c, kind, FALSE)
<1>1. /\ Waiting \in Seq(Completions) /\ OwnedIn(Waiting)
      /\ \A f \in Of(Waiting, c) : f.kind = "timer"
      /\ \A f : f.kind = "timer" => (f \in Of(Waiting, c) <=> f \in Of(queue, c))
      /\ \A d \in Conns : Single(Waiting, d)
      /\ \A d \in Conns : d # c => Of(Waiting, d) = Of(queue, d)
      /\ op[c] = "none"
  BY TakenStep
<1>2. op \in [Conns -> Operations \cup {"none"}]
  BY DEF Ind, Types
<1>3. CASE sock[c] = "open"
  <2>1. op' = [op EXCEPT ![c] = kind] /\ queue' = Waiting
    BY <1>3 DEF StartOp
  <2>2. Calls(c)' = {}
    BY <1>1, <2>1 DEF Calls
  <2>3. Rung(c)' <=> Rung(c)
    BY <1>1, <2>1 DEF Rung
  <2>. QED
    BY <1>1, <1>2, <1>3, <2>1, <2>2, <2>3 DEF Owned
<1>4. CASE sock[c] # "open"
  <2>1. op' = op /\ queue' = Append(Waiting, e)
    BY <1>4 DEF StartOp
  <2>2. e \in Completions /\ e.conn = c /\ e.kind = kind /\ kind \notin {"timer", "accept"}
    BY DEF Completion, Completions, Operations
  <2> HIDE DEF e
  <2>3. /\ queue' \in Seq(Completions)
        /\ Of(queue', c) = Of(Waiting, c) \cup {e}
        /\ \A d \in Conns : d # c => Of(queue', d) = Of(Waiting, d)
    BY <1>1, <2>1, <2>2, AppendOf
  <2>4. OwnedIn(queue')
    BY <1>1, <2>1, <2>2, AppendOwned DEF Rightful
  <2>5. \A d \in Conns : Single(queue', d)
    BY <1>1, <2>1, <2>2, AppendSingle
  <2>6. Calls(c)' = {e}
    BY <1>1, <2>2, <2>3 DEF Calls
  <2>7. Rung(c)' <=> Rung(c)
    BY <1>1, <2>2, <2>3 DEF Rung
  <2>. QED
    BY <1>1, <1>2, <1>4, <2>1, <2>3, <2>4, <2>5, <2>6, <2>7 DEF Owned, e
<1>. QED
  BY <1>3, <1>4

(* The handler of a completion of c starts the next operation, for request *)
(* r with u bytes to read and b bytes given to the socket; t is the timer. *)
Continues(c, kind, t, r, u, b) ==
    /\ kind \in Operations /\ StartOp(c, kind)
    /\ UNCHANGED <<secure, sock, peer, answers>> /\ accepting' \in BOOLEAN
    /\ t \in BOOLEAN /\ timer' = [timer EXCEPT ![c] = t]
    /\ t \/ (t = timer[c] /\ Head(queue).kind # "accept")
    /\ r \in Requests[c] \cup {NoRequest} /\ request' = [request EXCEPT ![c] = r]
    /\ u \in Nat /\ unread' = [unread EXCEPT ![c] = u]
    /\ b \in Nat /\ body' = [body EXCEPT ![c] = b]
    /\ HasRequest(kind, FALSE) <=> r # NoRequest
    /\ HasRequest(kind, FALSE) => InFlight(c)
    /\ r # NoRequest /\ r.resource = "file" =>
          /\ kind = "chunk" => u + b = r.size
          /\ kind = "send" /\ sock[c] = "open" => b = r.size \/ client[c] = "left"
    /\ r # NoRequest => r = request[c] /\ ~(Head(queue).kind = "send" /\ Ok)
    /\ r = NoRequest => request[c] = NoRequest \/ (Head(queue).kind = "send" /\ Ok)

(* A handler that continues keeps the invariant: the operation it starts   *)
(* is the only one, is timed, and fits the request.                        *)
LEMMA StartedInd ==
    ASSUME Ind, NEW c \in Conns, Taken(c), NEW kind, NEW t, NEW r, NEW u, NEW b,
           Continues(c, kind, t, r, u, b)
    PROVE  Ind' /\ StepOf(c)
<1> USE DEF Continues
<1> DEFINE e == Completion(c, kind, FALSE)
<1>1. Types /\ Owned /\ ConnInd(c)
  BY DEF Ind
<1>2. /\ queue' \in Seq(Completions) /\ Owned'
      /\ op' \in [Conns -> Operations \cup {"none"}]
      /\ Rung(c)' <=> Rung(c)
      /\ sock[c] = "open" => op'[c] = kind /\ Calls(c)' = {}
      /\ sock[c] # "open" => op'[c] = "none" /\ Calls(c)' = {e}
      /\ \A d \in Conns : d # c => Of(queue', d) = Of(queue, d) /\ op'[d] = op[d]
      /\ \A d \in Conns : Single(queue', d)
  BY StartOpStep
<1>3. e.kind = kind /\ ~e.ok /\ kind # "none"
  BY DEF Completion, Operations
<1> HIDE DEF e
<1>4. Calls(c) = {Head(queue)} /\ op[c] = "none" /\ sock[c] # "none" /\ client[c] # "away"
  BY TakenStep
<1>5. r \in RequestType \cup {NoRequest}
  BY HttpAssumption
<1>6. Types'
  BY <1>1, <1>2, <1>5 DEF Types, peer
<1>7. ASSUME NEW d \in Conns, d # c PROVE Same(d)
  BY <1>1, <1>2, <1>7 DEF Types, Same, peer
<1>8. ConnInd(c)'
  <2>1. /\ sock' = sock /\ client' = client /\ timer'[c] = t
        /\ request'[c] = r /\ unread'[c] = u /\ body'[c] = b
        /\ wire' = wire /\ asked' = asked /\ answers' = answers
        /\ sock[c] \in {"open", "closed"}
    BY <1>1, <1>4 DEF Types, peer
  <2>2. Exclusive(c)' /\ Unborn(c)'
    BY <1>2, <1>4, <2>1 DEF Exclusive, Unborn
  <2>3. Timed(c)'
    <3>1. sock[c] = "open" => t \/ Rings(c)
      BY <1>1, <1>4 DEF ConnInd, Timed
    <3>2. sock[c] = "open" => Rings(c)'
      BY <1>2, <2>1, <3>1 DEF Rings
    <3>. QED
      BY <2>1, <3>2 DEF Timed
  <2>4. Reading(c)'
    BY <1>2, <1>3, <2>1 DEF Reading, HasRequest
  <2>5. Failing(c)'
    BY <1>2, <2>1 DEF Failing
  <2>6. Sending(c)'
    BY <1>2, <1>3, <2>1 DEF Sending
  <2>7. InFlight(c)' => InFlight(c)
    BY <1>2, <1>3 DEF InFlight, HasRequest
  <2>8. Budget(c)'
    BY <1>1, <1>6, <2>1, <2>7, BudgetStep DEF ConnInd
  <2>. QED
    BY <2>2, <2>3, <2>4, <2>5, <2>6, <2>8 DEF ConnInd
<1>9. Moved(c)
  <2>1. /\ sock' = sock /\ request'[c] = r /\ answers' = answers
        /\ sock[c] \in {"open", "closed"}
    BY <1>1, <1>4 DEF Types
  <2>2. CASE sock[c] = "closed"
    BY <2>1, <2>2 DEF Moved, Stage
  <2>3. CASE sock[c] = "open"
    <3>1. Holds(c) /\ Holds(c)' /\ ~Sends(c)' /\ (Sends(c) <=> Head(queue).kind = "send" /\ Ok)
      BY <1>2, <1>3, <1>4, <2>3 DEF Holds, Sends, Ok
    <3>2. Held(c) /\ Held(c)' /\ ~Sent(c)' /\ (Sent(c) <=> Head(queue).kind = "send" /\ Ok)
      BY <1>1, <1>6, <3>1, HeldIs
    <3>3. CASE r = NoRequest
      BY <2>1, <2>3, <3>2, <3>3 DEF Moved, Stage
    <3>4. CASE r # NoRequest
      BY <2>1, <2>3, <3>2, <3>4 DEF Moved, Stage
    <3>. QED
      BY <3>3, <3>4
  <2>. QED
    BY <2>1, <2>2, <2>3
<1>10. \A d \in Conns : ConnInd(d)'
  BY <1>7, <1>8, Frame DEF Ind
<1>. QED
  BY <1>2, <1>6, <1>7, <1>8, <1>9, <1>10 DEF Ind, StepOf

(* The handler drops the connection.                                       *)
LEMMA LetGoInd ==
    ASSUME Ind, NEW c \in Conns, Taken(c), LetGo(c), UNCHANGED accepting
    PROVE  Ind' /\ StepOf(c)
<1>1. Types /\ Owned /\ ConnInd(c)
  BY DEF Ind
<1>2. /\ queue' = Waiting /\ Waiting \in Seq(Completions) /\ OwnedIn(Waiting)
      /\ \A f \in Of(Waiting, c) : f.kind = "timer"
      /\ \A f : f.kind = "timer" => (f \in Of(Waiting, c) <=> f \in Of(queue, c))
      /\ Queued(c) = {} <=> ~Rung(c)
      /\ \A d \in Conns : Single(Waiting, d)
      /\ \A d \in Conns : d # c => Of(Waiting, d) = Of(queue, d)
      /\ op[c] = "none"
      /\ sock[c] # "none" /\ client[c] # "away"
  BY TakenStep DEF LetGo
<1>3. Types'
  BY <1>1, <1>2 DEF Types, LetGo, Discard
<1>4. Owned'
  BY <1>2 DEF Owned
<1>5. ASSUME NEW d \in Conns, d # c PROVE Same(d)
  BY <1>1, <1>2, <1>5 DEF Types, Same, LetGo, Discard
<1>6. ConnInd(c)'
  <2>1. /\ op'[c] = "none" /\ client' = client /\ asked' = asked /\ answers' = answers
        /\ ~timer'[c]
        /\ sock'[c] = IF Rung(c) THEN sock[c] ELSE "closed"
        /\ request'[c] = IF Rung(c) THEN request[c] ELSE NoRequest
        /\ wire'[c] \in {0, wire[c]}
    BY <1>1, <1>2 DEF Types, LetGo, Discard
  <2>2. Calls(c)' = {}
    BY <1>2 DEF Calls
  <2>3. Rung(c)' <=> Rung(c)
    BY <1>2 DEF Rung
  <2>4. Exclusive(c)' /\ Unborn(c)' /\ Timed(c)'
    BY <1>2, <2>1, <2>2, <2>3 DEF Exclusive, Unborn, Timed, Rings
  <2>5. Reading(c)' /\ Failing(c)' /\ Sending(c)'
    BY <1>1, <2>1, <2>2 DEF Reading, Failing, Sending, ConnInd
  <2>6. ~InFlight(c)'
    BY <2>1, <2>2 DEF InFlight
  <2>7. Budget(c)'
    BY <1>1, <1>3, <2>1, <2>6, BudgetStep DEF ConnInd
  <2>. QED
    BY <2>4, <2>5, <2>7 DEF ConnInd
<1>7. Moved(c)
  <2>1. /\ sock[c] \in {"open", "closed"} /\ answers' = answers
        /\ sock'[c] = IF Rung(c) THEN sock[c] ELSE "closed"
    BY <1>1, <1>2 DEF Types, LetGo
  <2>2. Holds(c) /\ ~Holds(c)'
    <3>1. Calls(c) # {}
      BY TakenStep
    <3>2. Calls(c)' = {} /\ op'[c] = "none"
      BY <1>1, <1>2 DEF Calls, LetGo
    <3>. QED
      BY <3>1, <3>2 DEF Holds
  <2>3. Held(c) /\ ~Held(c)'
    BY <1>1, <1>3, <2>2, HeldIs
  <2>4. CASE sock[c] = "open" /\ Rung(c)
    BY <2>1, <2>3, <2>4 DEF Moved, Stage
  <2>5. CASE sock[c] = "closed" \/ ~Rung(c)
    BY <2>1, <2>3, <2>5 DEF Moved, Stage
  <2>. QED
    BY <2>1, <2>4, <2>5
<1>8. \A d \in Conns : ConnInd(d)'
  BY <1>5, <1>6, Frame DEF Ind
<1>. QED
  BY <1>3, <1>4, <1>5, <1>6, <1>7, <1>8 DEF Ind, StepOf

(* The next operation is started for the request that there is.            *)
LEMMA StartKeptInd ==
    ASSUME Ind, NEW c \in Conns, Taken(c), NEW kind \in Operations, Start(c, kind),
           UNCHANGED reply, accepting' \in BOOLEAN,
           HasRequest(kind, FALSE) <=> request[c] # NoRequest,
           HasRequest(kind, FALSE) => InFlight(c),
           request[c] # NoRequest /\ request[c].resource = "file" => kind \notin {"chunk", "send"},
           Head(queue).kind # "send"
    PROVE  Ind' /\ StepOf(c)
<1>1. Types /\ request[c] \in Requests[c] \cup {NoRequest}
  BY DEF Ind, ConnInd, Reading
<1>2. /\ request' = [request EXCEPT ![c] = request[c]]
      /\ unread' = [unread EXCEPT ![c] = unread[c]]
      /\ body' = [body EXCEPT ![c] = body[c]]
      /\ unread[c] \in Nat /\ body[c] \in Nat
  BY <1>1 DEF Types, reply
<1>. QED
  <2>1. Continues(c, kind, TRUE, request[c], unread[c], body[c])
    BY <1>1, <1>2 DEF Continues, Start
  <2>. QED
    BY <2>1, StartedInd

(* read_request_and_content(): the connection waits for its first request, *)
(* or for the next one after an answer.                                    *)
LEMMA ReadNextInd ==
    ASSUME Ind, NEW c \in Conns, Taken(c), read_request_and_content(c), accepting' \in BOOLEAN,
           request[c] = NoRequest \/ (Head(queue).kind = "send" /\ Ok)
    PROVE  Ind' /\ StepOf(c)
<1>1. /\ Start(c, "head") /\ "head" \in Operations
      /\ request' = [request EXCEPT ![c] = NoRequest]
      /\ unread' = [unread EXCEPT ![c] = 0] /\ body' = [body EXCEPT ![c] = 0]
      /\ ~HasRequest("head", FALSE)
  BY DEF read_request_and_content, Operations, HasRequest
<1>. QED
  <2>1. Continues(c, "head", TRUE, NoRequest, 0, 0)
    BY <1>1 DEF Continues, Start
  <2>. QED
    BY <2>1, StartedInd

(* What is read of a file and what is left of it.                          *)
LEMMA Pieces ==
    ASSUME NEW left \in Nat
    PROVE  /\ left - ReadLength(left) \in Nat /\ ReadLength(left) \in Nat
           /\ Piece(left) \in {"chunk", "send"}
           /\ Piece(left) = "send" => ReadLength(left) = left
BY HttpAssumption DEF ReadLength, Piece

(* find_resource() and write_response(), for every kind of request.        *)
LEMMA FindResourceInd ==
    ASSUME Ind, NEW c \in Conns, Taken(c), UNCHANGED accepting,
           request[c] # NoRequest, InFlight(c), find_resource(c), Head(queue).kind # "send"
    PROVE  Ind' /\ StepOf(c)
<1>1. /\ Types /\ request[c] \in Requests[c] /\ request[c] \in RequestType
      /\ accepting' \in BOOLEAN
  BY HttpAssumption DEF Ind, Types, ConnInd, Reading
<1>2. "send" \in Operations /\ "chunk" \in Operations
      /\ HasRequest("send", FALSE) /\ HasRequest("chunk", FALSE)
  BY DEF Operations, HasRequest
<1>3. CASE request[c].resource = "none" /\ LetGo(c)
  BY <1>3, LetGoInd
<1>4. CASE request[c].resource # "file" /\ Start(c, "send") /\ UNCHANGED reply
  BY <1>1, <1>2, <1>4, StartKeptInd
<1>5. CASE request[c].resource = "file" /\ SendFile(c, request[c].size)
  <2> DEFINE n == request[c].size
             kind == Piece(n)
             u == n - ReadLength(n)
             b == 0 + ReadLength(n)
  <2>1. n \in Nat
    BY <1>1 DEF RequestType
  <2> HIDE DEF n
  <2>2. /\ u \in Nat /\ b \in Nat /\ u + b = n
        /\ kind \in Operations /\ HasRequest(kind, FALSE)
        /\ kind = "send" => b = n
    <3>1. /\ u \in Nat /\ ReadLength(n) \in Nat
          /\ kind \in {"chunk", "send"} /\ (kind = "send" => ReadLength(n) = n)
      BY <2>1, Pieces
    <3>2. u \in Nat /\ b \in Nat /\ u + b = n /\ b = ReadLength(n)
      BY <2>1, <3>1
    <3>3. kind \in Operations /\ HasRequest(kind, FALSE)
      BY <1>2, <3>1
    <3>. QED
      BY <3>1, <3>2, <3>3
  <2>3. /\ Start(c, kind) /\ request' = [request EXCEPT ![c] = request[c]]
        /\ unread' = [unread EXCEPT ![c] = u] /\ body' = [body EXCEPT ![c] = b]
    BY <1>1, <1>5 DEF SendFile, Read, Types, n
  <2>4. n = request[c].size
    BY DEF n
  <2> HIDE DEF kind, u, b
  <2>5. /\ StartOp(c, kind) /\ UNCHANGED <<secure, sock, peer, answers>>
        /\ timer' = [timer EXCEPT ![c] = TRUE]
    BY <2>3 DEF Start
  <2>. QED
    <3>1. Continues(c, kind, TRUE, request[c], u, b)
      BY <1>1, <2>2, <2>3, <2>4, <2>5 DEF Continues
    <3>. QED
      BY <3>1, StartedInd
<1>. QED
  BY <1>3, <1>4, <1>5 DEF find_resource, write_response, default_resource

(* The connection of the completion that the thread takes.                 *)
LEMMA CurrentConn ==
    ASSUME Ind, NEW kind, Current(kind), kind # "timer", kind # "accept" \/ Ok
    PROVE  \E c \in Conns : /\ c = Conn /\ Taken(c)
                            /\ Head(queue) \in Calls(c) /\ Head(queue).kind = kind
<1>1. queue \in Seq(Completions) /\ Owned /\ queue # <<>> /\ Head(queue).kind = kind
  BY DEF Ind, Types, Current
<1>2. Rightful(Head(queue))
  BY <1>1, TailOwned DEF Owned
<1>3. PICK c \in Conns : c = Conn
  BY <1>1, <1>2 DEF Rightful, Conn, Ok
<1>4. Taken(c)
  BY <1>1, <1>3 DEF Taken
<1>. QED
  BY <1>1, <1>3, <1>4, TakenStep

(* accept(), plain and with SSL, and an accept that has failed.            *)
LEMMA OnAcceptInd == ASSUME Ind, OnAccept PROVE Ind' /\ Steps
<1>1. accepting' \in BOOLEAN /\ Current("accept")
  BY DEF OnAccept
<1>2. CASE Ok /\ Handshake(Conn)
  <2>1. PICK c \in Conns : /\ c = Conn /\ Taken(c)
                           /\ Head(queue) \in Calls(c) /\ Head(queue).kind = "accept"
    BY <1>1, <1>2, CurrentConn
  <2>2. request[c] = NoRequest
    BY <2>1 DEF Ind, ConnInd, Reading, HasRequest
  <2>3. "handshake" \in Operations /\ ~HasRequest("handshake", FALSE)
    BY DEF Operations, HasRequest
  <2>4. Ind' /\ StepOf(c)
    BY <1>1, <1>2, <2>1, <2>2, <2>3, StartKeptInd DEF Handshake
  <2>. QED
    BY <2>1, <2>4 DEF Steps
<1>3. CASE Ok /\ read_request_and_content(Conn)
  <2>1. PICK c \in Conns : /\ c = Conn /\ Taken(c)
                           /\ Head(queue) \in Calls(c) /\ Head(queue).kind = "accept"
    BY <1>1, <1>3, CurrentConn
  <2>2. request[c] = NoRequest
    BY <2>1 DEF Ind, ConnInd, Reading, HasRequest
  <2>3. Ind' /\ StepOf(c)
    BY <1>1, <1>3, <2>1, <2>2, ReadNextInd
  <2>. QED
    BY <2>1, <2>3 DEF Steps
<1>4. CASE ~Ok /\ queue' = Waiting /\ UNCHANGED <<secure, sock, op, timer, reply, peer, answers>>
  <2>1. queue \in Seq(Completions) /\ Owned /\ queue # <<>> /\ Types
    BY <1>1 DEF Ind, Types, Current
  <2>2. Head(queue).conn = NoConn
    BY <1>1, <1>4, <2>1, TailOwned DEF Owned, Rightful, Current, Ok
  <2>3. queue' \in Seq(Completions) /\ Owned'
    BY <1>4, <2>1, TailOf, TailOwned DEF Waiting, Owned
  <2>4. Types'
    BY <1>1, <1>4, <2>1, <2>3 DEF Types, reply, peer
  <2>5. ASSUME NEW d \in Conns PROVE ConnInd(d)' /\ Same(d)
    <3>1. Head(queue).conn # d
      BY <2>2, HttpAssumption
    <3>2. Of(queue', d) = Of(queue, d)
      BY <1>4, <2>1, <3>1, TailOf DEF Waiting
    <3>3. Single(queue', d)
      BY <1>4, <2>1, TailSingle DEF Waiting, Ind, ConnInd, Exclusive
    <3>4. Same(d)
      BY <1>4, <3>2, <3>3 DEF Same, reply, peer
    <3>. QED
      BY <3>4, Frame DEF Ind
  <2>. QED
    BY <1>4, <2>3, <2>4, <2>5 DEF Ind, Steps
<1>. QED
  BY <1>2, <1>3, <1>4 DEF OnAccept

(* The handshake is done or has failed.                                    *)
LEMMA OnHandshakeInd == ASSUME Ind, OnHandshake PROVE Ind' /\ Steps
<1>1. PICK c \in Conns : /\ c = Conn /\ Taken(c) /\ UNCHANGED accepting /\ accepting' \in BOOLEAN
                         /\ Head(queue) \in Calls(c) /\ Head(queue).kind = "handshake"
  BY CurrentConn DEF OnHandshake, Ind, Types
<1>2. request[c] = NoRequest
  BY <1>1 DEF Ind, ConnInd, Reading, HasRequest
<1>3. Ind' /\ StepOf(c)
  BY <1>1, <1>2, ReadNextInd, LetGoInd DEF OnHandshake
<1>. QED
  BY <1>1, <1>3 DEF Steps

(* The head of a request has arrived, does not parse, or announces a body. *)
LEMMA OnHeadInd == ASSUME Ind, OnHead PROVE Ind' /\ Steps
<1>1. PICK c \in Conns :
        /\ c = Conn /\ Taken(c) /\ Head(queue) \in Calls(c) /\ Head(queue).kind = "head"
        /\ UNCHANGED accepting /\ accepting' \in BOOLEAN
  BY CurrentConn DEF OnHead, Ind, Types
<1>2. Ok => request[c] # NoRequest /\ InFlight(c)
  BY <1>1 DEF Ind, ConnInd, Reading, HasRequest, InFlight, Ok
<1>3. "content" \in Operations /\ HasRequest("content", FALSE)
  BY DEF Operations, HasRequest
<1>4. \/ LetGo(c)
      \/ Ok /\ Start(c, "content") /\ UNCHANGED reply
      \/ Ok /\ find_resource(c)
  BY <1>1 DEF OnHead
<1>5. CASE LetGo(c)
  BY <1>1, <1>5, LetGoInd DEF Steps
<1>6. CASE Ok /\ Start(c, "content") /\ UNCHANGED reply
  <2>1. Ind' /\ StepOf(c)
    BY <1>1, <1>2, <1>3, <1>6, StartKeptInd
  <2>. QED
    BY <1>1, <2>1 DEF Steps
<1>7. CASE Ok /\ find_resource(c)
  BY <1>1, <1>2, <1>7, FindResourceInd DEF Steps
<1>. QED
  BY <1>4, <1>5, <1>6, <1>7

(* The body of a request has arrived or has not.                           *)
LEMMA OnContentInd == ASSUME Ind, OnContent PROVE Ind' /\ Steps
<1>1. PICK c \in Conns :
        /\ c = Conn /\ Taken(c) /\ Head(queue) \in Calls(c) /\ Head(queue).kind = "content"
        /\ UNCHANGED accepting
  BY CurrentConn DEF OnContent
<1>2. request[c] # NoRequest /\ InFlight(c)
  BY <1>1 DEF Ind, ConnInd, Reading, HasRequest, InFlight
<1>3. LetGo(c) \/ find_resource(c)
  BY <1>1 DEF OnContent
<1>. QED
  BY <1>1, <1>2, <1>3, LetGoInd, FindResourceInd DEF Steps

(* A buffer of a file was written, or was not: the response is dropped and *)
(* sent as it is.                                                          *)
LEMMA OnChunkInd == ASSUME Ind, OnChunk PROVE Ind' /\ Steps
<1>1. PICK c \in Conns :
        /\ c = Conn /\ Taken(c) /\ Head(queue) \in Calls(c) /\ Head(queue).kind = "chunk"
        /\ UNCHANGED <<secure, accepting, sock, timer, peer, answers>> /\ accepting' \in BOOLEAN
  BY CurrentConn DEF OnChunk, Ind, Types
<1>2. /\ request[c] # NoRequest /\ InFlight(c) /\ request[c] \in Requests[c] \cup {NoRequest}
      /\ request[c].resource = "file" => unread[c] + body[c] = request[c].size
      /\ ~Ok => client[c] = "left" \/ sock[c] = "closed"
  BY <1>1 DEF Ind, ConnInd, Reading, HasRequest, InFlight, Sending, Failing, Ok
<1>3. /\ unread[c] \in Nat /\ body[c] \in Nat
      /\ timer[c] \in BOOLEAN /\ timer' = [timer EXCEPT ![c] = timer[c]]
  BY <1>1 DEF Ind, Types
<1>4. "send" \in Operations /\ HasRequest("send", FALSE)
      /\ "chunk" \in Operations /\ HasRequest("chunk", FALSE)
  BY DEF Operations, HasRequest
<1>5. CASE Ok /\ StartOp(c, Piece(unread[c])) /\ Read(c, unread[c], body[c])
  <2> DEFINE kind == Piece(unread[c])
             u == unread[c] - ReadLength(unread[c])
             b == body[c] + ReadLength(unread[c])
  <2>1. /\ u \in Nat /\ b \in Nat /\ u + b = unread[c] + body[c]
        /\ kind \in Operations /\ HasRequest(kind, FALSE)
        /\ kind = "send" => b = unread[c] + body[c]
    <3> DEFINE n == unread[c]
    <3>1. /\ u \in Nat /\ ReadLength(n) \in Nat /\ n \in Nat /\ body[c] \in Nat
          /\ kind \in {"chunk", "send"} /\ (kind = "send" => ReadLength(n) = n)
      BY <1>3, Pieces
    <3>2. u \in Nat /\ b \in Nat /\ u + b = n + body[c]
      BY <3>1
    <3>3. kind = "send" => b = n + body[c]
      BY <3>1
    <3>4. kind \in Operations /\ HasRequest(kind, FALSE)
      BY <1>4, <3>1
    <3>. QED
      BY <3>2, <3>3, <3>4
  <2>2. /\ StartOp(c, kind) /\ request' = [request EXCEPT ![c] = request[c]]
        /\ unread' = [unread EXCEPT ![c] = u] /\ body' = [body EXCEPT ![c] = b]
    BY <1>5 DEF Read, Ind, Types
  <2> HIDE DEF kind, u, b
  <2>3. UNCHANGED <<secure, sock, peer, answers>> /\ Head(queue).kind # "accept"
    BY <1>1
  <2>. QED
    <3>1. Continues(c, kind, timer[c], request[c], u, b)
      BY <1>1, <1>2, <1>3, <2>1, <2>2, <2>3 DEF Continues
    <3>. QED
      BY <1>1, <3>1, StartedInd DEF Steps
<1>6. CASE ~Ok /\ StartOp(c, "send") /\ UNCHANGED reply
  <2>1. /\ request' = [request EXCEPT ![c] = request[c]]
        /\ unread' = [unread EXCEPT ![c] = unread[c]]
        /\ body' = [body EXCEPT ![c] = body[c]]
    BY <1>6 DEF reply, Ind, Types
  <2>2. UNCHANGED <<secure, sock, peer, answers>> /\ Head(queue).kind # "accept"
    BY <1>1
  <2>3. sock[c] = "open" => client[c] = "left"
    BY <1>2, <1>6
  <2>. QED
    <3>1. Continues(c, "send", timer[c], request[c], unread[c], body[c])
      BY <1>1, <1>2, <1>3, <1>4, <1>6, <2>1, <2>2, <2>3 DEF Continues
    <3>. QED
      BY <1>1, <3>1, StartedInd DEF Steps
<1>. QED
  BY <1>1, <1>5, <1>6 DEF OnChunk

(* The answer was written: the connection is kept or dropped.              *)
LEMMA OnSendInd == ASSUME Ind, OnSend PROVE Ind' /\ Steps
<1>1. PICK c \in Conns : /\ c = Conn /\ Taken(c) /\ UNCHANGED accepting /\ accepting' \in BOOLEAN
                         /\ Head(queue).kind = "send"
  BY CurrentConn DEF OnSend, Ind, Types
<1>2. Ind' /\ StepOf(c)
  BY <1>1, ReadNextInd, LetGoInd DEF OnSend
<1>. QED
  BY <1>1, <1>2 DEF Steps

(* get_timeout_timer(): the socket is closed, and what was pending on it   *)
(* completes with an error.                                                *)
LEMMA OnTimerInd == ASSUME Ind, OnTimer PROVE Ind' /\ Steps
<1>1. /\ Types /\ Owned /\ queue \in Seq(Completions) /\ queue # <<>>
      /\ Head(queue).kind = "timer"
  BY DEF Ind, Types, OnTimer, Current
<1>2. PICK c \in Conns : c = Conn /\ ConnInd(c)
  <2>1. Rightful(Head(queue))
    BY <1>1, TailOwned DEF Owned
  <2>. QED
    BY <1>1, <2>1 DEF Rightful, Conn, Ind
<1> DEFINE e == Completion(c, op[c], FALSE)
<1>3. /\ sock' = [sock EXCEPT ![c] = "closed"]
      /\ op' = [op EXCEPT ![c] = "none"]
      /\ op[c] = "none" => queue' = Waiting
      /\ op[c] # "none" => queue' = Append(Waiting, e)
      /\ Discard(c, TRUE)
      /\ UNCHANGED <<secure, accepting, timer, reply, answers>>
  BY <1>2 DEF OnTimer
<1>4. Head(queue).conn = c
  BY <1>2 DEF Conn
<1>5. /\ Waiting \in Seq(Completions) /\ OwnedIn(Waiting)
      /\ \A d \in Conns : Single(Waiting, d)
      /\ \A d \in Conns : d # c => Of(Waiting, d) = Of(queue, d)
      /\ Head(queue) \in Of(queue, c)
      /\ Of(Waiting, c) \subseteq Of(queue, c)
      /\ Of(queue, c) \subseteq Of(Waiting, c) \cup {Head(queue)}
  <2>1. /\ Waiting \in Seq(Completions) /\ OwnedIn(Waiting)
        /\ \A d \in Conns : Single(Waiting, d)
    BY <1>1, TailOf, TailOwned, TailSingle DEF Waiting, Owned, Ind, ConnInd, Exclusive
  <2>. QED
    BY <1>1, <1>4, <2>1, TailOf DEF Waiting
<1>6. /\ sock[c] \in {"open", "closed"} /\ client[c] # "away"
      /\ op[c] # "none" => Calls(c) = {} /\ op[c] \in Operations
  BY <1>1, <1>2, <1>5 DEF ConnInd, Unborn, Exclusive, Types
<1>7. {f \in Of(Waiting, c) : f.kind # "timer"} = Calls(c)
  BY <1>1, <1>5 DEF Calls
<1>8. e.conn = c /\ e.kind = op[c] /\ ~e.ok
  BY DEF Completion
<1>9. op[c] # "none" => e \in Completions /\ Rightful(e) /\ e.kind # "timer"
  BY <1>2, <1>6, <1>8 DEF Completion, Completions, Rightful, Operations
<1> HIDE DEF e
<1>10. /\ queue' \in Seq(Completions) /\ Owned'
       /\ \A d \in Conns : Single(queue', d)
       /\ \A d \in Conns : d # c => Of(queue', d) = Of(queue, d)
       /\ Calls(c)' = IF op[c] = "none" THEN Calls(c) ELSE {e}
  <2>1. CASE op[c] = "none"
    BY <1>3, <1>5, <1>7, <2>1 DEF Owned, Calls
  <2>2. CASE op[c] # "none"
    <3>0. queue' = Append(Waiting, e) /\ e \in Completions /\ e.conn = c /\ e.kind # "timer"
      BY <1>3, <1>8, <1>9, <2>2
    <3>1. /\ queue' \in Seq(Completions)
          /\ Of(queue', c) = Of(Waiting, c) \cup {e}
          /\ \A d \in Conns : d # c => Of(queue', d) = Of(Waiting, d)
      BY <1>5, <3>0, AppendOf
    <3>2. OwnedIn(queue')
      BY <1>3, <1>5, <1>9, <2>2, AppendOwned
    <3>3. \A d \in Conns : Single(queue', d)
      <4>1. \A f \in Of(Waiting, c) : f.kind = "timer"
        BY <1>6, <1>7, <2>2
      <4>. QED
        BY <1>5, <3>0, <4>1, AppendSingle
    <3>4. Calls(c)' = {e}
      BY <1>6, <1>7, <1>9, <2>2, <3>1 DEF Calls
    <3>. QED
      BY <1>5, <2>2, <3>1, <3>2, <3>3, <3>4 DEF Owned
  <2>. QED
    BY <2>1, <2>2
<1>11. Types'
  BY <1>1, <1>2, <1>3, <1>10 DEF Types, reply, Discard
<1>12. ASSUME NEW d \in Conns, d # c PROVE Same(d)
  BY <1>1, <1>3, <1>10, <1>12 DEF Types, Same, reply, Discard
<1>13. /\ sock'[c] = "closed" /\ op'[c] = "none" /\ client' = client /\ wire'[c] = 0
       /\ request' = request /\ asked' = asked /\ answers' = answers
       /\ unread' = unread /\ body' = body
  BY <1>1, <1>2, <1>3 DEF Types, reply, Discard
<1>14. ConnInd(c)'
  <2>1. Exclusive(c)' /\ Unborn(c)' /\ Timed(c)'
    BY <1>2, <1>6, <1>10, <1>13 DEF Exclusive, Unborn, Timed
  <2>2. Reading(c)' /\ Failing(c)'
    BY <1>2, <1>8, <1>10, <1>13 DEF ConnInd, Reading, HasRequest, Failing
  <2>3. Sending(c)'
    BY <1>2, <1>8, <1>10, <1>13 DEF ConnInd, Sending
  <2>4. InFlight(c)' => InFlight(c)
    BY <1>8, <1>10, <1>13 DEF InFlight
  <2>5. Budget(c)'
    BY <1>1, <1>2, <1>11, <1>13, <2>4, BudgetStep DEF ConnInd
  <2>. QED
    BY <2>1, <2>2, <2>3, <2>5 DEF ConnInd
<1>15. Moved(c)
  BY <1>6, <1>13 DEF Moved, Stage
<1>16. \A d \in Conns : ConnInd(d)'
  BY <1>12, <1>14, Frame DEF Ind
<1>. QED
  BY <1>2, <1>10, <1>11, <1>12, <1>15, <1>16 DEF Ind, StepOf, Steps

-----------------------------------------------------------------------------
(* The theorems                                                            *)

(* ServerBase::start(): nothing is connected yet.                          *)
LEMMA InitInd == ASSUME Init PROVE Ind
<1> USE DEF Init
<1>1. queue \in Seq(Completions) /\ OwnedIn(queue)
  BY DEF OwnedIn
<1>2. Types
  BY <1>1 DEF Types
<1>3. ASSUME NEW c \in Conns PROVE ConnInd(c)
  <2>1. Of(queue, c) = {} /\ Calls(c) = {} /\ Single(queue, c)
    BY DEF Of, Calls, Single
  <2>2. /\ op[c] = "none" /\ sock[c] = "none" /\ ~timer[c] /\ request[c] = NoRequest
        /\ wire[c] = 0 /\ asked[c] = 0 /\ answers[c] = 0
    OBVIOUS
  <2>3. Exclusive(c) /\ Unborn(c) /\ Timed(c)
    BY <2>1, <2>2 DEF Exclusive, Unborn, Timed
  <2>4. Reading(c) /\ Failing(c) /\ Sending(c)
    BY <2>1, <2>2 DEF Reading, Failing, Sending
  <2>5. ~InFlight(c) /\ MaxRequests[c] \in Nat
    BY <2>1, <2>2, HttpAssumption DEF InFlight
  <2>6. Budget(c)
    BY <2>2, <2>5 DEF Budget
  <2>. QED
    BY <2>3, <2>4, <2>6 DEF ConnInd
<1>. QED
  BY <1>1, <1>2, <1>3 DEF Ind, Owned

(* Every step of a client, of the kernel, of a timer and of the thread     *)
(* keeps the invariant, and is to the clients a step of one connection.    *)
LEMMA NextInd == ASSUME Ind, [Next]_vars PROVE Ind' /\ Steps
<1>1. CASE UNCHANGED vars
  <2>1. /\ secure' = secure /\ accepting' = accepting /\ queue' = queue /\ sock' = sock
        /\ op' = op /\ timer' = timer /\ request' = request /\ unread' = unread
        /\ body' = body /\ client' = client /\ wire' = wire /\ asked' = asked
        /\ answers' = answers
    BY <1>1 DEF vars, io, reply, peer
  <2>2. Types' /\ Owned'
    BY <2>1 DEF Ind, Types, Owned, OwnedIn
  <2>3. \A d \in Conns : Same(d)
    BY <2>1 DEF Same, Ind, ConnInd, Exclusive
  <2>4. \A d \in Conns : ConnInd(d)'
    BY <2>3, Frame DEF Ind
  <2>. QED
    BY <2>1, <2>2, <2>3, <2>4 DEF Ind, Steps
<1>2. ASSUME NEW c \in Conns,
             Connect(c) \/ AcceptFails(c) \/ Ask(c) \/ Leave(c) \/ Kernel(c) \/ Expire(c)
      PROVE  Ind' /\ Steps
  <2>1. Ind' /\ StepOf(c)
    BY <1>2, ConnectInd, AcceptFailsInd, AskInd, LeaveInd, KernelInd, ExpireInd
  <2>. QED
    BY <2>1 DEF Steps
<1>3. CASE Run
  BY <1>3, OnAcceptInd, OnHandshakeInd, OnHeadInd, OnContentInd, OnChunkInd, OnSendInd,
     OnTimerInd DEF Run
<1>. QED
  BY <1>1, <1>2, <1>3 DEF Next

(* The invariant of the connections holds whatever the clients, the kernel *)
(* and the timers do.                                                      *)
THEOREM ConnectionInvariant == Spec => []Ind
<1>1. Init => Ind
  BY InitInd
<1>2. Ind /\ [Next]_vars => Ind'
  BY NextInd
<1>. QED
  BY <1>1, <1>2, PTL DEF Spec

(* The numbers that TypeOK bounds are within the budget of the client.     *)
LEMMA IndTypeOK == ASSUME Ind PROVE TypeOK
<1>1. Types
  BY DEF Ind
<1>2. ASSUME NEW c \in Conns
      PROVE  /\ request[c] \in Requests[c] \cup {NoRequest}
             /\ wire[c] \in 0 .. asked[c] /\ answers[c] \in 0 .. asked[c]
             /\ asked[c] <= MaxRequests[c]
  <2>1. Reading(c) /\ Budget(c)
    BY DEF Ind, ConnInd
  <2> DEFINE n == IF InFlight(c) THEN 1 ELSE 0
  <2>2. n \in 0 .. 1
    OBVIOUS
  <2>3. /\ answers[c] \in Nat /\ wire[c] \in Nat /\ asked[c] \in Nat
        /\ answers[c] + wire[c] + n <= asked[c]
        /\ asked[c] <= MaxRequests[c] /\ request[c] \in Requests[c] \cup {NoRequest}
    BY <1>1, <2>1 DEF Types, Budget, Reading
  <2> HIDE DEF n
  <2>. QED
    BY <2>2, <2>3
<1>. QED
  BY <1>1, <1>2 DEF Types, TypeOK

(* An open connection whose timer is not running has an operation that has *)
(* completed or a timer that has expired in the queue.                     *)
LEMMA IndGuarded == ASSUME Ind PROVE Guarded
<1>1. queue \in Seq(Completions)
  BY DEF Ind, Types
<1>2. ASSUME NEW c \in Conns, sock[c] = "open", ~timer[c] PROVE Pending(c) # {}
  <2>1. Timed(c)
    BY DEF Ind, ConnInd
  <2>2. Of(queue, c) # {}
    BY <1>2, <2>1 DEF Timed, Rings, Rung, Calls
  <2>. QED
    BY <1>1, <2>2, OfElements DEF Pending
<1>. QED
  BY <1>2 DEF Guarded

(* Of the completions of a connection at most one is not a timer, and none *)
(* while an operation is pending.                                          *)
LEMMA IndOneOperation == ASSUME Ind PROVE OneOperation
<1>1. queue \in Seq(Completions)
  BY DEF Ind, Types
<1>2. ASSUME NEW c \in Conns
      PROVE  Cardinality({i \in Pending(c) : queue[i].kind # "timer"})
                 + (IF op[c] = "none" THEN 0 ELSE 1) <= 1
  <2> DEFINE S == {i \in Pending(c) : queue[i].kind # "timer"}
  <2>1. Single(queue, c) /\ (op[c] # "none" => Calls(c) = {})
    BY DEF Ind, ConnInd, Exclusive
  <2>2. \A i \in S : queue[i] \in Calls(c)
    BY <1>1, OfElements DEF Pending, Calls
  <2>3. \A i, j \in S : i = j
    BY <2>1 DEF Single, Pending
  <2>4. CASE S = {}
    <3>1. Cardinality(S) = 0
      BY <2>4, FS_EmptySet
    <3>. QED
      BY <3>1
  <2>5. CASE S # {}
    <3>1. PICK i \in S : TRUE
      BY <2>5
    <3>2. S = {i}
      BY <2>3, <3>1
    <3>3. Cardinality(S) = 1
      BY <3>2, FS_Singleton
    <3>4. op[c] = "none"
      BY <2>1, <2>2, <3>1
    <3>. QED
      BY <3>3, <3>4
  <2>. QED
    BY <2>4, <2>5
<1>. QED
  BY <1>2 DEF OneOperation

(* The end of a file is sent for a request that was read, with all of the  *)
(* file before it.                                                         *)
LEMMA IndBodyComplete == ASSUME Ind PROVE BodyComplete
<1>1. ASSUME NEW c \in Conns, op[c] = "send", request[c].resource = "file"
      PROVE  body[c] = request[c].size \/ client[c] = "left"
  <2>1. Sending(c) /\ Reading(c)
    BY DEF Ind, ConnInd
  <2>2. request[c] # NoRequest
    BY <1>1, <2>1 DEF Reading, HasRequest
  <2>. QED
    BY <1>1, <2>1, <2>2 DEF Sending
<1>. QED
  BY <1>1 DEF BodyComplete

(* The state of every connection has its type: a client never has more     *)
(* answers, or more requests on the wire, than it has asked for.           *)
THEOREM TypeCorrect == Spec => []TypeOK
BY ConnectionInvariant, IndTypeOK, PTL

(* Whatever way a handler returns, an open connection has a timer that is  *)
(* running or a completion that the thread will see: get_timeout_timer()   *)
(* leaves no path of sws/server_http.hpp uncovered.                        *)
THEOREM AlwaysGuarded == Spec => []Guarded
BY ConnectionInvariant, IndGuarded, PTL

(* Two operations of one connection never overlap, also when its timer     *)
(* expires between them.                                                   *)
THEOREM NeverTwoOperations == Spec => []OneOperation
BY ConnectionInvariant, IndOneOperation, PTL

(* default_resource_send(): for every size of a file and of the buffer,    *)
(* the body is as long as the Content-Length when the end is sent.         *)
THEOREM BodyAsLongAsAnnounced == Spec => []BodyComplete
BY ConnectionInvariant, IndBodyComplete, PTL

-----------------------------------------------------------------------------
(* The refinement of RequestReply: its initial state and its steps.        *)

(* Nothing is promised before a client connects.                           *)
LEMMA InitPromise == ASSUME Init PROVE Promise!Init
<1>1. \A c \in Conns : Stage(c) = "off"
  BY DEF Init, Stage
<1>. QED
  BY <1>1 DEF Promise!Init, Init

(* A connection of which a step changes nothing looks the same.            *)
LEMMA SameStays ==
    ASSUME Types, Types', NEW d \in Conns, Same(d)
    PROVE  Stage(d)' = Stage(d)
<1>1. (Holds(d)' <=> Holds(d)) /\ (Sends(d)' <=> Sends(d))
  BY DEF Holds, Sends, Calls, Same
<1>. QED
  BY <1>1, SameStage DEF Same

(* Every step of the server is a step of RequestReply, or one that its     *)
(* clients do not see.                                                     *)
LEMMA StepPromise == ASSUME Ind, [Next]_vars PROVE [Promise!Next]_(Promise!vars)
<1> DEFINE st == [c \in Conns |-> Stage(c)]
<1>1. Types /\ Types' /\ Steps
  BY NextInd DEF Ind
<1>2. CASE answers' = answers /\ \A d \in Conns : Same(d)
  <2>1. st' = st
    BY <1>1, <1>2, SameStays
  <2>. QED
    BY <1>2, <2>1 DEF Promise!vars
<1>3. ASSUME NEW c \in Conns, StepOf(c) PROVE [Promise!Next]_(Promise!vars)
  <2>1. \A d \in Conns : d # c => Stage(d)' = Stage(d)
    BY <1>1, <1>3, SameStays DEF StepOf
  <2>2. st' = [st EXCEPT ![c] = Stage(c)'] /\ st[c] = Stage(c)
    BY <2>1
  <2>3. CASE Stage(c)' = Stage(c) /\ answers' = answers
    <3>1. st' = st
      BY <2>1, <2>3
    <3>. QED
      BY <2>3, <3>1 DEF Promise!vars
  <2>4. CASE Stage(c) = "off" /\ Stage(c)' = "idle" /\ answers' = answers
    BY <2>2, <2>4 DEF Promise!Next, Promise!Open, Promise!Becomes
  <2>5. CASE Stage(c) = "idle" /\ Stage(c)' \in {"busy", "failing"} /\ answers' = answers
    BY <2>2, <2>5 DEF Promise!Next, Promise!Take, Promise!TakeFailing, Promise!Becomes
  <2>6. CASE /\ Stage(c) = "busy" /\ Stage(c)' = "done"
             /\ answers' = [answers EXCEPT ![c] = @ + 1]
    BY <2>2, <2>6 DEF Promise!Next, Promise!Answer, Promise!Becomes
  <2>7. CASE Stage(c) = "failing" /\ Stage(c)' = "done" /\ answers' = answers
    BY <2>2, <2>7 DEF Promise!Next, Promise!Forget, Promise!Becomes
  <2>8. CASE Stage(c) = "done" /\ Stage(c)' = "idle" /\ answers' = answers
    BY <2>2, <2>8 DEF Promise!Next, Promise!Reuse, Promise!Becomes
  <2>9. CASE /\ Stage(c) \in {"idle", "busy", "failing", "done"} /\ Stage(c)' = "given up"
             /\ answers' = answers
    BY <2>2, <2>9 DEF Promise!Next, Promise!GiveUp, Promise!Becomes
  <2>10. CASE /\ Stage(c) \in {"idle", "busy", "failing", "done", "given up"}
              /\ Stage(c)' = "closed" /\ answers' = answers
    BY <2>2, <2>10 DEF Promise!Next, Promise!Close, Promise!Becomes
  <2>. QED
    BY <1>3, <2>3, <2>4, <2>5, <2>6, <2>7, <2>8, <2>9, <2>10 DEF StepOf, Moved
<1>. QED
  BY <1>1, <1>2, <1>3 DEF Steps

(* The server implements the safety part of RequestReply: the requests of  *)
(* a connection are taken one at a time, and the next is taken only when   *)
(* the one before it was answered, once, or was one whose handler throws;  *)
(* nothing is answered on a connection that was given up or closed.        *)
THEOREM ImplementsSafety == Spec => Promise!Init /\ [][Promise!Next]_(Promise!vars)
<1>1. Init => Promise!Init
  BY InitPromise
<1>2. Ind /\ [Next]_vars => [Promise!Next]_(Promise!vars)
  BY StepPromise
<1>. QED
  BY <1>1, <1>2, ConnectionInvariant, PTL DEF Spec
=============================================================================
