--------------------------- MODULE HttpConnection ---------------------------
(***************************************************************************)
(* The HTTP server of the agent: sws/server_http.hpp, sws/server_https.hpp *)
(* and the handlers of src/server.cpp.  One thread runs the io_service: it *)
(* takes completions from a queue, and each handler starts the next        *)
(* operation of its connection.  The kernel completes operations while the *)
(* client cooperates, and every operation has a timer beside it that       *)
(* closes the socket.  cancel() does not stop a timer whose handler is     *)
(* queued already.                                                         *)
(*                                                                         *)
(* A connection is closed by its timer, or when the last handler that      *)
(* holds its socket is gone.  The body of a request and of an answer are   *)
(* abstract, except for the length of a static file, which is sent one     *)
(* buffer at a time.                                                       *)
(***************************************************************************)
EXTENDS Naturals, Sequences, FiniteSets

CONSTANTS
    Conns,          \* the connections of the clients
    NoConn,         \* of an accept that failed
    Requests,       \* what the client of each connection may ask
    NoRequest,
    Buffer,         \* buffer_size: bytes of a file that are sent at a time
    MaxRequests     \* bound: requests of each client

(* A request: whether its first line parses, its Content-Length, what is   *)
(* found for its path and method (a handler, one that throws, a file of    *)
(* the web root, the page for one that is missing or not modified), its    *)
(* Connection header, whether it is HTTP/1.1 or later, and the size of the *)
(* file.                                                                   *)
RequestType ==
    [parses: BOOLEAN, length: {"none", "bad", "body"},
     resource: {"route", "throws", "file", "page", "none"},
     connection: {"none", "close", "keep-alive"}, recent: BOOLEAN, size: Nat]

ASSUME HttpAssumption ==
    /\ NoConn \notin Conns
    /\ Requests \in [Conns -> SUBSET RequestType] /\ NoRequest \notin RequestType
    /\ Buffer \in Nat \ {0}
    /\ MaxRequests \in [Conns -> Nat]

VARIABLES
    secure,     \* useSSL
    accepting,  \* async_accept() is pending
    queue,      \* completions that wait for the thread
    sock,       \* "none", "open", "closed"
    op,         \* the operation that is pending on the socket
    timer,      \* the timer beside it is running
    request,    \* the request that was read last, until the next read begins
    unread,     \* bytes of its file that are still to be read
    body,       \* bytes of its file that were given to the socket
    client,     \* "away", "here", "left"
    wire,       \* how many requests it has sent that nobody has read
    asked,      \* how many it has sent at all
    answers     \* how many answers were written to the socket

io == <<accepting, queue, sock, op, timer>>
reply == <<request, unread, body>>
peer == <<client, wire, asked>>
vars == <<secure, io, reply, peer, answers>>

Operations == {"handshake", "head", "content", "chunk", "send"}

Completions ==
    [conn: Conns \cup {NoConn}, kind: Operations \cup {"accept", "timer"}, ok: BOOLEAN]

(* The types of the state: the connections, the queue of the io thread     *)
(* and its timers.                                                         *)
TypeOK ==
    /\ secure \in BOOLEAN /\ accepting \in BOOLEAN
    /\ queue \in Seq(Completions)
    /\ sock \in [Conns -> {"none", "open", "closed"}]
    /\ op \in [Conns -> Operations \cup {"none"}]
    /\ timer \in [Conns -> BOOLEAN]
    /\ \A c \in Conns : request[c] \in Requests[c] \cup {NoRequest}
    /\ unread \in [Conns -> Nat] /\ body \in [Conns -> Nat]
    /\ client \in [Conns -> {"away", "here", "left"}]
    /\ \A c \in Conns :
         wire[c] \in 0 .. asked[c] /\ answers[c] \in 0 .. asked[c] /\ asked[c] <= MaxRequests[c]

(* HttpServer::start(), ServerBase::start(): the first accept is pending.  *)
Init ==
    /\ secure \in BOOLEAN
    /\ accepting = TRUE /\ queue = <<>>
    /\ sock = [c \in Conns |-> "none"]
    /\ op = [c \in Conns |-> "none"]
    /\ timer = [c \in Conns |-> FALSE]
    /\ request = [c \in Conns |-> NoRequest]
    /\ unread = [c \in Conns |-> 0] /\ body = [c \in Conns |-> 0]
    /\ client = [c \in Conns |-> "away"]
    /\ wire = [c \in Conns |-> 0]
    /\ asked = [c \in Conns |-> 0]
    /\ answers = [c \in Conns |-> 0]

Completion(c, kind, ok) == [conn |-> c, kind |-> kind, ok |-> ok]

-----------------------------------------------------------------------------
(* The clients                                                             *)

Connect(c) ==
    /\ client[c] = "away" /\ accepting
    /\ client' = [client EXCEPT ![c] = "here"]
    /\ accepting' = FALSE
    /\ sock' = [sock EXCEPT ![c] = "open"]
    /\ queue' = Append(queue, Completion(c, "accept", TRUE))
    /\ UNCHANGED <<secure, op, timer, reply, wire, asked, answers>>

(* The accept fails: too many files are open, the client has gone again.   *)
AcceptFails(c) ==
    /\ client[c] = "away" /\ accepting
    /\ client' = [client EXCEPT ![c] = "left"]
    /\ accepting' = FALSE
    /\ queue' = Append(queue, Completion(NoConn, "accept", FALSE))
    /\ UNCHANGED <<secure, sock, op, timer, reply, wire, asked, answers>>

(* What is sent on a closed connection is lost.                            *)
Ask(c) ==
    /\ client[c] = "here" /\ sock[c] = "open" /\ asked[c] < MaxRequests[c]
    /\ wire' = [wire EXCEPT ![c] = @ + 1]
    /\ asked' = [asked EXCEPT ![c] = @ + 1]
    /\ UNCHANGED <<secure, io, reply, client, answers>>

(* The client closes the connection.  One that hangs, or whose network is  *)
(* gone, just takes no more steps.                                         *)
Leave(c) ==
    /\ client[c] = "here" /\ sock[c] = "open"
    /\ client' = [client EXCEPT ![c] = "left"]
    /\ UNCHANGED <<secure, io, reply, wire, asked, answers>>

-----------------------------------------------------------------------------
(* The kernel                                                              *)

Complete(c, ok) ==
    /\ queue' = Append(queue, Completion(c, op[c], ok))
    /\ op' = [op EXCEPT ![c] = "none"]
    /\ UNCHANGED <<secure, accepting, sock, timer>>

(* The peer shakes hands or sends the rest of its request.                 *)
Cooperates(c) ==
    /\ op[c] \in {"handshake", "content"} /\ client[c] = "here"
    /\ Complete(c, TRUE)
    /\ UNCHANGED <<reply, peer, answers>>

\* Mutant: one request more than the read has brought is taken.
ReadHeadBeyond(c, r, swallowed) ==
    /\ op[c] = "head" /\ swallowed < wire[c]
    /\ request' = [request EXCEPT ![c] = r]
    /\ wire' = [wire EXCEPT ![c] = @ - 2 - swallowed]
    /\ Complete(c, TRUE)
    /\ UNCHANGED <<unread, body, client, asked, answers>>

(* async_read_until(): what comes in the same read after the first head    *)
(* stays in the buffer of this request, which the next one does not see.   *)
ReadHead(c, r, swallowed) ==
    /\ op[c] = "head" /\ swallowed < wire[c]
    /\ request' = [request EXCEPT ![c] = r]
    /\ wire' = [wire EXCEPT ![c] = @ - 1 - swallowed]
    /\ Complete(c, TRUE)
    /\ UNCHANGED <<unread, body, client, asked, answers>>

(* The handler of a route writes to a stream of its own, which is copied   *)
(* to the response when it has returned.                                   *)
Heard(c) == IF op[c] = "send" /\ request[c].resource # "throws" THEN 1 ELSE 0

Written(c) ==
    /\ op[c] \in {"chunk", "send"} /\ client[c] # "left"
    /\ answers' = [answers EXCEPT ![c] = @ + Heard(c)]
    /\ Complete(c, TRUE)
    /\ UNCHANGED <<reply, peer>>

Reset(c) ==
    /\ op[c] # "none" /\ client[c] = "left"
    /\ Complete(c, FALSE)
    /\ UNCHANGED <<reply, peer, answers>>

Expire(c) ==
    /\ timer[c]
    /\ timer' = [timer EXCEPT ![c] = FALSE]
    /\ queue' = Append(queue, Completion(c, "timer", TRUE))
    /\ UNCHANGED <<secure, accepting, sock, op, reply, peer, answers>>

-----------------------------------------------------------------------------
(* What the handlers do with a connection: start an operation, with the    *)
(* timer running or not, or let go of it.                                  *)

Waiting == Tail(queue)

Queued(c) == {i \in DOMAIN Waiting : Waiting[i].conn = c}

(* An operation on a closed socket completes with an error.                *)
StartOp(c, kind) ==
    IF sock[c] = "open"
    THEN op' = [op EXCEPT ![c] = kind] /\ queue' = Waiting
    ELSE queue' = Append(Waiting, Completion(c, kind, FALSE)) /\ UNCHANGED op

\* Mutant: no timer beside the read of the content.
StartUntimed(c, kind) ==
    /\ StartOp(c, kind)
    /\ timer' = [timer EXCEPT ![c] = kind # "content"]
    /\ UNCHANGED <<secure, sock, peer, answers>>

Start(c, kind) ==
    /\ StartOp(c, kind)
    /\ timer' = [timer EXCEPT ![c] = TRUE]
    /\ UNCHANGED <<secure, sock, peer, answers>>

(* What the client has sent is lost with the socket.                       *)
Discard(c, closing) ==
    /\ wire' = [wire EXCEPT ![c] = IF closing THEN 0 ELSE @]
    /\ UNCHANGED <<client, asked>>

(* The last reference to the socket closes it, unless a timer that has     *)
(* expired still holds one.                                                *)
LetGo(c) ==
    /\ sock' = [sock EXCEPT ![c] = IF Queued(c) = {} THEN "closed" ELSE @]
    /\ timer' = [timer EXCEPT ![c] = FALSE]
    /\ queue' = Waiting
    /\ request' = [request EXCEPT ![c] = IF Queued(c) = {} THEN NoRequest ELSE @]
    /\ unread' = [unread EXCEPT ![c] = 0]
    /\ body' = [body EXCEPT ![c] = 0]
    /\ Discard(c, Queued(c) = {})
    /\ UNCHANGED <<secure, op, answers>>

read_request_and_content(c) ==
    /\ Start(c, "head")
    /\ request' = [request EXCEPT ![c] = NoRequest]
    /\ unread' = [unread EXCEPT ![c] = 0]
    /\ body' = [body EXCEPT ![c] = 0]

(* default_resource_send(): a full buffer is sent and followed by another, *)
(* the rest goes with the end of the response.                             *)
ReadLength(left) == IF left < Buffer THEN left ELSE Buffer

\* Mutant: what is left after one buffer is taken to be the rest.
PieceShort(left) == IF left > 2 * Buffer THEN "chunk" ELSE "send"

Piece(left) == IF ReadLength(left) = Buffer THEN "chunk" ELSE "send"

Read(c, left, already) ==
    /\ unread' = [unread EXCEPT ![c] = left - ReadLength(left)]
    /\ body' = [body EXCEPT ![c] = already + ReadLength(left)]
    /\ UNCHANGED request

(* The Content-Length is the size of the file when it was opened.          *)
SendFile(c, length) == Start(c, Piece(length)) /\ Read(c, length, 0)

(* default_resource["GET"]: the file is sent, or a page with no more than  *)
(* a head or a message.                                                    *)
default_resource(c) ==
    LET r == request[c] IN
    \/ r.resource = "file" /\ SendFile(c, r.size)
    \/ r.resource = "page" /\ Start(c, "send") /\ UNCHANGED reply

\* Mutant: what a handler throws is answered where it is caught, and again
\* when the response is dropped.
write_responseTwice(c) ==
    LET r == request[c] IN
    \/ r.resource = "route" /\ Start(c, "send") /\ UNCHANGED reply
    \/ /\ r.resource = "throws"
       /\ op' = [op EXCEPT ![c] = "send"]
       /\ queue' = Append(Waiting, Completion(c, "send", TRUE))
       /\ timer' = [timer EXCEPT ![c] = TRUE]
       /\ UNCHANGED <<secure, sock, peer, answers, reply>>
    \/ r.resource \in {"file", "page"} /\ default_resource(c)

(* The response is sent when the last handler that holds it is done.  What *)
(* a handler throws leaves an empty one, which is sent all the same.       *)
write_response(c) ==
    \/ request[c].resource \in {"route", "throws"} /\ Start(c, "send") /\ UNCHANGED reply
    \/ request[c].resource \in {"file", "page"} /\ default_resource(c)

(* The method may have no handler at all: the connection is dropped.       *)
find_resource(c) ==
    \/ request[c].resource = "none" /\ LetGo(c)
    \/ request[c].resource # "none" /\ write_response(c)

KeepAlive(r) == r.connection = "keep-alive" \/ (r.connection = "none" /\ r.recent)
-----------------------------------------------------------------------------
(* The completion handlers                                                 *)

Current(kind) == queue # <<>> /\ Head(queue).kind = kind

Conn == Head(queue).conn

Ok == Head(queue).ok

Handshake(c) == Start(c, "handshake") /\ UNCHANGED reply

(* accept(): the next accept is started first.                             *)
OnAccept ==
    /\ Current("accept")
    /\ accepting' = TRUE
    /\ \/ Ok /\ secure /\ Handshake(Conn)
       \/ Ok /\ ~secure /\ read_request_and_content(Conn)
       \/ /\ ~Ok
          /\ queue' = Waiting
          /\ UNCHANGED <<secure, sock, op, timer, reply, peer, answers>>

OnHandshake ==
    /\ Current("handshake")
    /\ \/ Ok /\ read_request_and_content(Conn)
       \/ ~Ok /\ LetGo(Conn)
    /\ UNCHANGED accepting

(* "GET /path HTTP/1.1"; headers that do not parse are left out.           *)
parse_request(r) == r.parses

OnHead ==
    /\ Current("head")
    /\ LET c == Conn
           r == request[c]
       IN  \/ ~Ok /\ LetGo(c)
           \/ Ok /\ (~parse_request(r) \/ r.length = "bad") /\ LetGo(c)
           \/ Ok /\ parse_request(r) /\ r.length = "body" /\ Start(c, "content") /\ UNCHANGED reply
           \/ Ok /\ parse_request(r) /\ r.length = "none" /\ find_resource(c)
    /\ UNCHANGED accepting

OnContent ==
    /\ Current("content")
    /\ \/ Ok /\ find_resource(Conn)
       \/ ~Ok /\ LetGo(Conn)
    /\ UNCHANGED accepting

(* The callback of a full buffer: the timer of the response is running     *)
(* still.  After an error the response is dropped, which sends what it has.*)
OnChunk ==
    /\ Current("chunk")
    /\ LET c == Conn IN
       \/ Ok /\ StartOp(c, Piece(unread[c])) /\ Read(c, unread[c], body[c])
       \/ ~Ok /\ StartOp(c, "send") /\ UNCHANGED reply
    /\ UNCHANGED <<secure, accepting, sock, timer, peer, answers>>

\* Mutant: the response is sent once more.
OnSendAgain ==
    /\ Current("send")
    /\ \/ Ok /\ KeepAlive(request[Conn]) /\ Start(Conn, "send") /\ UNCHANGED reply
       \/ ~(Ok /\ KeepAlive(request[Conn])) /\ LetGo(Conn)
    /\ UNCHANGED accepting

OnSend ==
    /\ Current("send")
    /\ \/ Ok /\ KeepAlive(request[Conn]) /\ read_request_and_content(Conn)
       \/ ~(Ok /\ KeepAlive(request[Conn])) /\ LetGo(Conn)
    /\ UNCHANGED accepting

\* Mutant: the socket is shut down for reading only.
OnTimerHalf ==
    /\ Current("timer")
    /\ queue' = Waiting
    /\ UNCHANGED <<secure, accepting, sock, op, timer, reply, peer, answers>>

(* get_timeout_timer(): shutdown() and close(); the pending operation      *)
(* completes with an error.                                                *)
OnTimer ==
    /\ Current("timer")
    /\ LET c == Conn
       IN  /\ sock' = [sock EXCEPT ![c] = "closed"]
           /\ op' = [op EXCEPT ![c] = "none"]
           /\ queue' = IF op[c] = "none" THEN Waiting
                       ELSE Append(Waiting, Completion(c, op[c], FALSE))
           /\ Discard(c, TRUE)
    /\ UNCHANGED <<secure, accepting, timer, reply, answers>>

Run == OnAccept \/ OnHandshake \/ OnHead \/ OnContent \/ OnChunk \/ OnSend \/ OnTimer
-----------------------------------------------------------------------------
Kernel(c) ==
    \/ Cooperates(c) \/ Written(c) \/ Reset(c)
    \/ \E r \in Requests[c], swallowed \in 0 .. MaxRequests[c] - 1 : ReadHead(c, r, swallowed)

Next ==
    \/ \E c \in Conns :
         \/ Connect(c) \/ AcceptFails(c) \/ Ask(c) \/ Leave(c)
         \/ Kernel(c) \/ Expire(c)
    \/ Run

(* The thread runs what is queued, and time passes.  Nothing is assumed of *)
(* the clients.                                                            *)
Fairness == WF_vars(Run) /\ \A c \in Conns : WF_vars(Expire(c))

Spec == Init /\ [][Next]_vars /\ Fairness

-----------------------------------------------------------------------------
Pending(c) == {i \in DOMAIN queue : queue[i].conn = c}

(* However a request ends (an error, a line that does not parse, a method  *)
(* nobody handles, a handler that throws, a timer that was cancelled too   *)
(* late), an open connection has a timer running or a completion that the  *)
(* thread will see: no client can hold a socket of the agent for ever.     *)
Guarded == \A c \in Conns : sock[c] = "open" => timer[c] \/ Pending(c) # {}

(* async_read() and async_write() of a connection never overlap: one       *)
(* operation is pending or one completion is queued, besides the timers.   *)
OneOperation ==
    \A c \in Conns :
        Cardinality({i \in Pending(c) : queue[i].kind # "timer"})
            + (IF op[c] = "none" THEN 0 ELSE 1) <= 1

(* When the end of a static file has been given to the socket, the body is *)
(* as long as the Content-Length that was announced, also for an empty     *)
(* file and for one that fills its last buffer: what follows on a          *)
(* connection that is kept alive is the next answer.                       *)
BodyComplete ==
    \A c \in Conns :
        op[c] = "send" /\ request[c].resource = "file" =>
            body[c] = request[c].size \/ client[c] = "left"

(* A client that has no more to ask, or that hangs in the middle of a      *)
(* handshake, of its request, of its body or of the answer, loses its      *)
(* connection, whatever the other clients do.                              *)
IdleConnectionClosed == \A c \in Conns : sock[c] = "open" ~> sock[c] = "closed"

-----------------------------------------------------------------------------
(* What a client sees of its connection.  The server holds it while an     *)
(* operation is pending or a completion other than a timer's has yet to be *)
(* looked at, and is done with a request once the answer is written.       *)
Held(c) == op[c] # "none" \/ \E i \in Pending(c) : queue[i].kind # "timer"

Sent(c) == \E i \in Pending(c) : queue[i].kind = "send" /\ queue[i].ok

Stage(c) ==
    CASE sock[c] = "none" -> "off"
      [] sock[c] = "closed" -> "closed"
      [] sock[c] = "open" /\ ~Held(c) -> "given up"
      [] sock[c] = "open" /\ Held(c) /\ request[c] = NoRequest -> "idle"
      [] sock[c] = "open" /\ Held(c) /\ request[c] # NoRequest ->
            IF Sent(c) THEN "done"
            ELSE IF request[c].resource = "throws" THEN "failing" ELSE "busy"

Promise == INSTANCE RequestReply WITH state <- [c \in Conns |-> Stage(c)]

(* The server implements RequestReply: the requests of a connection are    *)
(* taken and answered one by one, an answer is never sent twice or for a   *)
(* connection that is closed, and a request that was taken is answered or  *)
(* its connection is given up and closed, unless its handler throws: that  *)
(* one may be followed by the next without an answer.                      *)
ImplementsRequestReply == Promise!Spec
=============================================================================
