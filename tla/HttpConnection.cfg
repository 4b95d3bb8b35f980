SPECIFICATION Spec
CONSTANTS
    Conns = {"c1", "c2"}
    NoConn = "none"
    Requests <- SomeRequests
    NoRequest = noRequest
    Buffer = 2
    MaxRequests <- Counts
INVARIANTS TypeOK Guarded OneOperation BodyComplete
\* every connection may have come to its end
CHECK_DEADLOCK FALSE
PROPERTIES IdleConnectionClosed ImplementsRequestReply
