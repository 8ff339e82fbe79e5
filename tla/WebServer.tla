------------------------------- MODULE WebServer -------------------------------
(* One endpoint: a pool of Web::Servers waiting in AcceptEx, and the connections *)
(* they become.  A Web::Server owns its transport and keeps itself alive; the    *)
(* socket refers to it weakly, and the socket dies with it.  On a secure         *)
(* endpoint a Tls::RecordLayer stands between, and the server hears of the       *)
(* connection when the handshake is done.  Every handler runs under the lock of  *)
(* a socket and is one action.                                                   *)
EXTENDS Naturals, FiniteSets

CONSTANTS
    Connections,    \* Web::Server objects; their number bounds the open connections
    Pool,           \* listeners an endpoint starts with (20 in the service)
    Certificates,   \* does the endpoint have a certificate: the values to try
    Requests        \* what one receive may bring

\* Part of a request, a whole one asking to keep the connection, a whole one not
\* asking (alone or with bytes after it), and something that is no request.
Kinds == {"part", "keep", "close", "close_and_more", "bad"}

ASSUME ServerAssumption ==
    /\ IsFiniteSet(Connections)
    /\ Pool \in Nat
    /\ Certificates \subseteq BOOLEAN
    /\ Requests \subseteq Kinds

VARIABLES
    secure,     \* does this endpoint have a certificate?
    server,     \* Server::State of each connection, "free" if there is no object
    self,       \* the reference by which a server keeps itself alive
    socket,     \* what its socket does
    unheard,    \* history: listeners whose connection ended before it was reported
    fatal       \* a FatalError, or a null transport, has ended the process

vars == <<secure, server, self, socket, unheard, fatal>>

InProgress == {"pending_connection", "request_frame_pending"}
\* A server that is done is freed at once.
States == InProgress \cup {"free", "request_frame_failed"}
SocketStates == {"none", "listening", "reset", "open"}

\* Faulty variants, which the properties are tried against: a server that never
\* lets go of itself, an endpoint that is not called back, and a server that
\* does not hear of the end of its stream.
BecomesKept(c, s, k) ==
    /\ server' = [server EXCEPT ![c] = s]
    /\ socket' = [socket EXCEPT ![c] = k]
    /\ UNCHANGED self

HeardAlone(c, d) ==
    /\ server[d] = "free"
    /\ server' = [server EXCEPT ![c] = "request_frame_pending"]
    /\ socket' = [socket EXCEPT ![c] = "open"]
    /\ UNCHANGED self

\* Connection c goes on in state s with its socket at k.  Its server lets go of
\* itself when it leaves the in-progress states, and then the socket goes too.
Becomes(c, s, k) ==
    IF s = "done"
    THEN /\ server' = [server EXCEPT ![c] = "free"]
         /\ self' = [self EXCEPT ![c] = FALSE]
         /\ socket' = [socket EXCEPT ![c] = "none"]
    ELSE /\ server' = [server EXCEPT ![c] = s]
         /\ socket' = [socket EXCEPT ![c] = k]
         /\ UNCHANGED self

Init ==
    /\ secure \in Certificates
    /\ \E first \in SUBSET Connections :
         /\ Cardinality(first) = Pool
         /\ server = [c \in Connections |-> IF c \in first THEN "pending_connection" ELSE "free"]
         /\ self = [c \in Connections |-> c \in first]
         /\ socket = [c \in Connections |-> IF c \in first THEN "listening" ELSE "none"]
    /\ unheard = 0
    /\ fatal = FALSE

\* Accept-complete: the endpoint is called back and starts another listener, d;
\* the server expects requests.
Heard(c, d) ==
    /\ server[d] = "free"
    /\ server' = [server EXCEPT ![c] = "request_frame_pending", ![d] = "pending_connection"]
    /\ self' = [self EXCEPT ![d] = TRUE]
    /\ socket' = [socket EXCEPT ![c] = "open", ![d] = "listening"]

\* CompleteAccept without error.  Without a certificate the server hears at once.
Accept(c) ==
    /\ socket[c] = "listening"
    /\ IF secure
       THEN Becomes(c, "pending_connection", "open")
       ELSE \E d \in Connections : Heard(c, d)
    /\ UNCHANGED <<secure, unheard, fatal>>

\* CompleteAccept ignores a connection reset before it was accepted.
AcceptReset(c) ==
    /\ socket[c] = "listening"
    /\ Becomes(c, "pending_connection", "reset")
    /\ unheard' = unheard + 1
    /\ UNCHANGED <<secure, fatal>>

Shaking == {c \in Connections : server[c] = "pending_connection" /\ socket[c] = "open"}
Listening == {c \in Connections : socket[c] = "listening"}

HandshakeDone(c) ==
    /\ c \in Shaking
    /\ \E d \in Connections : Heard(c, d)
    /\ UNCHANGED <<secure, unheard, fatal>>

\* One receive of an accepted connection.  A request gets its response at once;
\* without keep-alive the transport is closed and the server is done.  Bytes it
\* left unread are a FatalError; in TLS those of the same record are dropped, and
\* a further record is answered on a transport that is null.  A bad request fails
\* the server by the base class's switch_to_state, which does not let go of it;
\* the RecordLayer then closes the transport.
Receive(c, kind) ==
    /\ server[c] \in {"request_frame_pending", "request_frame_failed"}
    /\ socket[c] = "open"
    /\ IF server[c] = "request_frame_failed"
       THEN UNCHANGED <<server, self, socket, fatal>>
       ELSE CASE kind = "bad" ->
                   /\ Becomes(c, "request_frame_failed", IF secure THEN "none" ELSE "open")
                   /\ UNCHANGED fatal
              [] kind = "close" -> Becomes(c, "done", "none") /\ UNCHANGED fatal
              [] kind = "close_and_more" ->
                   Becomes(c, "done", "none") /\ fatal' \in (IF secure THEN BOOLEAN ELSE {TRUE})
              [] kind \in {"part", "keep"} -> UNCHANGED <<server, self, socket, fatal>>
    /\ UNCHANGED <<secure, unheard>>

EndingUnheard(c) ==
    /\ socket[c] = "open"
    /\ Becomes(c, server[c], "none")
    /\ unheard' = IF c \in Shaking THEN unheard + 1 ELSE unheard
    /\ UNCHANGED <<secure, fatal>>

\* The end of the stream, or of a handshake.  A server that has failed is not
\* called any more.
Ending(c) ==
    /\ socket[c] = "open"
    /\ IF server[c] \in InProgress THEN Becomes(c, "done", "none") ELSE Becomes(c, server[c], "none")
    /\ unheard' = IF c \in Shaking THEN unheard + 1 ELSE unheard
    /\ UNCHANGED <<secure, fatal>>

Next ==
    /\ ~ fatal
    /\ \E c \in Connections :
         \/ Accept(c)
         \/ AcceptReset(c)
         \/ HandshakeDone(c)
         \/ \E kind \in Requests : Receive(c, kind)
         \/ Ending(c)

Spec == Init /\ [][Next]_vars

\* Peers close some day.
FairSpec == Spec /\ \A c \in Connections : WF_vars(~ fatal /\ Ending(c))

(* ------------------------------ properties -------------------------------- *)

TypeOK ==
    /\ secure \in BOOLEAN
    /\ server \in [Connections -> States]
    /\ self \in [Connections -> BOOLEAN]
    /\ socket \in [Connections -> SocketStates]
    /\ unheard \in Nat
    /\ fatal \in BOOLEAN

\* Each listener the endpoint started with still listens, is in a handshake, or
\* was lost with a connection that ended before the endpoint heard of it.
PoolKept == Cardinality(Listening) + Cardinality(Shaking) + unheard = Pool

\* "keep ourself alive until we decide to self-destruct": a server keeps itself
\* exactly while it is in progress.
SelfKept == \A c \in Connections : self[c] <=> server[c] \in InProgress

\* A connection gives its server back some day, unless the process has ended.
Released == \A c \in Connections :
    socket[c] = "open" ~> fatal \/ (socket[c] # "open" /\ ~ self[c])
==============================================================================
