--------------------------- MODULE WebServer_proofs ---------------------------
(* What is proved about WebServer for every pool, number of connections, kind  *)
(* of endpoint and set of requests: types, that no listener is lost unnoticed, *)
(* and that a server keeps itself while, and only while, it is in progress.    *)
EXTENDS WebServer, FiniteSetTheorems, TLAPS

USE ServerAssumption DEF States, InProgress, SocketStates, Kinds

-------------------------------------------------------------------------------
(* The inductive invariant.                                                    *)

\* The socket of a connection belongs to its server: without a server there is
\* none, and only a server that waits for its connection listens.
SocketFits ==
    \A c \in Connections :
        /\ server[c] = "free" => socket[c] = "none"
        /\ socket[c] = "listening" => server[c] = "pending_connection"

\* Every server that exists keeps itself, one that has failed too.
SelfHeld == \A c \in Connections : self[c] <=> server[c] # "free"

IInv ==
    /\ TypeOK
    /\ SocketFits
    /\ SelfHeld
    /\ PoolKept

\* The two sets that make up the pool stay finite, and their sizes are numbers.
LEMMA PoolFinite ==
    /\ IsFiniteSet(Listening) /\ Cardinality(Listening) \in Nat
    /\ IsFiniteSet(Shaking) /\ Cardinality(Shaking) \in Nat
BY FS_Subset, FS_CardinalityType DEF Listening, Shaking

\* A new socket listens, or one no longer does; the same of handshakes.
LEMMA OneMore ==
    ASSUME NEW S, IsFiniteSet(S), NEW x, x \notin S
    PROVE  Cardinality(S \cup {x}) = Cardinality(S) + 1
BY FS_AddElement

LEMMA OneLess ==
    ASSUME NEW S, IsFiniteSet(S), NEW x \in S
    PROVE  /\ IsFiniteSet(S \ {x})
           /\ Cardinality(S \ {x}) = Cardinality(S) - 1
BY FS_RemoveElement

-------------------------------------------------------------------------------
(* Steps.                                                                      *)

\* Cardinality(first) = Pool is what Init says of the listeners.
LEMMA InductiveStart == Init => IInv
<1> SUFFICES ASSUME Init PROVE IInv
  OBVIOUS
<1>1. PICK first \in SUBSET Connections :
        /\ Cardinality(first) = Pool
        /\ server = [c \in Connections |-> IF c \in first THEN "pending_connection" ELSE "free"]
        /\ self = [c \in Connections |-> c \in first]
        /\ socket = [c \in Connections |-> IF c \in first THEN "listening" ELSE "none"]
  BY DEF Init
<1>2. TypeOK /\ SocketFits /\ SelfHeld
  <2>1. self \in [Connections -> BOOLEAN]
    <3>1. \A c \in Connections : (c \in first) \in BOOLEAN
      OBVIOUS
    <3> QED BY <1>1, <3>1, Zenon
  <2>2. \A c \in Connections : self[c] <=> c \in first
    BY <1>1, Zenon
  <2>3. secure \in BOOLEAN /\ unheard \in Nat /\ fatal \in BOOLEAN
    BY DEF Init
  <2>4. server \in [Connections -> States] /\ socket \in [Connections -> SocketStates]
    BY <1>1
  <2>5. SocketFits
    BY <1>1 DEF SocketFits
  <2>6. \A c \in Connections : server[c] # "free" <=> c \in first
    BY <1>1
  <2>7. SelfHeld
    BY <2>2, <2>6 DEF SelfHeld
  <2> QED BY <2>1, <2>3, <2>4, <2>5, <2>7 DEF TypeOK
<1>3. Listening = first /\ Shaking = {}
  BY <1>1 DEF Listening, Shaking
<1>4. PoolKept
  BY <1>1, <1>3, FS_EmptySet DEF PoolKept, Init
<1> QED BY <1>2, <1>4 DEF IInv

\* The endpoint is called back: its place in the pool passes from c to d.
LEMMA HeardFits ==
    ASSUME IInv, NEW c \in Connections, NEW d \in Connections, Heard(c, d),
           server[c] = "pending_connection", UNCHANGED <<secure, unheard, fatal>>
    PROVE  /\ c # d
           /\ TypeOK' /\ SocketFits' /\ SelfHeld'
<1>1. c # d
  BY DEF Heard
<1>2. TypeOK'
  BY <1>1 DEF IInv, TypeOK, Heard
<1>3. SocketFits' /\ SelfHeld'
  BY <1>1 DEF IInv, TypeOK, SocketFits, SelfHeld, Heard
<1> QED BY <1>1, <1>2, <1>3

LEMMA AcceptStep ==
    ASSUME IInv, NEW c \in Connections, Accept(c)
    PROVE  IInv'
<1>1. c \in Listening /\ c \notin Shaking /\ server[c] = "pending_connection"
  BY DEF Accept, IInv, SocketFits, Listening, Shaking
<1>2. CASE secure
  <2>1. /\ server' = [server EXCEPT ![c] = "pending_connection"]
        /\ socket' = [socket EXCEPT ![c] = "open"]
        /\ UNCHANGED <<self, secure, unheard, fatal>>
    BY <1>2 DEF Accept, Becomes
  <2>2. TypeOK' /\ SocketFits' /\ SelfHeld'
    BY <1>1, <2>1 DEF IInv, TypeOK, SocketFits, SelfHeld
  <2>3. Listening' = Listening \ {c} /\ Shaking' = Shaking \cup {c}
    BY <1>1, <2>1 DEF IInv, TypeOK, Listening, Shaking
  <2>4. PoolKept'
    <3>1. Cardinality(Listening') = Cardinality(Listening) - 1
      BY <1>1, <2>3, PoolFinite, OneLess
    <3>2. Cardinality(Shaking') = Cardinality(Shaking) + 1
      BY <1>1, <2>3, PoolFinite, OneMore
    <3> QED BY <2>1, <3>1, <3>2, PoolFinite DEF IInv, TypeOK, PoolKept
  <2> QED BY <2>2, <2>4 DEF IInv
<1>3. CASE ~ secure
  <2>1. PICK d \in Connections : Heard(c, d)
    BY <1>3 DEF Accept
  <2>2. UNCHANGED <<secure, unheard, fatal>>
    BY DEF Accept
  <2>3. c # d /\ TypeOK' /\ SocketFits' /\ SelfHeld'
    BY <1>1, <2>1, <2>2, HeardFits
  <2>4. d \notin Listening
    BY <2>1 DEF Heard, IInv, SocketFits, Listening
  <2>5. Listening' = (Listening \ {c}) \cup {d} /\ Shaking' = Shaking
    BY <1>1, <2>1, <2>3 DEF Heard, IInv, TypeOK, SocketFits, Listening, Shaking
  <2>6. PoolKept'
    <3>1. Cardinality(Listening \ {c}) = Cardinality(Listening) - 1
          /\ IsFiniteSet(Listening \ {c})
      BY <1>1, PoolFinite, OneLess
    <3>2. Cardinality(Listening') = Cardinality(Listening \ {c}) + 1
      BY <3>1, <2>4, <2>5, OneMore
    <3> QED BY <3>1, <3>2, <2>2, <2>5, PoolFinite DEF IInv, TypeOK, PoolKept
  <2> QED BY <2>3, <2>6 DEF IInv
<1> QED BY <1>2, <1>3

LEMMA AcceptResetStep ==
    ASSUME IInv, NEW c \in Connections, AcceptReset(c)
    PROVE  IInv'
<1>1. c \in Listening /\ server[c] = "pending_connection"
  BY DEF AcceptReset, IInv, SocketFits, Listening
<1>2. /\ server' = [server EXCEPT ![c] = "pending_connection"]
      /\ socket' = [socket EXCEPT ![c] = "reset"]
      /\ unheard' = unheard + 1
      /\ UNCHANGED <<self, secure, fatal>>
  BY DEF AcceptReset, Becomes
<1>3. TypeOK' /\ SocketFits' /\ SelfHeld'
  BY <1>1, <1>2 DEF IInv, TypeOK, SocketFits, SelfHeld
<1>4. Listening' = Listening \ {c} /\ Shaking' = Shaking
  BY <1>1, <1>2 DEF IInv, TypeOK, Listening, Shaking
<1>5. PoolKept'
  <2>1. Cardinality(Listening') = Cardinality(Listening) - 1
    BY <1>1, <1>4, PoolFinite, OneLess
  <2> QED BY <1>2, <1>4, <2>1, PoolFinite DEF IInv, TypeOK, PoolKept
<1> QED BY <1>3, <1>5 DEF IInv

LEMMA HandshakeDoneStep ==
    ASSUME IInv, NEW c \in Connections, HandshakeDone(c)
    PROVE  IInv'
<1>1. c \in Shaking /\ server[c] = "pending_connection" /\ socket[c] = "open"
  BY DEF HandshakeDone, Shaking
<1>2. PICK d \in Connections : Heard(c, d)
  BY DEF HandshakeDone
<1>3. UNCHANGED <<secure, unheard, fatal>>
  BY DEF HandshakeDone
<1>4. c # d /\ TypeOK' /\ SocketFits' /\ SelfHeld'
  BY <1>1, <1>2, <1>3, HeardFits
<1>5. d \notin Listening
  BY <1>2 DEF Heard, IInv, SocketFits, Listening
<1>6. Listening' = Listening \cup {d} /\ Shaking' = Shaking \ {c}
  BY <1>1, <1>2, <1>4 DEF Heard, IInv, TypeOK, SocketFits, Listening, Shaking
<1>7. PoolKept'
  <2>1. Cardinality(Listening') = Cardinality(Listening) + 1
    BY <1>5, <1>6, PoolFinite, OneMore
  <2>2. Cardinality(Shaking') = Cardinality(Shaking) - 1
    BY <1>1, <1>6, PoolFinite, OneLess
  <2> QED BY <1>3, <2>1, <2>2, PoolFinite DEF IInv, TypeOK, PoolKept
<1> QED BY <1>4, <1>7 DEF IInv

\* What a server does once its connection was reported is no matter of the pool.
LEMMA ReceiveStep ==
    ASSUME IInv, NEW c \in Connections, NEW kind \in Requests, Receive(c, kind)
    PROVE  IInv'
<1>1. /\ server[c] \in {"request_frame_pending", "request_frame_failed"}
      /\ socket[c] = "open" /\ self[c]
  BY DEF Receive, IInv, SelfHeld
<1>2. fatal' \in BOOLEAN /\ UNCHANGED <<secure, unheard>>
  BY DEF Receive, Becomes, IInv, TypeOK
<1>3. \/ UNCHANGED <<server, self, socket>>
      \/ /\ server' = [server EXCEPT ![c] = "request_frame_failed"]
         /\ \E k \in {"none", "open"} : socket' = [socket EXCEPT ![c] = k]
         /\ UNCHANGED self
      \/ /\ server' = [server EXCEPT ![c] = "free"]
         /\ self' = [self EXCEPT ![c] = FALSE]
         /\ socket' = [socket EXCEPT ![c] = "none"]
  BY DEF Receive, Becomes
<1>4. TypeOK' /\ SocketFits' /\ SelfHeld'
  <2>1. \A d \in Connections : d # c => /\ server'[d] = server[d] /\ self'[d] = self[d]
                                       /\ socket'[d] = socket[d]
    BY <1>3 DEF IInv, TypeOK
  <2>2. TypeOK'
    BY <1>1, <1>2, <1>3 DEF IInv, TypeOK
  <2>3. /\ server'[c] = "free" => socket'[c] = "none"
        /\ socket'[c] # "listening"
        /\ self'[c] <=> server'[c] # "free"
    BY <1>1, <1>3 DEF IInv, TypeOK, SelfHeld
  <2>4. SocketFits'
    BY <2>1, <2>3 DEF IInv, SocketFits
  <2>5. SelfHeld'
    BY <2>1, <2>3 DEF IInv, SelfHeld
  <2> QED BY <2>2, <2>4, <2>5
<1>5. Listening' = Listening /\ Shaking' = Shaking
  BY <1>1, <1>3 DEF IInv, TypeOK, Listening, Shaking
<1>6. PoolKept'
  BY <1>2, <1>5 DEF IInv, PoolKept
<1> QED BY <1>4, <1>6 DEF IInv

LEMMA EndingStep ==
    ASSUME IInv, NEW c \in Connections, Ending(c)
    PROVE  IInv'
<1>1. socket[c] = "open" /\ server[c] # "free" /\ c \notin Listening
  BY DEF Ending, IInv, SocketFits, Listening
<1>2. /\ \/ /\ server' = [server EXCEPT ![c] = "free"]
            /\ self' = [self EXCEPT ![c] = FALSE]
         \/ /\ server[c] = "request_frame_failed"
            /\ server' = [server EXCEPT ![c] = server[c]]
            /\ UNCHANGED self
      /\ socket' = [socket EXCEPT ![c] = "none"]
      /\ UNCHANGED <<secure, fatal>>
  BY <1>1 DEF Ending, Becomes, IInv, TypeOK
<1>3. unheard' \in Nat
  BY DEF Ending, IInv, TypeOK
<1>4. TypeOK' /\ SocketFits' /\ SelfHeld'
  <2>1. \A d \in Connections : d # c => /\ server'[d] = server[d] /\ self'[d] = self[d]
                                       /\ socket'[d] = socket[d]
    BY <1>2 DEF IInv, TypeOK
  <2>2. TypeOK'
    BY <1>1, <1>2, <1>3 DEF IInv, TypeOK
  <2>3. /\ server'[c] = "free" => socket'[c] = "none"
        /\ socket'[c] # "listening"
        /\ self'[c] <=> server'[c] # "free"
    BY <1>1, <1>2 DEF IInv, TypeOK, SelfHeld
  <2>4. SocketFits'
    BY <2>1, <2>3 DEF IInv, SocketFits
  <2>5. SelfHeld'
    BY <2>1, <2>3 DEF IInv, SelfHeld
  <2> QED BY <2>2, <2>4, <2>5
<1>5. Listening' = Listening
  BY <1>1, <1>2 DEF IInv, TypeOK, Listening
<1>6. Shaking' = Shaking \ {c}
  BY <1>1, <1>2 DEF IInv, TypeOK, Shaking
<1>7. CASE c \in Shaking
  <2>1. unheard' = unheard + 1
    BY <1>7 DEF Ending
  <2>2. Cardinality(Shaking') = Cardinality(Shaking) - 1
    BY <1>6, <1>7, PoolFinite, OneLess
  <2>3. PoolKept'
    BY <1>5, <2>1, <2>2, PoolFinite DEF IInv, TypeOK, PoolKept
  <2> QED BY <1>4, <2>3 DEF IInv
<1>8. CASE c \notin Shaking
  <2>1. unheard' = unheard /\ Shaking' = Shaking
    BY <1>6, <1>8 DEF Ending
  <2> QED BY <1>4, <1>5, <2>1 DEF IInv, PoolKept
<1> QED BY <1>7, <1>8

LEMMA InductiveStep == IInv /\ [Next]_vars => IInv'
<1> SUFFICES ASSUME IInv, [Next]_vars PROVE IInv'
  OBVIOUS
<1>1. CASE UNCHANGED vars
  <2>1. UNCHANGED <<secure, server, self, socket, unheard, fatal>>
    BY <1>1 DEF vars
  <2> QED
    BY <2>1 DEF IInv, TypeOK, SocketFits, SelfHeld, PoolKept, Listening, Shaking
<1>2. ASSUME NEW c \in Connections, Accept(c) PROVE IInv'
  BY <1>2, AcceptStep
<1>3. ASSUME NEW c \in Connections, AcceptReset(c) PROVE IInv'
  BY <1>3, AcceptResetStep
<1>4. ASSUME NEW c \in Connections, HandshakeDone(c) PROVE IInv'
  BY <1>4, HandshakeDoneStep
<1>5. ASSUME NEW c \in Connections, NEW kind \in Requests, Receive(c, kind) PROVE IInv'
  BY <1>5, ReceiveStep
<1>6. ASSUME NEW c \in Connections, Ending(c) PROVE IInv'
  BY <1>6, EndingStep
<1> QED BY <1>1, <1>2, <1>3, <1>4, <1>5, <1>6 DEF Next

-------------------------------------------------------------------------------
(* The results.                                                                *)

\* IInv holds in every reachable state.
THEOREM Invariance == Spec => []IInv
BY InductiveStart, InductiveStep, PTL DEF Spec

\* Every variable keeps its type.
THEOREM TypeCorrect == Spec => []TypeOK
<1>1. IInv => TypeOK
  BY DEF IInv
<1> QED BY <1>1, Invariance, PTL

\* No listener is lost unnoticed: the endpoint calls for the next one exactly when
\* a connection is reported (Endpoint::process_event), on plain and secure endpoints.
THEOREM PoolAccounted == Spec => []PoolKept
<1>1. IInv => PoolKept
  BY DEF IInv
<1> QED BY <1>1, Invariance, PTL

\* The reference of a server to itself is there as long as it is in progress, so
\* no socket calls back into a server that is gone, whatever its peers send.
KeptInProgress == \A c \in Connections : server[c] \in InProgress => self[c]

\* A server in progress is never without its reference to itself (Server::start).
THEOREM NeverDropped == Spec => []KeptInProgress
<1>1. IInv => KeptInProgress
  BY DEF IInv, SelfHeld, KeptInProgress
<1> QED BY <1>1, Invariance, PTL

\* When every request parses, no server fails,
NoneFailed == \A c \in Connections : server[c] # "request_frame_failed"

LEMMA NoneFails ==
    ASSUME "bad" \notin Requests
    PROVE  Spec => []NoneFailed
<1>1. Init => NoneFailed
  BY DEF Init, NoneFailed
<1>2. TypeOK /\ NoneFailed /\ [Next]_vars => NoneFailed'
  <2> SUFFICES ASSUME TypeOK, NoneFailed, [Next]_vars PROVE NoneFailed'
    OBVIOUS
  <2>1. ASSUME NEW c \in Connections, Accept(c) \/ AcceptReset(c) PROVE NoneFailed'
    BY <2>1 DEF TypeOK, NoneFailed, Accept, AcceptReset, Heard, Becomes
  <2>2. ASSUME NEW c \in Connections, HandshakeDone(c) PROVE NoneFailed'
    BY <2>2 DEF TypeOK, NoneFailed, HandshakeDone, Heard, Becomes
  <2>3. ASSUME NEW c \in Connections, NEW kind \in Requests, Receive(c, kind) PROVE NoneFailed'
    BY <2>3 DEF TypeOK, NoneFailed, Receive, Becomes
  <2>4. ASSUME NEW c \in Connections, Ending(c) PROVE NoneFailed'
    BY <2>4 DEF TypeOK, NoneFailed, Ending, Becomes
  <2>5. CASE UNCHANGED vars
    BY <2>5 DEF NoneFailed, vars
  <2> QED BY <2>1, <2>2, <2>3, <2>4, <2>5 DEF Next
<1> QED BY <1>1, <1>2, TypeCorrect, PTL DEF Spec

\* and then a server keeps itself exactly while it is in progress: none is leaked
\* (Server::switch_to_state). With bad requests the run web_server_malformed shows
\* that it is.
THEOREM SelfReleased ==
    ASSUME "bad" \notin Requests
    PROVE  Spec => []SelfKept
<1>1. IInv /\ NoneFailed => SelfKept
  BY DEF IInv, SelfHeld, TypeOK, NoneFailed, SelfKept
<1> QED BY <1>1, Invariance, NoneFails, PTL
===============================================================================
