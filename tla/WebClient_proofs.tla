--------------------------- MODULE WebClient_proofs ---------------------------
(* What is proved about WebClient for all values of its constants: types, the *)
(* bookkeeping of jobs, plans and completions, the bound on the requests of a *)
(* Get, and that the client implements the safety part of HttpGet.  Then the  *)
(* sockets under it: that a request goes to the server it is for, that the    *)
(* client never waits for nothing, and that a single worker with peers that   *)
(* keep to their turn never meets a FatalError.                               *)
EXTENDS WebClient, TLAPS

USE ClientAssumption DEF States, FrameStates

-------------------------------------------------------------------------------
(* The two counters of a plan, and what they allow to have been sent.         *)

PlanOK(p) ==
    /\ p \in Plans
    /\ p.retries <= max_retries
    /\ p.redirects <= MaxRedirects

Spent(p) == p.redirects * (max_retries + 1) + p.retries

\* One more request may be under way, or may have ended the Get: only a plan that
\* already counts its next request leaves no room.
Credit ==
    IF \/ state \in {"get_pending", "connection_pending"}
       \/ /\ state \in {"response_pending", "response_complete"}
          /\ frame # "start"
          /\ plan.request # NoRequest
    THEN 0 ELSE 1

\* A completion is owed exactly while a Get is under way.
OneCompletion == owed = IF state = "inactive" THEN 0 ELSE 1

\* The inductive invariant.  The response states need a request sent by this Get
\* (only then may headers be reported), and a complete response has left the
\* frame's first state.
IInv ==
    /\ TypeOK
    /\ OneJob
    /\ OneCompletion
    /\ NothingNull
    /\ PlanOK(plan)
    /\ sent <= Spent(plan) + Credit
    /\ state \in {"response_pending", "response_complete"} => sent > 0
    /\ state = "response_complete" => frame = "done"

\* p leads to q: nothing is forgotten, and a request in q was paid for.
Leads(p, q) ==
    /\ PlanOK(q)
    /\ Spent(q) >= Spent(p)
    /\ q.request # NoRequest => Spent(q) >= Spent(p) + 1

LEMMA SpentType ==
    ASSUME NEW p, PlanOK(p), max_retries \in Nat
    PROVE  Spent(p) \in Nat
BY DEF PlanOK, Plans, Spent

\* The retry budget of one redirect, spent on the next redirect instead.
LEMMA NextRow ==
    ASSUME NEW r \in Nat, NEW m \in Nat, NEW k \in Nat, k <= m
    PROVE  (r + 1) * (m + 1) >= r * (m + 1) + k + 1
<1>1. (r + 1) * (m + 1) = r * (m + 1) + (m + 1)
  BY SMT
<1>2. r * (m + 1) \in Nat
  BY SMT
<1> QED BY <1>1, <1>2

LEMMA RowBound ==
    ASSUME NEW r \in Nat, NEW R \in Nat, r <= R, NEW m \in Nat
    PROVE  r * (m + 1) <= R * (m + 1)
BY SMT

\* Client::Retry either gives up or has a retry to count.
LEMMA RetriedLeads ==
    ASSUME NEW p, PlanOK(p), NEW request \in Requests, max_retries \in Nat
    PROVE  /\ Leads(p, Retried(p, request))
           /\ Retried(p, request).request \in {request, NoRequest}
<1> DEFINE q == Retried(p, request)
<1>1. CASE p.retries = max_retries
  <2>1. /\ q \in Plans
        /\ q.request = NoRequest
        /\ q.retries = p.retries
        /\ q.redirects = p.redirects
    BY <1>1 DEF Retried, PlanOK, Plans, Requests
  <2>2. Spent(q) = Spent(p)
    BY <2>1 DEF Spent
  <2>3. Spent(p) \in Nat
    BY SpentType
  <2> QED BY <2>1, <2>2, <2>3 DEF Leads, PlanOK
<1>2. CASE p.retries # max_retries
  <2>1. /\ q \in Plans
        /\ q.request = request
        /\ q.retries = p.retries + 1
        /\ q.redirects = p.redirects
    BY <1>2 DEF Retried, PlanOK, Plans, Requests
  <2>2. p.redirects * (max_retries + 1) \in Nat
    BY DEF PlanOK, Plans
  <2>3. Spent(q) = Spent(p) + 1
    BY <2>1, <2>2 DEF Spent, PlanOK, Plans
  <2>4. Spent(p) \in Nat
    BY SpentType
  <2> QED BY <1>2, <2>1, <2>3, <2>4 DEF Leads, PlanOK, Plans
<1> QED BY <1>1, <1>2

\* Client::Redirect clears the retries but pays with a redirect.
LEMMA RedirectedLeads ==
    ASSUME NEW p, PlanOK(p), NEW url \in Urls, max_retries \in Nat
    PROVE  Leads(p, Redirected(p, url))
<1> DEFINE q == Redirected(p, url)
<1>1. CASE p.redirects = MaxRedirects
  <2>1. /\ q \in Plans
        /\ q.request = NoRequest
        /\ q.retries = p.retries
        /\ q.redirects = p.redirects
    BY <1>1 DEF Redirected, PlanOK, Plans, Requests
  <2>2. Spent(q) = Spent(p)
    BY <2>1 DEF Spent
  <2>3. Spent(p) \in Nat
    BY SpentType
  <2> QED BY <2>1, <2>2, <2>3 DEF Leads, PlanOK
<1>2. CASE p.redirects # MaxRedirects
  <2>1. /\ q \in Plans
        /\ q.retries = 0
        /\ q.redirects = p.redirects + 1
    BY <1>2 DEF Redirected, PlanOK, Plans, Requests
  <2>2. (p.redirects + 1) * (max_retries + 1) >= p.redirects * (max_retries + 1) + p.retries + 1
    BY NextRow DEF PlanOK, Plans
  <2>3. Spent(q) >= Spent(p) + 1
    <3>1. (p.redirects + 1) * (max_retries + 1) \in Nat
      BY DEF PlanOK, Plans
    <3>2. Spent(q) = (p.redirects + 1) * (max_retries + 1)
      BY <2>1, <3>1 DEF Spent
    <3>3. Spent(p) + 1 = p.redirects * (max_retries + 1) + p.retries + 1
      BY DEF Spent
    <3> QED BY <2>2, <3>2, <3>3
  <2>4. Spent(p) \in Nat /\ Spent(q) \in Nat
    <3>1. PlanOK(q)
      BY <1>2, <2>1 DEF PlanOK, Plans
    <3> QED BY <3>1, SpentType
  <2> QED BY <1>2, <2>1, <2>3, <2>4 DEF Leads, PlanOK, Plans
<1> QED BY <1>1, <1>2

\* Every kind of headers leads on from a cleared plan.
LEMMA PlannedLeads ==
    ASSUME NEW p, PlanOK(p), p.request = NoRequest, transaction \in Requests,
           NEW h \in Headers \cup {NoHeaders}, max_retries \in Nat
    PROVE  Leads(p, Planned(p, h))
<1>1. CASE h.kind = "redirect"
  <2>1. h.url \in Urls
    BY <1>1 DEF Headers, NoHeaders
  <2> QED BY <1>1, <2>1, RedirectedLeads DEF Planned
<1>2. CASE h.kind = "unavailable"
  BY <1>2, RetriedLeads DEF Planned
<1>3. CASE h.kind \notin {"redirect", "unavailable"}
  BY <1>3, SpentType DEF Planned, Leads
<1> QED BY <1>1, <1>2, <1>3

\* What the counters allow stays below the Budget of the Get.
LEMMA WithinBudget ==
    ASSUME NEW p, PlanOK(p), max_retries \in Nat
    PROVE  Spent(p) + 1 <= Budget(max_retries)
<1>1. p.redirects * (max_retries + 1) <= MaxRedirects * (max_retries + 1)
  BY RowBound DEF PlanOK, Plans
<1>2. Budget(max_retries) = MaxRedirects * (max_retries + 1) + (max_retries + 1)
  BY SMT DEF Budget
<1>3. p.redirects * (max_retries + 1) \in Nat /\ MaxRedirects * (max_retries + 1) \in Nat
  BY SMT DEF PlanOK, Plans
<1> QED BY <1>1, <1>2, <1>3 DEF Spent, PlanOK, Plans

-------------------------------------------------------------------------------
(* Types of the socket operators.                                             *)

LEMMA SocketTypes ==
    ASSUME NEW c \in SocketRecords
    PROVE  /\ Free \in SocketRecords
           /\ \A url \in Urls : /\ Created(url) \in SocketRecords
                                /\ StartConnect(Created(url)) \in SocketRecords
           /\ Write(c) \in SocketRecords
           /\ WriteEof(c) \in SocketRecords
           /\ Disconnect(c) \in SocketRecords
           /\ Connected(c) \in SocketRecords
           /\ Restarted(c) \in SocketRecords
           /\ \A more \in BOOLEAN : AfterRead(c, more) \in SocketRecords
<1> USE DEF SocketRecords, SocketStates, JobTypes, Requests
<1>1. Free \in SocketRecords
  BY DEF Free
<1>2. ASSUME NEW url \in Urls
      PROVE  Created(url) \in SocketRecords /\ StartConnect(Created(url)) \in SocketRecords
  BY <1>1 DEF Created, StartConnect
<1>3. Write(c) \in SocketRecords
  BY DEF Write
<1>4. WriteEof(c) \in SocketRecords /\ Disconnect(c) \in SocketRecords
  BY DEF WriteEof, Disconnect
<1>5. Connected(c) \in SocketRecords
  BY DEF Connected
<1>6. ASSUME NEW d \in SocketRecords
      PROVE  Restarted(d) \in SocketRecords
  BY DEF Restarted
<1>7. ASSUME NEW more \in BOOLEAN
      PROVE  AfterRead(c, more) \in SocketRecords
  <2>1. [c EXCEPT !.owes = @ /\ more] \in SocketRecords
    OBVIOUS
  <2> QED BY <2>1, <1>6 DEF AfterRead
<1> QED BY <1>1, <1>2, <1>3, <1>4, <1>5, <1>6, <1>7

LEMMA NetworkType ==
    ASSUME NEW f \in [Sockets -> SocketRecords], NetworkBecomes(f)
    PROVE  sockets' \in [Sockets -> SocketRecords]
BY DEF NetworkBecomes, Free, SocketRecords, SocketStates, Requests

-------------------------------------------------------------------------------
(* Steps.                                                                     *)

\* What QueuePlanned re-establishes, given a plan the counters allow.
LEMMA QueuePlannedStep ==
    ASSUME IInv, state # "inactive",
           NEW p, PlanOK(p), sent <= Spent(p) + 1, p.request # NoRequest => sent <= Spent(p),
           QueuePlanned(p, 0),
           UNCHANGED <<max_retries, sent>>
    PROVE  /\ state' \in {"get_pending", "inactive"}
           /\ plan' \in Plans /\ jobs' \in Nat /\ owed' \in Nat
           /\ OneJob' /\ OneCompletion' /\ NothingNull' /\ PlanOK(plan)'
           /\ (sent <= Spent(plan) + Credit)'
<1>1. owed = 1 /\ max_retries \in Nat
  BY DEF IInv, OneCompletion, TypeOK
<1>2. plan' = p /\ PlanOK(plan)' /\ Spent(plan)' = Spent(p) /\ sent' = sent
  BY DEF QueuePlanned, PlanOK, Spent
<1>3. CASE p.request # NoRequest
  <2>1. state' = "get_pending" /\ jobs' = 1 /\ owed' = 1
    BY <1>1, <1>3 DEF QueuePlanned
  <2>2. Credit' = 0
    BY <2>1 DEF Credit
  <2>3. sent \in Nat /\ Spent(p) \in Nat
    BY <1>1, SpentType DEF IInv, TypeOK
  <2> QED
    BY <1>2, <1>3, <2>1, <2>2, <2>3 DEF OneJob, OneCompletion, NothingNull, PlanOK
<1>4. CASE p.request = NoRequest
  <2>1. state' = "inactive" /\ jobs' = 0 /\ owed' = 0
    BY <1>1, <1>4 DEF QueuePlanned, Completion
  <2>2. Credit' = 1
    BY <2>1 DEF Credit
  <2> QED
    BY <1>2, <1>4, <2>1, <2>2 DEF OneJob, OneCompletion, NothingNull, PlanOK
<1> QED BY <1>3, <1>4

\* Writing a request uses the credit that get_pending and connection_pending lack.
LEMMA SendRequestStep ==
    ASSUME IInv, state \in {"get_pending", "connection_pending"}, transport \in Sockets,
           NEW f \in [Sockets -> SocketRecords], SendRequest(f),
           jobs' = 0, UNCHANGED <<plan, max_retries, transport, owed>>
    PROVE  /\ state' = "response_pending"
           /\ transaction' \in Requests /\ frame' \in FrameStates
           /\ sent' \in Nat /\ told' \in BOOLEAN
           /\ sockets' \in [Sockets -> SocketRecords]
           /\ OneJob' /\ OneCompletion' /\ NothingNull' /\ PlanOK(plan)'
           /\ (sent <= Spent(plan) + Credit)'
           /\ sent' > 0
<1>1. /\ state' = "response_pending" /\ transaction' = plan.request
      /\ frame' = "start" /\ sent' = sent + 1 /\ told' = FALSE
  BY DEF SendRequest
<1>2. sent \in Nat /\ plan \in Plans /\ max_retries \in Nat
  BY DEF IInv, TypeOK
<1>3. [f EXCEPT ![transport] = Write(@)] \in [Sockets -> SocketRecords]
  BY SocketTypes
<1>4. sockets' \in [Sockets -> SocketRecords]
  BY <1>3, NetworkType DEF SendRequest
<1>5. Credit = 0 /\ Credit' = 1
  BY <1>1 DEF Credit
<1>6. Spent(plan) \in Nat /\ Spent(plan)' = Spent(plan)
  BY <1>2, SpentType DEF IInv, Spent
<1>7. (sent <= Spent(plan) + Credit)'
  BY <1>1, <1>2, <1>5, <1>6 DEF IInv
<1>8. OneJob' /\ OneCompletion' /\ NothingNull'
  BY <1>1 DEF OneJob, OneCompletion, NothingNull, IInv, TypeOK
<1>9. PlanOK(plan)'
  BY DEF IInv, PlanOK
<1>10. plan.request \in Requests
  BY <1>2 DEF Plans
<1>11. sent' \in Nat /\ sent' > 0
  BY <1>1, <1>2
<1> QED BY <1>1, <1>4, <1>7, <1>8, <1>9, <1>10, <1>11

\* A client that has done nothing satisfies the invariant (Client::Client).
THEOREM InductiveStart == Init => IInv
<1> SUFFICES ASSUME Init PROVE IInv
  OBVIOUS
<1>1. TypeOK
  BY DEF Init, TypeOK, Plans, Requests, Free, SocketRecords, SocketStates, Idle, Hands
<1>2. PlanOK(plan) /\ sent <= Spent(plan) + Credit
  BY <1>1 DEF Init, PlanOK, Spent, Credit, TypeOK
<1> QED BY <1>1, <1>2 DEF Init, IInv, OneJob, OneCompletion, NothingNull, Idle

LEMMA GetStep ==
    ASSUME IInv, NEW url \in Urls, NEW limit \in RetryLimits, Get(url, limit)
    PROVE  IInv'
<1>1. /\ plan' = [request |-> url, retries |-> 0, redirects |-> 0]
      /\ max_retries' = limit /\ limit \in Nat /\ state' = "get_pending"
      /\ sent' = 0 /\ told' = FALSE /\ jobs' = 1 /\ owed' = 1
  BY DEF Get, IInv, OneJob, OneCompletion
<1>2. TypeOK'
  <2>1. plan' \in Plans
    BY <1>1 DEF Plans, Requests
  <2>2. UNCHANGED <<transaction, transport, frame, sockets, hand, fatal>>
    BY DEF Get
  <2> QED BY <1>1, <2>1, <2>2 DEF IInv, TypeOK
<1>3. PlanOK(plan)'
  BY <1>1 DEF PlanOK, Plans, Requests
<1>4. (sent <= Spent(plan) + Credit)'
  BY <1>1 DEF Spent, Credit
<1>5. OneJob' /\ OneCompletion' /\ NothingNull'
  BY <1>1 DEF OneJob, OneCompletion, NothingNull
<1> QED BY <1>1, <1>2, <1>3, <1>4, <1>5 DEF IInv, Get

\* The steps of IInv that only move sockets and hands.
LEMMA QuietStep ==
    ASSUME IInv, UNCHANGED <<client, transport>>, fatal' \in BOOLEAN,
           sockets' \in [Sockets -> SocketRecords], hand' \in [Workers -> Hands]
    PROVE  IInv'
<1>1. UNCHANGED <<state, plan, max_retries, transaction, frame, jobs, sent, told, owed, transport>>
  BY DEF client
<1>2. TypeOK'
  BY <1>1 DEF IInv, TypeOK
<1>3. Spent(plan)' = Spent(plan) /\ Credit' = Credit /\ PlanOK(plan)' = PlanOK(plan)
  BY <1>1 DEF Spent, Credit, PlanOK
<1> QED BY <1>1, <1>2, <1>3 DEF IInv, OneJob, OneCompletion, NothingNull

LEMMA LeaveType ==
    ASSUME IInv, NEW w \in Workers, Leave(w)
    PROVE  hand' \in [Workers -> Hands]
BY DEF Leave, Idle, Hands, IInv, TypeOK

LEMMA GetRefusedStep ==
    ASSUME IInv, GetRefused
    PROVE  IInv'
<1>1. /\ state' = "inactive" /\ jobs' = 0 /\ owed' = 0
      /\ UNCHANGED <<plan, max_retries, transaction, transport, frame, sockets, hand,
                     sent, told, fatal>>
  BY DEF GetRefused, Completion, IInv, OneJob, OneCompletion
<1>2. TypeOK'
  BY <1>1 DEF IInv, TypeOK
<1>3. Spent(plan)' = Spent(plan) /\ Credit = 0 /\ Credit' = 1 /\ PlanOK(plan)' = PlanOK(plan)
  BY <1>1 DEF Spent, Credit, PlanOK, GetRefused
<1>4. Spent(plan) \in Nat /\ sent \in Nat
  BY SpentType DEF IInv, TypeOK
<1>5. (sent <= Spent(plan) + Credit)'
  BY <1>1, <1>3, <1>4 DEF IInv
<1> QED BY <1>1, <1>2, <1>3, <1>5 DEF IInv, OneJob, OneCompletion, NothingNull

LEMMA GetOnOpenTransportStep ==
    ASSUME IInv, GetOnOpenTransport
    PROVE  IInv'
<1>1. /\ state = "get_pending" /\ jobs' = 0 /\ transport \in Sockets
      /\ SendRequest(sockets)
      /\ UNCHANGED <<transport, hand, plan, max_retries, owed, fatal>>
  BY DEF GetOnOpenTransport, is_transport_reusable, IInv, OneJob, TypeOK
<1>2. sockets \in [Sockets -> SocketRecords]
  BY DEF IInv, TypeOK
<1>3. /\ state' = "response_pending"
      /\ transaction' \in Requests /\ frame' \in FrameStates
      /\ sent' \in Nat /\ told' \in BOOLEAN
      /\ sockets' \in [Sockets -> SocketRecords]
      /\ OneJob' /\ OneCompletion' /\ NothingNull' /\ PlanOK(plan)'
      /\ (sent <= Spent(plan) + Credit)'
      /\ sent' > 0
  BY <1>1, <1>2, SendRequestStep
<1>4. TypeOK'
  BY <1>1, <1>3 DEF IInv, TypeOK
<1> QED BY <1>3, <1>4 DEF IInv

LEMMA GetOnNewTransportStep ==
    ASSUME IInv, NEW s \in Sockets, GetOnNewTransport(s)
    PROVE  IInv'
<1> DEFINE old == [x \in Sockets |-> IF x = transport THEN WriteEof(sockets[x]) ELSE sockets[x]]
           c == Created(plan.request)
<1>1. /\ state = "get_pending" /\ jobs' = 0 /\ transport' = s
      /\ UNCHANGED <<hand, plan, max_retries, transaction, frame, sent, told, fatal>>
  BY DEF GetOnNewTransport, IInv, OneJob
<1>2. sockets \in [Sockets -> SocketRecords] /\ owed = 1 /\ plan.request \in Urls
      /\ sent \in Nat
  BY <1>1 DEF IInv, TypeOK, OneCompletion, NothingNull, Plans, Requests
<1>3. old \in [Sockets -> SocketRecords]
  BY <1>2, SocketTypes
<1>4. c \in SocketRecords /\ StartConnect(c) \in SocketRecords
  BY <1>2, SocketTypes
<1>5. /\ state' \in {"inactive", "connection_pending"}
      /\ owed' = IF state' = "inactive" THEN 0 ELSE 1
      /\ sockets' \in [Sockets -> SocketRecords]
  <2>1. CASE plan.request \in Unresolvable
    <3>1. state' = "inactive" /\ owed' = 0 /\ NetworkBecomes([old EXCEPT ![s] = c])
      BY <1>2, <2>1 DEF GetOnNewTransport, Completion
    <3>2. [old EXCEPT ![s] = c] \in [Sockets -> SocketRecords]
      BY <1>3, <1>4
    <3> QED BY <3>1, <3>2, NetworkType
  <2>2. CASE plan.request \notin Unresolvable
    <3>1. /\ state' = "connection_pending" /\ owed' = 1
          /\ NetworkBecomes([old EXCEPT ![s] = StartConnect(c)])
      BY <1>2, <2>2 DEF GetOnNewTransport
    <3>2. [old EXCEPT ![s] = StartConnect(c)] \in [Sockets -> SocketRecords]
      BY <1>3, <1>4
    <3> QED BY <3>1, <3>2, NetworkType
  <2> QED BY <2>1, <2>2
<1>6. TypeOK'
  BY <1>1, <1>5 DEF IInv, TypeOK
<1>7. PlanOK(plan)' /\ (sent <= Spent(plan) + Credit)'
  <2>1. PlanOK(plan)' = PlanOK(plan) /\ Spent(plan)' = Spent(plan) /\ Credit = 0 /\ Credit' \in {0, 1}
    BY <1>1 DEF PlanOK, Spent, Credit
  <2>2. Spent(plan) \in Nat
    BY SpentType DEF IInv, TypeOK
  <2> QED BY <1>1, <1>2, <2>1, <2>2 DEF IInv
<1>8. OneJob' /\ OneCompletion' /\ NothingNull'
  <2>1. plan.request # NoRequest
    BY <1>2
  <2> QED BY <1>1, <1>5, <2>1 DEF OneJob, OneCompletion, NothingNull
<1> QED BY <1>5, <1>6, <1>7, <1>8 DEF IInv

LEMMA ResponseCompleteStep ==
    ASSUME IInv, ResponseComplete
    PROVE  IInv'
<1>1. /\ state = "response_complete" /\ QueuePlanned(plan, 0) /\ frame = "done"
      /\ UNCHANGED <<max_retries, transaction, transport, frame, sockets, hand, sent, told, fatal>>
  BY DEF ResponseComplete, IInv, OneJob
<1>2. PlanOK(plan) /\ Spent(plan) \in Nat /\ sent \in Nat /\ sent <= Spent(plan) + Credit
  BY SpentType DEF IInv, TypeOK
<1>3. Credit = IF plan.request # NoRequest THEN 0 ELSE 1
  BY <1>1 DEF Credit
<1>4. sent <= Spent(plan) + 1 /\ (plan.request # NoRequest => sent <= Spent(plan))
  BY <1>2, <1>3
<1>5. /\ state' \in {"get_pending", "inactive"}
      /\ plan' \in Plans /\ jobs' \in Nat /\ owed' \in Nat
      /\ OneJob' /\ OneCompletion' /\ NothingNull' /\ PlanOK(plan)'
      /\ (sent <= Spent(plan) + Credit)'
  BY <1>1, <1>2, <1>4, QueuePlannedStep
<1>6. TypeOK'
  BY <1>1, <1>5 DEF IInv, TypeOK
<1> QED BY <1>5, <1>6 DEF IInv

LEMMA CanSendStep ==
    ASSUME IInv, NEW w \in Workers, CanSend(w)
    PROVE  IInv'
<1>1. hand' \in [Workers -> Hands]
  BY LeaveType DEF CanSend
<1>2. sockets \in [Sockets -> SocketRecords]
  BY DEF IInv, TypeOK
<1>3. CASE state = "connection_pending"
  <2>1. /\ jobs' = 0 /\ transport \in Sockets /\ SendRequest(sockets)
        /\ UNCHANGED <<plan, max_retries, transport, jobs, owed, fatal>>
    BY <1>3 DEF CanSend, IInv, OneJob, NothingNull, TypeOK
  <2>2. /\ state' = "response_pending"
        /\ transaction' \in Requests /\ frame' \in FrameStates
        /\ sent' \in Nat /\ told' \in BOOLEAN
        /\ sockets' \in [Sockets -> SocketRecords]
        /\ OneJob' /\ OneCompletion' /\ NothingNull' /\ PlanOK(plan)'
        /\ (sent <= Spent(plan) + Credit)'
        /\ sent' > 0
    BY <1>2, <1>3, <2>1, SendRequestStep
  <2>3. TypeOK'
    BY <1>1, <2>1, <2>2 DEF IInv, TypeOK
  <2> QED BY <2>2, <2>3 DEF IInv
<1>4. CASE state # "connection_pending"
  <2>1. /\ NetworkBecomes(sockets)
        /\ UNCHANGED <<client, transport, fatal>>
    BY <1>4 DEF CanSend, client
  <2>2. sockets' \in [Sockets -> SocketRecords]
    BY <1>2, <2>1, NetworkType
  <2> QED BY <1>1, <2>1, <2>2, QuietStep DEF IInv, TypeOK
<1> QED BY <1>3, <1>4

LEMMA EndingStep ==
    ASSUME IInv, NEW w \in Workers, Ending(w)
    PROVE  IInv'
<1>1. /\ hand' \in [Workers -> Hands] /\ transport' = NoSocket
      /\ NetworkBecomes(sockets)
      /\ UNCHANGED <<max_retries, transaction, frame, sent, told, fatal>>
  BY LeaveType DEF Ending, EndingIn
<1>2. sockets' \in [Sockets -> SocketRecords]
  BY <1>1, NetworkType DEF IInv, TypeOK
<1>3. PlanOK(plan) /\ Spent(plan) \in Nat /\ sent \in Nat /\ sent <= Spent(plan) + Credit
      /\ max_retries \in Nat /\ Credit \in {0, 1} /\ plan.request \in Requests
  BY SpentType DEF IInv, TypeOK, Credit, Plans
<1>4. CASE state \in {"connection_pending", "response_pending"}
  <2> DEFINE q == Retried(plan, plan.request)
  <2>1. Leads(plan, q)
    BY <1>3, RetriedLeads
  <2>2. PlanOK(q) /\ Spent(q) \in Nat
        /\ sent <= Spent(q) + 1 /\ (q.request # NoRequest => sent <= Spent(q))
    BY <1>3, <2>1, SpentType DEF Leads
  <2>3. QueuePlanned(q, 0)
    BY <1>4 DEF Ending, EndingIn, IInv, OneJob
  <2>4. /\ state' \in {"get_pending", "inactive"}
        /\ plan' \in Plans /\ jobs' \in Nat /\ owed' \in Nat
        /\ OneJob' /\ OneCompletion' /\ NothingNull' /\ PlanOK(plan)'
        /\ (sent <= Spent(plan) + Credit)'
    BY <1>1, <1>4, <2>2, <2>3, QueuePlannedStep
  <2>5. TypeOK'
    BY <1>1, <1>2, <2>4 DEF IInv, TypeOK
  <2> QED BY <2>4, <2>5 DEF IInv
<1>5. CASE state \notin {"connection_pending", "response_pending"}
  <2>1. UNCHANGED <<state, plan, jobs, owed>>
    BY <1>5 DEF Ending, EndingIn
  <2>2. TypeOK'
    BY <1>1, <1>2, <2>1 DEF IInv, TypeOK
  <2>3. Spent(plan)' = Spent(plan) /\ Credit' = Credit /\ PlanOK(plan)' = PlanOK(plan)
    BY <1>1, <2>1 DEF Spent, Credit, PlanOK
  <2> QED BY <1>1, <1>5, <2>1, <2>2, <2>3 DEF IInv, OneJob, OneCompletion, NothingNull
<1> QED BY <1>4, <1>5

\* The client gives a response up before it finds the response complete.
LEMMA GivenUp ==
    ASSUME NEW w, NEW h, NEW g, NEW more, Received(w, h, g, more),
           g = "failed" \/ frame = "stuck"
    PROVE  g # "done"
BY DEF Received, FrameSteps

LEMMA ReceivedStep ==
    ASSUME IInv, NEW w \in Workers, NEW h \in Headers \cup {NoHeaders}, NEW g \in Reads,
           NEW more \in BOOLEAN, Received(w, h, g, more)
    PROVE  IInv'
<1> DEFINE s == hand[w].socket
           r == [plan EXCEPT !.request = NoRequest]
           p == Planned(r, h)
           f == [sockets EXCEPT ![s] = AfterRead(@, more)]
           e == [x \in Sockets |-> IF x = transport THEN WriteEof(f[x]) ELSE f[x]]
<1>1. /\ state = "response_pending" /\ frame' = g /\ g \in FrameSteps(frame, h)
      /\ hand' \in [Workers -> Hands]
      /\ told' = (told \/ (h # NoHeaders /\ p.request = NoRequest))
      /\ UNCHANGED <<max_retries, transaction, sent>>
      /\ fatal' \in BOOLEAN
  <2>1. Unread(frame, g) \subseteq BOOLEAN
    BY ClientAssumption DEF Unread
  <2> QED BY <2>1, LeaveType DEF Received
<1>2. f \in [Sockets -> SocketRecords]
  BY SocketTypes DEF IInv, TypeOK
<1>3. e \in [Sockets -> SocketRecords]
  BY <1>2, SocketTypes
<1>4. max_retries \in Nat /\ transaction \in Requests /\ PlanOK(plan) /\ plan \in Plans
      /\ sent \in Nat /\ Spent(plan) \in Nat /\ Credit \in {0, 1}
      /\ sent <= Spent(plan) + Credit /\ frame \in FrameStates /\ sent > 0
  BY <1>1, SpentType DEF IInv, TypeOK, PlanOK, Credit
<1>5. PlanOK(r) /\ r.request = NoRequest /\ Spent(r) = Spent(plan)
  BY <1>4 DEF PlanOK, Plans, Requests, Spent
<1>6. Leads(r, p)
  BY <1>4, <1>5, PlannedLeads
<1>7. PlanOK(p) /\ Spent(p) \in Nat /\ p \in Plans /\ p.request \in Requests
      /\ sent <= Spent(p) + 1 /\ (p.request # NoRequest => sent <= Spent(p))
  BY <1>4, <1>5, <1>6, SpentType DEF Leads, PlanOK, Plans
<1>8. told' \in BOOLEAN
  BY <1>1
<1>9. CASE g = "failed" \/ frame = "stuck"
  <2> DEFINE q == Retried(p, transaction)
  <2>1. QueuePlanned(q, 0) /\ transport' = NoSocket /\ NetworkBecomes(e)
    BY <1>1, <1>9, GivenUp DEF Received, IInv, OneJob
  <2>2. Leads(p, q)
    BY <1>4, <1>7, RetriedLeads
  <2>3. PlanOK(q) /\ Spent(q) \in Nat
        /\ sent <= Spent(q) + 1 /\ (q.request # NoRequest => sent <= Spent(q))
    BY <1>4, <1>7, <2>2, SpentType DEF Leads
  <2>4. /\ state' \in {"get_pending", "inactive"}
        /\ plan' \in Plans /\ jobs' \in Nat /\ owed' \in Nat
        /\ OneJob' /\ OneCompletion' /\ NothingNull' /\ PlanOK(plan)'
        /\ (sent <= Spent(plan) + Credit)'
    BY <1>1, <2>1, <2>3, QueuePlannedStep
  <2>5. sockets' \in [Sockets -> SocketRecords]
    BY <1>3, <2>1, NetworkType
  <2>6. TypeOK'
    BY <1>1, <1>4, <1>8, <2>1, <2>4, <2>5 DEF IInv, TypeOK
  <2> QED BY <2>4, <2>6 DEF IInv
<1>10. CASE g # "failed" /\ frame # "stuck"
  <2>1. /\ plan' = p /\ UNCHANGED <<transport, owed>> /\ NetworkBecomes(f)
        /\ IF g = "done" THEN state' = "response_complete" /\ jobs' = jobs + 1
                         ELSE UNCHANGED <<state, jobs>>
    BY <1>10 DEF Received
  <2>2. sockets' \in [Sockets -> SocketRecords]
    BY <1>2, <2>1, NetworkType
  <2>3. state' \in {"response_pending", "response_complete"}
        /\ (state' = "response_complete" => frame' = "done")
        /\ OneJob'
    BY <1>1, <2>1 DEF OneJob, IInv
  <2>4. TypeOK'
    BY <1>1, <1>4, <1>7, <1>8, <2>1, <2>2, <2>3 DEF IInv, TypeOK, OneJob
  <2>5. PlanOK(plan)' /\ Spent(plan)' = Spent(p)
    BY <1>1, <1>7, <2>1 DEF PlanOK, Spent
  <2>6. Credit' = 0 => p.request # NoRequest
    BY <2>1, <2>3 DEF Credit
  <2>7. (sent <= Spent(plan) + Credit)'
    <3>1. Credit' \in {0, 1}
      BY DEF Credit
    <3> QED BY <1>1, <1>7, <2>5, <2>6, <3>1
  <2>8. OneCompletion' /\ NothingNull'
    BY <1>1, <2>1, <2>3 DEF OneCompletion, NothingNull, IInv
  <2> QED BY <1>1, <1>4, <2>3, <2>4, <2>5, <2>7, <2>8 DEF IInv
<1> QED BY <1>9, <1>10

LEMMA CompleteStep ==
    ASSUME IInv, NEW w \in Workers, Complete(w)
    PROVE  IInv'
<1> DEFINE s == hand[w].socket
           c == hand[w].completion
           e == EventOf(sockets[s], c)
<1>1. /\ s # NoSocket
      /\ hand' = [hand EXCEPT ![w] = IF e = "none" THEN Idle ELSE [@ EXCEPT !.event = e]]
      /\ UNCHANGED <<client, transport, fatal>>
      /\ NetworkBecomes([sockets EXCEPT ![s] = Completed(@, c)])
  BY DEF Complete
<1>2. /\ sockets \in [Sockets -> SocketRecords] /\ hand \in [Workers -> Hands]
      /\ fatal \in BOOLEAN
  BY DEF IInv, TypeOK
<1>3. s \in Sockets
  BY <1>1, <1>2 DEF Hands
<1>4. e \in Events \cup {"none"}
  BY DEF EventOf, Events
<1>5. hand' \in [Workers -> Hands]
  BY <1>1, <1>2, <1>4 DEF Hands, Idle
<1>6. Completed(sockets[s], c) \in SocketRecords
  BY <1>2, <1>3, SocketTypes DEF Completed
<1>7. sockets' \in [Sockets -> SocketRecords]
  <2>1. [sockets EXCEPT ![s] = Completed(@, c)] \in [Sockets -> SocketRecords]
    BY <1>2, <1>6
  <2> QED BY <1>1, <2>1, NetworkType
<1> QED BY <1>1, <1>2, <1>5, <1>7, QuietStep

LEMMA DequeueStep ==
    ASSUME IInv, NEW w \in Workers, NEW s \in Sockets, NEW j \in JobTypes,
           NEW c \in Outcomes(j), Dequeue(w, s, j, c)
    PROVE  IInv'
<1>1. /\ hand' = [hand EXCEPT ![w] = [socket |-> s, completion |-> c, event |-> "none"]]
      /\ sockets' = [sockets EXCEPT ![s].jobs = @ \ {j}]
      /\ UNCHANGED <<client, transport, fatal>>
  BY DEF Dequeue
<1>2. /\ sockets \in [Sockets -> SocketRecords] /\ hand \in [Workers -> Hands]
      /\ fatal \in BOOLEAN
  BY DEF IInv, TypeOK
<1>3. c \in Completions
  BY DEF Completions
<1>4. hand' \in [Workers -> Hands]
  BY <1>1, <1>2, <1>3 DEF Hands
<1>5. sockets' \in [Sockets -> SocketRecords]
  <2>1. [sockets[s] EXCEPT !.jobs = @ \ {j}] \in SocketRecords
    BY <1>2 DEF SocketRecords
  <2> QED BY <1>1, <1>2, <2>1
<1> QED BY <1>1, <1>2, <1>4, <1>5, QuietStep

\* Every handler of the client and its sockets keeps the invariant.
THEOREM InductiveStep == IInv /\ [Next]_vars => IInv'
<1> SUFFICES ASSUME IInv, [Next]_vars PROVE IInv'
  OBVIOUS
<1>1. ASSUME NEW url \in Urls, NEW limit \in RetryLimits, Get(url, limit) PROVE IInv'
  BY <1>1, GetStep
<1>2. CASE ClientJob
  BY <1>2, GetRefusedStep, GetOnOpenTransportStep, GetOnNewTransportStep, ResponseCompleteStep
  DEF ClientJob
<1>3. ASSUME NEW w \in Workers, Deliver(w) PROVE IInv'
  <2>1. ASSUME ReceivedUnread(w) PROVE IInv'
    BY <2>1, QuietStep DEF ReceivedUnread, IInv, TypeOK
  <2> QED BY <1>3, <2>1, CanSendStep, EndingStep, ReceivedStep DEF Deliver
<1>4. ASSUME NEW w \in Workers, Complete(w) PROVE IInv'
  BY <1>4, CompleteStep
<1>5. ASSUME NEW w \in Workers, NEW s \in Sockets, NEW j \in JobTypes,
             NEW c \in Outcomes(j), Dequeue(w, s, j, c)
      PROVE  IInv'
  BY <1>5, DequeueStep
<1>6. CASE UNCHANGED vars
  BY <1>6, QuietStep DEF vars, IInv, TypeOK
<1> QED BY <1>1, <1>2, <1>3, <1>4, <1>5, <1>6 DEF Next

-------------------------------------------------------------------------------
(* Theorems.                                                                  *)

\* The invariant holds in every state the client can reach, whatever its sockets do.
THEOREM Invariance == Spec => []IInv
BY InductiveStart, InductiveStep, PTL DEF Spec

\* Every variable of the client, its sockets and its workers keeps its type.
THEOREM TypeCorrect == Spec => []TypeOK
<1>1. IInv => TypeOK
  BY DEF IInv
<1> QED BY <1>1, Invariance, PTL

\* The client's jobs: one on the queue exactly while the client waits for one.
THEOREM JobsBalanced == Spec => []OneJob
<1>1. IInv => OneJob
  BY DEF IInv
<1> QED BY <1>1, Invariance, PTL

\* Neither planned_request nor transport is null where a handler uses it.
THEOREM NeverNull == Spec => []NothingNull
<1>1. IInv => NothingNull
  BY DEF IInv
<1> QED BY <1>1, Invariance, PTL

\* One Get puts at most (MaxRedirects + 1) * (max_retries + 1) requests on the wire.
THEOREM RequestsBounded == Spec => []BoundedRequests
<1>1. IInv => BoundedRequests
  <2> SUFFICES ASSUME IInv PROVE BoundedRequests
    OBVIOUS
  <2>1. max_retries \in Nat /\ PlanOK(plan) /\ Spent(plan) \in Nat /\ sent \in Nat
        /\ sent <= Spent(plan) + Credit /\ Credit \in {0, 1}
    BY SpentType DEF IInv, TypeOK, Credit
  <2>2. Spent(plan) + 1 <= Budget(max_retries)
    BY <2>1, WithinBudget
  <2>3. Budget(max_retries) \in Nat
    BY <2>1 DEF Budget
  <2> QED BY <2>1, <2>2, <2>3 DEF BoundedRequests
<1> QED BY <1>1, Invariance, PTL

-------------------------------------------------------------------------------
(* Refinement.                                                                *)

\* What a step may do to the four variables of HttpGet.
ApiStep == Api!Next \/ UNCHANGED <<owed, max_retries, sent, told>>

LEMMA SendIsSend ==
    ASSUME IInv, IInv', state \in {"get_pending", "connection_pending"},
           sent' = sent + 1, told' = FALSE, state' = "response_pending",
           UNCHANGED <<owed, max_retries>>
    PROVE  Api!Send
<1>1. BoundedRequests'
  <2>1. (max_retries \in Nat /\ PlanOK(plan) /\ Spent(plan) \in Nat /\ sent \in Nat
        /\ sent <= Spent(plan) + Credit /\ Credit \in {0, 1})'
    <3>1. (max_retries \in Nat /\ PlanOK(plan) /\ sent \in Nat
          /\ sent <= Spent(plan) + Credit /\ Credit \in {0, 1})'
      BY DEF IInv, TypeOK, Credit
    <3>2. Spent(plan)' \in Nat
      BY <3>1 DEF PlanOK, Plans, Spent
    <3> QED BY <3>1, <3>2
  <2>2. ASSUME NEW q, NEW m \in Nat, q \in Plans, q.retries <= m, q.redirects <= MaxRedirects
        PROVE  q.redirects * (m + 1) + q.retries + 1 <= (MaxRedirects + 1) * (m + 1)
    <3>1. q.redirects \in Nat /\ q.retries \in Nat
      BY <2>2 DEF Plans
    <3>2. q.redirects * (m + 1) <= MaxRedirects * (m + 1)
      BY <2>2, <3>1, RowBound
    <3>3. (MaxRedirects + 1) * (m + 1) = MaxRedirects * (m + 1) + (m + 1)
      BY SMT
    <3>4. q.redirects * (m + 1) \in Nat /\ MaxRedirects * (m + 1) \in Nat
      BY <3>1
    <3> QED BY <2>2, <3>1, <3>2, <3>3, <3>4
  <2>3. (Spent(plan) + 1 <= Budget(max_retries))'
    BY <2>1, <2>2 DEF PlanOK, Spent, Budget
  <2>4. Budget(max_retries)' \in Nat
    BY <2>1 DEF Budget
  <2> QED BY <2>1, <2>3, <2>4 DEF BoundedRequests
<1>2. owed = 1 /\ sent \in Nat /\ Budget(max_retries)' = Budget(max_retries)
  BY DEF IInv, OneCompletion, TypeOK, Budget
<1>3. Budget(max_retries) \in Nat
  BY DEF IInv, TypeOK, Budget
<1> QED BY <1>1, <1>2, <1>3 DEF Api!Send, BoundedRequests

\* QueuePlanned leaves the completion owed or gives it.
LEMMA QueuePlannedIsComplete ==
    ASSUME IInv, NEW p, NEW queued, state # "inactive", QueuePlanned(p, queued),
           told' \in (IF sent > 0 THEN {told, TRUE} ELSE {told}),
           UNCHANGED <<max_retries, sent>>
    PROVE  ApiStep
<1>1. owed = 1 /\ sent \in Nat /\ Budget(max_retries)' = Budget(max_retries)
  BY DEF IInv, OneCompletion, TypeOK, Budget
<1>2. CASE p.request # NoRequest
  <2>1. owed' = owed
    BY <1>2 DEF QueuePlanned
  <2> QED BY <1>1, <2>1 DEF ApiStep, Api!Next, Api!Report
<1>3. CASE p.request = NoRequest
  <2>1. owed' = 0
    BY <1>1, <1>3 DEF QueuePlanned, Completion
  <2> QED BY <1>1, <2>1 DEF ApiStep, Api!Next, Api!Complete
<1> QED BY <1>2, <1>3

LEMMA StepImplements == IInv /\ IInv' /\ [Next]_vars => ApiStep
<1> SUFFICES ASSUME IInv, IInv', [Next]_vars PROVE ApiStep
  OBVIOUS
<1>1. ASSUME NEW url \in Urls, NEW limit \in RetryLimits, Get(url, limit) PROVE ApiStep
  <2>1. owed = 0 /\ owed' = 1 /\ max_retries' = limit /\ sent' = 0 /\ told' = FALSE
    BY <1>1 DEF Get, IInv, OneCompletion
  <2>2. Budget(max_retries)' \in {Budget(r) : r \in RetryLimits}
    BY <2>1 DEF Budget
  <2> QED BY <2>1, <2>2 DEF ApiStep, Api!Next, Api!Get
<1>2. CASE GetRefused
  BY <1>2 DEF GetRefused, Completion, IInv, OneCompletion, TypeOK, Budget,
              ApiStep, Api!Next, Api!Complete
<1>3. CASE GetOnOpenTransport
  <2>1. Api!Send
    BY <1>3, SendIsSend DEF GetOnOpenTransport, SendRequest
  <2> QED BY <2>1 DEF ApiStep, Api!Next
<1>4. ASSUME NEW s \in Sockets, GetOnNewTransport(s) PROVE ApiStep
  <2>1. owed = 1 /\ UNCHANGED <<max_retries, sent, told>> /\ owed' \in {0, 1}
    BY <1>4 DEF GetOnNewTransport, Completion, IInv, OneCompletion
  <2>2. Budget(max_retries)' = Budget(max_retries)
    BY <2>1 DEF Budget
  <2> QED BY <2>1, <2>2 DEF ApiStep, Api!Next, Api!Complete
<1>5. CASE ResponseComplete
  BY <1>5, QueuePlannedIsComplete DEF ResponseComplete
<1>6. ASSUME NEW w \in Workers, CanSend(w) PROVE ApiStep
  <2>1. CASE state = "connection_pending"
    <3>1. Api!Send
      BY <1>6, <2>1, SendIsSend DEF CanSend, SendRequest
    <3> QED BY <3>1 DEF ApiStep, Api!Next
  <2>2. CASE state # "connection_pending"
    BY <1>6, <2>2 DEF CanSend, ApiStep
  <2> QED BY <2>1, <2>2
<1>7. ASSUME NEW w \in Workers, Ending(w) PROVE ApiStep
  <2>1. CASE state \in {"connection_pending", "response_pending"}
    BY <1>7, <2>1, QueuePlannedIsComplete DEF Ending, EndingIn
  <2>2. CASE state \notin {"connection_pending", "response_pending"}
    BY <1>7, <2>2 DEF Ending, EndingIn, ApiStep
  <2> QED BY <2>1, <2>2
<1>8. ASSUME NEW w \in Workers, NEW h \in Headers \cup {NoHeaders}, NEW g \in Reads,
             NEW more \in BOOLEAN, Received(w, h, g, more)
      PROVE  ApiStep
  <2>1. /\ state = "response_pending" /\ UNCHANGED <<max_retries, sent>>
        /\ told' \in {told, TRUE} /\ sent > 0 /\ owed = 1
        /\ Budget(max_retries)' = Budget(max_retries)
    BY <1>8 DEF Received, IInv, TypeOK, OneCompletion, Budget
  <2>2. CASE g = "failed" \/ frame = "stuck"
    <3>1. PICK q : QueuePlanned(q, jobs)
      BY <1>8, <2>2, GivenUp DEF Received
    <3> QED BY <2>1, <3>1, QueuePlannedIsComplete
  <2>3. CASE g # "failed" /\ frame # "stuck"
    <3>1. owed' = owed
      BY <1>8, <2>3 DEF Received
    <3> QED BY <2>1, <3>1 DEF ApiStep, Api!Next, Api!Report
  <2> QED BY <2>2, <2>3
<1>9. CASE UNCHANGED client
  BY <1>9 DEF client, ApiStep
<1>10. ASSUME NEW w \in Workers, ReceivedUnread(w) \/ Complete(w) PROVE UNCHANGED client
  BY <1>10 DEF ReceivedUnread, Complete
<1>11. ASSUME NEW w \in Workers, NEW s \in Sockets, NEW j \in JobTypes,
              NEW c \in Outcomes(j), Dequeue(w, s, j, c)
       PROVE  UNCHANGED client
  BY <1>11 DEF Dequeue
<1>12. CASE UNCHANGED vars
  BY <1>12 DEF vars, client, ApiStep
<1> QED BY <1>1, <1>2, <1>3, <1>4, <1>5, <1>6, <1>7, <1>8, <1>9, <1>10, <1>11, <1>12
        DEF Next, ClientJob, Deliver

\* Whatever peers, sockets and workers do, the caller sees what HttpGet allows.
THEOREM Implements == Spec => ApiSafety
<1>1. Init => Api!Init
  BY DEF Init, Api!Init, Budget
<1>2. IInv /\ IInv' /\ [Next]_vars => [Api!Next]_(Api!vars)
  <2>1. UNCHANGED <<owed, max_retries, sent, told>> => UNCHANGED Api!vars
    BY DEF Api!vars, Budget
  <2> QED BY <2>1, StepImplements DEF ApiStep
<1> QED BY <1>1, <1>2, Invariance, PTL DEF Spec, ApiSafety, Api!Safety

HIDE DEF States, FrameStates

-------------------------------------------------------------------------------
(* The inductive invariant of the transport.                                   *)

\* Completion j of socket s is still to come, or a worker is on its way with it.
Outstanding(s, j) ==
    \/ j \in sockets[s].jobs
    \/ \E w \in Workers : hand[w].socket = s /\ hand[w].completion \in Outcomes(j)

\* A worker is about to tell the client that s has ended.
EndingAt(s) == \E w \in Workers : hand[w].socket = s /\ hand[w].event = "ending"

\* Of a socket with work to do, or in the hand of a worker, there is an object; an
\* event is the one its completion makes.
Held ==
    /\ \A s \in Sockets : sockets[s].jobs # {} => sockets[s].state # "free"
    /\ \A w \in Workers :
         /\ hand[w].socket # NoSocket => sockets[hand[w].socket].state # "free"
         /\ hand[w].socket = NoSocket => hand[w].event = "none"
         /\ hand[w].event = "can_send" => hand[w].completion = "can_send"
         /\ hand[w].event = "bytes" => hand[w].completion = "bytes"

\* What moves a socket on from each of its states.
Moves == [bound |-> "can_send", connecting |-> "connect", receiving |-> "receive"]

\* The transport leads to the server of the request in hand, has not connected
\* before the client has written to it, and is either open with the completion to
\* come that moves it on, or its end is being told.
Serving(s) ==
    /\ sockets[s].state \in DOMAIN Moves
    /\ sockets[s].state = "bound" <=> state = "connection_pending"
    /\ sockets[s].url = IF state = "connection_pending" THEN plan.request ELSE transaction
    /\ state = "connection_pending" => ~ Outstanding(s, "connect")
    /\ ~ Outstanding(s, "disconnect")
    /\ EndingAt(s) \/ (sockets[s].open /\ Outstanding(s, Moves[sockets[s].state]))

SInv ==
    /\ IInv
    /\ Held
    /\ transport # NoSocket => Serving(transport)

LEMMA SInvStart == Init => SInv
BY InductiveStart DEF Init, SInv, Held, Free, Idle

-------------------------------------------------------------------------------
(* Sockets and hands.                                                          *)

LEMMA Types ==
    ASSUME IInv
    PROVE  /\ sockets \in [Sockets -> SocketRecords] /\ hand \in [Workers -> Hands]
           /\ transport \in Sockets \cup {NoSocket} /\ plan \in Plans
           /\ \A s \in Sockets : sockets[s] \in SocketRecords
           /\ \A w \in Workers : hand[w].socket \in Sockets \cup {NoSocket}
BY DEF IInv, TypeOK, Hands

\* A completion is of one job only.
LEMMA OneOutcome ==
    /\ \A i, j \in JobTypes : \A c \in Outcomes(i) : c \in Outcomes(j) => i = j
    /\ \A j \in JobTypes : "none" \notin Outcomes(j)
    /\ Outcomes("can_send") = {"can_send"} /\ Outcomes("disconnect") = {"disconnect"}
    /\ Outcomes("connect") = {"connected", "refused"}
    /\ Outcomes("send") = {"sent", "send_failed"} /\ Outcomes("receive") = {"bytes", "end"}
BY DEF Outcomes, JobTypes

LEMMA Transport ==
    ASSUME NEW f, NetworkBecomes(f)
    PROVE  /\ transport' \in Sockets => sockets'[transport'] = f[transport']
           /\ \A s \in Sockets : sockets'[s] \in {f[s], Free}
           /\ \A w \in Workers : hand'[w].socket \in Sockets =>
                  sockets'[hand'[w].socket] = f[hand'[w].socket]
BY DEF NetworkBecomes

\* Nobody comes to hold a socket that has no object.
LEMMA HeldStep ==
    ASSUME SInv, NEW f, NetworkBecomes(f),
           \A s \in Sockets : f[s].jobs # {} => f[s].state # "free",
           \A s \in Sockets : sockets[s].state # "free" => f[s].state # "free",
           hand' = hand \/ \E w \in Workers : hand' = [hand EXCEPT ![w] = Idle]
    PROVE  Held'
<1>1. \A w \in Workers : hand'[w] = hand[w] \/ hand'[w] = Idle
  BY Types DEF SInv
<1>2. \A s \in Sockets : sockets'[s].jobs # {} => sockets'[s].state # "free"
  BY Transport DEF Free
<1>3. ASSUME NEW w \in Workers, hand'[w].socket # NoSocket
      PROVE  sockets'[hand'[w].socket].state # "free"
  <2>1. hand'[w] = hand[w] /\ hand[w].socket \in Sockets
    BY <1>1, <1>3, Types DEF SInv, Idle
  <2>2. sockets'[hand[w].socket] = f[hand[w].socket]
    BY <2>1, Transport
  <2> QED BY <1>3, <2>1, <2>2 DEF SInv, Held
<1>4. \A w \in Workers :
        /\ hand'[w].socket = NoSocket => hand'[w].event = "none"
        /\ hand'[w].event = "can_send" => hand'[w].completion = "can_send"
        /\ hand'[w].event = "bytes" => hand'[w].completion = "bytes"
  BY <1>1 DEF SInv, Held, Idle
<1> QED BY <1>2, <1>3, <1>4 DEF Held

\* When a worker leaves, only what it held is no more outstanding.
LEMMA LeaveKeeps ==
    ASSUME SInv, NEW s \in Sockets, NEW w \in Workers,
           Leave(w) \/ hand' = hand, sockets'[s].jobs = sockets[s].jobs
    PROVE  /\ \A j \in JobTypes : Outstanding(s, j)' => Outstanding(s, j)
           /\ \A j \in JobTypes : Outstanding(s, j) =>
                Outstanding(s, j)' \/ (hand[w].socket = s /\ hand[w].completion \in Outcomes(j))
           /\ EndingAt(s) => EndingAt(s)' \/ (hand[w].socket = s /\ hand[w].event = "ending")
<1>1. \A v \in Workers : (v # w => hand'[v] = hand[v]) /\ (hand'[v] = hand[v] \/ hand'[v] = Idle)
  BY Types DEF SInv, Leave
<1>2. Idle.completion = "none"
  BY DEF Idle
<1>3. \A j \in JobTypes : "none" \notin Outcomes(j)
  BY OneOutcome
<1> QED BY <1>1, <1>2, <1>3 DEF Outstanding, EndingAt

-------------------------------------------------------------------------------
(* Steps.                                                                      *)

\* The client does something that leaves sockets and workers alone.
LEMMA SocketsStill ==
    ASSUME SInv, IInv', UNCHANGED <<transport, sockets, hand>>,
           \/ UNCHANGED <<state, plan, transaction>>
           \/ /\ state # "connection_pending" /\ state' # "connection_pending"
              /\ transaction' = transaction
    PROVE  SInv'
<1>1. Held'
  BY DEF SInv, Held
<1>2. \A s, j : Outstanding(s, j)' <=> Outstanding(s, j)
  BY DEF Outstanding
<1>3. \A s : EndingAt(s)' <=> EndingAt(s)
  BY DEF EndingAt
<1>4. ASSUME transport # NoSocket PROVE Serving(transport)'
  <2>1. Serving(transport)
    BY <1>4 DEF SInv
  <2> QED BY <1>2, <1>3, <2>1 DEF Serving
<1> QED BY <1>1, <1>4 DEF SInv

\* The client writes a request to its transport.
LEMMA WriteServes ==
    ASSUME SInv,
           hand' = hand \/ \E w \in Workers : Leave(w) /\ hand[w].event = "can_send",
           transport \in Sockets, transport' = transport,
           state \in {"get_pending", "connection_pending"},
           state = "get_pending" => plan.request = transaction,
           UNCHANGED plan, SendRequest(sockets)
    PROVE  Held' /\ Serving(transport)'
<1> DEFINE s == transport
           c == sockets[s]
           f == [sockets EXCEPT ![s] = Write(@)]
<1>1. /\ state' = "response_pending" /\ transaction' = plan.request /\ NetworkBecomes(f)
  BY DEF SendRequest
<1>2. c \in SocketRecords /\ sockets \in [Sockets -> SocketRecords]
  BY Types DEF SInv
<1>3. Serving(s)
  BY Types DEF SInv
<1>4. /\ c.state = "bound" => Write(c) = [c EXCEPT !.state = "connecting",
                                             !.jobs = @ \cup {"connect"}, !.owes = TRUE]
      /\ c.state = "connecting" => Write(c) = [c EXCEPT !.buffered = TRUE]
      /\ c.state = "receiving" => Write(c) = [c EXCEPT !.jobs = @ \cup {"send"}, !.owes = TRUE]
      /\ c.state \in {"bound", "connecting", "receiving"}
  BY <1>3 DEF Write, Serving, Moves
<1>5. /\ Write(c).url = c.url /\ Write(c).open = c.open
      /\ Write(c).state = IF c.state = "bound" THEN "connecting" ELSE c.state
      /\ c.jobs \subseteq Write(c).jobs
      /\ c.state = "bound" => "connect" \in Write(c).jobs
      /\ "disconnect" \in Write(c).jobs => "disconnect" \in c.jobs
  <2>1. CASE c.state = "bound"
    <3>1. /\ Write(c).url = c.url /\ Write(c).open = c.open
          /\ Write(c).state = "connecting" /\ Write(c).jobs = c.jobs \cup {"connect"}
      BY <1>2, <1>4, <2>1 DEF SocketRecords
    <3> QED BY <2>1, <3>1
  <2>2. CASE c.state = "connecting"
    BY <1>2, <1>4, <2>2 DEF SocketRecords
  <2>3. CASE c.state = "receiving"
    <3>1. /\ Write(c).url = c.url /\ Write(c).open = c.open
          /\ Write(c).state = c.state /\ Write(c).jobs = c.jobs \cup {"send"}
      BY <1>2, <1>4, <2>3 DEF SocketRecords
    <3> QED BY <2>3, <3>1
  <2> QED BY <1>4, <2>1, <2>2, <2>3
<1>6. sockets'[s] = Write(c)
  <2>1. f[s] = Write(c)
    BY <1>2
  <2> HIDE DEF f
  <2> QED BY <1>1, <2>1, Transport
<1>7. Held'
  <2>1. \A x \in Sockets : f[x].jobs # {} => f[x].state # "free"
    BY <1>2, <1>4, <1>5 DEF SInv, Held
  <2>2. \A x \in Sockets : sockets[x].state # "free" => f[x].state # "free"
    BY <1>2, <1>4, <1>5
  <2>3. hand' = hand \/ \E v \in Workers : hand' = [hand EXCEPT ![v] = Idle]
    BY DEF Leave
  <2> HIDE DEF f
  <2> QED BY <1>1, <2>1, <2>2, <2>3, HeldStep
<1>8. \A v \in Workers : /\ hand'[v] = hand[v] \/ hand'[v] = Idle
                         /\ hand'[v] # hand[v] => hand[v].event = "can_send"
                                                  /\ hand[v].completion = "can_send"
  BY Types DEF SInv, Leave, Held
<1>9. /\ \A j \in {"connect", "receive"} : Outstanding(s, j) => Outstanding(s, j)'
      /\ Outstanding(s, "disconnect")' => Outstanding(s, "disconnect")
      /\ EndingAt(s) => EndingAt(s)'
  BY <1>5, <1>6, <1>8, OneOutcome DEF Outstanding, EndingAt, Idle
<1>10. c.state = "bound" => Outstanding(s, "connect")'
  BY <1>5, <1>6 DEF Outstanding
<1>11. Serving(s)'
  BY <1>1, <1>3, <1>5, <1>6, <1>9, <1>10 DEF Serving, Moves
<1> QED BY <1>7, <1>11

LEMMA GetOnOpenTransportServes ==
    ASSUME SInv, IInv', GetOnOpenTransport
    PROVE  SInv'
<1>1. /\ state = "get_pending" /\ transport \in Sockets /\ plan.request = transaction
      /\ UNCHANGED <<transport, hand, plan>> /\ SendRequest(sockets)
  BY Types DEF GetOnOpenTransport, is_transport_reusable, SInv
<1> QED BY <1>1, WriteServes DEF SInv

LEMMA CanSendServes ==
    ASSUME SInv, IInv', NEW w \in Workers, CanSend(w)
    PROVE  SInv'
<1>1. Leave(w) /\ hand[w].event = "can_send" /\ UNCHANGED <<transport, plan>>
  BY DEF CanSend
<1>2. CASE state = "connection_pending"
  <2>1. transport \in Sockets /\ SendRequest(sockets)
    BY <1>2, Types DEF SInv, IInv, NothingNull, CanSend
  <2> QED BY <1>1, <1>2, <2>1, WriteServes DEF SInv
<1>3. CASE state # "connection_pending"
  <2>1. NetworkBecomes(sockets) /\ UNCHANGED <<state, transaction>>
    BY <1>3 DEF CanSend
  <2>2. Held'
    BY <1>1, <2>1, HeldStep DEF Leave, SInv, Held
  <2>3. ASSUME transport \in Sockets PROVE Serving(transport)'
    <3>1. Serving(transport) /\ sockets'[transport] = sockets[transport]
      BY <1>1, <2>1, <2>3, Transport DEF SInv
    <3>2. hand[w].completion = "can_send"
      BY <1>1 DEF SInv, Held
    <3>3. /\ \A j \in JobTypes : Outstanding(transport, j)' => Outstanding(transport, j)
          /\ \A j \in {"connect", "receive"} :
               Outstanding(transport, j) => Outstanding(transport, j)'
          /\ EndingAt(transport) => EndingAt(transport)'
      BY <1>1, <2>3, <3>1, <3>2, LeaveKeeps, OneOutcome DEF JobTypes
    <3> QED BY <1>1, <1>3, <2>1, <3>1, <3>3 DEF Serving, Moves, JobTypes
  <2> QED BY <1>1, <2>2, <2>3, Types DEF SInv
<1> QED BY <1>2, <1>3

\* The old transport is told to disconnect, the new one is bound and waits.
LEMMA GetOnNewTransportServes ==
    ASSUME Unresolvable = {}, SInv, IInv', NEW s \in Sockets, GetOnNewTransport(s)
    PROVE  SInv'
<1> DEFINE old == [x \in Sockets |-> IF x = transport THEN WriteEof(sockets[x]) ELSE sockets[x]]
           c == StartConnect(Created(plan.request))
           f == [old EXCEPT ![s] = c]
<1>1. /\ state' = "connection_pending" /\ transport' = s /\ sockets[s].state = "free"
      /\ NetworkBecomes(f) /\ UNCHANGED <<hand, plan, transaction>>
  BY DEF GetOnNewTransport
<1>2. /\ c.state = "bound" /\ c.url = plan.request /\ c.open /\ c.jobs = {"can_send"}
  BY DEF StartConnect, Created, Free
<1>3. f[s] = c
  OBVIOUS
<1>4. \A x \in Sockets : x # s => f[x] = IF x = transport THEN WriteEof(sockets[x]) ELSE sockets[x]
  OBVIOUS
<1>5. \A x \in Sockets : sockets[x].state # "free" =>
          f[x].state # "free" /\ (x # s => f[x].state = sockets[x].state)
  <2>1. \A x \in Sockets : WriteEof(sockets[x]).state = sockets[x].state
    BY Types DEF WriteEof, SocketRecords, SInv
  <2> QED BY <1>2, <1>3, <1>4, <2>1
<1>6. \A x \in Sockets : f[x].jobs # {} => f[x].state # "free"
  <2>1. ASSUME NEW x \in Sockets, x # s, x # transport, f[x].jobs # {}
        PROVE  f[x].state # "free"
    BY <1>4, <2>1 DEF SInv, Held
  <2>2. ASSUME NEW x \in Sockets, x # s, x = transport
        PROVE  f[x].state # "free"
    <3>1. sockets[x].state # "free"
      BY <2>2 DEF SInv, Serving, Moves
    <3> QED BY <1>5, <2>2, <3>1
  <2> QED BY <1>2, <1>3, <2>1, <2>2
<1> HIDE DEF f, c
<1>7. Held'
  BY <1>1, <1>5, <1>6, HeldStep
<1>8. \A w \in Workers : hand'[w].socket # s
  BY <1>1 DEF SInv, Held
<1>9. sockets'[s] = c
  BY <1>1, <1>3, Transport
<1>10. /\ \A j : Outstanding(s, j)' => j = "can_send"
       /\ Outstanding(s, "can_send")'
  BY <1>2, <1>8, <1>9 DEF Outstanding
<1>11. Serving(s)'
  BY <1>1, <1>2, <1>9, <1>10 DEF Serving, Moves
<1>12. transport' # NoSocket => Serving(transport)'
  BY <1>1, <1>11 DEF Serving, Outstanding, EndingAt
<1> QED BY <1>7, <1>12 DEF SInv

LEMMA EndingServes ==
    ASSUME SInv, IInv', NEW w \in Workers, Ending(w)
    PROVE  SInv'
<1>1. Leave(w) /\ transport' = NoSocket /\ NetworkBecomes(sockets)
  BY DEF Ending, EndingIn
<1>2. Held'
  BY <1>1, HeldStep DEF Leave, SInv, Held
<1> QED BY <1>1, <1>2 DEF SInv

\* Reading a socket changes what its peer owes, and starts the next receive.
LEMMA ReadsOnward ==
    ASSUME NEW c \in SocketRecords, NEW more \in BOOLEAN
    PROVE  /\ AfterRead(c, more).state = c.state /\ AfterRead(c, more).url = c.url
           /\ AfterRead(c, more).open = c.open
           /\ AfterRead(c, more).jobs = IF c.open THEN c.jobs \cup {"receive"} ELSE c.jobs
           /\ AfterRead(c, more).owes = (c.owes /\ more)
<1> DEFINE d == [c EXCEPT !.owes = @ /\ more]
<1>1. /\ d.state = c.state /\ d.url = c.url /\ d.open = c.open /\ d.jobs = c.jobs
      /\ d.owes = (c.owes /\ more) /\ DOMAIN d = DOMAIN c
  BY DEF SocketRecords
<1>2. DOMAIN d = {"state", "open", "buffered", "owes", "url", "jobs"}
  BY <1>1 DEF SocketRecords
<1>3. AfterRead(c, more) = IF d.open THEN [d EXCEPT !.jobs = @ \cup {"receive"}] ELSE d
  BY DEF AfterRead, Restarted
<1> HIDE DEF d
<1> QED BY <1>1, <1>2, <1>3

LEMMA ReceivedServes ==
    ASSUME SInv, IInv', NEW w \in Workers, NEW h, NEW g, NEW more \in BOOLEAN,
           Received(w, h, g, more)
    PROVE  SInv'
<1> DEFINE s == hand[w].socket
           c == sockets[s]
           f == [sockets EXCEPT ![s] = AfterRead(@, more)]
           e == [x \in Sockets |-> IF x = transport THEN WriteEof(f[x]) ELSE f[x]]
<1>1. Leave(w) /\ hand[w].event = "bytes" /\ state = "response_pending" /\ transaction' = transaction
  BY DEF Received
<1>2. s \in Sockets /\ c \in SocketRecords /\ sockets \in [Sockets -> SocketRecords]
  BY <1>1, Types DEF SInv, Held
<1>3. /\ f[s] = AfterRead(c, more) /\ \A x \in Sockets : x # s => f[x] = sockets[x]
      /\ f \in [Sockets -> SocketRecords]
  BY <1>2, SocketTypes
<1>4. \A x \in Sockets : /\ f[x].state = sockets[x].state
                         /\ f[x].jobs # {} => f[x].state # "free"
  <2>1. c.state # "free" /\ AfterRead(c, more).state = c.state
    <3>1. s # NoSocket
      BY <1>1 DEF SInv, Held
    <3>2. c.state # "free"
      BY <3>1 DEF SInv, Held
    <3>3. AfterRead(c, more).state = c.state
      BY <1>2, ReadsOnward
    <3> QED BY <3>2, <3>3
  <2>2. \A x \in Sockets : sockets[x].jobs # {} => sockets[x].state # "free"
    BY DEF SInv, Held
  <2>3. ASSUME NEW x \in Sockets, x # s
        PROVE  f[x].state = sockets[x].state /\ (f[x].jobs # {} => f[x].state # "free")
    <3>1. f[x] = sockets[x]
      BY <1>3, <2>3
    <3> QED BY <2>2, <3>1
  <2>4. f[s].state = c.state /\ f[s].state # "free"
    BY <1>3, <2>1
  <2> QED BY <2>3, <2>4
<1> HIDE DEF f
<1>5. CASE g = "failed" \/ frame = "stuck"
  <2>1. transport' = NoSocket /\ NetworkBecomes(e)
    BY <1>5, GivenUp DEF Received, f
  <2>2. \A x \in Sockets : /\ e[x].state = sockets[x].state
                           /\ e[x].jobs # {} => e[x].state # "free"
    <3>1. ASSUME NEW x \in Sockets, x = transport
          PROVE  e[x].state = sockets[x].state /\ e[x].state # "free"
      <4>1. e[x].state = f[x].state
        BY <1>3, <3>1 DEF WriteEof, SocketRecords
      <4> QED BY <1>4, <3>1, <4>1 DEF SInv, Serving, Moves
    <3> QED BY <1>4, <3>1
  <2> HIDE DEF e
  <2>3. Held'
    BY <1>1, <2>1, <2>2, HeldStep DEF Leave
  <2> QED BY <2>1, <2>3 DEF SInv
<1>6. CASE g # "failed" /\ frame # "stuck"
  <2>1. /\ transport' = transport /\ NetworkBecomes(f)
        /\ state' \in {"response_pending", "response_complete"}
    BY <1>1, <1>6 DEF Received, f
  <2>2. Held'
    BY <1>1, <1>4, <2>1, HeldStep DEF Leave
  <2>3. ASSUME transport \in Sockets PROVE Serving(transport)'
    <3> DEFINE t == transport
    <3>1. Serving(t) /\ sockets'[t] = f[t] /\ transport' = t
      BY <2>1, <2>3, Transport DEF SInv
    <3>2. hand[w].completion = "bytes"
      BY <1>1 DEF SInv, Held
    <3>3. /\ f[t].state = sockets[t].state /\ f[t].url = sockets[t].url
          /\ f[t].open = sockets[t].open /\ sockets[t].jobs \subseteq f[t].jobs
          /\ "disconnect" \in f[t].jobs => "disconnect" \in sockets[t].jobs
          /\ s = t /\ sockets[t].open => "receive" \in f[t].jobs
      <4>1. CASE t = s
        <5>1. f[t] = AfterRead(sockets[t], more)
          BY <1>3, <4>1
        <5>2. LET d == AfterRead(sockets[t], more)
              IN /\ d.state = sockets[t].state /\ d.url = sockets[t].url
                 /\ d.open = sockets[t].open
                 /\ d.jobs = IF sockets[t].open THEN sockets[t].jobs \cup {"receive"}
                                                ELSE sockets[t].jobs
          BY <1>2, <4>1, ReadsOnward, Zenon
        <5> QED BY <5>1, <5>2
      <4>2. CASE t # s
        <5>1. f[t] = sockets[t]
          BY <1>3, <2>3, <4>2
        <5> QED BY <4>2, <5>1
      <4> QED BY <4>1, <4>2
    <3>4. \A v \in Workers : /\ hand'[v] = hand[v] \/ hand'[v] = Idle
                             /\ v # w => hand'[v] = hand[v]
      BY <1>1, Types DEF SInv, Leave
    <3>5. Outstanding(t, "disconnect")' => Outstanding(t, "disconnect")
      BY <3>1, <3>3, <3>4, OneOutcome DEF Outstanding, Idle
    <3>6. EndingAt(t) => EndingAt(t)'
      BY <1>1, <3>1, <3>4 DEF EndingAt
    <3>7. Outstanding(t, "connect") => Outstanding(t, "connect")'
      BY <3>1, <3>2, <3>3, <3>4, OneOutcome DEF Outstanding
    <3>8. sockets[t].open /\ Outstanding(t, "receive") => Outstanding(t, "receive")'
      BY <3>1, <3>2, <3>3, <3>4, OneOutcome DEF Outstanding
    <3> QED BY <1>1, <2>1, <3>1, <3>3, <3>5, <3>6, <3>7, <3>8 DEF Serving, Moves
  <2> QED BY <2>1, <2>2, <2>3, Types DEF SInv
<1> QED BY <1>5, <1>6

\* A worker takes a completion off the queue.
LEMMA DequeueServes ==
    ASSUME SInv, IInv', NEW w \in Workers, NEW s \in Sockets, NEW j \in JobTypes,
           NEW c \in Outcomes(j), Dequeue(w, s, j, c)
    PROVE  SInv'
<1> DEFINE taken == [socket |-> s, completion |-> c, event |-> "none"]
<1>1. /\ hand[w] = Idle /\ j \in sockets[s].jobs /\ hand' = [hand EXCEPT ![w] = taken]
      /\ sockets' = [sockets EXCEPT ![s] = [sockets[s] EXCEPT !.jobs = @ \ {j}]]
      /\ UNCHANGED <<state, plan, transaction, transport>>
  BY DEF Dequeue, client
<1>2. \A x \in Sockets : /\ sockets'[x].state = sockets[x].state
                         /\ sockets'[x].url = sockets[x].url
                         /\ sockets'[x].open = sockets[x].open
                         /\ sockets'[x].jobs = IF x = s THEN sockets[x].jobs \ {j} ELSE sockets[x].jobs
  BY <1>1, Types DEF SInv, SocketRecords
<1>3. hand'[w] = taken /\ \A v \in Workers : v # w => hand'[v] = hand[v]
  BY <1>1, Types DEF SInv
<1>4. taken.socket = s /\ taken.completion = c /\ taken.event = "none"
      /\ Idle.socket = NoSocket /\ Idle.completion = "none" /\ Idle.event = "none"
  BY DEF Idle
<1> HIDE DEF taken
<1>5. Held'
  <2>1. sockets[s].state # "free"
    BY <1>1 DEF SInv, Held
  <2>2. \A x \in Sockets : sockets'[x].jobs # {} => sockets'[x].state # "free"
    BY <1>2, <2>1 DEF SInv, Held
  <2>3. \A v \in Workers : hand'[v].socket # NoSocket => sockets'[hand'[v].socket].state # "free"
    <3>1. ASSUME NEW v \in Workers, v # w, hand[v].socket # NoSocket
          PROVE  sockets'[hand[v].socket].state # "free"
      <4>1. hand[v].socket \in Sockets /\ sockets[hand[v].socket].state # "free"
        BY <3>1, Types DEF SInv, Held
      <4> QED BY <1>2, <4>1
    <3>2. sockets'[s].state # "free"
      BY <1>2, <2>1
    <3> QED BY <1>3, <1>4, <3>1, <3>2
  <2> QED BY <1>3, <1>4, <2>2, <2>3 DEF SInv, Held
<1>6. ASSUME NEW x \in Sockets
      PROVE  /\ \A i \in JobTypes : Outstanding(x, i)' <=> Outstanding(x, i)
             /\ EndingAt(x)' <=> EndingAt(x)
  <2>1. \A i \in JobTypes : c \in Outcomes(i) <=> i = j
    BY OneOutcome
  <2>2. \A i \in JobTypes : "none" \notin Outcomes(i)
    BY OneOutcome
  <2>3. ASSUME NEW i \in JobTypes PROVE Outstanding(x, i)' <=> Outstanding(x, i)
    <3>1. CASE x = s /\ i = j
      BY <1>1, <1>3, <1>4, <3>1 DEF Outstanding
    <3>2. CASE ~ (x = s /\ i = j)
      <4>1. i \in sockets'[x].jobs <=> i \in sockets[x].jobs
        BY <1>2, <3>2
      <4>2. \A v \in Workers : hand'[v].socket = x /\ hand'[v].completion \in Outcomes(i)
                               <=> hand[v].socket = x /\ hand[v].completion \in Outcomes(i)
        BY <1>1, <1>3, <1>4, <2>1, <2>2, <3>2
      <4> QED BY <4>1, <4>2 DEF Outstanding
    <3> QED BY <3>1, <3>2
  <2>4. EndingAt(x)' <=> EndingAt(x)
    BY <1>1, <1>3, <1>4 DEF EndingAt
  <2> QED BY <2>3, <2>4
<1>7. ASSUME transport # NoSocket PROVE Serving(transport)'
  <2>1. transport \in Sockets /\ Serving(transport)
    BY <1>7, Types DEF SInv
  <2> QED BY <1>1, <1>2, <1>6, <2>1 DEF Serving, Moves, JobTypes
<1> QED BY <1>1, <1>5, <1>7 DEF SInv

\* What becomes of a socket, and of the worker's hand, when a completion is handled.
LEMMA Handled ==
    ASSUME NEW c \in SocketRecords, NEW x
    PROVE  LET d == Completed(c, x)
           IN /\ x = "connected" => /\ d.state = "receiving" /\ d.url = c.url /\ d.open = c.open
                                    /\ c.jobs \subseteq d.jobs /\ "receive" \in d.jobs
                                    /\ "disconnect" \in d.jobs => "disconnect" \in c.jobs
              /\ x # "connected" => d.state = c.state /\ d.url = c.url /\ d.jobs = c.jobs
              /\ d.open # c.open => x \in {"refused", "send_failed", "end", "disconnect"}
              /\ d.owes = c.owes
<1>1. ASSUME x = "connected"
      PROVE  LET d == Completed(c, x)
             IN /\ d.state = "receiving" /\ d.url = c.url /\ d.open = c.open /\ d.owes = c.owes
                /\ c.jobs \subseteq d.jobs /\ "receive" \in d.jobs
                /\ "disconnect" \in d.jobs => "disconnect" \in c.jobs
  <2> DEFINE added == {"receive"} \cup (IF c.buffered THEN {"send"} ELSE {})
             d == [c EXCEPT !.state = "receiving", !.buffered = FALSE, !.jobs = c.jobs \cup added]
  <2>1. Completed(c, x) = d
    BY <1>1, Zenon DEF Completed, Connected
  <2>2. "receive" \in added /\ "disconnect" \notin added
    OBVIOUS
  <2> HIDE DEF added
  <2>3. /\ d.state = "receiving" /\ d.url = c.url /\ d.open = c.open /\ d.owes = c.owes
        /\ d.jobs = c.jobs \cup added
    BY DEF SocketRecords
  <2> HIDE DEF d
  <2> QED BY <2>1, <2>2, <2>3
<1>2. CASE x \in {"refused", "send_failed", "end", "disconnect"}
  BY <1>2 DEF Completed, Disconnect, SocketRecords
<1>3. CASE x \notin {"connected", "refused", "send_failed", "end", "disconnect"}
  <2>1. Completed(c, x) = c
    BY <1>3 DEF Completed
  <2> QED BY <1>3, <2>1
<1> QED BY <1>1, <1>2, <1>3

LEMMA CompleteServes ==
    ASSUME SInv, IInv', NEW w \in Workers, Complete(w)
    PROVE  SInv'
<1> DEFINE s == hand[w].socket
           x == hand[w].completion
           c == sockets[s]
           d == Completed(c, x)
           e == EventOf(c, x)
           f == [sockets EXCEPT ![s] = d]
           kept == [hand[w] EXCEPT !.event = e]
<1>1. /\ s \in Sockets /\ c \in SocketRecords
      /\ \A v \in Workers : hand[v].socket = s => hand[v].event = "none"
      /\ hand' = [hand EXCEPT ![w] = IF e = "none" THEN Idle ELSE kept]
      /\ NetworkBecomes(f) /\ UNCHANGED <<state, plan, transaction, transport>>
  BY Types DEF Complete, client, SInv
<1>2. /\ f[s] = d /\ \A y \in Sockets : y # s => f[y] = sockets[y]
  BY <1>1, Types DEF SInv
<1>3. /\ x = "connected" => /\ d.state = "receiving" /\ d.url = c.url /\ d.open = c.open
                            /\ c.jobs \subseteq d.jobs /\ "receive" \in d.jobs
                            /\ "disconnect" \in d.jobs => "disconnect" \in c.jobs
      /\ x # "connected" => d.state = c.state /\ d.url = c.url /\ d.jobs = c.jobs
      /\ d.open # c.open => x \in {"refused", "send_failed", "end", "disconnect"}
  BY <1>1, Handled
<1>4. /\ e \in {"none", "ending"} \cup {x}
      /\ c.open /\ x \in {"can_send", "bytes"} => e = x
      /\ c.open /\ x \in {"refused", "send_failed", "end"} => e = "ending"
      /\ e \notin {"none", "ending"} => x \in {"can_send", "bytes"}
  BY DEF EventOf
<1>5. kept.socket = s /\ kept.completion = x /\ kept.event = e
  BY <1>1, Types DEF SInv, Hands
<1>6. /\ hand'[w] = IF e = "none" THEN Idle ELSE kept
      /\ \A v \in Workers : v # w => hand'[v] = hand[v]
  BY <1>1, Types DEF SInv
<1>7. Idle.socket = NoSocket /\ Idle.completion = "none" /\ Idle.event = "none"
  BY DEF Idle
<1>8. c.state # "free"
  BY <1>1 DEF SInv, Held
<1> HIDE DEF d, e, f, kept
<1>9. Held'
  <2>1. \A y \in Sockets : sockets[y].jobs # {} => sockets[y].state # "free"
    BY DEF SInv, Held
  <2>2. d.state # "free"
    BY <1>3, <1>8
  <2>3. \A y \in Sockets : sockets'[y].jobs # {} => sockets'[y].state # "free"
    <3>1. \A y \in Sockets : sockets'[y] \in {f[y], Free}
      BY <1>1, Transport
    <3>2. Free.jobs = {}
      BY DEF Free
    <3>3. ASSUME NEW y \in Sockets, sockets'[y].jobs # {} PROVE sockets'[y].state # "free"
      <4>1. sockets'[y] = f[y]
        BY <3>1, <3>2, <3>3
      <4>2. CASE y = s
        BY <1>2, <2>2, <4>1, <4>2
      <4>3. CASE y # s
        <5>1. sockets'[y] = sockets[y]
          BY <1>2, <4>1, <4>3
        <5> QED BY <2>1, <3>3, <5>1
      <4> QED BY <4>2, <4>3
    <3> QED BY <3>3
  <2>4. ASSUME NEW v \in Workers, hand'[v].socket # NoSocket
        PROVE  sockets'[hand'[v].socket].state # "free"
    <3> DEFINE y == hand[v].socket
    <3>1. hand'[v].socket = y /\ y \in Sockets /\ sockets[y].state # "free"
      <4>1. hand'[v].socket = y
        BY <1>5, <1>6, <1>7, <2>4
      <4> QED BY <2>4, <4>1, Types DEF SInv, Held
    <3>2. sockets'[y] = f[y]
      <4>1. hand'[v].socket \in Sockets
        BY <3>1
      <4>2. sockets'[hand'[v].socket] = f[hand'[v].socket]
        BY <1>1, <4>1, Transport
      <4> QED BY <3>1, <4>2
    <3>3. f[y].state # "free"
      <4>1. CASE y = s
        BY <1>2, <2>2, <4>1
      <4>2. CASE y # s
        <5>1. f[y] = sockets[y]
          BY <1>2, <3>1, <4>2
        <5> QED BY <3>1, <5>1
      <4> QED BY <4>1, <4>2
    <3> QED BY <3>1, <3>2, <3>3
  <2>5. \A v \in Workers :
          /\ hand'[v].socket = NoSocket => hand'[v].event = "none"
          /\ hand'[v].event = "can_send" => hand'[v].completion = "can_send"
          /\ hand'[v].event = "bytes" => hand'[v].completion = "bytes"
    <3>1. ASSUME NEW v \in Workers, v # w
          PROVE  /\ hand'[v].socket = NoSocket => hand'[v].event = "none"
                 /\ hand'[v].event = "can_send" => hand'[v].completion = "can_send"
                 /\ hand'[v].event = "bytes" => hand'[v].completion = "bytes"
      BY <1>6, <3>1 DEF SInv, Held
    <3>2. /\ hand'[w].socket = NoSocket => hand'[w].event = "none"
          /\ hand'[w].event = "can_send" => hand'[w].completion = "can_send"
          /\ hand'[w].event = "bytes" => hand'[w].completion = "bytes"
      BY <1>1, <1>4, <1>5, <1>6, <1>7
    <3> QED BY <3>1, <3>2
  <2> QED BY <2>3, <2>4, <2>5 DEF Held
<1>10. ASSUME transport # NoSocket PROVE Serving(transport)'
  <2> DEFINE t == transport
  <2>1. t \in Sockets /\ Serving(t)
    BY <1>10, Types DEF SInv
  <2>2. transport' \in Sockets /\ transport' = t /\ sockets'[t] = f[t]
    BY <1>1, <2>1, Transport
  <2>3. CASE t # s
    <3>1. sockets'[t] = sockets[t]
      BY <1>2, <2>1, <2>2, <2>3
    <3>2. \A v \in Workers : hand'[v].socket = t \/ hand[v].socket = t => hand'[v] = hand[v]
      BY <1>5, <1>6, <1>7, <2>1, <2>3
    <3>3. \A j : Outstanding(t, j)' <=> Outstanding(t, j)
      BY <2>2, <3>1, <3>2 DEF Outstanding
    <3>4. EndingAt(t)' <=> EndingAt(t)
      BY <2>2, <3>2 DEF EndingAt
    <3> QED BY <1>1, <2>1, <2>2, <3>1, <3>3, <3>4 DEF Serving
  <2>4. CASE t = s
    <3>1. ~ EndingAt(t) /\ sockets[t].open /\ Outstanding(t, Moves[sockets[t].state])
      BY <1>1, <2>1, <2>4 DEF EndingAt, Serving
    <3>2. sockets'[t] = d /\ sockets[t] = c
      BY <1>2, <2>2, <2>4
    <3>3. x # "disconnect" /\ (state = "connection_pending" => x # "connected")
      BY <2>1, <2>4, OneOutcome DEF Serving, Outstanding
    <3>4. Outstanding(t, "disconnect")' => Outstanding(t, "disconnect")
      BY <1>3, <1>5, <1>6, <1>7, <2>2, <2>4, <3>2, OneOutcome DEF Outstanding
    <3>5. CASE x = "connected"
      <4>1. d.state = "receiving" /\ d.open /\ d.url = c.url /\ "receive" \in d.jobs
        BY <1>3, <3>1, <3>2, <3>5
      <4>2. Outstanding(t, "receive")'
        BY <2>2, <3>2, <4>1 DEF Outstanding
      <4> QED BY <1>1, <2>1, <2>2, <3>2, <3>3, <3>4, <3>5, <4>1, <4>2 DEF Serving, Moves
    <3>6. CASE x # "connected"
      <4>1. d.state = c.state /\ d.url = c.url /\ d.jobs = c.jobs
        BY <1>3, <3>6
      <4>2. e # "none" => \A j \in JobTypes : Outstanding(t, j)' <=> Outstanding(t, j)
        <5>1. ASSUME e # "none"
              PROVE  \A v \in Workers : /\ hand'[v].socket = hand[v].socket
                                        /\ hand'[v].completion = hand[v].completion
          BY <1>5, <1>6, <5>1
        <5> QED BY <2>2, <3>2, <4>1, <5>1 DEF Outstanding
      <4>3. e = "none" => /\ x \notin {"can_send", "bytes", "refused", "send_failed", "end"}
                          /\ d.open
        BY <1>3, <1>4, <3>1, <3>2, <3>3
      <4>4. \A j \in {"can_send", "connect", "receive"} : Outstanding(t, j) => Outstanding(t, j)'
        <5>1. CASE e # "none"
          BY <4>2, <5>1 DEF JobTypes
        <5>2. CASE e = "none"
          BY <1>6, <2>2, <3>2, <3>6, <4>1, <4>3, <5>2, OneOutcome DEF Outstanding
        <5> QED BY <5>1, <5>2
      <4>5. Outstanding(t, "connect")' => Outstanding(t, "connect")
        <5>1. \A v \in Workers : hand'[v].socket = t =>
                  hand[v].socket = t /\ hand'[v].completion = hand[v].completion
          BY <1>5, <1>6, <1>7, <2>1
        <5> QED BY <2>2, <3>2, <4>1, <5>1 DEF Outstanding
      <4>6. EndingAt(t)' \/ d.open
        <5>1. CASE e = "ending"
          BY <1>5, <1>6, <2>2, <2>4, <5>1 DEF EndingAt
        <5>2. CASE e # "ending"
          BY <1>3, <1>4, <3>1, <3>2, <3>3, <5>2
        <5> QED BY <5>1, <5>2
      <4> QED BY <1>1, <2>1, <2>2, <3>1, <3>2, <3>4, <4>1, <4>4, <4>5, <4>6 DEF Serving, Moves
    <3> QED BY <3>5, <3>6
  <2> QED BY <2>3, <2>4
<1> QED BY <1>1, <1>9, <1>10 DEF SInv

LEMMA SInvStep == Unresolvable = {} /\ SInv /\ [Next]_vars => SInv'
<1> SUFFICES ASSUME Unresolvable = {}, SInv, [Next]_vars PROVE SInv'
  OBVIOUS
<1>1. IInv'
  BY InductiveStep DEF SInv
<1>2. CASE UNCHANGED vars
  BY <1>1, <1>2, SocketsStill DEF vars, client
<1>3. ASSUME NEW url \in Urls, NEW limit \in RetryLimits, Get(url, limit) PROVE SInv'
  BY <1>1, <1>3, SocketsStill DEF Get
<1>4. CASE GetRefused
  BY <1>1, <1>4, SocketsStill DEF GetRefused
<1>5. CASE ResponseComplete
  <2>1. state' \in {"get_pending", "inactive"} /\ state = "response_complete"
    BY <1>5 DEF ResponseComplete, QueuePlanned
  <2> QED BY <1>1, <1>5, <2>1, SocketsStill DEF ResponseComplete
<1>6. CASE ClientJob
  BY <1>1, <1>4, <1>5, <1>6, GetOnOpenTransportServes, GetOnNewTransportServes DEF ClientJob
<1>7. ASSUME NEW w \in Workers, Deliver(w) PROVE SInv'
  <2>1. CASE ReceivedUnread(w)
    BY <1>1, <2>1, SocketsStill DEF ReceivedUnread, client
  <2>2. ASSUME NEW h \in Headers \cup {NoHeaders}, NEW g \in Reads,
               NEW more \in BOOLEAN, Received(w, h, g, more)
        PROVE  SInv'
    BY <1>1, <2>2, ReceivedServes
  <2> QED BY <1>1, <1>7, <2>1, <2>2, CanSendServes, EndingServes DEF Deliver
<1>8. ASSUME NEW w \in Workers, Complete(w) PROVE SInv'
  BY <1>1, <1>8, CompleteServes
<1>9. ASSUME NEW w \in Workers, NEW s \in Sockets, NEW j \in JobTypes, NEW c \in Outcomes(j),
             Dequeue(w, s, j, c)
      PROVE  SInv'
  BY <1>1, <1>9, DequeueServes
<1> QED BY <1>2, <1>3, <1>6, <1>7, <1>8, <1>9 DEF Next

-------------------------------------------------------------------------------
(* What follows where every host name resolves: with one that does not, the    *)
(* client keeps a transport that was never bound (Client::GetOnOpenTransport   *)
(* takes it for the next request), as the run client_unresolved shows.         *)

\* Every socket is in the state that what the client expects of it takes for granted, and
\* each completion held by a worker fits the socket it is for (ClientSocket, Client).
THEOREM SocketsInvariance ==
    ASSUME Unresolvable = {}
    PROVE  Spec => []SInv
BY SInvStart, SInvStep, PTL DEF Spec

\* The transport a request is written to leads to the server the request is for:
\* is_transport_reusable compares with the last transaction, not with the transport,
\* and still, whatever stale events come in between, the two agree.
THEOREM TransportsCompatible ==
    ASSUME Unresolvable = {}
    PROVE  Spec => []CompatibleTransport
<1>1. SInv => CompatibleTransport
  BY DEF SInv, Serving, Moves, IInv, NothingNull, CompatibleTransport
<1> QED BY <1>1, SocketsInvariance, PTL

\* The client never waits for a completion that is not to come: the answer to every
\* race of its sockets' events with its own jobs.
THEOREM NeverStranded ==
    ASSUME Unresolvable = {}
    PROVE  Spec => []Awaited
<1>1. SInv => Awaited
  <2> SUFFICES ASSUME SInv, state \in {"connection_pending", "response_pending"}
               PROVE  \/ sockets[transport].jobs \cap {"can_send", "connect", "receive"} # {}
                      \/ \E w \in Workers :
                           /\ hand[w].socket = transport
                           /\ \/ hand[w].event # "none"
                              \/ hand[w].completion \in
                                   {"can_send", "connected", "refused", "bytes", "end"}
    BY DEF Awaited
  <2>1. Serving(transport)
    BY DEF SInv, IInv, NothingNull
  <2>2. CASE EndingAt(transport)
    BY <2>2 DEF EndingAt
  <2>3. ASSUME NEW j \in {"can_send", "connect", "receive"}, Outstanding(transport, j)
        PROVE  \/ sockets[transport].jobs \cap {"can_send", "connect", "receive"} # {}
               \/ \E w \in Workers :
                    /\ hand[w].socket = transport
                    /\ hand[w].completion \in {"can_send", "connected", "refused", "bytes", "end"}
    BY <2>3, OneOutcome DEF Outstanding
  <2> QED BY <2>1, <2>2, <2>3 DEF Serving, Moves
<1> QED BY <1>1, SocketsInvariance, PTL

-------------------------------------------------------------------------------
(* One worker, and peers whose responses are well formed and that speak only    *)
(* when they are asked.                                                        *)

WellBehaved ==
    /\ \A v, w \in Workers : v = w
    /\ TrailingBytes = FALSE
    /\ Reads \cap Malformed = {}

\* What a socket's peer still owes is the response the client waits for, and bytes
\* are in a worker's hand only while it waits.
Turns ==
    /\ ~ fatal
    /\ \A s \in Sockets : sockets[s].owes => s = transport \/ \E w \in Workers : hand[w].socket = s
    /\ transport # NoSocket /\ sockets[transport].owes => state = "response_pending"
    /\ \A w \in Workers :
         /\ hand[w].completion = "bytes" => hand[w].socket = transport /\ state = "response_pending"
         /\ hand[w].event = "bytes" => hand[w].completion = "bytes"

FInv == IInv /\ Turns

LEMMA FInvStart == Init => FInv
BY InductiveStart DEF Init, FInv, Turns, Free, Idle

\* Sockets that nobody holds are gone, so nothing is owed on them.
LEMMA TurnsStep ==
    ASSUME FInv, NEW f \in [Sockets -> SocketRecords], NetworkBecomes(f), IInv', ~ fatal',
           transport' # NoSocket /\ f[transport'].owes => state' = "response_pending",
           \A w \in Workers :
             /\ hand'[w].completion = "bytes" =>
                    hand'[w].socket = transport' /\ state' = "response_pending"
             /\ hand'[w].event = "bytes" => hand'[w].completion = "bytes"
    PROVE  FInv'
<1>1. \A s \in Sockets : sockets'[s].owes => s = transport' \/ \E w \in Workers : hand'[w].socket = s
  <2>1. Free.owes = FALSE
    BY DEF Free
  <2> QED BY <2>1 DEF NetworkBecomes
<1>2. transport' \in Sockets \cup {NoSocket}
  BY DEF IInv, TypeOK
<1>3. transport' # NoSocket => sockets'[transport'] = f[transport']
  BY <1>2, Transport
<1> QED BY <1>1, <1>3 DEF FInv, Turns

\* Nothing the step touches is about bytes: no socket and no worker changes.
LEMMA TurnsStill ==
    ASSUME FInv, IInv', UNCHANGED <<transport, sockets, hand, fatal>>,
           state' = state \/ state # "response_pending"
    PROVE  FInv'
BY DEF FInv, Turns

\* What the client writes changes what is owed on its transport only.
LEMMA WriteTyped ==
    ASSUME NEW c \in SocketRecords
    PROVE  Write(c) \in SocketRecords
<1>1. /\ {"connecting"} \subseteq SocketStates /\ {"connect", "send"} \subseteq JobTypes
  BY DEF SocketStates, JobTypes
<1>2. CASE c.state = "bound"
  <2>1. Write(c) = [c EXCEPT !.state = "connecting", !.jobs = @ \cup {"connect"}, !.owes = TRUE]
    BY <1>2 DEF Write
  <2> QED BY <1>1, <2>1 DEF SocketRecords
<1>3. CASE c.state = "receiving"
  <2>1. Write(c) = [c EXCEPT !.jobs = @ \cup {"send"}, !.owes = TRUE]
    BY <1>3 DEF Write
  <2> QED BY <1>1, <2>1 DEF SocketRecords
<1>4. CASE c.state \notin {"bound", "receiving"}
  <2>1. Write(c) = [c EXCEPT !.buffered = TRUE]
    BY <1>4 DEF Write
  <2> QED BY <2>1 DEF SocketRecords
<1> QED BY <1>2, <1>3, <1>4

LEMMA SendRequestTurns ==
    ASSUME FInv, IInv', SendRequest(sockets), UNCHANGED <<transport, fatal>>,
           \A w \in Workers : hand'[w] = hand[w] \/ hand'[w] = Idle,
           \A w \in Workers : hand'[w].completion # "bytes"
    PROVE  FInv'
<1> DEFINE f == [sockets EXCEPT ![transport] = Write(@)]
<1>1. NetworkBecomes(f) /\ state' = "response_pending"
  BY DEF SendRequest
<1>2. f \in [Sockets -> SocketRecords]
  <2>1. transport \in Sockets => Write(sockets[transport]) \in SocketRecords
    BY Types, WriteTyped DEF FInv
  <2> QED BY <2>1, Types DEF FInv
<1>3. ~ fatal'
  BY DEF FInv, Turns
<1>4. \A w \in Workers : hand'[w].event = "bytes" => hand'[w].completion = "bytes"
  BY DEF FInv, Turns, Idle
<1> HIDE DEF f
<1> QED BY <1>1, <1>2, <1>3, <1>4, TurnsStep

\* While a Get waits for its turn nothing is owed, so what the workers hold is not bytes.
LEMMA GetOnOpenTransportTurns ==
    ASSUME FInv, IInv', GetOnOpenTransport
    PROVE  FInv'
<1>1. /\ SendRequest(sockets) /\ UNCHANGED <<transport, hand, fatal>> /\ state = "get_pending"
  BY DEF GetOnOpenTransport
<1>2. \A w \in Workers : hand'[w].completion # "bytes"
  BY <1>1 DEF FInv, Turns
<1> QED BY <1>1, <1>2, SendRequestTurns

LEMMA GetOnNewTransportTurns ==
    ASSUME FInv, IInv', NEW s \in Sockets, GetOnNewTransport(s)
    PROVE  FInv'
<1> DEFINE old == [x \in Sockets |-> IF x = transport THEN WriteEof(sockets[x]) ELSE sockets[x]]
           c == Created(plan.request)
           f == [old EXCEPT ![s] = c]
           g == [old EXCEPT ![s] = StartConnect(c)]
<1>1. /\ transport' = s /\ state = "get_pending" /\ UNCHANGED <<hand, fatal>>
      /\ NetworkBecomes(f) \/ NetworkBecomes(g)
  BY DEF GetOnNewTransport
<1>2. {"can_send", "disconnect"} \subseteq JobTypes /\ {"free", "new", "bound"} \subseteq SocketStates
  BY DEF JobTypes, SocketStates
<1>3. old \in [Sockets -> SocketRecords]
  <2>1. \A x \in Sockets : WriteEof(sockets[x]) \in SocketRecords
    BY <1>2, Types DEF WriteEof, SocketRecords, FInv
  <2> QED BY <2>1, Types DEF FInv
<1>4. /\ c \in SocketRecords /\ StartConnect(c) \in SocketRecords
      /\ c.owes = FALSE /\ StartConnect(c).owes = FALSE
  <2>1. plan.request \in Requests
    BY Types DEF Plans, FInv
  <2>2. Free \in SocketRecords /\ Free.owes = FALSE
    BY <1>2 DEF Free, SocketRecords, Requests
  <2>3. c \in SocketRecords /\ c.owes = FALSE
    <3>1. c = [Free EXCEPT !.state = "new", !.open = TRUE, !.url = plan.request]
      BY DEF Created
    <3> HIDE DEF c
    <3> QED BY <1>2, <2>1, <2>2, <3>1 DEF SocketRecords
  <2> HIDE DEF c
  <2> QED BY <1>2, <2>3 DEF StartConnect, SocketRecords
<1> HIDE DEF old, c
<1>5. /\ f \in [Sockets -> SocketRecords] /\ ~ f[s].owes
      /\ g \in [Sockets -> SocketRecords] /\ ~ g[s].owes
  BY <1>3, <1>4
<1>6. /\ \A w \in Workers : hand'[w].completion # "bytes" /\ hand'[w].event # "bytes"
      /\ ~ fatal'
  BY <1>1 DEF FInv, Turns
<1> HIDE DEF f, g
<1>7. CASE NetworkBecomes(f)
  BY <1>1, <1>5, <1>6, <1>7, TurnsStep
<1>8. CASE NetworkBecomes(g)
  BY <1>1, <1>5, <1>6, <1>8, TurnsStep
<1> QED BY <1>1, <1>7, <1>8

\* The only worker has left: nobody holds anything.
LEMMA LeaveAlone ==
    ASSUME \A v, w \in Workers : v = w, FInv, NEW w \in Workers, Leave(w)
    PROVE  \A v \in Workers : hand'[v] = Idle
BY Types DEF Leave, FInv

LEMMA CanSendTurns ==
    ASSUME \A v, w \in Workers : v = w, FInv, IInv', NEW w \in Workers, CanSend(w)
    PROVE  FInv'
<1>1. /\ Leave(w) /\ UNCHANGED <<transport, fatal>>
      /\ SendRequest(sockets) \/ (NetworkBecomes(sockets) /\ state' = state)
  BY DEF CanSend
<1>2. \A v \in Workers : hand'[v] = Idle
  BY <1>1, LeaveAlone
<1>3. \A v \in Workers : hand'[v].completion # "bytes" /\ hand'[v].event # "bytes"
  BY <1>2 DEF Idle
<1>4. CASE SendRequest(sockets)
  BY <1>1, <1>2, <1>3, <1>4, SendRequestTurns
<1>5. CASE NetworkBecomes(sockets) /\ state' = state
  <2>1. transport' # NoSocket /\ sockets[transport'].owes => state' = "response_pending"
    BY <1>1, <1>5 DEF FInv, Turns
  <2>2. ~ fatal' /\ sockets \in [Sockets -> SocketRecords]
    BY <1>1, Types DEF FInv, Turns
  <2> QED BY <1>3, <1>5, <2>1, <2>2, TurnsStep
<1> QED BY <1>1, <1>4, <1>5

LEMMA EndingTurns ==
    ASSUME \A v, w \in Workers : v = w, FInv, IInv', NEW w \in Workers, Ending(w)
    PROVE  FInv'
<1>1. Leave(w) /\ transport' = NoSocket /\ NetworkBecomes(sockets) /\ UNCHANGED fatal
  BY DEF Ending, EndingIn
<1>2. \A v \in Workers : hand'[v].completion # "bytes" /\ hand'[v].event # "bytes"
  BY <1>1, LeaveAlone DEF Idle
<1>3. ~ fatal' /\ sockets \in [Sockets -> SocketRecords]
  BY <1>1, Types DEF FInv, Turns
<1> QED BY <1>1, <1>2, <1>3, TurnsStep

\* A response read to its end leaves nothing owed; one that is not leaves the client
\* waiting.
LEMMA ReceivedTurns ==
    ASSUME WellBehaved, FInv, IInv', NEW w \in Workers, NEW h, NEW g \in Reads,
           NEW more \in BOOLEAN, Received(w, h, g, more)
    PROVE  FInv'
<1> DEFINE s == hand[w].socket
           f == [sockets EXCEPT ![s] = AfterRead(@, more)]
<1>1. /\ Leave(w) /\ hand[w].event = "bytes" /\ state = "response_pending"
      /\ fatal' \in Unread(frame, g) /\ more \in More(g)
  BY DEF Received
<1>2. g \notin Malformed /\ g # "stuck" /\ g # "failed" /\ frame # "stuck"
  <2>1. g \in FrameSteps(frame, h)
    BY DEF Received
  <2>2. frame = "stuck" => FrameSteps(frame, h) = {"stuck"}
    BY DEF FrameSteps
  <2> QED BY <2>1, <2>2 DEF WellBehaved, Malformed
<1>3. ~ fatal'
  BY <1>1, <1>2 DEF Unread, WellBehaved
<1>4. \A v \in Workers : hand'[v].completion # "bytes" /\ hand'[v].event # "bytes"
  BY <1>1, LeaveAlone DEF Idle, WellBehaved
<1>5. s = transport
  BY <1>1 DEF FInv, Turns
<1>6. /\ NetworkBecomes(f) /\ transport' = transport
      /\ g # "done" => state' = state
  BY <1>2 DEF Received
<1>7. f \in [Sockets -> SocketRecords]
  <2>1. {"receive"} \subseteq JobTypes
    BY DEF JobTypes
  <2>2. \A c \in SocketRecords : AfterRead(c, more) \in SocketRecords
    BY <2>1 DEF AfterRead, Restarted, SocketRecords
  <2> QED BY <2>2, Types DEF FInv
<1>8. transport' # NoSocket /\ f[transport'].owes => state' = "response_pending"
  <2>1. CASE g = "done" /\ transport \in Sockets
    <3>1. f[transport] = AfterRead(sockets[transport], more)
      BY <1>5, <2>1, Types DEF FInv
    <3>2. more = FALSE
      BY <1>1, <1>2, <2>1 DEF More
    <3>3. AfterRead(sockets[transport], more).owes = FALSE
      BY <2>1, <3>2, Types, ReadsOnward DEF FInv
    <3> QED BY <1>6, <3>1, <3>3
  <2>2. CASE g # "done"
    BY <1>1, <1>6, <2>2
  <2> QED BY <1>6, <2>1, <2>2, Types DEF FInv
<1> HIDE DEF f
<1> QED BY <1>3, <1>4, <1>6, <1>7, <1>8, TurnsStep

LEMMA CompleteTurns ==
    ASSUME FInv, IInv', NEW w \in Workers, Complete(w)
    PROVE  FInv'
<1> DEFINE s == hand[w].socket
           x == hand[w].completion
           c == sockets[s]
           d == Completed(c, x)
           e == EventOf(c, x)
           f == [sockets EXCEPT ![s] = d]
           kept == [hand[w] EXCEPT !.event = e]
<1>1. /\ s \in Sockets /\ c \in SocketRecords
      /\ hand' = [hand EXCEPT ![w] = IF e = "none" THEN Idle ELSE kept]
      /\ NetworkBecomes(f) /\ UNCHANGED <<state, transport, fatal>>
  BY Types DEF Complete, client, FInv
<1>2. d \in SocketRecords /\ d.owes = c.owes
  <2>1. {"receiving"} \subseteq SocketStates /\ {"receive", "send"} \subseteq JobTypes
    BY DEF SocketStates, JobTypes
  <2>2. CASE x = "connected"
    <3>1. d = Connected(c)
      BY <2>2, Zenon DEF Completed
    <3>2. Connected(c) \in SocketRecords
      BY <1>1, <2>1 DEF Connected, SocketRecords
    <3> QED BY <1>1, <3>1, <3>2, Handled
  <2>3. CASE x \in {"refused", "send_failed", "end", "disconnect"}
    BY <1>1, <2>3 DEF Completed, Disconnect, SocketRecords
  <2>4. CASE x \notin {"connected", "refused", "send_failed", "end", "disconnect"}
    BY <1>1, <2>4 DEF Completed
  <2> QED BY <2>2, <2>3, <2>4
<1>3. kept.socket = s /\ kept.completion = x /\ kept.event = e
  BY <1>1, Types DEF FInv, Hands
<1>4. e = "bytes" => x = "bytes"
  BY DEF EventOf
<1>5. Idle.completion = "none" /\ Idle.event = "none"
  BY DEF Idle
<1>6. \A v \in Workers :
         hand'[v] = hand[v] \/ (v = w /\ hand'[v] \in {Idle, kept})
  BY <1>1, Types DEF FInv
<1> HIDE DEF d, e, kept
<1>7. f \in [Sockets -> SocketRecords] /\ \A y \in Sockets : f[y].owes = sockets[y].owes
  BY <1>1, <1>2, Types DEF FInv
<1>8. transport' # NoSocket /\ f[transport'].owes => state' = "response_pending"
  BY <1>1, <1>7, Types DEF FInv, Turns
<1>9. \A v \in Workers :
        /\ hand'[v].completion = "bytes" =>
               hand'[v].socket = transport' /\ state' = "response_pending"
        /\ hand'[v].event = "bytes" => hand'[v].completion = "bytes"
  BY <1>1, <1>3, <1>4, <1>5, <1>6 DEF FInv, Turns
<1>10. ~ fatal'
  BY <1>1 DEF FInv, Turns
<1> HIDE DEF f
<1> QED BY <1>1, <1>7, <1>8, <1>9, <1>10, TurnsStep

\* A peer that speaks only when asked is read only while the client waits for it.
LEMMA DequeueTurns ==
    ASSUME WellBehaved, FInv, IInv',
           NEW w \in Workers, NEW s \in Sockets, NEW j \in JobTypes, NEW c \in Outcomes(j),
           Dequeue(w, s, j, c)
    PROVE  FInv'
<1> DEFINE held == [socket |-> s, completion |-> c, event |-> "none"]
<1>1. /\ hand[w] = Idle
      /\ c = "bytes" => sockets[s].owes
      /\ hand' = [hand EXCEPT ![w] = held]
      /\ sockets' = [sockets EXCEPT ![s].jobs = @ \ {j}]
      /\ UNCHANGED <<state, transport, fatal>>
  BY DEF Dequeue, Possible, client, WellBehaved
<1>2. \A v \in Workers : v = w /\ hand[v].socket = NoSocket /\ hand'[v] = held
  BY <1>1, Types DEF FInv, Idle, WellBehaved
<1>3. \A y \in Sockets : sockets'[y].owes = sockets[y].owes
  BY <1>1, Types DEF FInv, SocketRecords
<1>4. \A y \in Sockets : sockets[y].owes => y = transport /\ state = "response_pending"
  BY <1>2 DEF FInv, Turns
<1>5. c = "bytes" => s = transport /\ state = "response_pending"
  BY <1>1, <1>4
<1> QED BY <1>1, <1>2, <1>3, <1>4, <1>5, Types DEF FInv, Turns

LEMMA FInvStep ==
    ASSUME WellBehaved
    PROVE  FInv /\ [Next]_vars => FInv'
<1> SUFFICES ASSUME FInv, [Next]_vars PROVE FInv'
  OBVIOUS
<1>1. IInv'
  BY InductiveStep DEF FInv
<1>2. CASE UNCHANGED vars
  BY <1>1, <1>2, TurnsStill DEF vars, client
<1>3. ASSUME NEW url \in Urls, NEW limit \in RetryLimits, Get(url, limit) PROVE FInv'
  BY <1>1, <1>3, TurnsStill DEF Get
<1>4. CASE GetRefused
  BY <1>1, <1>4, TurnsStill DEF GetRefused
<1>5. CASE ResponseComplete
  BY <1>1, <1>5, TurnsStill DEF ResponseComplete
<1>6. CASE ClientJob
  BY <1>1, <1>4, <1>5, <1>6, GetOnOpenTransportTurns, GetOnNewTransportTurns DEF ClientJob
<1>7. ASSUME NEW w \in Workers, Deliver(w) PROVE FInv'
  <2>1. CASE ReceivedUnread(w)
    BY <2>1 DEF ReceivedUnread, FInv, Turns
  <2>2. ASSUME NEW h \in Headers \cup {NoHeaders}, NEW g \in Reads,
               NEW more \in BOOLEAN, Received(w, h, g, more)
        PROVE  FInv'
    BY <1>1, <2>2, ReceivedTurns
  <2> QED BY <1>1, <1>7, <2>1, <2>2, CanSendTurns, EndingTurns DEF Deliver, WellBehaved
<1>8. ASSUME NEW w \in Workers, Complete(w) PROVE FInv'
  BY <1>1, <1>8, CompleteTurns
<1>9. ASSUME NEW w \in Workers, NEW s \in Sockets, NEW j \in JobTypes, NEW c \in Outcomes(j),
             Dequeue(w, s, j, c)
      PROVE  FInv'
  BY <1>1, <1>9, DequeueTurns
<1> QED BY <1>2, <1>3, <1>6, <1>7, <1>8, <1>9 DEF Next

\* With one worker, and peers whose responses are well formed and that send nothing past
\* their end, bytes reach the client only in response_pending, it reads all of them, and
\* ConnectedSocket::Received never throws.  A malformed response may well make it throw.
THEOREM NeverFatal ==
    ASSUME WellBehaved
    PROVE  Spec => []NoFatalError
<1>1. FInv => NoFatalError
  BY DEF FInv, Turns, NoFatalError
<1> QED BY <1>1, FInvStart, FInvStep, PTL DEF Spec

===============================================================================
