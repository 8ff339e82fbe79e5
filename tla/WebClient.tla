------------------------------ MODULE WebClient ------------------------------
(* Web::Client over plain ClientSockets.  The client is a state machine under  *)
(* one lock; its sockets are driven by completion-port workers.  A worker that *)
(* has dequeued a socket's completion keeps the socket alive (Job::complete    *)
(* locks the weak completer), takes the socket's lock, and calls the client,   *)
(* so an event of a socket the client has meanwhile dropped can still reach    *)
(* it.  Each handler runs under the client's lock and is one action here.      *)
EXTENDS Naturals, FiniteSets

CONSTANTS
    Urls,           \* resources, up to what the client compares: scheme, host, port
    NotHttp,        \* those whose scheme is neither http nor https
    Unresolvable,   \* those whose host name does not resolve
    NoRequest,      \* a null std::shared_ptr<Request>
    Sockets,        \* identities of ClientSocket objects
    NoSocket,       \* a null transport
    Workers,        \* threads that handle socket completions
    RetryLimits,    \* values of Get's max_retries argument
    MaxRedirects,   \* 5 in Client::Redirect
    Reads,          \* states in which one receive may leave the response frame
    TrailingBytes   \* may a receive hold bytes past the end of the response?

\* How far a ResponseFrame has come.  An error in the first line leaves it
\* "failed", which the client sees at once; headers or a body that fail leave it
\* "stuck": process_event_change_state_on_fail says blocked, as if more were due.
FrameStates == {"start", "body", "to_close", "done", "failed", "stuck"}
Malformed == {"failed", "stuck"}

ASSUME ClientAssumption ==
    /\ NotHttp \subseteq Urls
    /\ Unresolvable \subseteq Urls
    /\ NoRequest \notin Urls
    /\ NoSocket \notin Sockets
    /\ RetryLimits \subseteq Nat
    /\ MaxRedirects \in Nat
    /\ Reads \subseteq FrameStates
    /\ TrailingBytes \in BOOLEAN

VARIABLES
    state,          \* Client::State
    plan,           \* planned_request, retries and redirects
    max_retries,
    transaction,    \* the request of the current transaction
    transport,      \* the socket the client writes to
    frame,          \* response_frame: how far the response has been read
    jobs,           \* client jobs on the completion queue
    sockets,        \* the ClientSocket objects and their pending completions
    hand,           \* what each worker has dequeued
    sent, told, owed,   \* history: requests sent, headers told, completions owed
    fatal           \* a FatalError has ended the process

client == <<state, plan, max_retries, transaction, frame, jobs, sent, told, owed>>
vars == <<client, transport, sockets, hand, fatal>>

States == {"inactive", "get_pending", "connection_pending",
           "response_pending", "response_complete"}
Requests == Urls \cup {NoRequest}
Plans == [request : Requests, retries : Nat, redirects : Nat]

(* ------------------------------- sockets ---------------------------------- *)

\* Completions a socket can have outstanding, and how each can turn out.
JobTypes == {"can_send", "connect", "send", "receive", "disconnect"}
Outcomes(j) ==
    CASE j = "connect" -> {"connected", "refused"}
      [] j = "send"    -> {"sent", "send_failed"}
      [] j = "receive" -> {"bytes", "end"}
      [] OTHER         -> {j}
Completions == UNION {Outcomes(j) : j \in JobTypes}
Events == {"can_send", "bytes", "ending"}

SocketStates == {"free", "new", "bound", "connecting", "receiving"}
SocketRecords == [state : SocketStates, open : BOOLEAN, buffered : BOOLEAN,
                  owes : BOOLEAN, url : Requests, jobs : SUBSET JobTypes]

Free == [state |-> "free", open |-> FALSE, buffered |-> FALSE, owes |-> FALSE,
         url |-> NoRequest, jobs |-> {}]

Created(url) == [Free EXCEPT !.state = "new", !.open = TRUE, !.url = url]

StartConnect(c) == [c EXCEPT !.state = "bound", !.jobs = @ \cup {"can_send"}]

\* The first write connects and carries the bytes; one before or during the
\* connect is buffered; later ones go straight to WSASend.
Write(c) ==
    CASE c.state = "bound" ->
            [c EXCEPT !.state = "connecting", !.jobs = @ \cup {"connect"}, !.owes = TRUE]
      [] c.state = "receiving" ->
            [c EXCEPT !.jobs = @ \cup {"send"}, !.owes = TRUE]
      [] OTHER -> [c EXCEPT !.buffered = TRUE]

WriteEof(c) == [c EXCEPT !.jobs = @ \cup {"disconnect"}]

\* Closes the socket and forgets the protocol, so nobody is notified again.
Disconnect(c) == [c EXCEPT !.open = FALSE]

ConnectedDeaf(c) == [c EXCEPT !.state = "receiving"]

\* The connect completed: start receiving and flush what was buffered.
Connected(c) ==
    [c EXCEPT !.state = "receiving", !.buffered = FALSE,
              !.jobs = @ \cup {"receive"} \cup (IF c.buffered THEN {"send"} ELSE {})]

Idle == [socket |-> NoSocket, completion |-> "none", event |-> "none"]
Hands == [socket : Sockets \cup {NoSocket}, completion : Completions \cup {"none"},
          event : Events \cup {"none"}]

\* A socket lives while the client or a worker refers to it; completions that
\* find no live socket do nothing.
NetworkBecomes(f) ==
    sockets' = [s \in Sockets |->
                  IF s = transport' \/ \E w \in Workers : hand'[w].socket = s
                  THEN f[s] ELSE Free]

(* ------------------------------ the client -------------------------------- *)

\* Faulty variants, here and below, are what the properties are tried against:
\* each is its neighbour with a mistake the code could have made.
RedirectedForEver(p, url) ==
    [request |-> url, retries |-> 0, redirects |-> p.redirects + 1]

\* Client::Redirect and Client::Retry.
Redirected(p, url) ==
    IF p.redirects = MaxRedirects
    THEN [p EXCEPT !.request = NoRequest]
    ELSE [request |-> url, retries |-> 0, redirects |-> p.redirects + 1]

Retried(p, request) ==
    IF p.retries = max_retries
    THEN [p EXCEPT !.request = NoRequest]
    ELSE [request |-> request, retries |-> p.retries + 1, redirects |-> p.redirects]

CompletionForgotten == UNCHANGED owed

CompletionTwice == owed' = owed - 2

Completion == owed' = owed - 1

QueuePlannedJobless(p, queued) ==
    /\ plan' = p
    /\ IF p.request # NoRequest
       THEN state' = "get_pending" /\ jobs' = queued /\ UNCHANGED owed
       ELSE state' = "inactive" /\ jobs' = queued /\ Completion

\* queued: the client jobs on the queue besides the one being handled
QueuePlanned(p, queued) ==
    /\ plan' = p
    /\ IF p.request # NoRequest
       THEN state' = "get_pending" /\ jobs' = queued + 1 /\ UNCHANGED owed
       ELSE state' = "inactive" /\ jobs' = queued /\ Completion

SendRequestUnswitched(f) ==
    /\ UNCHANGED state
    /\ transaction' = plan.request
    /\ frame' = "start"
    /\ sent' = sent + 1
    /\ told' = FALSE
    /\ NetworkBecomes([f EXCEPT ![transport] = Write(@)])

\* A new transaction and response frame; the request is written to the transport.
SendRequest(f) ==
    /\ state' = "response_pending"
    /\ transaction' = plan.request
    /\ frame' = "start"
    /\ sent' = sent + 1
    /\ told' = FALSE
    /\ NetworkBecomes([f EXCEPT ![transport] = Write(@)])

Init ==
    /\ state = "inactive"
    /\ plan = [request |-> NoRequest, retries |-> 0, redirects |-> 0]
    /\ max_retries \in RetryLimits
    /\ transaction = NoRequest
    /\ transport = NoSocket
    /\ frame = "start"
    /\ jobs = 0
    /\ sockets = [s \in Sockets |-> Free]
    /\ hand = [w \in Workers |-> Idle]
    /\ sent = 0 /\ told = FALSE /\ owed = 0
    /\ fatal = FALSE

\* Client::Get; called in any other state it throws, so callers wait their turn.
Get(url, limit) ==
    /\ state = "inactive"
    /\ max_retries' = limit
    /\ owed' = owed + 1
    /\ plan' = [request |-> url, retries |-> 0, redirects |-> 0]
    /\ state' = "get_pending"
    /\ jobs' = jobs + 1
    /\ sent' = 0 /\ told' = FALSE
    /\ UNCHANGED <<transaction, transport, frame, sockets, hand, fatal>>

(* --- the client's own job, in get_pending and response_complete ------------ *)

\* Neither branch reaches the network: not an http url, or no address for it.
GetRefused ==
    /\ state = "get_pending" /\ jobs > 0
    /\ plan.request \in NotHttp
    /\ state' = "inactive"
    /\ jobs' = jobs - 1
    /\ Completion
    /\ UNCHANGED <<plan, max_retries, transaction, transport, frame, sockets, hand,
                   sent, told, fatal>>

reusable_for_anyone == transport # NoSocket /\ transaction # NoRequest

\* The test looks at the last transaction's url, not at the transport's own.
is_transport_reusable ==
    /\ transport # NoSocket
    /\ transaction # NoRequest
    /\ plan.request = transaction

GetOnOpenTransport ==
    /\ state = "get_pending" /\ jobs > 0
    /\ plan.request \notin NotHttp
    /\ is_transport_reusable
    /\ jobs' = jobs - 1
    /\ UNCHANGED <<transport, hand>>
    /\ SendRequest(sockets)
    /\ UNCHANGED <<plan, max_retries, owed, fatal>>

\* The old transport is told to disconnect and dropped, a socket is created, and
\* either the host does not resolve or a connect is started.
GetOnNewTransport(s) ==
    /\ state = "get_pending" /\ jobs > 0
    /\ plan.request \notin NotHttp
    /\ ~ is_transport_reusable
    /\ sockets[s].state = "free"
    /\ jobs' = jobs - 1
    /\ transport' = s
    /\ UNCHANGED hand
    /\ LET old  == [x \in Sockets |-> IF x = transport THEN WriteEof(sockets[x]) ELSE sockets[x]]
           c    == Created(plan.request)
       IN IF plan.request \in Unresolvable
          THEN /\ state' = "inactive"
               /\ Completion
               /\ NetworkBecomes([old EXCEPT ![s] = c])
          ELSE /\ state' = "connection_pending"
               /\ UNCHANGED owed
               /\ NetworkBecomes([old EXCEPT ![s] = StartConnect(c)])
    /\ UNCHANGED <<plan, max_retries, transaction, frame, sent, told, fatal>>

\* The cookies are stored (not modelled) and the planned request, if any, is next.
ResponseComplete ==
    /\ state = "response_complete" /\ jobs > 0
    /\ QueuePlanned(plan, jobs - 1)
    /\ UNCHANGED <<max_retries, transaction, transport, frame, sockets, hand, sent, told, fatal>>

(* --- events of a socket, on worker w --------------------------------------- *)

\* After the client's handler the worker leaves the socket.  A receive is
\* restarted on a socket that is still open.
Leave(w) == hand' = [hand EXCEPT ![w] = Idle]

Restarted(c) == IF c.open THEN [c EXCEPT !.jobs = @ \cup {"receive"}] ELSE c

CanSend(w) ==
    /\ hand[w].event = "can_send"
    /\ Leave(w)
    /\ UNCHANGED transport
    /\ IF state = "connection_pending"
       THEN SendRequest(sockets)
       ELSE NetworkBecomes(sockets) /\ UNCHANGED <<state, transaction, frame, sent, told>>
    /\ UNCHANGED <<plan, max_retries, jobs, owed, fatal>>

\* element_stream_ending_event: whichever socket it came from, the transport goes;
\* in the given states the client was waiting for it and plans a retry.
EndingIn(w, states) ==
    /\ hand[w].event = "ending"
    /\ Leave(w)
    /\ transport' = NoSocket
    /\ IF state \in states
       THEN QueuePlanned(Retried(plan, plan.request), jobs)
       ELSE UNCHANGED <<state, plan, jobs, owed>>
    /\ NetworkBecomes(sockets)
    /\ UNCHANGED <<max_retries, transaction, frame, sent, told, fatal>>

EndingMissedConnecting(w) == EndingIn(w, {"response_pending"})
EndingMissedResponding(w) == EndingIn(w, {"connection_pending"})

Ending(w) == EndingIn(w, {"connection_pending", "response_pending"})

\* What the headers of a response make the client plan.
Headers == [kind : {"final", "unavailable"}, url : {NoRequest}] \cup
           [kind : {"redirect"}, url : Urls]
NoHeaders == [kind |-> "none", url |-> NoRequest]

Planned(p, h) ==
    CASE h.kind = "redirect"    -> Redirected(p, h.url)
      [] h.kind = "unavailable" -> Retried(p, transaction)
      [] OTHER                  -> p

\* How far one receive takes the frame: from f, meeting headers h, to g.
FrameSteps(f, h) ==
    CASE f = "start" /\ h = NoHeaders -> {"start", "failed", "stuck"}
      [] f = "start" /\ h # NoHeaders -> {"body", "to_close", "done", "stuck"}
      [] f = "body"                   -> {"body", "done", "stuck"}
      [] f = "to_close"               -> {"to_close", "stuck"}
      [] OTHER                        -> {f}

\* The peer owes nothing more once its response has been read; what follows the
\* place where a response went wrong may still be on its way, or not.
More(g) == IF g \in Malformed THEN BOOLEAN ELSE {g # "done"}

AfterRead(c, more) == Restarted([c EXCEPT !.owes = @ /\ more])

\* Bytes the frame leaves unread are a FatalError: what follows an error in the
\* same receive, all that is given to a frame already stuck, trailing bytes.
Unread(f, g) ==
    CASE f = "stuck"      -> {TRUE}
      [] g \in Malformed  -> BOOLEAN
      [] g = "done"       -> {FALSE, TrailingBytes}
      [] OTHER            -> {FALSE}

\* received_bytes_event in response_pending.  The plan is cleared on every
\* receive; headers may set it again within the same receive.  The client looks
\* for a failure only when the frame does not say blocked.
Received(w, h, g, more) ==
    /\ hand[w].event = "bytes"
    /\ state = "response_pending"
    /\ h # NoHeaders => frame = "start"
    /\ g \in FrameSteps(frame, h) \cap Reads
    /\ Leave(w)
    /\ frame' = g
    /\ more \in More(g)
    /\ LET s == hand[w].socket
           p == Planned([plan EXCEPT !.request = NoRequest], h)
           f == [sockets EXCEPT ![s] = AfterRead(@, more)]
       IN /\ told' = (told \/ (h # NoHeaders /\ p.request = NoRequest))
          /\ CASE g = "failed" \/ frame = "stuck" ->
                    /\ transport' = NoSocket
                    /\ QueuePlanned(Retried(p, transaction), jobs)
                    /\ NetworkBecomes([x \in Sockets |->
                            IF x = transport THEN WriteEof(f[x]) ELSE f[x]])
               [] g = "done" ->
                    /\ plan' = p
                    /\ state' = "response_complete"
                    /\ jobs' = jobs + 1
                    /\ UNCHANGED <<transport, owed>>
                    /\ NetworkBecomes(f)
               [] OTHER ->
                    /\ plan' = p
                    /\ UNCHANGED <<transport, state, jobs, owed>>
                    /\ NetworkBecomes(f)
    /\ fatal' \in Unread(frame, g)
    /\ UNCHANGED <<max_retries, transaction, sent>>

\* Bytes in any other state are not read, and ConnectedSocket::Received throws.
ReceivedUnread(w) ==
    /\ hand[w].event = "bytes"
    /\ state # "response_pending"
    /\ fatal' = TRUE
    /\ UNCHANGED <<client, transport, sockets, hand>>

(* --- workers ---------------------------------------------------------------- *)

\* A peer answers requests and may close at any time; without TrailingBytes it
\* sends nothing unasked.
Possible(s, c) ==
    c = "bytes" => sockets[s].state = "receiving" /\ (sockets[s].owes \/ TrailingBytes)

Dequeue(w, s, j, c) ==
    /\ hand[w] = Idle
    /\ j \in sockets[s].jobs
    /\ c \in Outcomes(j)
    /\ Possible(s, c)
    /\ hand' = [hand EXCEPT ![w] = [socket |-> s, completion |-> c, event |-> "none"]]
    /\ sockets' = [sockets EXCEPT ![s].jobs = @ \ {j}]
    /\ UNCHANGED <<client, transport, fatal>>

\* Socket::complete, under the socket's lock: what happens to the socket, and
\* the event its protocol is given, if any.
EventOf(c, completion) ==
    IF ~ c.open
    THEN "none"
    ELSE CASE completion \in {"can_send", "bytes"}            -> completion
           [] completion \in {"refused", "send_failed", "end"} -> "ending"
           [] OTHER                                            -> "none"

Completed(c, completion) ==
    CASE completion = "connected"                                       -> Connected(c)
      [] completion \in {"refused", "send_failed", "end", "disconnect"} -> Disconnect(c)
      [] OTHER                                                          -> c

Complete(w) ==
    LET s == hand[w].socket
        c == hand[w].completion
        e == EventOf(sockets[s], c)
    IN /\ s # NoSocket
       /\ \A v \in Workers : hand[v].socket = s => hand[v].event = "none"
       /\ hand' = [hand EXCEPT ![w] = IF e = "none" THEN Idle ELSE [@ EXCEPT !.event = e]]
       /\ UNCHANGED <<client, transport, fatal>>
       /\ NetworkBecomes([sockets EXCEPT ![s] = Completed(@, c)])

ClientJob ==
    \/ GetRefused
    \/ GetOnOpenTransport
    \/ \E s \in Sockets : GetOnNewTransport(s)
    \/ ResponseComplete

Deliver(w) ==
    \/ CanSend(w)
    \/ Ending(w)
    \/ \E h \in Headers \cup {NoHeaders}, g \in Reads, more \in BOOLEAN : Received(w, h, g, more)
    \/ ReceivedUnread(w)

Next ==
    /\ ~ fatal
    /\ \/ \E url \in Urls, limit \in RetryLimits : Get(url, limit)
       \/ ClientJob
       \/ \E w \in Workers : Deliver(w) \/ Complete(w)
       \/ \E w \in Workers, s \in Sockets, j \in JobTypes :
            \E c \in Outcomes(j) : Dequeue(w, s, j, c)

Spec == Init /\ [][Next]_vars

\* Completions are dequeued in order, so no socket waits for ever, and a worker
\* finishes what it holds.  Of the peers it is assumed that one that owes a
\* response sends it or closes (the client has no timeout) and that none trickles
\* one body for ever.
Fairness ==
    /\ WF_vars(~ fatal /\ ClientJob)
    /\ \A w \in Workers : WF_vars(~ fatal /\ Complete(w)) /\ WF_vars(~ fatal /\ Deliver(w))
    /\ \A s \in Sockets :
          SF_vars(~ fatal /\ \E w \in Workers, j \in JobTypes :
                     /\ j = "receive" => sockets[s].owes
                     /\ \E c \in Outcomes(j) : Dequeue(w, s, j, c))
    /\ SF_vars(~ fatal /\ \E w \in Workers : Deliver(w) /\ frame' \in {"done"} \cup Malformed)

FairSpec == Spec /\ Fairness

(* ------------------------------ properties -------------------------------- *)

TypeOK ==
    /\ state \in States
    /\ plan \in Plans
    /\ max_retries \in RetryLimits
    /\ transaction \in Requests
    /\ transport \in Sockets \cup {NoSocket}
    /\ frame \in FrameStates
    /\ jobs \in Nat
    /\ sockets \in [Sockets -> SocketRecords]
    /\ hand \in [Workers -> Hands]
    /\ sent \in Nat /\ told \in BOOLEAN /\ owed \in Nat
    /\ fatal \in BOOLEAN

\* The client has a job on the queue exactly when it waits for one: a job lost
\* would strand the Get, a second one would be handled in a later state.
OneJob == jobs = IF state \in {"get_pending", "response_complete"} THEN 1 ELSE 0

\* The handlers dereference planned_request and transport without a test; they
\* are never null where that happens, whatever sockets end in between.
NothingNull ==
    /\ state \in {"get_pending", "connection_pending"} => plan.request # NoRequest
    /\ state \in {"connection_pending", "response_pending"} => transport # NoSocket

\* Redirect clears the retry count, Retry may resend a request already
\* redirected: still one Get sends at most this many requests.
Budget(limit) == (MaxRedirects + 1) * (limit + 1)
BoundedRequests == sent <= Budget(max_retries)

\* While the client waits for its transport, something that ends the wait is
\* outstanding: a completion of the transport, or a worker on its way with one.
Awaited ==
    state \in {"connection_pending", "response_pending"} =>
        \/ sockets[transport].jobs \cap {"can_send", "connect", "receive"} # {}
        \/ \E w \in Workers :
             /\ hand[w].socket = transport
             /\ \/ hand[w].event # "none"
                \/ hand[w].completion \in {"can_send", "connected", "refused", "bytes", "end"}

\* "we already have a compatible transport, just go for it": the transport a
\* request was written to leads to the server the request is for.
CompatibleTransport ==
    state = "response_pending" =>
        /\ sockets[transport].url = transaction
        /\ sockets[transport].state \in {"connecting", "receiving"}

\* "if we are not planning a retry or redirect, let the caller know headers are
\* back": a complete response is followed up or was reported to the caller.
ReportedOrFollowed ==
    state = "response_complete" => told \/ plan.request # NoRequest

\* ConnectedSocket::Received insists that its protocol reads every byte.  One
\* worker and peers that send nothing malformed and nothing unasked keep to it.
NoFatalError == ~ fatal

\* What the caller of Client::Get relies on, whatever sockets do: one completion
\* per Get, a bounded number of requests, headers only for a request sent.
Api == INSTANCE HttpGet WITH
    Budgets <- {Budget(r) : r \in RetryLimits}, budget <- Budget(max_retries)
ApiSafety == Api!Safety

\* The same, and every Get is completed some day.
ApiSpec == Api!Spec
==============================================================================
