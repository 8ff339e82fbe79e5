------------------------------- MODULE HttpGet -------------------------------
(* What Web::Client promises its caller: Client::Get starts one exchange, the  *)
(* exchange puts a bounded number of requests on the wire, the caller may hear *)
(* of response headers only after a request went out, and the exchange ends    *)
(* with exactly one completion.  No socket, job or thread appears here; the    *)
(* module WebClient is shown to implement this specification.                  *)
EXTENDS Naturals

CONSTANT Budgets        \* how many requests one Get may send, by its arguments

VARIABLES
    owed,               \* completions the caller is still owed
    budget,             \* requests this Get may send
    sent,               \* requests it has sent
    told                \* the caller heard of the headers of the last response

vars == <<owed, budget, sent, told>>

Init ==
    /\ owed = 0
    /\ budget \in Budgets
    /\ sent = 0
    /\ told = FALSE

Get ==
    /\ owed = 0
    /\ owed' = 1
    /\ budget' \in Budgets
    /\ sent' = 0
    /\ told' = FALSE

Send ==
    /\ owed = 1
    /\ sent < budget
    /\ sent' = sent + 1
    /\ told' = FALSE
    /\ UNCHANGED <<owed, budget>>

\* The headers callback, for a response to a request that was sent.
Report ==
    /\ owed = 1
    /\ sent > 0
    /\ told' = TRUE
    /\ UNCHANGED <<owed, budget, sent>>

\* The completion callback; the headers callback may precede it in the same step.
Complete ==
    /\ owed = 1
    /\ owed' = 0
    /\ told' \in (IF sent > 0 THEN {told, TRUE} ELSE {told})
    /\ UNCHANGED <<budget, sent>>

Next == Get \/ Send \/ Report \/ Complete

Safety == Init /\ [][Next]_vars

Spec == Safety /\ WF_vars(Complete)
==============================================================================
