----------------------------- MODULE SecureChannel -----------------------------
(* What TLS promises the two applications: the client's is connected only after *)
(* the server's, what one writes the other gets in order and not before it is   *)
(* connected, and after it was told of the end an application gets nothing.     *)
EXTENDS Naturals

VARIABLES
    up,         \* whose application is connected
    ended,      \* who was told of the end
    wrote, got  \* how many records each application wrote, and got of the other

Ends == {"client", "server"}
Peer(e) == IF e = "client" THEN "server" ELSE "client"

vars == <<up, ended, wrote, got>>

Init ==
    /\ up = [e \in Ends |-> FALSE]
    /\ ended = [e \in Ends |-> FALSE]
    /\ wrote = [e \in Ends |-> 0]
    /\ got = [e \in Ends |-> 0]

Open(e) ==
    /\ ~ up[e] /\ ~ ended[e]
    /\ e = "client" => up["server"]
    /\ up' = [up EXCEPT ![e] = TRUE]
    /\ UNCHANGED <<ended, wrote, got>>

Write(e) ==
    /\ up[e] /\ ~ ended[e]
    /\ wrote' = [wrote EXCEPT ![e] = @ + 1]
    /\ UNCHANGED <<up, ended, got>>

\* An application that fails on what it gets ends the session with it.
Deliver(e) ==
    /\ up[e] /\ ~ ended[e]
    /\ got[e] < wrote[Peer(e)]
    /\ got' = [got EXCEPT ![e] = @ + 1]
    /\ ended' \in {ended, [ended EXCEPT ![e] = TRUE]}
    /\ UNCHANGED <<up, wrote>>

End(e) ==
    /\ ~ ended[e]
    /\ ended' = [ended EXCEPT ![e] = TRUE]
    /\ UNCHANGED <<up, wrote, got>>

Next == \E e \in Ends : Open(e) \/ Write(e) \/ Deliver(e) \/ End(e)

Spec == Init /\ [][Next]_vars
==============================================================================
