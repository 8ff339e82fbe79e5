----------------------------- MODULE MCTlsSession -----------------------------
(* Clients for checking TlsSession.                                             *)
EXTENDS TlsSession

Webel == [version |-> 302, secret |-> "offered", heartbeats |-> FALSE]
OlderWebel == [Webel EXCEPT !.version = 301]
Newer == [Webel EXCEPT !.version = 303]
Negotiating == [Newer EXCEPT !.secret = "negotiated"]
Beating == [Webel EXCEPT !.heartbeats = TRUE]
TooOld == [Webel EXCEPT !.version = 300]

Plain == {Webel, OlderWebel, Newer, Negotiating, TooOld, Beating}
OnlyBeating == {Beating}
==============================================================================
