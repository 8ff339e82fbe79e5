----------------------------- MODULE MCWebServer -----------------------------
(* WebServer on small instances: two listeners and room for three connections  *)
(* beside them, with and without a certificate.                                *)
EXTENDS WebServer

WellFormed == Kinds \ {"bad"}
==============================================================================
