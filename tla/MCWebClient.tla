----------------------------- MODULE MCWebClient -----------------------------
(* Constants and symmetry for checking WebClient.                              *)
EXTENDS WebClient, TLC

\* A receive that always brings a whole response, one that may bring any part of
\* a delimited and well-formed one, and one that may also bring a body ended by the
\* connection, or headers or a body that do not parse.
WholeReads == {"done", "failed"}
PartReads == {"start", "body", "done"}
AllReads == FrameStates

Interchangeable == Permutations(Sockets) \cup Permutations(Workers)
Alike == Interchangeable \cup Permutations(Urls)
==============================================================================
