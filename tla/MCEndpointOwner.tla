--------------------------- MODULE MCEndpointOwner ---------------------------
(* Small instances of EndpointOwner for TLC. *)
EXTENDS EndpointOwner

CONSTANTS c1, c2, c3, t1, t2

Caller2 == {c1, c2}
Caller3 == {c1, c2, c3}
Token2 == {t1, t2}
Sharers == Permutations(Caller3) \cup Permutations(Token2)

=============================================================================
