------------------------------ MODULE MCAccess ------------------------------
(* TLC instances of Access. *)
EXTENDS Access, TLC

CONSTANTS p1, p2, c1, c2

Symmetric == Permutations(Processes) \union Permutations(Clients)
=============================================================================
