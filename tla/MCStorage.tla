------------------------------ MODULE MCStorage -----------------------------
(* TLC instances of Storage. *)
EXTENDS Storage, TLC

CONSTANTS r1, r2, r3

Symmetric == Permutations(Requests)
=============================================================================
