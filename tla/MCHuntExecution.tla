--------------------------- MODULE MCHuntExecution ---------------------------
(* TLC instances of HuntExecution.                                         *)
EXTENDS HuntExecution, TLC

CONSTANTS w1, w2

Symmetric == Permutations(Workers)
=============================================================================
