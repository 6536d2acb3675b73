--------------------------- MODULE MCHuntWorkflow ---------------------------
(* TLC instances of HuntWorkflow.                                          *)
EXTENDS HuntWorkflow, TLC

CONSTANTS c1, c2, w1, w2

Symmetric == Permutations(Clients) \cup Permutations(Workers)

\* For liveness too: fairness is stated of workers and of RecoverJob alone, and
\* no property speaks of a request.
ClientsAlike == Permutations(Clients)
=============================================================================
