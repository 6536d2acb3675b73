----------------------------- MODULE MCJobQueue -----------------------------
(* TLC instances of JobQueue.                                              *)
EXTENDS JobQueueRefinement

CONSTANTS h1, h2, w1, w2

\* Every process runs with the default worker id.
SharedId == [p \in Procs |-> "worker-1"]
=============================================================================
