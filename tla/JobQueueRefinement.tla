------------------------ MODULE JobQueueRefinement ------------------------
(***************************************************************************)
(* JobQueue implements JobContract for every hunt.                         *)
(***************************************************************************)
EXTENDS JobQueue

\* The process that may act for a job, if any.
HolderOf(h) ==
    IF \E p \in Procs : Holds(p) /\ lease[p].hunt = h
    THEN CHOOSE p \in Procs : Holds(p) /\ lease[p].hunt = h
    ELSE NoProc

Contract(h) == INSTANCE JobContract
    WITH Workers <- Procs, Nobody <- NoProc, status <- status[h], holder <- HolderOf(h)

\* Whatever the processes do, each job's row moves as JobContract says: a
\* claim is handed to one worker at a time, only that worker decides the
\* job, a lost lease sends it back to the queue and nothing leaves a final
\* status (services/jobs.py as a whole, driven by worker/main.py).
KeepsContract ==
    /\ \A h \in Hunts : Contract(h)!Init
    /\ [][\A h \in Hunts : [Contract(h)!Next]_<<status[h], HolderOf(h)>>]_vars
=============================================================================
