---------------------------- MODULE JobContract ----------------------------
(***************************************************************************)
(* What the execution queue promises about the job of one hunt, without    *)
(* clocks, polling, generations or advisory locks.  JobQueue implements it *)
(* for every hunt; HuntWorkflow is built on it.                            *)
(*                                                                         *)
(* holder is the worker whose require_lease, heartbeat and complete calls  *)
(* succeed for the job.                                                    *)
(***************************************************************************)
CONSTANTS Workers, Nobody

VARIABLES status, holder

jobVars == <<status, holder>>

Init == status = "absent" /\ holder = Nobody

\* enqueue, when no row has the idempotency key.
Submit ==
    /\ status = "absent"
    /\ status' = "queued"
    /\ UNCHANGED holder

\* claim; with Nobody when the worker never learns that it has the job.
Claim(w) ==
    /\ status = "queued"
    /\ status' = "claimed"
    /\ holder' = w

\* The holder can act for the job no longer: it died, stopped trying, or its
\* lease ran out.
Lapse ==
    /\ status = "claimed"
    /\ holder # Nobody
    /\ holder' = Nobody
    /\ UNCHANGED status

\* recover_expired.
Recover ==
    /\ status = "claimed"
    /\ status' = "queued"
    /\ holder' = Nobody

\* complete, with the outcome of the holder's handler.
Decide(w, s) ==
    /\ status = "claimed"
    /\ holder = w
    /\ status' = s
    /\ holder' = Nobody

\* request_cancel.
Cancel ==
    /\ status \in {"queued", "claimed"}
    /\ status' = "cancelled"
    /\ holder' = Nobody

Next ==
    \/ Submit
    \/ \E w \in Workers \cup {Nobody} : Claim(w)
    \/ Lapse
    \/ Recover
    \/ \E w \in Workers, s \in {"completed", "failed"} : Decide(w, s)
    \/ Cancel

Spec == Init /\ [][Next]_jobVars
=============================================================================
