------------------------------ MODULE JobQueue ------------------------------
(***************************************************************************)
(* The durable execution queue (services/jobs.py, table execution_jobs)    *)
(* and the worker loop that drives it (worker/main.py: run, process_one).  *)
(*                                                                         *)
(* One row per hunt: WorkflowService.execute is the only producer and its  *)
(* idempotency key is "hunt:{id}:execution", so a hunt names its job.      *)
(* Every JobService method is one database transaction and one step here,  *)
(* except claim, which is two steps under the admission advisory lock      *)
(* (count the active hunts, then take the oldest queued row).              *)
(*                                                                         *)
(* Time is the time left on a lease.  One tick is the heartbeat interval   *)
(* of process_one, lease_seconds / 3, so a lease is LeaseTicks ticks.      *)
(* Each call reads the caller's own clock (datetime.now), some time before *)
(* its transaction commits, so it sees the true time off by some offset in *)
(* -Skew .. Skew.                                                          *)
(***************************************************************************)
EXTENDS Integers, FiniteSets

CONSTANTS
    Hunts,           \* hunts, each with at most one execution job
    Procs,           \* worker processes
    WorkerIdOf,      \* THREAT_HUNTING_WORKER_ID of each process ("worker-1"
                     \* unless set: processes may share one)
    NoHunt, NoProc, NoWorker,    \* null values
    MaxActiveHunts,  \* JobService.max_active_hunts
    Skew,            \* clock offset of a caller, in ticks
    MaxAttempts,     \* bound: claims of one job
    MaxFaults        \* bound: crashes, stalls and database errors

ASSUME HuntsFinite == IsFiniteSet(Hunts)
ASSUME NullsDistinct ==
    /\ NoHunt \notin Hunts
    /\ NoProc \notin Procs
    /\ \A p \in Procs : WorkerIdOf[p] # NoWorker
ASSUME LimitsAreNumbers ==
    /\ MaxActiveHunts \in Nat \ {0}
    /\ Skew \in Nat
    /\ MaxAttempts \in Nat
    /\ MaxFaults \in Nat

VARIABLES
    status,           \* execution_jobs.status, "absent" before enqueue
    workerId,         \* execution_jobs.worker_id
    ttl,              \* lease_expires_at_utc minus now, in ticks
    attempts,         \* execution_jobs.attempts: the fencing generation
    cancelRequested,  \* execution_jobs.cancel_requested
    created,          \* rank of created_at_utc
    pc,               \* where each process is in run / process_one
    lease,            \* the JobLease the process holds
    fenced,           \* its cancellation token is set
    due,              \* its next heartbeat or completion is due
    outcome,          \* what its handler thread ended with
    admission,        \* holder of the admission advisory lock
    faults            \* faults so far

rowVars  == <<status, workerId, ttl, attempts, cancelRequested, created>>
procVars == <<pc, lease, fenced, due, outcome>>
vars     == <<rowVars, procVars, admission, faults>>

-----------------------------------------------------------------------------
Terminal   == {"completed", "failed", "cancelled"}
Status     == {"absent", "queued", "claimed"} \cup Terminal
WorkerIds  == {WorkerIdOf[p] : p \in Procs}
LeaseTicks == 3
Offsets    == (-Skew) .. Skew
NoLease    == [hunt |-> NoHunt, generation |-> 0]

\* "down" stopped, "poll" between polls, "claim" about to claim, "select"
\* holding the admission lock, "run" handler thread alive, "finish" joined.
Step == {"down", "poll", "claim", "select", "run", "finish"}

TypeOK ==
    /\ status \in [Hunts -> Status]
    /\ workerId \in [Hunts -> WorkerIds \cup {NoWorker}]
    /\ ttl \in [Hunts -> Int]
    /\ attempts \in [Hunts -> Nat]
    /\ cancelRequested \in [Hunts -> BOOLEAN]
    /\ created \in [Hunts -> Nat]
    /\ pc \in [Procs -> Step]
    /\ lease \in [Procs -> [hunt : Hunts \cup {NoHunt}, generation : Nat]]
    /\ fenced \in [Procs -> BOOLEAN]
    /\ due \in [Procs -> BOOLEAN]
    /\ outcome \in [Procs -> {"none", "ok", "error"}]
    /\ admission \in Procs \cup {NoProc}
    /\ faults \in Nat

Init ==
    /\ status = [h \in Hunts |-> "absent"]
    /\ workerId = [h \in Hunts |-> NoWorker]
    /\ ttl = [h \in Hunts |-> 0]
    /\ attempts = [h \in Hunts |-> 0]
    /\ cancelRequested = [h \in Hunts |-> FALSE]
    /\ created = [h \in Hunts |-> 0]
    /\ pc = [p \in Procs |-> "poll"]
    /\ lease = [p \in Procs |-> NoLease]
    /\ fenced = [p \in Procs |-> FALSE]
    /\ due = [p \in Procs |-> FALSE]
    /\ outcome = [p \in Procs |-> "none"]
    /\ admission = NoProc
    /\ faults = 0

Claimed == {h \in Hunts : status[h] = "claimed"}

-----------------------------------------------------------------------------
(* The API's calls.                                                        *)

\* enqueue: one row per idempotency key; a second call finds it and changes
\* nothing, whatever its status.
Enqueue(h) ==
    /\ status[h] = "absent"
    /\ status' = [status EXCEPT ![h] = "queued"]
    /\ created' = [created EXCEPT ![h] = Cardinality({g \in Hunts : status[g] # "absent"})]
    /\ UNCHANGED <<workerId, ttl, attempts, cancelRequested, procVars, admission, faults>>

\* request_cancel: the row leaves the queue and its lease at once.
RequestCancel(h) ==
    /\ status[h] \in {"queued", "claimed"}
    /\ status' = [status EXCEPT ![h] = "cancelled"]
    /\ cancelRequested' = [cancelRequested EXCEPT ![h] = TRUE]
    /\ workerId' = [workerId EXCEPT ![h] = NoWorker]
    /\ ttl' = [ttl EXCEPT ![h] = 0]
    /\ UNCHANGED <<attempts, created, procVars, admission, faults>>

-----------------------------------------------------------------------------
(* Time.                                                                   *)

TimePasses ==
    /\ ttl' = [h \in Hunts |-> IF status[h] = "claimed" /\ ttl[h] > -Skew
                               THEN ttl[h] - 1 ELSE ttl[h]]
    /\ due' = [p \in Procs |-> pc[p] \in {"run", "finish"}]
    /\ UNCHANGED <<status, workerId, attempts, cancelRequested, created,
                   pc, lease, fenced, outcome, admission>>

\* A heartbeat interval goes by; every process made its call in time.
Tick ==
    /\ \A p \in Procs : ~due[p]
    /\ TimePasses
    /\ UNCHANGED faults

\* It goes by while a process is paused or cut off.
Stall ==
    /\ faults < MaxFaults
    /\ \E p \in Procs : due[p]
    /\ faults' = faults + 1
    /\ TimePasses

-----------------------------------------------------------------------------
(* process_one, before the handler.                                        *)

\* Mutant: the cancel_requested test is inverted.
ExpiredOnlyCancelled(h, d) == status[h] = "claimed" /\ ttl[h] <= d /\ cancelRequested[h]

Expired(h, d) == status[h] = "claimed" /\ ttl[h] <= d /\ ~cancelRequested[h]

\* recover_expired: every expired claim goes back to the queue.
RecoverExpired(p, d) ==
    /\ pc[p] = "poll"
    /\ pc' = [pc EXCEPT ![p] = "claim"]
    /\ status' = [h \in Hunts |-> IF Expired(h, d) THEN "queued" ELSE status[h]]
    /\ workerId' = [h \in Hunts |-> IF Expired(h, d) THEN NoWorker ELSE workerId[h]]
    /\ ttl' = [h \in Hunts |-> IF Expired(h, d) THEN 0 ELSE ttl[h]]
    /\ UNCHANGED <<attempts, cancelRequested, created, lease, fenced, due, outcome,
                   admission, faults>>

\* pg_advisory_xact_lock: one claim per deployment at a time.
\* Mutant: no lock around the count and the claim.
LockIgnored == TRUE

LockFree == admission = NoProc

\* claim, first half: take the advisory lock and count the active hunts.
AdmissionOpen(p) ==
    /\ pc[p] = "claim"
    /\ LockFree
    /\ Cardinality(Claimed) < MaxActiveHunts
    /\ admission' = p
    /\ pc' = [pc EXCEPT ![p] = "select"]
    /\ UNCHANGED <<rowVars, lease, fenced, due, outcome, faults>>

AdmissionFull(p) ==
    /\ pc[p] = "claim"
    /\ LockFree
    /\ Cardinality(Claimed) >= MaxActiveHunts
    /\ pc' = [pc EXCEPT ![p] = "poll"]
    /\ UNCHANGED <<rowVars, lease, fenced, due, outcome, admission, faults>>

Claimable(h) == status[h] = "queued" /\ ~cancelRequested[h]
Oldest(h) == Claimable(h) /\ \A g \in Hunts : Claimable(g) => created[h] <= created[g]

\* Mutant: the generation moves only on the first claim.
GenerationOnce(h) == IF attempts[h] = 0 THEN 1 ELSE attempts[h]

NextGeneration(h) == attempts[h] + 1

\* claim, second half: the oldest queued row becomes this worker's.
TakeRow(p, h, d) ==
    /\ Oldest(h)
    /\ attempts[h] < MaxAttempts
    /\ status' = [status EXCEPT ![h] = "claimed"]
    /\ workerId' = [workerId EXCEPT ![h] = WorkerIdOf[p]]
    /\ ttl' = [ttl EXCEPT ![h] = LeaseTicks + d]
    /\ attempts' = [attempts EXCEPT ![h] = NextGeneration(h)]
    /\ UNCHANGED <<cancelRequested, created>>

ClaimOldest(p, h, d) ==
    /\ pc[p] = "select"
    /\ TakeRow(p, h, d)
    /\ admission' = NoProc
    /\ pc' = [pc EXCEPT ![p] = "run"]
    /\ lease' = [lease EXCEPT ![p] = [hunt |-> h, generation |-> NextGeneration(h)]]
    /\ UNCHANGED <<fenced, due, outcome, faults>>

ClaimNothing(p) ==
    /\ pc[p] = "select"
    /\ \A h \in Hunts : ~Claimable(h)
    /\ admission' = NoProc
    /\ pc' = [pc EXCEPT ![p] = "poll"]
    /\ UNCHANGED <<rowVars, lease, fenced, due, outcome, faults>>

\* The connection fails before the commit (run logs it and polls again) ...
ClaimDbError(p) ==
    /\ pc[p] \in {"claim", "select"}
    /\ faults < MaxFaults
    /\ faults' = faults + 1
    /\ pc' = [pc EXCEPT ![p] = "poll"]
    /\ admission' = IF admission = p THEN NoProc ELSE admission
    /\ UNCHANGED <<rowVars, lease, fenced, due, outcome>>

\* ... or after it: the row is claimed and nobody knows.
ClaimReplyLost(p, h, d) ==
    /\ pc[p] = "select"
    /\ faults < MaxFaults
    /\ faults' = faults + 1
    /\ TakeRow(p, h, d)
    /\ admission' = NoProc
    /\ pc' = [pc EXCEPT ![p] = "poll"]
    /\ UNCHANGED <<lease, fenced, due, outcome>>

-----------------------------------------------------------------------------
(* process_one, while the handler thread runs and after it.                *)

\* Mutant: fenced by worker id alone.
OwnsById(p, d) ==
    LET h == lease[p].hunt IN
    /\ h \in Hunts
    /\ workerId[h] = WorkerIdOf[p]
    /\ status[h] = "claimed"
    /\ ttl[h] > d

\* The predicate shared by heartbeat and complete.
Owns(p, d) ==
    LET h == lease[p].hunt IN
    /\ h \in Hunts
    /\ workerId[h] = WorkerIdOf[p]
    /\ status[h] = "claimed"
    /\ ~cancelRequested[h]
    /\ attempts[h] = lease[p].generation
    /\ ttl[h] > d

\* Mutant: the heartbeat is recorded and the expiry is not moved.
RenewNothing(p, d) == UNCHANGED ttl

Renew(p, d) == ttl' = [ttl EXCEPT ![lease[p].hunt] = LeaseTicks + d]

Heartbeat(p, d) ==
    /\ pc[p] = "run"
    /\ due[p]
    /\ Owns(p, d)
    /\ Renew(p, d)
    /\ due' = [due EXCEPT ![p] = FALSE]
    /\ UNCHANGED <<status, workerId, attempts, cancelRequested, created,
                   pc, lease, fenced, outcome, admission, faults>>

\* JobConflict: the token is set, the thread is still waited for.
HeartbeatConflict(p, d) ==
    /\ pc[p] = "run"
    /\ due[p]
    /\ ~Owns(p, d)
    /\ fenced' = [fenced EXCEPT ![p] = TRUE]
    /\ due' = [due EXCEPT ![p] = FALSE]
    /\ UNCHANGED <<rowVars, pc, lease, outcome, admission, faults>>

\* SQLAlchemyError: the same, whether or not the renewal was committed.
HeartbeatDbError(p, d) ==
    /\ pc[p] = "run"
    /\ due[p]
    /\ faults < MaxFaults
    /\ faults' = faults + 1
    /\ \/ Owns(p, d) /\ Renew(p, d)
       \/ UNCHANGED ttl
    /\ fenced' = [fenced EXCEPT ![p] = TRUE]
    /\ due' = [due EXCEPT ![p] = FALSE]
    /\ UNCHANGED <<status, workerId, attempts, cancelRequested, created,
                   pc, lease, outcome, admission>>

\* The handler (WorkflowService.execute_job) returns or raises.
HandlerReturns(p, o) ==
    /\ pc[p] = "run"
    /\ pc' = [pc EXCEPT ![p] = "finish"]
    /\ outcome' = [outcome EXCEPT ![p] = o]
    /\ UNCHANGED <<rowVars, lease, fenced, due, admission, faults>>

\* process_one returns and its locals are gone.
BackToPoll(p) ==
    /\ pc' = [pc EXCEPT ![p] = "poll"]
    /\ lease' = [lease EXCEPT ![p] = NoLease]
    /\ fenced' = [fenced EXCEPT ![p] = FALSE]
    /\ due' = [due EXCEPT ![p] = FALSE]
    /\ outcome' = [outcome EXCEPT ![p] = "none"]

\* Mutant: a fenced worker waits to own the job again.
FencedReturnIfOwned(p) ==
    /\ pc[p] = "finish"
    /\ fenced[p]
    /\ \E d \in Offsets : Owns(p, d)
    /\ BackToPoll(p)
    /\ UNCHANGED <<rowVars, admission, faults>>

FencedReturn(p) ==
    /\ pc[p] = "finish"
    /\ fenced[p]
    /\ BackToPoll(p)
    /\ UNCHANGED <<rowVars, admission, faults>>

\* Mutant: the handler's outcome is stored as it is.
RawOutcome(p) == outcome[p]

FinalStatus(p) == IF outcome[p] = "ok" THEN "completed" ELSE "failed"

Complete(p, d) ==
    /\ pc[p] = "finish"
    /\ ~fenced[p]
    /\ Owns(p, d)
    /\ LET h == lease[p].hunt IN
       /\ status' = [status EXCEPT ![h] = FinalStatus(p)]
       /\ workerId' = [workerId EXCEPT ![h] = NoWorker]
       /\ ttl' = [ttl EXCEPT ![h] = 0]
    /\ BackToPoll(p)
    /\ UNCHANGED <<attempts, cancelRequested, created, admission, faults>>

\* JobConflict from complete is swallowed: a cancellation or a replacement
\* worker won.
CompleteConflict(p, d) ==
    /\ pc[p] = "finish"
    /\ ~fenced[p]
    /\ ~Owns(p, d)
    /\ BackToPoll(p)
    /\ UNCHANGED <<rowVars, admission, faults>>

\* SQLAlchemyError from complete leaves process_one for run's handler.
CompleteDbError(p) ==
    /\ pc[p] = "finish"
    /\ ~fenced[p]
    /\ faults < MaxFaults
    /\ faults' = faults + 1
    /\ BackToPoll(p)
    /\ UNCHANGED <<rowVars, admission>>

-----------------------------------------------------------------------------
(* The process itself.                                                     *)

\* Killed anywhere; an open transaction rolls back and frees its lock.
Crash(p) ==
    /\ pc[p] # "down"
    /\ faults < MaxFaults
    /\ faults' = faults + 1
    /\ pc' = [pc EXCEPT ![p] = "down"]
    /\ lease' = [lease EXCEPT ![p] = NoLease]
    /\ fenced' = [fenced EXCEPT ![p] = FALSE]
    /\ due' = [due EXCEPT ![p] = FALSE]
    /\ outcome' = [outcome EXCEPT ![p] = "none"]
    /\ admission' = IF admission = p THEN NoProc ELSE admission
    /\ UNCHANGED rowVars

\* compose.yml restarts it, with the same worker id.
Restart(p) ==
    /\ pc[p] = "down"
    /\ pc' = [pc EXCEPT ![p] = "poll"]
    /\ UNCHANGED <<rowVars, lease, fenced, due, outcome, admission, faults>>

-----------------------------------------------------------------------------
Poll(p) ==
    \/ \E d \in Offsets : RecoverExpired(p, d)
    \/ AdmissionOpen(p)
    \/ AdmissionFull(p)
    \/ \E h \in Hunts, d \in Offsets : ClaimOldest(p, h, d)
    \/ ClaimNothing(p)

Supervise(p) ==
    \/ \E d \in Offsets : Heartbeat(p, d) \/ HeartbeatConflict(p, d)
    \/ FencedReturn(p)
    \/ \E d \in Offsets : Complete(p, d) \/ CompleteConflict(p, d)

HandlerEnds(p) == \E o \in {"ok", "error"} : HandlerReturns(p, o)

Fault(p) ==
    \/ ClaimDbError(p)
    \/ \E h \in Hunts, d \in Offsets : ClaimReplyLost(p, h, d)
    \/ \E d \in Offsets : HeartbeatDbError(p, d)
    \/ CompleteDbError(p)
    \/ Crash(p)

Next ==
    \/ \E h \in Hunts : Enqueue(h) \/ RequestCancel(h)
    \/ \E p \in Procs : Poll(p) \/ Supervise(p) \/ HandlerEnds(p) \/ Fault(p) \/ Restart(p)
    \/ Tick
    \/ Stall

Spec == Init /\ [][Next]_vars

\* Time passes, a live process keeps executing its loop, its handler ends
\* (execute_job has a hard deadline) and compose.yml restarts a dead one.
Fairness ==
    /\ WF_vars(Tick)
    /\ \A p \in Procs : /\ WF_vars(Poll(p))
                        /\ WF_vars(Supervise(p))
                        /\ WF_vars(HandlerEnds(p))
                        /\ WF_vars(Restart(p))

FairSpec == Spec /\ Fairness

-----------------------------------------------------------------------------
(* Properties.                                                             *)

\* The process's handler may act for the job: its row is claimed under the
\* generation the process was given.
Holds(p) ==
    /\ pc[p] \in {"run", "finish"}
    /\ lease[p].hunt \in Hunts
    /\ status[lease[p].hunt] = "claimed"
    /\ attempts[lease[p].hunt] = lease[p].generation

\* "ensure only one live worker lease owns a job" (jobs.py, JobService):
\* however leases expire, are recovered and re-claimed, and even when
\* processes share a worker id, at most one process passes the fence that
\* heartbeat, complete and require_lease apply to a job.
ExclusiveLease ==
    \A p, q \in Procs : Holds(p) /\ Holds(q) /\ lease[p].hunt = lease[q].hunt => p = q

\* claim never admits more hunts at once than max_active_hunts, though
\* processes count and claim concurrently and claims are lost.
AdmissionBound == Cardinality(Claimed) <= MaxActiveHunts

\* A job's final status is written once, by the process that holds the lease
\* and with the outcome of its own handler: a late result of a fenced or
\* replaced worker never decides it.
OnlyHolderDecides ==
    [][\A h \in Hunts : status'[h] # status[h] =>
         /\ status[h] \notin Terminal
         /\ status'[h] \in {"completed", "failed"} =>
              \E p \in Procs : /\ Holds(p) /\ lease[p].hunt = h /\ ~fenced[p]
                               /\ outcome[p] = (IF status'[h] = "completed" THEN "ok" ELSE "error")]_vars

\* While clocks agree, a job is only ever started again after something
\* failed: heartbeats every lease_seconds / 3 and the order recover, claim,
\* run, complete lose no healthy worker's lease.
NoRestartWithoutFault == Skew = 0 => \A h \in Hunts : attempts[h] <= 1 + faults

\* Every queued job ends completed, failed or cancelled.
JobsSettle == \A h \in Hunts : status[h] = "queued" ~> status[h] \in Terminal

\* A fenced worker stops its handler and polls again (or died).
FencedWorkerReturns == \A p \in Procs : fenced[p] ~> pc[p] \in {"poll", "down"}
=============================================================================
