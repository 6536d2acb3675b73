--------------------------- MODULE JobQueueProofs ---------------------------
(***************************************************************************)
(* Proofs about JobQueue, for every number of hunts and worker processes,  *)
(* every assignment of worker ids, every admission limit and every clock   *)
(* skew.                                                                   *)
(***************************************************************************)
EXTENDS JobQueueRefinement, FiniteSetTheorems, TLAPS

\* The process has a handler, running or just joined.
Working(p) == pc[p] \in {"run", "finish"}

\* A working process was given a generation the row has reached.
LeaseInv ==
    \A p \in Procs : Working(p) =>
        /\ lease[p].hunt \in Hunts
        /\ lease[p].generation <= attempts[lease[p].hunt]

\* No two processes were ever given the same generation of one job.
DistinctGenerations ==
    \A p, q \in Procs :
        Working(p) /\ Working(q) /\ lease[p].hunt = lease[q].hunt
          /\ lease[p].generation = lease[q].generation => p = q

\* Only the lock holder is between counting and claiming, and while it is
\* there is room for one more hunt.
LockInv ==
    /\ \A p \in Procs : pc[p] = "select" => admission = p
    /\ admission # NoProc => Cardinality(Claimed) < MaxActiveHunts

FenceInv == TypeOK /\ LeaseInv /\ DistinctGenerations

AdmissionInv == TypeOK /\ LockInv /\ AdmissionBound

-----------------------------------------------------------------------------
\* The steps of Next, one by one: what the proofs below split on.
LEMMA NextCases ==
    ASSUME Next
    PROVE  \/ \E h \in Hunts : Enqueue(h) \/ RequestCancel(h)
           \/ \E p \in Procs, d \in Offsets :
                 \/ RecoverExpired(p, d) \/ Heartbeat(p, d) \/ HeartbeatConflict(p, d)
                 \/ HeartbeatDbError(p, d) \/ Complete(p, d) \/ CompleteConflict(p, d)
           \/ \E p \in Procs, h \in Hunts, d \in Offsets :
                 ClaimOldest(p, h, d) \/ ClaimReplyLost(p, h, d)
           \/ \E p \in Procs :
                 \/ AdmissionOpen(p) \/ AdmissionFull(p) \/ ClaimNothing(p) \/ ClaimDbError(p)
                 \/ FencedReturn(p) \/ CompleteDbError(p) \/ Crash(p) \/ Restart(p)
           \/ \E p \in Procs, o \in {"ok", "error"} : HandlerReturns(p, o)
           \/ Tick \/ Stall
BY DEF Next, Poll, Supervise, HandlerEnds, Fault

-----------------------------------------------------------------------------
LEMMA TypeInit == Init => TypeOK
BY NullsDistinct DEF Init, TypeOK, NoLease, Status, Step

LEMMA TypeStep == TypeOK /\ [Next]_vars => TypeOK'
<1> SUFFICES ASSUME TypeOK, [Next]_vars PROVE TypeOK'
    OBVIOUS
<1> USE LimitsAreNumbers DEF TypeOK
<1>0. ASSUME UNCHANGED vars PROVE TypeOK'
    BY <1>0 DEF vars, rowVars, procVars
<1>1. ASSUME NEW h \in Hunts, Enqueue(h) PROVE TypeOK'
    <2>1. IsFiniteSet({g \in Hunts : status[g] # "absent"})
        BY HuntsFinite, FS_Subset
    <2>2. Cardinality({g \in Hunts : status[g] # "absent"}) \in Nat
        BY <2>1, FS_CardinalityType
    <2> QED BY <1>1, <2>2 DEF Enqueue, procVars, Status
<1>2. ASSUME NEW h \in Hunts, RequestCancel(h) PROVE TypeOK'
    BY <1>2 DEF RequestCancel, procVars, Status, Terminal
<1>3. ASSUME TimePasses, faults' \in Nat PROVE TypeOK'
    BY <1>3 DEF TimePasses
<1>4. ASSUME NEW p \in Procs, NEW d \in Offsets, RecoverExpired(p, d) PROVE TypeOK'
    BY <1>4 DEF RecoverExpired, Status, Step
<1>5. ASSUME NEW p \in Procs, NEW d \in Offsets,
             Heartbeat(p, d) \/ HeartbeatConflict(p, d) \/ HeartbeatDbError(p, d)
      PROVE  TypeOK'
    <2>1. LeaseTicks + d \in Int
        BY DEF Offsets, LeaseTicks
    <2>2. CASE Heartbeat(p, d)
        BY <2>1, <2>2 DEF Heartbeat, Renew
    <2>3. CASE HeartbeatConflict(p, d)
        BY <2>3 DEF HeartbeatConflict, rowVars
    <2>4. CASE HeartbeatDbError(p, d)
        <3>1. ttl' \in [Hunts -> Int]
            BY <2>1, <2>4 DEF HeartbeatDbError, Renew
        <3> QED BY <2>4, <3>1 DEF HeartbeatDbError
    <2> QED BY <1>5, <2>2, <2>3, <2>4
<1>6. ASSUME NEW p \in Procs, NEW h \in Hunts, NEW d \in Offsets, TakeRow(p, h, d)
      PROVE  /\ status' \in [Hunts -> Status]
             /\ workerId' \in [Hunts -> WorkerIds \cup {NoWorker}]
             /\ ttl' \in [Hunts -> Int]
             /\ attempts' \in [Hunts -> Nat]
    BY <1>6 DEF TakeRow, Status, WorkerIds, Offsets, LeaseTicks, NextGeneration
<1>7. ASSUME NEW p \in Procs, NEW h \in Hunts, NEW d \in Offsets,
             ClaimOldest(p, h, d) \/ ClaimReplyLost(p, h, d)
      PROVE  TypeOK'
    <2>1. CASE ClaimOldest(p, h, d)
        <3>1. [hunt |-> h, generation |-> NextGeneration(h)]
                 \in [hunt : Hunts \cup {NoHunt}, generation : Nat]
            BY DEF NextGeneration
        <3> QED BY <1>6, <2>1, <3>1 DEF ClaimOldest, Step, TakeRow
    <2>2. CASE ClaimReplyLost(p, h, d)
        <3>1. TakeRow(p, h, d) /\ faults' \in Nat
            BY <2>2 DEF ClaimReplyLost
        <3>2. pc' \in [Procs -> Step] /\ admission' \in Procs \cup {NoProc}
            BY <2>2 DEF ClaimReplyLost, Step
        <3>3. UNCHANGED <<lease, fenced, due, outcome, cancelRequested, created>>
            BY <2>2, <3>1 DEF ClaimReplyLost, TakeRow
        <3> QED BY <1>6, <3>1, <3>2, <3>3
    <2> QED BY <1>7, <2>1, <2>2
<1>8. ASSUME NEW p \in Procs, BackToPoll(p)
      PROVE  /\ pc' \in [Procs -> Step]
             /\ lease' \in [Procs -> [hunt : Hunts \cup {NoHunt}, generation : Nat]]
             /\ fenced' \in [Procs -> BOOLEAN]
             /\ due' \in [Procs -> BOOLEAN]
             /\ outcome' \in [Procs -> {"none", "ok", "error"}]
    BY <1>8 DEF BackToPoll, NoLease, Step
<1>9. ASSUME NEW p \in Procs, NEW d \in Offsets, Complete(p, d) \/ CompleteConflict(p, d)
      PROVE  TypeOK'
    <2>1. CASE Complete(p, d)
        <3>1. FinalStatus(p) \in Status
            BY DEF FinalStatus, Status, Terminal
        <3>2. /\ status' = [status EXCEPT ![lease[p].hunt] = FinalStatus(p)]
              /\ workerId' = [workerId EXCEPT ![lease[p].hunt] = NoWorker]
              /\ ttl' = [ttl EXCEPT ![lease[p].hunt] = 0]
            BY <2>1 DEF Complete
        <3>3. status' \in [Hunts -> Status]
            BY <3>1, <3>2
        <3>4. workerId' \in [Hunts -> WorkerIds \cup {NoWorker}]
            BY <3>2
        <3>5. ttl' \in [Hunts -> Int]
            <4>1. lease[p].hunt \in Hunts
                BY <2>1 DEF Complete, Owns
            <4> QED BY <3>2, <4>1
        <3> QED BY <1>8, <2>1, <3>3, <3>4, <3>5 DEF Complete
    <2>2. CASE CompleteConflict(p, d)
        BY <1>8, <2>2 DEF CompleteConflict, rowVars
    <2> QED BY <1>9, <2>1, <2>2
<1>10. ASSUME NEW p \in Procs,
              \/ AdmissionOpen(p) \/ AdmissionFull(p) \/ ClaimNothing(p) \/ ClaimDbError(p)
              \/ Restart(p)
       PROVE  TypeOK'
    <2>1. CASE AdmissionOpen(p)
        BY <2>1 DEF AdmissionOpen, Step, rowVars
    <2>2. CASE AdmissionFull(p) \/ Restart(p)
        BY <2>2 DEF AdmissionFull, Restart, Step, rowVars
    <2>3. CASE ClaimNothing(p)
        BY <2>3 DEF ClaimNothing, Step, rowVars
    <2>4. CASE ClaimDbError(p)
        BY <2>4 DEF ClaimDbError, Step, rowVars
    <2> QED BY <1>10, <2>1, <2>2, <2>3, <2>4
<1>11. ASSUME NEW p \in Procs, FencedReturn(p) \/ CompleteDbError(p) \/ Crash(p)
       PROVE  TypeOK'
    <2>1. CASE FencedReturn(p)
        BY <1>8, <2>1 DEF FencedReturn, rowVars
    <2>2. CASE CompleteDbError(p)
        BY <1>8, <2>2 DEF CompleteDbError, rowVars
    <2>3. CASE Crash(p)
        BY <2>3 DEF Crash, NoLease, Step, rowVars
    <2> QED BY <1>11, <2>1, <2>2, <2>3
<1>12. ASSUME NEW p \in Procs, NEW o \in {"ok", "error"}, HandlerReturns(p, o) PROVE TypeOK'
    BY <1>12 DEF HandlerReturns, Step, rowVars
<1>13. CASE Tick \/ Stall
    BY <1>3, <1>13 DEF Tick, Stall
<1> QED BY <1>0, <1>1, <1>2, <1>4, <1>5, <1>7, <1>9, <1>10, <1>11, <1>12, <1>13, NextCases

\* Every reachable state of the queue and the workers is well typed.
THEOREM TypeCorrect == Spec => []TypeOK
BY TypeInit, TypeStep, PTL DEF Spec
-----------------------------------------------------------------------------
(* Fencing.                                                                *)

LEMMA FenceInit == Init => FenceInv
BY TypeInit DEF Init, FenceInv, LeaseInv, DistinctGenerations, Working

\* What a step does to the leases in hand: a process keeps its lease, drops
\* it, or takes a generation above every one handed out for that job.
LeaseStep(p) ==
    \/ Working(p)' => Working(p) /\ lease'[p] = lease[p]
    \/ \E h \in Hunts :
          /\ lease'[p] = [hunt |-> h, generation |-> attempts[h] + 1]
          /\ attempts'[h] = attempts[h] + 1
          /\ \A q \in Procs \ {p} : Working(q)' => Working(q) /\ lease'[q] = lease[q]

AttemptsGrow == \A h \in Hunts : attempts'[h] >= attempts[h]

LEMMA FenceStep == FenceInv /\ [Next]_vars => FenceInv'
<1> SUFFICES ASSUME FenceInv, [Next]_vars PROVE FenceInv'
    OBVIOUS
<1> USE DEF Working
<1>0. TypeOK /\ TypeOK'
    BY TypeStep DEF FenceInv
<1>a. (\A p \in Procs : LeaseStep(p)) /\ AttemptsGrow
    <2>1. ASSUME UNCHANGED <<lease, attempts>>, \A p \in Procs : Working(p)' => Working(p)
          PROVE  (\A p \in Procs : LeaseStep(p)) /\ AttemptsGrow
        BY <1>0, <2>1 DEF LeaseStep, AttemptsGrow, TypeOK
    <2>2. ASSUME NEW p \in Procs, UNCHANGED attempts, ~Working(p)',
                 \A q \in Procs \ {p} : lease'[q] = lease[q] /\ pc'[q] = pc[q]
          PROVE  (\A q \in Procs : LeaseStep(q)) /\ AttemptsGrow
        BY <1>0, <2>2 DEF LeaseStep, AttemptsGrow, TypeOK
    <2>3. CASE UNCHANGED vars
        BY <2>1, <2>3 DEF vars, rowVars, procVars
    <2>4. ASSUME NEW h \in Hunts, Enqueue(h) \/ RequestCancel(h)
          PROVE  (\A p \in Procs : LeaseStep(p)) /\ AttemptsGrow
        BY <2>1, <2>4 DEF Enqueue, RequestCancel, procVars
    <2>5. ASSUME NEW p \in Procs, NEW d \in Offsets,
                 \/ RecoverExpired(p, d) \/ Heartbeat(p, d) \/ HeartbeatConflict(p, d)
                 \/ HeartbeatDbError(p, d)
          PROVE  (\A q \in Procs : LeaseStep(q)) /\ AttemptsGrow
        <3>1. UNCHANGED <<lease, attempts>>
            BY <2>5 DEF RecoverExpired, Heartbeat, HeartbeatConflict, HeartbeatDbError, rowVars
        <3>2. \A q \in Procs : Working(q)' => Working(q)
            BY <1>0, <2>5 DEF RecoverExpired, Heartbeat, HeartbeatConflict, HeartbeatDbError, TypeOK
        <3> QED BY <2>1, <3>1, <3>2
    <2>6. ASSUME NEW p \in Procs, BackToPoll(p), UNCHANGED attempts
          PROVE  (\A q \in Procs : LeaseStep(q)) /\ AttemptsGrow
        BY <1>0, <2>2, <2>6 DEF BackToPoll, TypeOK
    <2>7. ASSUME NEW p \in Procs, NEW d \in Offsets, Complete(p, d) \/ CompleteConflict(p, d)
          PROVE  (\A q \in Procs : LeaseStep(q)) /\ AttemptsGrow
        BY <2>6, <2>7 DEF Complete, CompleteConflict, rowVars
    <2>8. ASSUME NEW p \in Procs, FencedReturn(p) \/ CompleteDbError(p)
          PROVE  (\A q \in Procs : LeaseStep(q)) /\ AttemptsGrow
        BY <2>6, <2>8 DEF FencedReturn, CompleteDbError, rowVars
    <2>9. ASSUME NEW p \in Procs, Crash(p)
          PROVE  (\A q \in Procs : LeaseStep(q)) /\ AttemptsGrow
        BY <1>0, <2>2, <2>9 DEF Crash, rowVars, TypeOK
    <2>10. ASSUME NEW p \in Procs,
                  \/ AdmissionOpen(p) \/ AdmissionFull(p) \/ ClaimNothing(p) \/ ClaimDbError(p)
                  \/ Restart(p)
           PROVE  (\A q \in Procs : LeaseStep(q)) /\ AttemptsGrow
        <3>1. UNCHANGED <<lease, attempts>>
            BY <2>10 DEF AdmissionOpen, AdmissionFull, ClaimNothing, ClaimDbError, Restart, rowVars
        <3>2. \A q \in Procs : Working(q)' => Working(q)
            BY <1>0, <2>10 DEF AdmissionOpen, AdmissionFull, ClaimNothing, ClaimDbError, Restart, TypeOK
        <3> QED BY <2>1, <3>1, <3>2
    <2>11. ASSUME NEW p \in Procs, NEW o \in {"ok", "error"}, HandlerReturns(p, o)
           PROVE  (\A q \in Procs : LeaseStep(q)) /\ AttemptsGrow
        BY <1>0, <2>1, <2>11 DEF HandlerReturns, rowVars, TypeOK
    <2>12. ASSUME NEW p \in Procs, NEW h \in Hunts, NEW d \in Offsets, ClaimReplyLost(p, h, d)
           PROVE  (\A q \in Procs : LeaseStep(q)) /\ AttemptsGrow
        <3>1. UNCHANGED lease /\ \A q \in Procs : Working(q)' => Working(q)
            BY <1>0, <2>12 DEF ClaimReplyLost, TypeOK
        <3>2. AttemptsGrow
            BY <1>0, <2>12 DEF ClaimReplyLost, TakeRow, NextGeneration, AttemptsGrow, TypeOK
        <3> QED BY <3>1, <3>2 DEF LeaseStep
    <2>13. ASSUME NEW p \in Procs, NEW h \in Hunts, NEW d \in Offsets, ClaimOldest(p, h, d)
           PROVE  (\A q \in Procs : LeaseStep(q)) /\ AttemptsGrow
        <3>1. /\ attempts' = [attempts EXCEPT ![h] = attempts[h] + 1]
              /\ lease' = [lease EXCEPT ![p] = [hunt |-> h, generation |-> attempts[h] + 1]]
              /\ pc' = [pc EXCEPT ![p] = "run"]
            BY <2>13 DEF ClaimOldest, TakeRow, NextGeneration
        <3>2. AttemptsGrow
            BY <1>0, <3>1 DEF AttemptsGrow, TypeOK
        <3>3. \A q \in Procs \ {p} : lease'[q] = lease[q] /\ pc'[q] = pc[q]
            BY <1>0, <3>1 DEF TypeOK
        <3>4. LeaseStep(p)
            BY <1>0, <3>1, <3>3 DEF LeaseStep, TypeOK
        <3> QED BY <3>2, <3>3, <3>4 DEF LeaseStep
    <2>14. CASE Tick \/ Stall
        BY <2>1, <2>14 DEF Tick, Stall, TimePasses
    <2> QED BY <2>3, <2>4, <2>5, <2>7, <2>8, <2>9, <2>10, <2>11, <2>12, <2>13, <2>14, NextCases
<1>1. LeaseInv'
    <2> SUFFICES ASSUME NEW p \in Procs, Working(p)'
                 PROVE  /\ lease'[p].hunt \in Hunts
                        /\ lease'[p].generation <= attempts'[lease'[p].hunt]
        BY DEF LeaseInv
    <2>1. CASE Working(p) /\ lease'[p] = lease[p]
        BY <1>0, <1>a, <2>1 DEF FenceInv, LeaseInv, AttemptsGrow, TypeOK
    <2>2. CASE \E h \in Hunts : /\ lease'[p] = [hunt |-> h, generation |-> attempts[h] + 1]
                                /\ attempts'[h] = attempts[h] + 1
        BY <1>0, <2>2 DEF TypeOK
    <2> QED BY <1>a, <2>1, <2>2 DEF LeaseStep
<1>2. DistinctGenerations'
    <2> SUFFICES ASSUME NEW p \in Procs, NEW q \in Procs, Working(p)', Working(q)', p # q,
                        lease'[p].hunt = lease'[q].hunt
                 PROVE  lease'[p].generation # lease'[q].generation
        BY DEF DistinctGenerations
    <2>1. ASSUME NEW r \in Procs, NEW s \in Procs, r # s, Working(r)', Working(s)',
                 lease'[r].hunt = lease'[s].hunt, ~(Working(r) /\ lease'[r] = lease[r])
          PROVE  lease'[r].generation # lease'[s].generation
        <3>1. PICK h \in Hunts :
                 /\ lease'[r] = [hunt |-> h, generation |-> attempts[h] + 1]
                 /\ \A t \in Procs \ {r} : Working(t)' => Working(t) /\ lease'[t] = lease[t]
            BY <1>a, <2>1 DEF LeaseStep
        <3>2. Working(s) /\ lease'[s] = lease[s]
            BY <2>1, <3>1
        <3>3. lease[s].hunt = h /\ lease[s].generation <= attempts[h]
            BY <2>1, <3>1, <3>2 DEF FenceInv, LeaseInv
        <3> QED BY <1>0, <3>1, <3>2, <3>3 DEF TypeOK
    <2>2. CASE Working(p) /\ lease'[p] = lease[p] /\ Working(q) /\ lease'[q] = lease[q]
        BY <2>2 DEF FenceInv, DistinctGenerations
    <2> QED BY <2>1, <2>2
<1> QED BY <1>0, <1>1, <1>2 DEF FenceInv

LEMMA FenceImplies == FenceInv => ExclusiveLease
BY DEF FenceInv, DistinctGenerations, ExclusiveLease, Holds, Working

\* At most one process ever passes a job's fence, whatever the clocks and
\* the worker ids are (JobService's claim, heartbeat and complete).
THEOREM LeaseIsExclusive == Spec => []ExclusiveLease
<1>1. Spec => []FenceInv
    BY FenceInit, FenceStep, PTL DEF Spec
<1> QED BY <1>1, FenceImplies, PTL

-----------------------------------------------------------------------------
(* Admission.                                                              *)

LEMMA ClaimedFinite == IsFiniteSet(Claimed) /\ Cardinality(Claimed) \in Nat
BY HuntsFinite, FS_Subset, FS_CardinalityType DEF Claimed

LEMMA AdmissionInit == Init => AdmissionInv
<1> SUFFICES ASSUME Init PROVE AdmissionInv
    OBVIOUS
<1>1. Claimed = {}
    BY DEF Init, Claimed
<1>2. Cardinality(Claimed) = 0
    BY <1>1, FS_EmptySet
<1> QED BY <1>2, TypeInit, LimitsAreNumbers DEF Init, AdmissionInv, LockInv, AdmissionBound

LEMMA AdmissionStep == AdmissionInv /\ [Next]_vars => AdmissionInv'
<1> SUFFICES ASSUME AdmissionInv, [Next]_vars PROVE AdmissionInv'
    OBVIOUS
<1> USE LimitsAreNumbers, NullsDistinct
<1>0. TypeOK /\ TypeOK'
    BY TypeStep DEF AdmissionInv
<1>1. IsFiniteSet(Claimed) /\ Cardinality(Claimed) \in Nat /\ Cardinality(Claimed') \in Nat
    <2>1. Claimed' \in SUBSET Hunts
        BY DEF Claimed
    <2> QED BY <2>1, ClaimedFinite, HuntsFinite, FS_Subset, FS_CardinalityType
\* Most steps claim nothing and leave the lock where it is, or free it.
<1>2. ASSUME Claimed' \subseteq Claimed, admission' \in {admission, NoProc},
             \A p \in Procs : pc'[p] = "select" => pc[p] = "select" /\ admission' = admission
      PROVE  AdmissionInv'
    <2>1. Cardinality(Claimed') <= Cardinality(Claimed)
        BY <1>1, <1>2, FS_Subset
    <2> QED BY <1>0, <1>1, <1>2, <2>1 DEF AdmissionInv, LockInv, AdmissionBound
<1>3. ASSUME NEW h \in Hunts, Enqueue(h) \/ RequestCancel(h) PROVE AdmissionInv'
    BY <1>0, <1>2, <1>3 DEF Enqueue, RequestCancel, Claimed, procVars, TypeOK
<1>4. ASSUME NEW p \in Procs, NEW d \in Offsets, RecoverExpired(p, d) PROVE AdmissionInv'
    <2>1. Claimed' \subseteq Claimed
        BY <1>4 DEF RecoverExpired, Claimed
    <2> QED BY <1>0, <1>2, <1>4, <2>1 DEF RecoverExpired, TypeOK
<1>5. ASSUME NEW p \in Procs, NEW d \in Offsets,
             Heartbeat(p, d) \/ HeartbeatConflict(p, d) \/ HeartbeatDbError(p, d)
      PROVE  AdmissionInv'
    <2>1. UNCHANGED <<status, pc, admission>>
        BY <1>5 DEF Heartbeat, HeartbeatConflict, HeartbeatDbError, rowVars
    <2> QED BY <1>2, <2>1 DEF Claimed
<1>6. ASSUME NEW p \in Procs, BackToPoll(p), UNCHANGED admission, Claimed' \subseteq Claimed
      PROVE  AdmissionInv'
    BY <1>0, <1>2, <1>6 DEF BackToPoll, TypeOK
<1>7. ASSUME NEW p \in Procs, NEW d \in Offsets, Complete(p, d) PROVE AdmissionInv'
    <2>1. status' = [status EXCEPT ![lease[p].hunt] = FinalStatus(p)] /\ FinalStatus(p) # "claimed"
        BY <1>7 DEF Complete, FinalStatus
    <2>2. Claimed' \subseteq Claimed
        BY <1>0, <2>1 DEF Claimed, TypeOK
    <2> QED BY <1>6, <1>7, <2>2 DEF Complete
<1>8. ASSUME NEW p \in Procs, NEW d \in Offsets, CompleteConflict(p, d) PROVE AdmissionInv'
    BY <1>6, <1>8 DEF CompleteConflict, rowVars, Claimed
<1>9. ASSUME NEW p \in Procs, FencedReturn(p) \/ CompleteDbError(p) PROVE AdmissionInv'
    BY <1>6, <1>9 DEF FencedReturn, CompleteDbError, rowVars, Claimed
<1>10. ASSUME NEW p \in Procs, NEW h \in Hunts, NEW d \in Offsets, TakeRow(p, h, d),
              pc[p] = "select", admission' = NoProc,
              pc' \in {[pc EXCEPT ![p] = "run"], [pc EXCEPT ![p] = "poll"]}
       PROVE  AdmissionInv'
    <2>1. admission = p /\ Cardinality(Claimed) < MaxActiveHunts
        BY <1>10 DEF AdmissionInv, LockInv
    <2>2. Claimed' = Claimed \cup {h}
        BY <1>0, <1>10 DEF TakeRow, Claimed, TypeOK
    <2>3. Cardinality(Claimed') <= Cardinality(Claimed) + 1
        <3>1. Cardinality(Claimed \cup {h})
                 = IF h \in Claimed THEN Cardinality(Claimed) ELSE Cardinality(Claimed) + 1
            BY <1>1, FS_AddElement
        <3> QED BY <1>1, <2>2, <3>1
    <2>4. \A q \in Procs : pc'[q] # "select"
        BY <1>0, <1>10, <2>1 DEF AdmissionInv, LockInv, TypeOK
    <2> QED BY <1>0, <1>1, <1>10, <2>1, <2>3, <2>4 DEF AdmissionInv, LockInv, AdmissionBound
<1>11. ASSUME NEW p \in Procs, NEW h \in Hunts, NEW d \in Offsets,
              ClaimOldest(p, h, d) \/ ClaimReplyLost(p, h, d)
       PROVE  AdmissionInv'
    BY <1>10, <1>11 DEF ClaimOldest, ClaimReplyLost
<1>12. ASSUME NEW p \in Procs, AdmissionOpen(p) PROVE AdmissionInv'
    <2>1. Claimed' = Claimed
        BY <1>12 DEF AdmissionOpen, rowVars, Claimed
    <2>2. \A q \in Procs : pc'[q] = "select" => q = p
        BY <1>0, <1>12 DEF AdmissionOpen, LockFree, AdmissionInv, LockInv, TypeOK
    <2> QED BY <1>0, <1>12, <2>1, <2>2 DEF AdmissionOpen, AdmissionInv, LockInv, AdmissionBound
<1>13. ASSUME NEW p \in Procs, AdmissionFull(p) \/ Restart(p) PROVE AdmissionInv'
    BY <1>0, <1>2, <1>13 DEF AdmissionFull, Restart, rowVars, Claimed, TypeOK
<1>14. ASSUME NEW p \in Procs, ClaimNothing(p) \/ ClaimDbError(p) \/ Crash(p) PROVE AdmissionInv'
    <2>1. Claimed' \subseteq Claimed
        BY <1>14 DEF ClaimNothing, ClaimDbError, Crash, rowVars, Claimed
    <2>2. admission' \in {admission, NoProc}
        BY <1>14 DEF ClaimNothing, ClaimDbError, Crash
    <2>3. \A q \in Procs : pc'[q] = "select" => pc[q] = "select" /\ q # p
        BY <1>0, <1>14 DEF ClaimNothing, ClaimDbError, Crash, TypeOK
    <2>4. \A q \in Procs : pc'[q] = "select" => admission' = admission
        BY <1>14, <2>3 DEF ClaimNothing, ClaimDbError, Crash, AdmissionInv, LockInv
    <2> QED BY <1>2, <2>1, <2>2, <2>3, <2>4
<1>15. ASSUME NEW p \in Procs, NEW o \in {"ok", "error"}, HandlerReturns(p, o) PROVE AdmissionInv'
    BY <1>0, <1>2, <1>15 DEF HandlerReturns, rowVars, Claimed, TypeOK
<1>16. CASE Tick \/ Stall
    BY <1>2, <1>16 DEF Tick, Stall, TimePasses, Claimed
<1>17. CASE UNCHANGED vars
    BY <1>2, <1>17 DEF vars, rowVars, procVars, Claimed
<1> QED BY <1>3, <1>4, <1>5, <1>7, <1>8, <1>9, <1>11, <1>12, <1>13, <1>14, <1>15, <1>16, <1>17,
           NextCases

\* The workers together never have more hunts claimed than the deployment
\* admits, for any number of processes (claim's advisory lock).
THEOREM AdmissionIsBounded == Spec => []AdmissionBound
<1>1. Spec => []AdmissionInv
    BY AdmissionInit, AdmissionStep, PTL DEF Spec
<1>2. AdmissionInv => AdmissionBound
    BY DEF AdmissionInv
<1> QED BY <1>1, <1>2, PTL

-----------------------------------------------------------------------------
(* Final statuses.                                                         *)

\* A joined handler left an outcome.
OutcomeInv == TypeOK /\ \A p \in Procs : pc[p] = "finish" => outcome[p] \in {"ok", "error"}

LEMMA OutcomeStep == OutcomeInv /\ [Next]_vars => OutcomeInv'
<1> SUFFICES ASSUME OutcomeInv, [Next]_vars PROVE OutcomeInv'
    OBVIOUS
<1>0. TypeOK /\ TypeOK'
    BY TypeStep DEF OutcomeInv
<1>1. ASSUME \A p \in Procs : pc'[p] = "finish" => pc[p] = "finish" /\ outcome'[p] = outcome[p]
      PROVE  OutcomeInv'
    BY <1>0, <1>1 DEF OutcomeInv
<1>2. ASSUME NEW p \in Procs, BackToPoll(p) PROVE OutcomeInv'
    BY <1>0, <1>1, <1>2 DEF BackToPoll, TypeOK
<1>3. ASSUME NEW h \in Hunts, Enqueue(h) \/ RequestCancel(h) PROVE OutcomeInv'
    BY <1>1, <1>3 DEF Enqueue, RequestCancel, procVars
<1>4. ASSUME NEW p \in Procs, NEW d \in Offsets,
             \/ RecoverExpired(p, d) \/ Heartbeat(p, d) \/ HeartbeatConflict(p, d)
             \/ HeartbeatDbError(p, d) \/ Complete(p, d) \/ CompleteConflict(p, d)
      PROVE  OutcomeInv'
    <2>1. CASE RecoverExpired(p, d)
        BY <1>0, <1>1, <2>1 DEF RecoverExpired, TypeOK
    <2>2. CASE Heartbeat(p, d) \/ HeartbeatConflict(p, d) \/ HeartbeatDbError(p, d)
        BY <1>1, <2>2 DEF Heartbeat, HeartbeatConflict, HeartbeatDbError
    <2>3. CASE Complete(p, d) \/ CompleteConflict(p, d)
        BY <1>2, <2>3 DEF Complete, CompleteConflict
    <2> QED BY <1>4, <2>1, <2>2, <2>3
<1>5. ASSUME NEW p \in Procs, NEW h \in Hunts, NEW d \in Offsets,
             ClaimOldest(p, h, d) \/ ClaimReplyLost(p, h, d)
      PROVE  OutcomeInv'
    BY <1>0, <1>1, <1>5 DEF ClaimOldest, ClaimReplyLost, TypeOK
<1>6. ASSUME NEW p \in Procs,
             \/ AdmissionOpen(p) \/ AdmissionFull(p) \/ ClaimNothing(p) \/ ClaimDbError(p)
             \/ FencedReturn(p) \/ CompleteDbError(p) \/ Crash(p) \/ Restart(p)
      PROVE  OutcomeInv'
    <2>1. CASE FencedReturn(p) \/ CompleteDbError(p)
        BY <1>2, <2>1 DEF FencedReturn, CompleteDbError
    <2>2. CASE Crash(p)
        BY <1>0, <1>1, <2>2 DEF Crash, TypeOK
    <2>3. CASE AdmissionOpen(p) \/ AdmissionFull(p) \/ Restart(p)
        BY <1>0, <1>1, <2>3 DEF AdmissionOpen, AdmissionFull, Restart, TypeOK
    <2>4. CASE ClaimNothing(p) \/ ClaimDbError(p)
        BY <1>0, <1>1, <2>4 DEF ClaimNothing, ClaimDbError, TypeOK
    <2> QED BY <1>6, <2>1, <2>2, <2>3, <2>4
<1>7. ASSUME NEW p \in Procs, NEW o \in {"ok", "error"}, HandlerReturns(p, o) PROVE OutcomeInv'
    BY <1>0, <1>7 DEF HandlerReturns, OutcomeInv, TypeOK
<1>8. CASE Tick \/ Stall \/ UNCHANGED vars
    BY <1>1, <1>8 DEF Tick, Stall, TimePasses, vars, procVars
<1> QED BY <1>3, <1>4, <1>5, <1>6, <1>7, <1>8, NextCases

\* The claim of OnlyHolderDecides about one step.
StatusStep ==
    \A h \in Hunts : status'[h] # status[h] =>
         /\ status[h] \notin Terminal
         /\ status'[h] \in {"completed", "failed"} =>
              \E p \in Procs : /\ Holds(p) /\ lease[p].hunt = h /\ ~fenced[p]
                               /\ outcome[p] = (IF status'[h] = "completed" THEN "ok" ELSE "error")

LEMMA StatusStepHolds == OutcomeInv /\ [Next]_vars => [StatusStep]_vars
<1> SUFFICES ASSUME OutcomeInv, Next PROVE StatusStep
    OBVIOUS
<1> USE DEF Terminal
<1>0. TypeOK
    BY DEF OutcomeInv
<1>1. ASSUME UNCHANGED status PROVE StatusStep
    BY <1>1 DEF StatusStep
<1>2. ASSUME NEW h \in Hunts, Enqueue(h) \/ RequestCancel(h) PROVE StatusStep
    BY <1>0, <1>2 DEF Enqueue, RequestCancel, StatusStep, TypeOK
<1>3. ASSUME NEW p \in Procs, NEW d \in Offsets, RecoverExpired(p, d) PROVE StatusStep
    <2>1. \A h \in Hunts : status'[h] # status[h] => status[h] = "claimed" /\ status'[h] = "queued"
        BY <1>3 DEF RecoverExpired, Expired
    <2> QED BY <2>1 DEF StatusStep
<1>4. ASSUME NEW p \in Procs, NEW d \in Offsets, Complete(p, d) PROVE StatusStep
    <2> DEFINE h == lease[p].hunt
    <2>1. h \in Hunts /\ status[h] = "claimed" /\ Holds(p) /\ ~fenced[p]
        BY <1>4 DEF Complete, Owns, Holds
    <2>2. status' = [status EXCEPT ![h] = FinalStatus(p)]
        BY <1>4 DEF Complete
    <2>3. outcome[p] = IF FinalStatus(p) = "completed" THEN "ok" ELSE "error"
        BY <1>4 DEF Complete, OutcomeInv, FinalStatus
    <2>4. \A g \in Hunts : status'[g] # status[g] => g = h
        BY <1>0, <2>1, <2>2 DEF TypeOK
    <2>5. status'[h] = FinalStatus(p)
        BY <1>0, <2>1, <2>2 DEF TypeOK
    <2> QED BY <2>1, <2>3, <2>4, <2>5 DEF StatusStep
<1>5. ASSUME NEW p \in Procs, NEW h \in Hunts, NEW d \in Offsets,
             ClaimOldest(p, h, d) \/ ClaimReplyLost(p, h, d)
      PROVE  StatusStep
    <2>1. status[h] = "queued" /\ status' = [status EXCEPT ![h] = "claimed"]
        BY <1>5 DEF ClaimOldest, ClaimReplyLost, TakeRow, Oldest, Claimable
    <2> QED BY <1>0, <2>1 DEF StatusStep, TypeOK
<1>6. ASSUME NEW p \in Procs, NEW d \in Offsets,
             \/ Heartbeat(p, d) \/ HeartbeatConflict(p, d) \/ HeartbeatDbError(p, d)
             \/ CompleteConflict(p, d)
      PROVE  StatusStep
    BY <1>1, <1>6 DEF Heartbeat, HeartbeatConflict, HeartbeatDbError, CompleteConflict, rowVars
<1>7. ASSUME NEW p \in Procs,
             \/ AdmissionOpen(p) \/ AdmissionFull(p) \/ ClaimNothing(p) \/ ClaimDbError(p)
             \/ FencedReturn(p) \/ CompleteDbError(p) \/ Crash(p) \/ Restart(p)
      PROVE  StatusStep
    BY <1>1, <1>7 DEF AdmissionOpen, AdmissionFull, ClaimNothing, ClaimDbError, FencedReturn,
                      CompleteDbError, Crash, Restart, rowVars
<1>8. ASSUME NEW p \in Procs, NEW o \in {"ok", "error"}, HandlerReturns(p, o) PROVE StatusStep
    BY <1>1, <1>8 DEF HandlerReturns, rowVars
<1>9. CASE Tick \/ Stall
    BY <1>1, <1>9 DEF Tick, Stall, TimePasses
<1> QED BY <1>2, <1>3, <1>4, <1>5, <1>6, <1>7, <1>8, <1>9, NextCases

\* Final statuses are written once and only by the unfenced holder of the
\* lease, with its own handler's outcome (process_one, complete).
THEOREM HolderDecides == Spec => OnlyHolderDecides
<1>1. Init => OutcomeInv
    BY TypeInit DEF Init, OutcomeInv
<1>2. Spec => []OutcomeInv
    BY <1>1, OutcomeStep, PTL DEF Spec
<1>3. Spec => [][StatusStep]_vars
    BY <1>2, StatusStepHolds, PTL DEF Spec
<1> QED BY <1>3 DEF OnlyHolderDecides, StatusStep

-----------------------------------------------------------------------------
(* The contract.                                                           *)

HoldsFor(p, h) == Holds(p) /\ lease[p].hunt = h

\* HolderOf names the one process that holds the job, or nobody.
HolderFacts(h) ==
    /\ HolderOf(h) \in Procs \cup {NoProc}
    /\ \A p \in Procs : HoldsFor(p, h) => HolderOf(h) = p
    /\ HolderOf(h) # NoProc => HoldsFor(HolderOf(h), h)

LEMMA HolderIs == FenceInv => \A h \in Hunts : HolderFacts(h)
<1> SUFFICES ASSUME FenceInv, NEW h \in Hunts PROVE HolderFacts(h)
    OBVIOUS
<1>1. \A p, q \in Procs : HoldsFor(p, h) /\ HoldsFor(q, h) => p = q
    BY FenceImplies DEF ExclusiveLease, HoldsFor
<1>2. CASE \E p \in Procs : HoldsFor(p, h)
    <2>1. HolderOf(h) \in Procs /\ HoldsFor(HolderOf(h), h)
        BY <1>2 DEF HolderOf, HoldsFor
    <2> QED BY <1>1, <2>1 DEF HolderFacts
<1>3. CASE ~ \E p \in Procs : HoldsFor(p, h)
    BY <1>3 DEF HolderOf, HoldsFor, HolderFacts
<1> QED BY <1>2, <1>3

\* A step that leaves a job's row alone and gives its lease to nobody.
Quiet(h) ==
    /\ status'[h] = status[h]
    /\ \A p \in Procs : HoldsFor(p, h)' => HoldsFor(p, h)

ContractStep(h) == [Contract(h)!Next]_<<status[h], HolderOf(h)>>

LEMMA QuietStep ==
    ASSUME NEW h \in Hunts, HolderFacts(h), HolderFacts(h)', Quiet(h)
    PROVE  ContractStep(h)
<1>1. CASE HolderOf(h)' = HolderOf(h)
    BY <1>1 DEF ContractStep, Quiet
<1>2. CASE HolderOf(h)' # HolderOf(h)
    <2>1. HolderOf(h)' = NoProc
        BY <1>2 DEF Quiet, HolderFacts
    <2>2. status[h] = "claimed"
        BY <1>2, <2>1 DEF HoldsFor, Holds, HolderFacts
    <2>3. Contract(h)!Lapse
        BY <1>2, <2>1, <2>2 DEF Contract!Lapse, Quiet
    <2> QED BY <2>3 DEF ContractStep, Contract!Next
<1> QED BY <1>1, <1>2

LEMMA ContractSteps ==
    FenceInv /\ FenceInv' /\ [Next]_vars => \A h \in Hunts : ContractStep(h)
<1> SUFFICES ASSUME FenceInv, FenceInv', [Next]_vars, NEW g \in Hunts PROVE ContractStep(g)
    OBVIOUS
<1>0. TypeOK /\ HolderFacts(g)
    BY HolderIs DEF FenceInv
<1>h. HolderFacts(g)'
    <2>1. (\A h \in Hunts : HolderFacts(h))'
        BY HolderIs, PTL
    <2> QED BY <2>1
\* Nobody holds a job that is not claimed.
<1>n. (status[g] # "claimed" => HolderOf(g) = NoProc) /\ (status'[g] # "claimed" => HolderOf(g)' = NoProc)
    BY <1>0, <1>h DEF HolderFacts, HoldsFor, Holds
<1>1. ASSUME UNCHANGED <<status, attempts, lease>>,
             \A p \in Procs : pc'[p] \in {"run", "finish"} => pc[p] \in {"run", "finish"}
      PROVE  ContractStep(g)
    BY <1>1, QuietStep, <1>0, <1>h DEF Quiet, HoldsFor, Holds
<1>2. ASSUME NEW p \in Procs, UNCHANGED <<status, attempts>>, pc'[p] \notin {"run", "finish"},
             \A q \in Procs \ {p} : pc'[q] = pc[q] /\ lease'[q] = lease[q]
      PROVE  ContractStep(g)
    BY <1>2, QuietStep, <1>0, <1>h DEF Quiet, HoldsFor, Holds
<1>3. ASSUME NEW p \in Procs, BackToPoll(p), UNCHANGED <<status, attempts>> PROVE ContractStep(g)
    BY <1>0, <1>2, <1>3 DEF BackToPoll, TypeOK
<1>4. ASSUME NEW h \in Hunts, Enqueue(h) PROVE ContractStep(g)
    <2>1. CASE g = h
        BY <1>0, <1>4, <1>n, <2>1 DEF Enqueue, ContractStep, Contract!Next, Contract!Submit, TypeOK
    <2>2. CASE g # h
        BY <1>0, <1>4, <2>2, QuietStep, <1>0, <1>h DEF Enqueue, Quiet, HoldsFor, Holds, TypeOK, procVars
    <2> QED BY <2>1, <2>2
<1>5. ASSUME NEW h \in Hunts, RequestCancel(h) PROVE ContractStep(g)
    <2>1. CASE g = h
        BY <1>0, <1>5, <1>n, <2>1
           DEF RequestCancel, ContractStep, Contract!Next, Contract!Cancel, TypeOK
    <2>2. CASE g # h
        BY <1>0, <1>5, <2>2, QuietStep, <1>0, <1>h DEF RequestCancel, Quiet, HoldsFor, Holds, TypeOK, procVars
    <2> QED BY <2>1, <2>2
<1>6. ASSUME NEW p \in Procs, NEW d \in Offsets, RecoverExpired(p, d) PROVE ContractStep(g)
    <2>1. CASE Expired(g, d)
        <3>1. status[g] = "claimed" /\ status'[g] = "queued"
            BY <1>6, <2>1 DEF RecoverExpired, Expired
        <3> QED BY <1>n, <3>1 DEF ContractStep, Contract!Next, Contract!Recover
    <2>2. CASE ~Expired(g, d)
        <3>1. status'[g] = status[g] /\ UNCHANGED <<attempts, lease>>
            BY <1>6, <2>2 DEF RecoverExpired
        <3>2. \A q \in Procs : pc'[q] \in {"run", "finish"} => pc[q] \in {"run", "finish"}
            BY <1>0, <1>6 DEF RecoverExpired, TypeOK
        <3> QED BY <3>1, <3>2, QuietStep, <1>0, <1>h DEF Quiet, HoldsFor, Holds
    <2> QED BY <2>1, <2>2
<1>7. ASSUME NEW p \in Procs, NEW d \in Offsets,
             Heartbeat(p, d) \/ HeartbeatConflict(p, d) \/ HeartbeatDbError(p, d)
      PROVE  ContractStep(g)
    BY <1>1, <1>7 DEF Heartbeat, HeartbeatConflict, HeartbeatDbError, rowVars
<1>8. ASSUME NEW p \in Procs, NEW d \in Offsets, Complete(p, d) PROVE ContractStep(g)
    <2>1. HoldsFor(p, lease[p].hunt) /\ lease[p].hunt \in Hunts
        BY <1>8 DEF Complete, Owns, HoldsFor, Holds
    <2>2. status' = [status EXCEPT ![lease[p].hunt] = FinalStatus(p)]
          /\ FinalStatus(p) \in {"completed", "failed"}
        BY <1>8 DEF Complete, FinalStatus
    <2>3. CASE g = lease[p].hunt
        <3>1. status[g] = "claimed" /\ HolderOf(g) = p
            BY <1>0, <2>1, <2>3 DEF HolderFacts, HoldsFor, Holds
        <3>2. status'[g] = FinalStatus(p) /\ HolderOf(g)' = NoProc
            BY <1>0, <1>n, <2>2, <2>3 DEF TypeOK
        <3>3. Contract(g)!Decide(p, FinalStatus(p))
            BY <3>1, <3>2 DEF Contract!Decide
        <3> QED BY <2>2, <3>3 DEF ContractStep, Contract!Next
    <2>4. CASE g # lease[p].hunt
        <3>1. status'[g] = status[g] /\ UNCHANGED attempts
            BY <1>0, <1>8, <2>2, <2>4 DEF Complete, TypeOK
        <3>2. \A q \in Procs : pc'[q] \in {"run", "finish"} => pc'[q] = pc[q] /\ lease'[q] = lease[q]
            BY <1>0, <1>8 DEF Complete, BackToPoll, TypeOK
        <3> QED BY <3>1, <3>2, QuietStep, <1>0, <1>h DEF Quiet, HoldsFor, Holds
    <2> QED BY <2>3, <2>4
<1>9. ASSUME NEW p \in Procs, NEW d \in Offsets, CompleteConflict(p, d) PROVE ContractStep(g)
    BY <1>3, <1>9 DEF CompleteConflict, rowVars
<1>10. ASSUME NEW p \in Procs, FencedReturn(p) \/ CompleteDbError(p) PROVE ContractStep(g)
    BY <1>3, <1>10 DEF FencedReturn, CompleteDbError, rowVars
<1>11. ASSUME NEW p \in Procs, Crash(p) PROVE ContractStep(g)
    BY <1>0, <1>2, <1>11 DEF Crash, rowVars, TypeOK
<1>12. ASSUME NEW p \in Procs, NEW h \in Hunts, NEW d \in Offsets,
              ClaimOldest(p, h, d) \/ ClaimReplyLost(p, h, d)
       PROVE  ContractStep(g)
    <2>1. /\ status[h] = "queued" /\ status' = [status EXCEPT ![h] = "claimed"]
          /\ \A f \in Hunts \ {h} : attempts'[f] = attempts[f]
        BY <1>0, <1>12 DEF ClaimOldest, ClaimReplyLost, TakeRow, Oldest, Claimable, TypeOK
    <2>2. CASE g = h
        <3>1. HolderOf(g)' \in Procs \cup {NoProc}
            BY <1>h DEF HolderFacts
        <3>2. Contract(g)!Claim(HolderOf(g)')
            BY <1>0, <2>1, <2>2 DEF Contract!Claim, TypeOK
        <3> QED BY <3>1, <3>2 DEF ContractStep, Contract!Next
    <2>3. CASE g # h
        <3>1. status'[g] = status[g] /\ attempts'[g] = attempts[g]
            BY <1>0, <2>1, <2>3 DEF TypeOK
        <3>2. \A q \in Procs : pc'[q] \in {"run", "finish"} /\ lease'[q].hunt = g
                                 => pc'[q] = pc[q] /\ lease'[q] = lease[q]
            BY <1>0, <1>12, <2>3 DEF ClaimOldest, ClaimReplyLost, TypeOK
        <3> QED BY <3>1, <3>2, QuietStep, <1>0, <1>h DEF Quiet, HoldsFor, Holds
    <2> QED BY <2>2, <2>3
<1>13. ASSUME NEW p \in Procs,
              \/ AdmissionOpen(p) \/ AdmissionFull(p) \/ ClaimNothing(p) \/ ClaimDbError(p)
              \/ Restart(p)
       PROVE  ContractStep(g)
    <2>1. UNCHANGED <<status, attempts, lease>>
        BY <1>13 DEF AdmissionOpen, AdmissionFull, ClaimNothing, ClaimDbError, Restart, rowVars
    <2>2. \A q \in Procs : pc'[q] \in {"run", "finish"} => pc[q] \in {"run", "finish"}
        BY <1>0, <1>13 DEF AdmissionOpen, AdmissionFull, ClaimNothing, ClaimDbError, Restart, TypeOK
    <2> QED BY <1>1, <2>1, <2>2
<1>14. ASSUME NEW p \in Procs, NEW o \in {"ok", "error"}, HandlerReturns(p, o) PROVE ContractStep(g)
    BY <1>0, <1>1, <1>14 DEF HandlerReturns, rowVars, TypeOK
<1>15. CASE Tick \/ Stall \/ UNCHANGED vars
    BY <1>1, <1>15 DEF Tick, Stall, TimePasses, vars, rowVars, procVars
<1> QED BY <1>4, <1>5, <1>6, <1>7, <1>8, <1>9, <1>10, <1>11, <1>12, <1>13, <1>14, <1>15, NextCases

\* JobQueue implements JobContract: whatever clocks, leases, locks and
\* faults do to the rows and the processes, each job's status and the worker
\* that may act for it move only as the contract lets them (JobService's
\* calls under process_one).
THEOREM ImplementsContract == Spec => KeepsContract
<1>1. Init => \A h \in Hunts : Contract(h)!Init
    <2> SUFFICES ASSUME Init, NEW h \in Hunts PROVE Contract(h)!Init
        OBVIOUS
    <2>1. \A p \in Procs : ~Holds(p)
        BY DEF Init, Holds
    <2>2. HolderOf(h) = NoProc
        BY <2>1 DEF HolderOf
    <2> QED BY <2>2 DEF Init, Contract!Init
<1>2. Spec => []FenceInv
    BY FenceInit, FenceStep, PTL DEF Spec
<1>3. Spec => [][\A h \in Hunts : ContractStep(h)]_vars
    BY <1>2, ContractSteps, PTL DEF Spec
<1>4. Spec => \A h \in Hunts : Contract(h)!Init
    BY <1>1, PTL DEF Spec
<1> QED BY <1>3, <1>4, PTL DEF KeepsContract, ContractStep

-----------------------------------------------------------------------------
(* Restarts.                                                               *)

\* Only a working process has calls due or a token set, a claimed row is not
\* cancelled, and its holder's worker id is the one in the row.
OwnerInv ==
    /\ \A p \in Procs : ~Working(p) => ~due[p] /\ ~fenced[p]
    /\ \A h \in Hunts : status[h] = "claimed" => ~cancelRequested[h]
    /\ \A p \in Procs, h \in Hunts : HoldsFor(p, h) => workerId[h] = WorkerIdOf[p]

LEMMA OwnerStep == FenceInv /\ OwnerInv /\ [Next]_vars => OwnerInv'
<1> SUFFICES ASSUME FenceInv, OwnerInv, [Next]_vars PROVE OwnerInv'
    OBVIOUS
<1> USE DEF Working
<1>0. TypeOK /\ TypeOK' /\ FenceInv'
    BY FenceStep, TypeStep DEF FenceInv
\* A row that changed is not claimed any more; a process changed only itself.
<1>1. ASSUME \A q \in Procs : Working(q)' => Working(q) /\ lease'[q] = lease[q],
             \A q \in Procs : ~Working(q)' => ~due'[q] /\ ~fenced'[q],
             \A h \in Hunts : status'[h] = "claimed" =>
                /\ status[h] = "claimed" /\ cancelRequested'[h] = cancelRequested[h]
                /\ workerId'[h] = workerId[h] /\ attempts'[h] = attempts[h]
      PROVE  OwnerInv'
    BY <1>1 DEF OwnerInv, HoldsFor, Holds
<1>2. ASSUME UNCHANGED <<status, cancelRequested, workerId, attempts, lease>>,
             \A q \in Procs : Working(q)' => Working(q),
             \A q \in Procs : ~Working(q)' => ~due'[q] /\ ~fenced'[q]
      PROVE  OwnerInv'
    BY <1>1, <1>2
<1>3. ASSUME NEW h \in Hunts, Enqueue(h) \/ RequestCancel(h) PROVE OwnerInv'
    <2>1. \A g \in Hunts : status'[g] = "claimed" =>
             /\ status[g] = "claimed" /\ cancelRequested'[g] = cancelRequested[g]
             /\ workerId'[g] = workerId[g] /\ attempts'[g] = attempts[g]
        BY <1>0, <1>3 DEF Enqueue, RequestCancel, TypeOK
    <2>2. UNCHANGED procVars
        BY <1>3 DEF Enqueue, RequestCancel
    <2> QED BY <1>1, <2>1, <2>2 DEF procVars, OwnerInv
<1>4. ASSUME NEW p \in Procs, NEW d \in Offsets, RecoverExpired(p, d) PROVE OwnerInv'
    <2>1. \A g \in Hunts : status'[g] = "claimed" =>
             /\ status[g] = "claimed" /\ cancelRequested'[g] = cancelRequested[g]
             /\ workerId'[g] = workerId[g] /\ attempts'[g] = attempts[g]
        BY <1>4 DEF RecoverExpired
    <2>2. \A q \in Procs : Working(q)' <=> Working(q)
        BY <1>0, <1>4 DEF RecoverExpired, TypeOK
    <2>3. UNCHANGED <<lease, due, fenced>>
        BY <1>4 DEF RecoverExpired
    <2> QED BY <1>1, <2>1, <2>2, <2>3 DEF OwnerInv
<1>5. ASSUME NEW p \in Procs, NEW d \in Offsets,
             Heartbeat(p, d) \/ HeartbeatConflict(p, d) \/ HeartbeatDbError(p, d)
      PROVE  OwnerInv'
    <2>1. UNCHANGED <<status, cancelRequested, workerId, attempts, lease, pc>> /\ Working(p)
        BY <1>5 DEF Heartbeat, HeartbeatConflict, HeartbeatDbError, rowVars
    <2>2. \A q \in Procs \ {p} : due'[q] = due[q] /\ fenced'[q] = fenced[q]
        BY <1>0, <1>5 DEF Heartbeat, HeartbeatConflict, HeartbeatDbError, TypeOK
    <2> QED BY <1>2, <2>1, <2>2 DEF OwnerInv
<1>6. ASSUME NEW p \in Procs, BackToPoll(p)
      PROVE  /\ \A q \in Procs : Working(q)' => Working(q) /\ lease'[q] = lease[q]
             /\ \A q \in Procs : ~Working(q)' => ~due'[q] /\ ~fenced'[q]
    BY <1>0, <1>6 DEF BackToPoll, TypeOK, OwnerInv
<1>7. ASSUME NEW p \in Procs, NEW d \in Offsets, Complete(p, d) PROVE OwnerInv'
    <2>1. FinalStatus(p) # "claimed"
        BY DEF FinalStatus
    <2>2. \A g \in Hunts : status'[g] = "claimed" =>
             /\ status[g] = "claimed" /\ cancelRequested'[g] = cancelRequested[g]
             /\ workerId'[g] = workerId[g] /\ attempts'[g] = attempts[g]
        BY <1>0, <1>7, <2>1 DEF Complete, TypeOK
    <2> QED BY <1>1, <1>6, <1>7, <2>2 DEF Complete
<1>8. ASSUME NEW p \in Procs, NEW d \in Offsets, CompleteConflict(p, d) PROVE OwnerInv'
    BY <1>1, <1>6, <1>8 DEF CompleteConflict, rowVars
<1>9. ASSUME NEW p \in Procs, FencedReturn(p) \/ CompleteDbError(p) PROVE OwnerInv'
    BY <1>1, <1>6, <1>9 DEF FencedReturn, CompleteDbError, rowVars
<1>10. ASSUME NEW p \in Procs, Crash(p) PROVE OwnerInv'
    <2>1. \A q \in Procs : Working(q)' => Working(q) /\ lease'[q] = lease[q]
        BY <1>0, <1>10 DEF Crash, TypeOK
    <2>2. \A q \in Procs : ~Working(q)' => ~due'[q] /\ ~fenced'[q]
        BY <1>0, <1>10 DEF Crash, TypeOK, OwnerInv
    <2> QED BY <1>1, <1>10, <2>1, <2>2 DEF Crash, rowVars
<1>11. ASSUME NEW p \in Procs, NEW h \in Hunts, NEW d \in Offsets,
              ClaimOldest(p, h, d) \/ ClaimReplyLost(p, h, d)
       PROVE  OwnerInv'
    <2>1. /\ ~cancelRequested[h] /\ UNCHANGED <<cancelRequested, due, fenced>>
          /\ \A g \in Hunts : status'[g] = "claimed" => g = h \/ status[g] = "claimed"
        BY <1>0, <1>11 DEF ClaimOldest, ClaimReplyLost, TakeRow, Oldest, Claimable, TypeOK
    <2>2. /\ workerId'[h] = WorkerIdOf[p] /\ attempts'[h] = attempts[h] + 1
          /\ \A g \in Hunts \ {h} : /\ workerId'[g] = workerId[g] /\ attempts'[g] = attempts[g]
                                    /\ status'[g] = status[g]
        BY <1>0, <1>11 DEF ClaimOldest, ClaimReplyLost, TakeRow, NextGeneration, TypeOK
    <2>3. /\ ~Working(p)
          /\ \A q \in Procs \ {p} : pc'[q] = pc[q] /\ lease'[q] = lease[q]
        BY <1>0, <1>11 DEF ClaimOldest, ClaimReplyLost, TypeOK
    <2>4. \A q \in Procs : ~Working(q)' => ~due'[q] /\ ~fenced'[q]
        BY <2>1, <2>3 DEF OwnerInv
    <2>5. \A g \in Hunts : status'[g] = "claimed" => ~cancelRequested'[g]
        BY <2>1 DEF OwnerInv
    <2>6. ASSUME NEW q \in Procs, NEW g \in Hunts, HoldsFor(q, g)' PROVE workerId'[g] = WorkerIdOf[q]
        <3>1. CASE q = p
            <4>1. ClaimOldest(p, h, d) /\ lease'[p].hunt = h
                BY <1>0, <1>11, <2>6, <3>1 DEF ClaimOldest, ClaimReplyLost, HoldsFor, Holds, TypeOK
            <4> QED BY <2>2, <2>6, <3>1, <4>1 DEF HoldsFor
        <3>2. CASE q # p /\ g = h
            <4>1. lease[q].generation <= attempts[h]
                BY <2>3, <2>6, <3>2 DEF HoldsFor, Holds, FenceInv, LeaseInv
            <4>2. lease[q].generation = attempts[h] + 1
                BY <2>2, <2>3, <2>6, <3>2 DEF HoldsFor, Holds
            <4> QED BY <1>0, <4>1, <4>2 DEF TypeOK
        <3>3. CASE q # p /\ g # h
            <4>1. HoldsFor(q, g)
                BY <2>2, <2>3, <2>6, <3>3 DEF HoldsFor, Holds
            <4> QED BY <2>2, <3>3, <4>1 DEF OwnerInv
        <3> QED BY <3>1, <3>2, <3>3
    <2> QED BY <2>4, <2>5, <2>6 DEF OwnerInv
<1>12. ASSUME NEW p \in Procs,
              \/ AdmissionOpen(p) \/ AdmissionFull(p) \/ ClaimNothing(p) \/ ClaimDbError(p)
              \/ Restart(p)
       PROVE  OwnerInv'
    <2>1. UNCHANGED <<status, cancelRequested, workerId, attempts, lease, due, fenced>>
        BY <1>12 DEF AdmissionOpen, AdmissionFull, ClaimNothing, ClaimDbError, Restart, rowVars
    <2>2. \A q \in Procs : Working(q)' <=> Working(q)
        BY <1>0, <1>12 DEF AdmissionOpen, AdmissionFull, ClaimNothing, ClaimDbError, Restart, TypeOK
    <2> QED BY <1>2, <2>1, <2>2 DEF OwnerInv
<1>13. ASSUME NEW p \in Procs, NEW o \in {"ok", "error"}, HandlerReturns(p, o) PROVE OwnerInv'
    BY <1>0, <1>2, <1>13 DEF HandlerReturns, rowVars, TypeOK, OwnerInv
<1>14. CASE Tick \/ Stall
    BY <1>2, <1>14 DEF Tick, Stall, TimePasses, OwnerInv
<1>15. CASE UNCHANGED vars
    BY <1>2, <1>15 DEF vars, rowVars, procVars, OwnerInv
<1> QED BY <1>3, <1>4, <1>5, <1>7, <1>8, <1>9, <1>10, <1>11, <1>12, <1>13, <1>14, <1>15, NextCases

\* The holder is alive and will be in time: the lease outlasts the interval
\* it has left to make its next call in.
Healthy(p, h) ==
    /\ HoldsFor(p, h)
    /\ ~fenced[p]
    /\ ttl[h] >= (IF due[p] THEN 2 ELSE 3)

\* The job is waiting to be claimed, or will be again.
Spent(h) ==
    \/ status[h] \in {"absent", "queued"}
    \/ status[h] = "claimed" /\ \A p \in Procs : ~Healthy(p, h)

\* Each claim but the one in progress was paid for by a fault.
Paid(h) ==
    /\ attempts[h] <= 1 + faults
    /\ Spent(h) => attempts[h] <= faults

RestartInv == FenceInv /\ OwnerInv /\ (Skew = 0 => \A h \in Hunts : Paid(h))

LEMMA PaidStep ==
    ASSUME FenceInv, OwnerInv, Next, Skew = 0, NEW h \in Hunts, Paid(h)
    PROVE  Paid(h)'
<1> USE DEF Working
<1>0. TypeOK /\ TypeOK'
    BY TypeStep DEF FenceInv
<1>f. faults \in Nat /\ faults' \in Nat /\ attempts[h] \in Nat
    BY <1>0 DEF TypeOK
<1>d. \A d \in Offsets : d = 0
    BY DEF Offsets
\* The holder goes on being healthy, or a fault is counted.
<1>1. ASSUME attempts'[h] = attempts[h],
             \/ faults' = faults /\ (Spent(h)' => Spent(h))
             \/ faults' = faults + 1
      PROVE  Paid(h)'
    BY <1>1, <1>f DEF Paid
<1>2. ASSUME UNCHANGED <<attempts, faults>>, status'[h] = status[h], ttl'[h] >= ttl[h], ttl'[h] \in Int,
             \A q \in Procs : Healthy(q, h) =>
                Working(q)' /\ lease'[q] = lease[q] /\ ~fenced'[q] /\ due'[q] = due[q]
      PROVE  Paid(h)'
    <2>1. ASSUME NEW q \in Procs, Healthy(q, h) PROVE Healthy(q, h)'
        <3>1. HoldsFor(q, h)' /\ ~fenced'[q]
            BY <1>2, <2>1 DEF Healthy, HoldsFor, Holds
        <3>2. ttl[h] \in Int /\ ttl'[h] >= ttl[h] /\ ttl'[h] \in Int
            BY <1>0, <1>2 DEF TypeOK
        <3>3. ttl[h] >= 2 /\ (~due[q] => ttl[h] >= 3)
            BY <2>1, <3>2 DEF Healthy
        <3>4. due'[q] = due[q]
            BY <1>2, <2>1
        <3>5. ttl'[h] >= 2 /\ (~due'[q] => ttl'[h] >= 3)
            BY <3>2, <3>3, <3>4
        <3> QED BY <3>1, <3>5 DEF Healthy
    <2> QED BY <1>1, <1>2, <2>1 DEF Spent
<1>3. ASSUME NEW g \in Hunts, Enqueue(g) \/ RequestCancel(g) PROVE Paid(h)'
    <2>1. CASE g = h
        <3>1. status'[h] \in {"absent", "queued"} => status[h] = "absent"
            BY <1>0, <1>3, <2>1 DEF Enqueue, RequestCancel, TypeOK
        <3>2. status'[h] # "claimed" /\ UNCHANGED <<attempts, faults>>
            BY <1>0, <1>3, <2>1 DEF Enqueue, RequestCancel, TypeOK
        <3> QED BY <1>1, <3>1, <3>2 DEF Spent
    <2>2. CASE g # h
        <3>1. UNCHANGED <<attempts, faults, procVars>> /\ status'[h] = status[h] /\ ttl'[h] = ttl[h]
            BY <1>0, <1>3, <2>2 DEF Enqueue, RequestCancel, TypeOK
        <3> QED BY <1>0, <1>2, <3>1 DEF procVars, Healthy, HoldsFor, Holds, TypeOK
    <2> QED BY <2>1, <2>2
<1>4. ASSUME NEW p \in Procs, NEW d \in Offsets, RecoverExpired(p, d) PROVE Paid(h)'
    <2>1. CASE Expired(h, d)
        <3>1. ttl[h] <= 0 /\ status[h] = "claimed"
            BY <1>d, <2>1 DEF Expired
        <3>2. Spent(h)
            BY <1>0, <3>1 DEF Spent, Healthy, TypeOK
        <3> QED BY <1>1, <1>4, <3>2 DEF RecoverExpired
    <2>2. CASE ~Expired(h, d)
        <3>1. status'[h] = status[h] /\ ttl'[h] = ttl[h]
            BY <1>4, <2>2 DEF RecoverExpired
        <3>2. UNCHANGED <<attempts, faults, lease, fenced, due>>
            BY <1>4 DEF RecoverExpired
        <3>3. \A q \in Procs : Working(q) => Working(q)'
            BY <1>0, <1>4 DEF RecoverExpired, TypeOK
        <3> QED BY <1>0, <1>2, <3>1, <3>2, <3>3 DEF Healthy, HoldsFor, Holds, TypeOK
    <2> QED BY <2>1, <2>2
\* A healthy holder passes the fence.
<1>5. ASSUME NEW q \in Procs, Healthy(q, h), NEW d \in Offsets PROVE Owns(q, d)
    <2>1. ttl[h] > d
        BY <1>0, <1>5, <1>d DEF Healthy, TypeOK
    <2>2. workerId[h] = WorkerIdOf[q] /\ ~cancelRequested[h]
        BY <1>5 DEF Healthy, HoldsFor, Holds, OwnerInv
    <2> QED BY <1>5, <2>1, <2>2 DEF Healthy, HoldsFor, Holds, Owns
<1>6. ASSUME NEW p \in Procs, NEW d \in Offsets, Heartbeat(p, d) PROVE Paid(h)'
    <2>1. CASE lease[p].hunt = h
        <3>1. ttl' = [ttl EXCEPT ![h] = 3]
            <4>1. LeaseTicks + d = 3
                BY <1>d DEF LeaseTicks
            <4> QED BY <1>6, <2>1, <4>1 DEF Heartbeat, Renew
        <3>2. /\ UNCHANGED <<status, attempts, faults, pc, lease, fenced>>
              /\ due' = [due EXCEPT ![p] = FALSE]
            BY <1>6 DEF Heartbeat
        <3>3. \A q \in Procs : Healthy(q, h) => Healthy(q, h)'
            BY <1>0, <3>1, <3>2 DEF Healthy, HoldsFor, Holds, TypeOK
        <3> QED BY <1>1, <3>2, <3>3 DEF Spent
    <2>2. CASE lease[p].hunt # h
        <3>1. ttl'[h] = ttl[h]
            BY <1>0, <1>6, <2>2 DEF Heartbeat, Renew, TypeOK
        <3>2. UNCHANGED <<status, attempts, faults, pc, lease, fenced>>
            BY <1>6 DEF Heartbeat
        <3>3. \A q \in Procs \ {p} : due'[q] = due[q]
            BY <1>0, <1>6 DEF Heartbeat, TypeOK
        <3> QED BY <2>2, <1>0, <1>2, <3>1, <3>2, <3>3 DEF Healthy, HoldsFor, Holds, TypeOK
    <2> QED BY <2>1, <2>2
<1>7. ASSUME NEW p \in Procs, NEW d \in Offsets, HeartbeatConflict(p, d) PROVE Paid(h)'
    <2>1. ~Healthy(p, h)
        BY <1>5, <1>7 DEF HeartbeatConflict
    <2>2. UNCHANGED <<status, attempts, ttl, faults, pc, lease>>
        BY <1>7 DEF HeartbeatConflict, rowVars
    <2>3. \A q \in Procs \ {p} : due'[q] = due[q] /\ fenced'[q] = fenced[q]
        BY <1>0, <1>7 DEF HeartbeatConflict, TypeOK
    <2> QED BY <1>0, <1>2, <2>1, <2>2, <2>3 DEF Healthy, HoldsFor, Holds, TypeOK
\* process_one returns for a holder that was not healthy.
<1>8. ASSUME NEW p \in Procs, BackToPoll(p), UNCHANGED <<rowVars, faults>>, ~Healthy(p, h)
      PROVE  Paid(h)'
    <2>1. UNCHANGED <<status, attempts, ttl, faults>>
        BY <1>8 DEF rowVars
    <2>2. \A q \in Procs \ {p} : /\ pc'[q] = pc[q] /\ lease'[q] = lease[q]
                                 /\ due'[q] = due[q] /\ fenced'[q] = fenced[q]
        BY <1>0, <1>8 DEF BackToPoll, TypeOK
    <2> QED BY <1>0, <1>2, <1>8, <2>1, <2>2 DEF Healthy, HoldsFor, Holds, TypeOK
<1>9. ASSUME NEW p \in Procs, FencedReturn(p) PROVE Paid(h)'
    BY <1>8, <1>9 DEF FencedReturn, Healthy
<1>10. ASSUME NEW p \in Procs, NEW d \in Offsets, CompleteConflict(p, d) PROVE Paid(h)'
    BY <1>5, <1>8, <1>10 DEF CompleteConflict
<1>11. ASSUME NEW p \in Procs, NEW d \in Offsets, Complete(p, d) PROVE Paid(h)'
    <2>1. UNCHANGED <<attempts, faults>> /\ BackToPoll(p)
        BY <1>11 DEF Complete
    <2>2. CASE lease[p].hunt = h
        <3>1. status'[h] \in {"completed", "failed"}
            BY <1>0, <1>11, <2>2 DEF Complete, FinalStatus, TypeOK
        <3> QED BY <1>1, <2>1, <3>1 DEF Spent
    <2>3. CASE lease[p].hunt # h
        <3>1. status'[h] = status[h] /\ ttl'[h] = ttl[h]
            BY <1>0, <1>11, <2>3 DEF Complete, TypeOK
        <3>2. \A q \in Procs \ {p} : /\ pc'[q] = pc[q] /\ lease'[q] = lease[q]
                                     /\ due'[q] = due[q] /\ fenced'[q] = fenced[q]
            BY <1>0, <2>1 DEF BackToPoll, TypeOK
        <3> QED BY <1>0, <1>2, <2>1, <2>3, <3>1, <3>2 DEF Healthy, HoldsFor, Holds, TypeOK
    <2> QED BY <2>2, <2>3
<1>12. ASSUME NEW p \in Procs, NEW g \in Hunts, NEW d \in Offsets, ClaimOldest(p, g, d) PROVE Paid(h)'
    <2>0. TakeRow(p, g, d) /\ UNCHANGED <<fenced, due, faults>> /\ ~Working(p)
        BY <1>12 DEF ClaimOldest
    <2>1. CASE g = h
        <3>1. /\ status[h] = "queued" /\ attempts'[h] = attempts[h] + 1 /\ ttl'[h] = 3
              /\ status'[h] = "claimed"
            BY <1>0, <1>d, <2>0, <2>1
               DEF TakeRow, Oldest, Claimable, NextGeneration, LeaseTicks, TypeOK
        <3>2. /\ pc'[p] = "run" /\ lease'[p].hunt = h /\ lease'[p].generation = attempts[h] + 1
              /\ ~fenced'[p] /\ ~due'[p]
            BY <1>0, <1>12, <2>0, <2>1 DEF ClaimOldest, NextGeneration, OwnerInv, TypeOK
        <3>3. Healthy(p, h)'
            BY <3>1, <3>2 DEF Healthy, HoldsFor, Holds
        <3>4. attempts[h] <= faults
            BY <3>1 DEF Paid, Spent
        <3> QED BY <1>f, <2>0, <3>1, <3>3, <3>4 DEF Paid, Spent
    <2>2. CASE g # h
        <3>1. status'[h] = status[h] /\ ttl'[h] = ttl[h] /\ attempts'[h] = attempts[h]
            BY <1>0, <2>0, <2>2 DEF TakeRow, TypeOK
        <3>2. \A q \in Procs \ {p} : pc'[q] = pc[q] /\ lease'[q] = lease[q]
            BY <1>0, <1>12 DEF ClaimOldest, TypeOK
        <3>3. \A q \in Procs : Healthy(q, h) => Healthy(q, h)'
            BY <1>0, <2>0, <3>1, <3>2 DEF Healthy, HoldsFor, Holds, TypeOK
        <3> QED BY <1>1, <2>0, <3>1, <3>3 DEF Spent
    <2> QED BY <2>1, <2>2
<1>13. ASSUME NEW p \in Procs, NEW g \in Hunts, NEW d \in Offsets, ClaimReplyLost(p, g, d)
       PROVE  Paid(h)'
    <2>0. TakeRow(p, g, d) /\ faults' = faults + 1
        BY <1>13 DEF ClaimReplyLost
    <2>1. CASE g = h
        <3>1. status[h] = "queued" /\ attempts'[h] = attempts[h] + 1
            BY <1>0, <2>0, <2>1 DEF TakeRow, Oldest, Claimable, NextGeneration, TypeOK
        <3> QED BY <1>f, <2>0, <3>1 DEF Paid, Spent
    <2>2. CASE g # h
        BY <1>0, <1>1, <2>0, <2>2 DEF TakeRow, TypeOK
    <2> QED BY <2>1, <2>2
<1>14. ASSUME NEW p \in Procs, NEW d \in Offsets, HeartbeatDbError(p, d) PROVE Paid(h)'
    BY <1>1, <1>14 DEF HeartbeatDbError
<1>15. ASSUME NEW p \in Procs, ClaimDbError(p) \/ CompleteDbError(p) \/ Crash(p) PROVE Paid(h)'
    BY <1>1, <1>15 DEF ClaimDbError, CompleteDbError, Crash, rowVars
<1>16. ASSUME NEW p \in Procs,
              AdmissionOpen(p) \/ AdmissionFull(p) \/ ClaimNothing(p) \/ Restart(p)
       PROVE  Paid(h)'
    <2>1. UNCHANGED <<status, attempts, ttl, faults, lease, fenced, due>>
        BY <1>16 DEF AdmissionOpen, AdmissionFull, ClaimNothing, Restart, rowVars
    <2>2. \A q \in Procs : Working(q) => Working(q)'
        BY <1>0, <1>16 DEF AdmissionOpen, AdmissionFull, ClaimNothing, Restart, TypeOK
    <2> QED BY <1>0, <1>2, <2>1, <2>2 DEF Healthy, HoldsFor, Holds, TypeOK
<1>17. ASSUME NEW p \in Procs, NEW o \in {"ok", "error"}, HandlerReturns(p, o) PROVE Paid(h)'
    <2>1. UNCHANGED <<status, attempts, ttl, faults, lease, fenced, due>>
        BY <1>17 DEF HandlerReturns, rowVars
    <2>2. \A q \in Procs : Working(q) => Working(q)'
        BY <1>0, <1>17 DEF HandlerReturns, TypeOK
    <2> QED BY <1>0, <1>2, <2>1, <2>2 DEF Healthy, HoldsFor, Holds, TypeOK
\* A lease loses a third while its holder has no call due.
<1>18. CASE Tick
    <2>1. UNCHANGED <<status, attempts, faults, pc, lease, fenced>>
        BY <1>18 DEF Tick, TimePasses
    <2>2. ASSUME NEW q \in Procs, Healthy(q, h) PROVE Healthy(q, h)'
        <3>1. ttl[h] >= 3 /\ ttl[h] \in Int
            BY <1>0, <1>18, <2>2 DEF Tick, Healthy, TypeOK
        <3>2. ttl'[h] >= 2
            BY <3>1, <1>18 DEF Tick, TimePasses
        <3>3. due'[q] = TRUE
            BY <1>18, <2>2 DEF Tick, TimePasses, Healthy, HoldsFor, Holds
        <3> QED BY <2>1, <2>2, <3>2, <3>3 DEF Healthy, HoldsFor, Holds
    <2> QED BY <1>1, <2>1, <2>2 DEF Spent
<1>19. CASE Stall
    BY <1>1, <1>19 DEF Stall, TimePasses
<1> QED BY <1>3, <1>4, <1>6, <1>7, <1>9, <1>10, <1>11, <1>12, <1>13, <1>14, <1>15, <1>16, <1>17,
           <1>18, <1>19, NextCases

\* With agreeing clocks a job is claimed at most once more than things went
\* wrong, for any number of workers and jobs: the heartbeat interval of a
\* third of the lease keeps every live worker's lease.
THEOREM RestartsArePaid == Spec => []NoRestartWithoutFault
<1>1. Init => RestartInv
    <2> SUFFICES ASSUME Init PROVE RestartInv
        OBVIOUS
    <2>1. OwnerInv
        BY DEF Init, OwnerInv, Working, HoldsFor, Holds
    <2>2. \A h \in Hunts : Paid(h)
        BY DEF Init, Paid
    <2> QED BY <2>1, <2>2, FenceInit DEF RestartInv
<1>2. RestartInv /\ [Next]_vars => RestartInv'
    <2> SUFFICES ASSUME RestartInv, [Next]_vars PROVE RestartInv'
        OBVIOUS
    <2>1. FenceInv' /\ OwnerInv'
        BY FenceStep, OwnerStep DEF RestartInv
    <2>2. CASE Next
        BY <2>1, <2>2, PaidStep DEF RestartInv
    <2>3. CASE UNCHANGED vars
        BY <2>1, <2>3 DEF RestartInv, Paid, Spent, Healthy, HoldsFor, Holds, vars, rowVars, procVars
    <2> QED BY <2>2, <2>3
<1>3. RestartInv => NoRestartWithoutFault
    BY DEF RestartInv, Paid, NoRestartWithoutFault
<1> QED BY <1>1, <1>2, <1>3, PTL DEF Spec

=============================================================================
