------------------------- MODULE HuntWorkflowProofs -------------------------
(***************************************************************************)
(* Proofs about HuntWorkflow, for any number of requests in flight and of  *)
(* workers, and any number of crashes, lost leases and releases.           *)
(***************************************************************************)
EXTENDS HuntWorkflow, TLAPS

-----------------------------------------------------------------------------
(* The table of states.                                                    *)

LEMMA StateNames ==
    Lifecycle!States = {"created", "discovering", "plan_draft", "awaiting_plan_review", "approved", "queued",
                        "running", "paused", "synthesizing", "report_draft", "finalized", "cancelled", "failed"}
BY DEF Lifecycle!States, Lifecycle!ExplicitTransitions

\* The moves that the requests and the workers make are in the table.
LEMMA Transitions ==
    /\ "discovering" \in Lifecycle!AllowedTransitions["created"]
    /\ "plan_draft" \in Lifecycle!AllowedTransitions["discovering"]
    /\ "failed" \in Lifecycle!AllowedTransitions["discovering"]
    /\ "awaiting_plan_review" \in Lifecycle!AllowedTransitions["plan_draft"]
    /\ "approved" \in Lifecycle!AllowedTransitions["awaiting_plan_review"]
    /\ "plan_draft" \in Lifecycle!AllowedTransitions["awaiting_plan_review"]
    /\ "queued" \in Lifecycle!AllowedTransitions["approved"]
    /\ "running" \in Lifecycle!AllowedTransitions["queued"]
    /\ "synthesizing" \in Lifecycle!AllowedTransitions["running"]
    /\ "report_draft" \in Lifecycle!AllowedTransitions["synthesizing"]
    /\ "finalized" \in Lifecycle!AllowedTransitions["report_draft"]
    /\ \A s \in Active : "failed" \in Lifecycle!AllowedTransitions[s]
    /\ \A s \in Lifecycle!States \ Lifecycle!Terminal : "cancelled" \in Lifecycle!AllowedTransitions[s]
<1>1. ASSUME NEW s \in Lifecycle!States
      PROVE  Lifecycle!AllowedTransitions[s] =
                Lifecycle!ExplicitTransitions[s]
                  \cup (IF s \notin Lifecycle!Terminal THEN {"cancelled"} ELSE {})
                  \cup (IF s \notin Lifecycle!Terminal \cup {"created"} THEN {"failed"} ELSE {})
    BY DEF Lifecycle!AllowedTransitions
<1>2. \A s \in Lifecycle!States \ Lifecycle!Terminal : "cancelled" \in Lifecycle!AllowedTransitions[s]
    BY <1>1
<1>3. \A s \in Active \cup {"discovering"} : "failed" \in Lifecycle!AllowedTransitions[s]
    BY <1>1, StateNames DEF Active, Lifecycle!Terminal
<1>4. \A s \in Lifecycle!States : Lifecycle!ExplicitTransitions[s] \subseteq Lifecycle!AllowedTransitions[s]
    BY <1>1
<1>5. /\ Lifecycle!ExplicitTransitions["created"] = {"discovering"}
      /\ Lifecycle!ExplicitTransitions["discovering"] = {"plan_draft"}
      /\ Lifecycle!ExplicitTransitions["plan_draft"] = {"awaiting_plan_review"}
      /\ Lifecycle!ExplicitTransitions["awaiting_plan_review"] = {"approved", "plan_draft"}
      /\ Lifecycle!ExplicitTransitions["approved"] = {"queued", "plan_draft"}
      /\ Lifecycle!ExplicitTransitions["queued"] = {"plan_draft", "running", "synthesizing"}
      /\ Lifecycle!ExplicitTransitions["running"] = {"synthesizing", "paused"}
      /\ Lifecycle!ExplicitTransitions["synthesizing"] = {"report_draft", "paused"}
      /\ Lifecycle!ExplicitTransitions["report_draft"] = {"finalized"}
    BY DEF Lifecycle!ExplicitTransitions
<1> QED BY <1>2, <1>3, <1>4, <1>5, StateNames

-----------------------------------------------------------------------------
(* The state keeps its type.                                               *)

JobStates == {"absent", "queued", "claimed", "completed", "failed", "cancelled"}

LEMMA JobTyped ==
    ASSUME job \in JobStates, holder \in Workers \cup {Nobody},
           \/ Job!Submit \/ Job!Lapse \/ Job!Recover \/ Job!Cancel \/ UNCHANGED <<job, holder>>
           \/ \E w \in Workers : Job!Claim(w) \/ \E s \in {"completed", "failed"} : Job!Decide(w, s)
    PROVE  job' \in JobStates /\ holder' \in Workers \cup {Nobody}
BY DEF Job!Submit, Job!Lapse, Job!Recover, Job!Cancel, Job!Claim, Job!Decide, JobStates

LEMMA Constants ==
    /\ CreatedHunt \in Row /\ NoRequest \in Request /\ Idle \in [at : RunPoints, seen : Row]
    /\ NoApproval \in [version : Nat, plan : Nat, config : Nat]
<1>1. CreatedHunt \in Row
    BY StateNames DEF CreatedHunt, Row, NoApproval
<1> QED BY <1>1 DEF NoRequest, Request, Idle, RunPoints, NoApproval

\* A change of the state column alone.
LEMMA StateChange ==
    ASSUME hunt \in Row, NEW s \in Lifecycle!States, hunt' = [hunt EXCEPT !.state = s]
    PROVE  hunt' \in Row
BY DEF Row

LEMMA RequestChange ==
    ASSUME req \in [Clients -> Request], NEW c \in Clients
    PROVE  /\ Respond(c) => req' \in [Clients -> Request]
           /\ \A at \in {"draft", "review", "cancel_job"} : Proceed(c, at) => req' \in [Clients -> Request]
<1>1. Respond(c) => req' \in [Clients -> Request]
    BY Constants DEF Respond
<1>2. ASSUME NEW at \in {"draft", "review", "cancel_job"}, Proceed(c, at)
      PROVE  req' \in [Clients -> Request]
    <2>1. req' = [req EXCEPT ![c] = [req[c] EXCEPT !.at = at]]
        BY <1>2 DEF Proceed
    <2>2. [req[c] EXCEPT !.at = at] \in Request
        BY DEF Request
    <2> QED BY <2>1, <2>2
<1> QED BY <1>1, <1>2

LEMMA RunChange ==
    ASSUME run \in [Workers -> [at : RunPoints, seen : Row]], NEW w \in Workers, NEW at \in RunPoints, Goto(w, at)
    PROVE  run' \in [Workers -> [at : RunPoints, seen : Row]]
<1>1. run' = [run EXCEPT ![w] = [run[w] EXCEPT !.at = at]]
    BY DEF Goto
<1>2. [run[w] EXCEPT !.at = at] \in [at : RunPoints, seen : Row]
    OBVIOUS
<1> QED BY <1>1, <1>2

LEMMA ClientTyped ==
    ASSUME TypeOK, NEW c \in Clients, ClientStep(c)
    PROVE  TypeOK'
<1> USE DEF TypeOK
<1>1. ASSUME NEW op \in Ops, Begin(c, op) PROVE TypeOK'
    <2>1. [op |-> op, at |-> "write", seen |-> hunt, content |-> IF WritesContent(op) THEN edits + 2 ELSE 0]
            \in Request
        BY DEF Request
    <2> QED BY <1>1, <2>1 DEF Begin, bounds
<1>2. CASE Conflict(c) \/ Abandon(c)
    BY <1>2, RequestChange DEF Conflict, Abandon, rest, bounds
<1>3. CASE DiscoverStart(c) \/ DiscoverReview(c) \/ DiscoverFail(c) \/ CancelHunt(c)
    <2>1. req' \in [Clients -> Request]
        BY <1>3, RequestChange DEF DiscoverStart, DiscoverReview, DiscoverFail, CancelHunt
    <2>2. hunt' \in Row
        BY <1>3, StateChange, StateNames DEF DiscoverStart, DiscoverReview, DiscoverFail, CancelHunt
    <2> QED BY <1>3, <2>1, <2>2 DEF DiscoverStart, DiscoverReview, DiscoverFail, CancelHunt, rest, bounds
<1>4. CASE DiscoverDraft(c)
    <2>1. req' \in [Clients -> Request]
        BY <1>4, RequestChange DEF DiscoverDraft
    <2>2. hunt' \in Row
        BY <1>4, StateNames DEF DiscoverDraft, Row
    <2> QED BY <1>4, <2>1, <2>2 DEF DiscoverDraft, rest, bounds
<1>5. CASE EditPlan(c) \/ RejectPlan(c)
    <2>1. req' \in [Clients -> Request]
        BY <1>5, RequestChange DEF EditPlan, RejectPlan
    <2>2. req[c].content \in Nat
        BY DEF Request
    <2>3. hunt' \in Row
        <3> DEFINE version == hunt.planVersion + 1
        <3>1. version \in Nat /\ NoApproval \in [version : Nat, plan : Nat, config : Nat]
            BY Constants DEF Row
        <3>2. \/ hunt' = [hunt EXCEPT !.state = "awaiting_plan_review", !.plan = req[c].content,
                                     !.planVersion = version, !.approval = NoApproval]
              \/ hunt' = [hunt EXCEPT !.state = "plan_draft", !.plan = req[c].content, !.approval = NoApproval]
            BY <1>5 DEF EditPlan, RejectPlan
        <3> HIDE DEF version
        <3>3. ASSUME NEW state \in Lifecycle!States, NEW v \in Nat
              PROVE  [hunt EXCEPT !.state = state, !.plan = req[c].content, !.planVersion = v,
                                  !.approval = NoApproval] \in Row
            BY <2>2, <3>1 DEF Row
        <3>4. hunt.planVersion \in Nat
            BY DEF Row
        <3>5. [hunt EXCEPT !.state = "plan_draft", !.plan = req[c].content, !.approval = NoApproval] =
                [hunt EXCEPT !.state = "plan_draft", !.plan = req[c].content, !.planVersion = hunt.planVersion,
                             !.approval = NoApproval]
            BY DEF Row
        <3>6. [hunt EXCEPT !.state = "awaiting_plan_review", !.plan = req[c].content,
                           !.planVersion = version, !.approval = NoApproval] \in Row
            BY <3>1, <3>3, StateNames
        <3>7. [hunt EXCEPT !.state = "plan_draft", !.plan = req[c].content, !.approval = NoApproval] \in Row
            BY <3>3, <3>4, <3>5, StateNames
        <3> QED BY <3>2, <3>6, <3>7
    <2> QED BY <1>5, <2>1, <2>3 DEF EditPlan, RejectPlan, rest, bounds
<1>6. CASE ApprovePlan(c)
    <2>1. req' \in [Clients -> Request]
        BY <1>6, RequestChange DEF ApprovePlan
    <2>2. req[c].seen \in Row
        BY DEF Request
    <2>3. [version |-> req[c].seen.planVersion, plan |-> req[c].seen.plan, config |-> req[c].seen.snapshot]
            \in [version : Nat, plan : Nat, config : Nat]
        BY <2>2 DEF Row
    <2>4. hunt' \in Row
        BY <1>6, <2>3, StateNames DEF ApprovePlan, Row
    <2> QED BY <1>6, <2>1, <2>4 DEF ApprovePlan, rest, bounds
<1>7. CASE ExecuteHunt(c)
    <2>1. req' \in [Clients -> Request]
        BY <1>7, RequestChange DEF ExecuteHunt
    <2>2. hunt' \in Row
        BY <1>7, StateChange, StateNames DEF ExecuteHunt
    <2>3. job' \in JobStates /\ holder' \in Workers \cup {Nobody}
        BY <1>7, JobTyped DEF ExecuteHunt, JobStates
    <2> QED BY <1>7, <2>1, <2>2, <2>3 DEF ExecuteHunt, rest, bounds, JobStates
<1>8. CASE CancelJob(c)
    <2>1. req' \in [Clients -> Request]
        BY <1>8, RequestChange DEF CancelJob
    <2>2. job' \in JobStates /\ holder' \in Workers \cup {Nobody}
        BY <1>8, JobTyped DEF CancelJob, JobStates
    <2> QED BY <1>8, <2>1, <2>2 DEF CancelJob, rest, bounds, JobStates
<1>9. CASE SaveReport(c) \/ FinalizeReport(c)
    <2>1. req' \in [Clients -> Request]
        BY <1>9, RequestChange DEF SaveReport, FinalizeReport
    <2>2. req[c].content \in Nat /\ req[c].seen.report \in Nat
        BY DEF Request, Row
    <2>3. hunt' \in Row
        <3> DEFINE version == hunt.reportVersion + 1
        <3>1. version \in Nat
            BY DEF Row
        <3>2. \/ hunt' = [hunt EXCEPT !.report = req[c].content, !.reportVersion = version]
              \/ hunt' = [hunt EXCEPT !.state = "finalized", !.reportState = "finalized", !.pdf = req[c].seen.report]
            BY <1>9 DEF SaveReport, FinalizeReport
        <3> HIDE DEF version
        <3>3. CASE hunt' = [hunt EXCEPT !.report = req[c].content, !.reportVersion = version]
            BY <2>2, <3>1, <3>3 DEF Row
        <3>4. CASE hunt' = [hunt EXCEPT !.state = "finalized", !.reportState = "finalized", !.pdf = req[c].seen.report]
            BY <2>2, <3>4, StateNames DEF Row
        <3> QED BY <3>2, <3>3, <3>4
    <2> QED BY <1>9, <2>1, <2>3 DEF SaveReport, FinalizeReport, rest, bounds
<1> QED BY <1>1, <1>2, <1>3, <1>4, <1>5, <1>6, <1>7, <1>8, <1>9 DEF ClientStep

LEMMA MoveTyped ==
    ASSUME TypeOK, NEW w \in Workers, NEW from, NEW new \in Row, NEW next \in RunPoints, Move(w, from, new, next)
    PROVE  TypeOK'
<1>1. "failing" \in RunPoints
    BY DEF RunPoints, LeasePoints
<1>2. run' \in [Workers -> [at : RunPoints, seen : Row]]
    BY <1>1, RunChange DEF Move, TypeOK
<1> QED BY <1>2 DEF Move, TypeOK, others, bounds

LEMMA WorkerTyped ==
    ASSUME TypeOK, NEW w \in Workers, WorkerStep(w) \/ LeaseLost(w) \/ DbError(w) \/ WorkerCrash(w)
    PROVE  TypeOK'
<1> USE DEF TypeOK
<1>0. {"load", "drafted", "searched", "synthesized", "failing", "idle", "read", "start", "advance", "publish",
       "fail_read", "fail_write", "ok", "error"} = RunPoints
    BY DEF RunPoints, LeasePoints
<1>1. CASE Claim(w)
    <2>1. run' \in [Workers -> [at : RunPoints, seen : Row]]
        BY <1>0, <1>1, RunChange DEF Claim
    <2>2. job' \in JobStates /\ holder' \in Workers \cup {Nobody}
        BY <1>1, JobTyped DEF Claim, JobStates
    <2> QED BY <1>1, <2>1, <2>2 DEF Claim, others, bounds, JobStates
<1>2. CASE RequireLease(w)
    <2>1. (IF holder = w THEN Granted ELSE Refused)[run[w].at] \in RunPoints
        BY <1>0, <1>2 DEF RequireLease, LeasePoints, Granted, Refused
    <2> QED BY <1>2, <2>1, RunChange DEF RequireLease, others, bounds
<1>3. CASE LoadHunt(w)
    <2>1. ResumeAt(hunt) \in RunPoints
        BY <1>0 DEF ResumeAt, Active
    <2> QED BY <1>3, <2>1 DEF LoadHunt, others, bounds
<1>4. CASE Raise(w) \/ DbError(w)
    <2>1. run' \in [Workers -> [at : RunPoints, seen : Row]]
        BY <1>0, <1>4, RunChange DEF Raise, DbError
    <2>2. stranded' \in BOOLEAN
        BY <1>4 DEF Raise, DbError, others, bounds
    <2> QED BY <1>4, <2>1, <2>2 DEF Raise, DbError, others, bounds
<1>5. CASE StartRunning(w)
    <2>1. run[w].seen.plan \in Nat
        BY DEF Row
    <2>2. [hunt EXCEPT !.state = "running", !.ledger = run[w].seen.plan] \in Row
        BY <2>1, StateNames DEF Row
    <2> QED BY <1>0, <1>5, <2>2, MoveTyped DEF StartRunning
<1>6. CASE StartSynthesis(w)
    <2>1. [hunt EXCEPT !.state = "synthesizing"] \in Row
        BY StateNames DEF Row
    <2> QED BY <1>0, <1>6, <2>1, MoveTyped DEF StartSynthesis
<1>7. CASE PublishReport(w)
    <2>1. run[w].seen.plan \in Nat
        BY DEF Row
    <2>2. [hunt EXCEPT !.state = "report_draft", !.reportState = "report_draft",
                       !.reportVersion = 1, !.report = run[w].seen.plan] \in Row
        BY <2>1, StateNames DEF Row
    <2> QED BY <1>0, <1>7, <2>2, MoveTyped DEF PublishReport
<1>8. CASE FailRead(w)
    BY <1>0, <1>8 DEF FailRead, others, bounds
<1>9. CASE FailWrite(w)
    <2>1. hunt' \in Row
        BY <1>9, StateChange, StateNames DEF FailWrite
    <2>2. run' \in [Workers -> [at : RunPoints, seen : Row]]
        BY <1>0, <1>9, RunChange DEF FailWrite
    <2>3. stranded' \in BOOLEAN
        BY <1>9 DEF FailWrite
    <2> QED BY <1>9, <2>1, <2>2, <2>3 DEF FailWrite
<1>10. CASE Finish(w)
    <2>1. job' \in JobStates /\ holder' \in Workers \cup {Nobody}
        BY <1>10, JobTyped DEF Finish, JobStates
    <2> QED BY <1>10, <2>1, Constants DEF Finish, others, bounds, JobStates
<1>11. CASE LeaseLost(w)
    <2>1. job' \in JobStates /\ holder' \in Workers \cup {Nobody}
        BY <1>11, JobTyped DEF LeaseLost, JobStates
    <2> QED BY <1>11, <2>1 DEF LeaseLost, JobStates
<1>12. CASE WorkerCrash(w)
    <2>1. job' \in JobStates /\ holder' \in Workers \cup {Nobody}
        BY <1>12, JobTyped DEF WorkerCrash, JobStates
    <2> QED BY <1>12, <2>1, Constants DEF WorkerCrash, JobStates
<1> QED BY <1>1, <1>2, <1>3, <1>4, <1>5, <1>6, <1>7, <1>8, <1>9, <1>10, <1>11, <1>12 DEF WorkerStep

LEMMA TypeStep == ASSUME TypeOK, [Next]_vars PROVE TypeOK'
<1>1. CASE RecoverJob
    <2>1. job' \in JobStates /\ holder' \in Workers \cup {Nobody}
        BY <1>1, JobTyped DEF RecoverJob, TypeOK, JobStates
    <2> QED BY <1>1, <2>1 DEF RecoverJob, TypeOK, others, bounds, JobStates
<1>2. CASE Redeploy
    <2>1. job' \in JobStates /\ holder' \in Workers \cup {Nobody}
        BY <1>2, JobTyped DEF Redeploy, TypeOK, JobStates
    <2> QED BY <1>2, <2>1, Constants DEF Redeploy, TypeOK, JobStates
<1>3. CASE UNCHANGED vars
    BY <1>3 DEF vars, bounds, TypeOK
<1> QED BY <1>1, <1>2, <1>3, ClientTyped, WorkerTyped DEF Next

\* Every reachable state has the declared type.
THEOREM TypeCorrect == Spec => []TypeOK
<1>1. ASSUME Init PROVE TypeOK
    BY <1>1, Constants DEF Init, Job!Init, TypeOK
<1> QED BY <1>1, TypeStep, PTL DEF Spec

-----------------------------------------------------------------------------
(* The invariant, for an analyst who edits alone.                          *)

SamePlan(a, b) ==
    /\ a.plan = b.plan /\ a.planVersion = b.planVersion
    /\ a.snapshot = b.snapshot /\ a.approval = b.approval

Approved(row) == row.approval = [version |-> row.planVersion, plan |-> row.plan, config |-> row.snapshot]

Reviewed == {"awaiting_plan_review", "plan_draft"}
Settled == Active \cup {"report_draft", "finalized", "cancelled", "failed"}

\* What was read is still true where the write does not compare it: an edit finds
\* the hunt under review, and a report of the version that was read is that report.
RequestInv ==
    \A c \in Clients :
        /\ req[c].op = "edit_plan" => hunt.state \in Reviewed /\ \A d \in Clients \ {c} : ~Pending(d)
        /\ req[c].op = "cancel" => req[c].seen.state \notin Lifecycle!Terminal
        /\ req[c].op \in {"save_report", "finalize"} =>
              /\ hunt.reportState # "none"
              /\ req[c].seen.reportVersion <= hunt.reportVersion
              /\ req[c].seen.reportVersion = hunt.reportVersion => req[c].seen.report = hunt.report

\* A worker about to start a hunt has read an approved plan, which is still the
\* hunt's.
RunInv ==
    \A w \in Workers :
        /\ run[w].at = "fail_write" => run[w].seen.state \in Active
        /\ run[w].at \in {"drafted", "start"} =>
              hunt.state \in Settled /\ Approved(run[w].seen) /\ SamePlan(run[w].seen, hunt)

ReportInv ==
    /\ hunt.reportState = "none" => hunt.reportVersion = 0
    /\ hunt.reportState # "none" => hunt.state \in {"report_draft", "finalized", "cancelled"}
    /\ hunt.reportState = "finalized" => hunt.state = "finalized"

RowInv == ReportInv /\ ExecutesApprovedPlan /\ PdfMatchesReport

\* What a step may do to the row.
Allowed ==
    /\ hunt'.state = hunt.state \/ hunt'.state \in Lifecycle!AllowedTransitions[hunt.state]
    /\ hunt.reportVersion > 0 =>
          /\ hunt'.reportVersion >= hunt.reportVersion
          /\ hunt'.report # hunt.report => /\ hunt.reportState = "report_draft"
                                           /\ hunt'.reportVersion > hunt.reportVersion
    /\ hunt.state = "cancelled" => hunt' = hunt

\* Requests only end or go on with what they read.
Going == \A c \in Clients : req'[c].op = "none" \/ (req'[c].op = req[c].op /\ req'[c].seen = req[c].seen)

\* Workers go elsewhere, or to the start with what they read.
Running ==
    \A w \in Workers :
        \/ run'[w].at \notin {"fail_write", "drafted", "start"}
        \/ run'[w] = run[w]
        \/ run[w].at = "drafted" /\ run'[w].at = "start" /\ run'[w].seen = run[w].seen

LEMMA Responding ==
    ASSUME TypeOK, NEW c \in Clients, Respond(c) \/ \E at : Proceed(c, at)
    PROVE  Going
<1>1. CASE Respond(c)
    BY <1>1 DEF Respond, Going, NoRequest, TypeOK
<1>2. ASSUME NEW at, Proceed(c, at) PROVE Going
    <2>1. req' = [req EXCEPT ![c] = [req[c] EXCEPT !.at = at]]
        BY <1>2 DEF Proceed
    <2>2. /\ [req[c] EXCEPT !.at = at].op = req[c].op
          /\ [req[c] EXCEPT !.at = at].seen = req[c].seen
        BY DEF TypeOK, Request
    <2> QED BY <2>1, <2>2 DEF Going, TypeOK
<1> QED BY <1>1, <1>2

LEMMA GoingTo ==
    ASSUME TypeOK, NEW w \in Workers, NEW at, Goto(w, at), at \notin {"fail_write", "drafted"},
           at = "start" => run[w].at = "drafted"
    PROVE  Running
<1>1. run' = [run EXCEPT ![w] = [run[w] EXCEPT !.at = at]]
    BY DEF Goto
<1>2. /\ [run[w] EXCEPT !.at = at].at = at
      /\ [run[w] EXCEPT !.at = at].seen = run[w].seen
    BY DEF TypeOK
<1> QED BY <1>1, <1>2 DEF Running, TypeOK

\* While an edit is in flight nothing else is.
LEMMA NoEdit ==
    ASSUME RequestInv, NEW c \in Clients, Pending(c), req[c].op # "edit_plan"
    PROVE  \A d \in Clients : req[d].op # "edit_plan"
BY DEF RequestInv

LEMMA RequestsKept ==
    ASSUME RequestInv, Going,
           hunt'.reportState = hunt.reportState, hunt'.reportVersion = hunt.reportVersion,
           hunt'.report = hunt.report,
           hunt'.state \in Reviewed \/ \A d \in Clients : req'[d].op # "edit_plan"
    PROVE  RequestInv'
<1> SUFFICES ASSUME NEW c \in Clients, req'[c].op # "none"
             PROVE  /\ req'[c].op = "edit_plan" => hunt'.state \in Reviewed /\ \A d \in Clients \ {c} : ~Pending(d)'
                    /\ req'[c].op = "cancel" => req'[c].seen.state \notin Lifecycle!Terminal
                    /\ req'[c].op \in {"save_report", "finalize"} =>
                          /\ hunt'.reportState # "none"
                          /\ req'[c].seen.reportVersion <= hunt'.reportVersion
                          /\ req'[c].seen.reportVersion = hunt'.reportVersion => req'[c].seen.report = hunt'.report
    BY DEF RequestInv, Lifecycle!Terminal
<1>1. req'[c].op = req[c].op /\ req'[c].seen = req[c].seen
    BY DEF Going
<1>2. req'[c].op = "edit_plan" => hunt'.state \in Reviewed /\ \A d \in Clients \ {c} : ~Pending(d)'
    BY <1>1 DEF RequestInv, Going, Pending
<1>3. /\ req'[c].op = "cancel" => req'[c].seen.state \notin Lifecycle!Terminal
      /\ req'[c].op \in {"save_report", "finalize"} =>
            /\ hunt'.reportState # "none"
            /\ req'[c].seen.reportVersion <= hunt'.reportVersion
            /\ req'[c].seen.reportVersion = hunt'.reportVersion => req'[c].seen.report = hunt'.report
    BY <1>1 DEF RequestInv
<1> QED BY <1>2, <1>3

LEMMA RunsKept ==
    ASSUME RunInv, Running, hunt.state \notin Settled \/ (hunt'.state \in Settled /\ SamePlan(hunt, hunt'))
    PROVE  RunInv'
<1> SUFFICES ASSUME NEW w \in Workers
             PROVE  /\ run'[w].at = "fail_write" => run'[w].seen.state \in Active
                    /\ run'[w].at \in {"drafted", "start"} =>
                          hunt'.state \in Settled /\ Approved(run'[w].seen) /\ SamePlan(run'[w].seen, hunt')
    BY DEF RunInv, Settled, Active, Approved, SamePlan
<1>1. run'[w].at = "fail_write" => run'[w].seen.state \in Active
    BY DEF RunInv, Running
<1>2. ASSUME run'[w].at \in {"drafted", "start"}
      PROVE  hunt'.state \in Settled /\ Approved(run'[w].seen) /\ SamePlan(run'[w].seen, hunt')
    <2>1. run[w].at \in {"drafted", "start"} /\ run'[w].seen = run[w].seen
        BY <1>2 DEF Running
    <2>2. hunt.state \in Settled /\ Approved(run[w].seen) /\ SamePlan(run[w].seen, hunt)
        BY <2>1 DEF RunInv
    <2> QED BY <2>1, <2>2 DEF SamePlan
<1> QED BY <1>1, <1>2

\* The row is left alone.
LEMMA RowKept == ASSUME RowInv, hunt' = hunt, TypeOK PROVE RowInv' /\ Allowed
<1>1. RowInv'
    BY DEF RowInv, ReportInv, ExecutesApprovedPlan, PdfMatchesReport, Executed
<1>2. Allowed
    BY DEF Allowed, TypeOK, Row
<1> QED BY <1>1, <1>2

\* The state column alone moves.
LEMMA StateMoves ==
    ASSUME RowInv, TypeOK, NEW s \in Lifecycle!AllowedTransitions[hunt.state],
           s \in Lifecycle!States, hunt.state # "cancelled",
           hunt' = [hunt EXCEPT !.state = s],
           s \in Executed => hunt.state \in Executed,
           hunt.state \in {"report_draft", "finalized"} => s = "cancelled" /\ hunt.reportState # "finalized"
    PROVE  /\ RowInv' /\ Allowed /\ hunt'.state = s /\ SamePlan(hunt, hunt')
           /\ hunt'.reportState = hunt.reportState /\ hunt'.reportVersion = hunt.reportVersion
           /\ hunt'.report = hunt.report
<1>1. /\ hunt'.state = s /\ SamePlan(hunt, hunt') /\ hunt'.ledger = hunt.ledger /\ hunt'.pdf = hunt.pdf
      /\ hunt'.reportState = hunt.reportState /\ hunt'.reportVersion = hunt.reportVersion
      /\ hunt'.report = hunt.report
    BY DEF TypeOK, Row, SamePlan
<1>2. ReportInv'
    BY <1>1 DEF RowInv, ReportInv
<1>3. ExecutesApprovedPlan'
    BY <1>1 DEF RowInv, ExecutesApprovedPlan, Executed, SamePlan
<1>4. PdfMatchesReport'
    BY <1>1 DEF RowInv, PdfMatchesReport
<1>5. Allowed
    BY <1>1 DEF Allowed, TypeOK, Row
<1> QED BY <1>1, <1>2, <1>3, <1>4, <1>5 DEF RowInv

-----------------------------------------------------------------------------
(* Every step keeps it.                                                    *)

Inv == TypeOK /\ RequestInv /\ RunInv /\ RowInv

Kept == RequestInv' /\ RunInv' /\ RowInv' /\ Allowed

\* Steps that leave the row alone.
LEMMA QuietStep == ASSUME Inv, UNCHANGED hunt, Going, Running PROVE Kept
<1>1. hunt'.state \in Reviewed \/ \A d \in Clients : req'[d].op # "edit_plan"
    BY DEF Inv, RequestInv, Going
<1>2. RequestInv'
    BY <1>1, RequestsKept DEF Inv
<1>3. RunInv'
    BY RunsKept DEF Inv, SamePlan
<1> QED BY <1>2, <1>3, RowKept DEF Inv, Kept

LEMMA Still == /\ UNCHANGED req => Going
               /\ UNCHANGED run => Running
BY DEF Going, Running

LEMMA BeginStep ==
    ASSUME EditsAlone, Inv, NEW c \in Clients, NEW op \in Ops, Begin(c, op)
    PROVE  Kept
<1>1. /\ op = "edit_plan" => hunt.state \in Reviewed
      /\ op = "cancel" => hunt.state \notin Lifecycle!Terminal
      /\ op \in {"save_report", "finalize"} => hunt.reportState # "none"
    BY DEF Begin, Accepts, Reviewed
<1>2. /\ \A d \in Clients \ {c} : req'[d] = req[d]
      /\ req'[c].op = op /\ req'[c].seen = hunt
      /\ UNCHANGED <<hunt, run>>
    BY DEF Begin, Inv, TypeOK
<1>3. op = "edit_plan" => \A d \in Clients \ {c} : ~Pending(d)
    BY DEF Begin, Undisturbed
<1>4. \A d \in Clients \ {c} : req[d].op # "edit_plan"
    BY DEF Begin, Undisturbed, Pending
<1>5. hunt.reportVersion \in Nat
    BY DEF Inv, TypeOK, Row
<1>6. RequestInv'
    <2> SUFFICES ASSUME NEW d \in Clients
                 PROVE  /\ req'[d].op = "edit_plan" => hunt'.state \in Reviewed /\ \A e \in Clients \ {d} : ~Pending(e)'
                        /\ req'[d].op = "cancel" => req'[d].seen.state \notin Lifecycle!Terminal
                        /\ req'[d].op \in {"save_report", "finalize"} =>
                              /\ hunt'.reportState # "none"
                              /\ req'[d].seen.reportVersion <= hunt'.reportVersion
                              /\ req'[d].seen.reportVersion = hunt'.reportVersion => req'[d].seen.report = hunt'.report
        BY DEF RequestInv, Lifecycle!Terminal
    <2>1. CASE d = c
        BY <1>1, <1>2, <1>3, <1>5, <2>1 DEF Pending
    <2>2. CASE d # c
        BY <1>2, <1>4, <2>2 DEF Inv, RequestInv
    <2> QED BY <2>1, <2>2
<1>7. RunInv'
    BY <1>2, Still, RunsKept DEF Inv, SamePlan
<1> QED BY <1>2, <1>6, <1>7, RowKept DEF Inv, Kept

\* A request of another kind than an edit moves the state column.
LEMMA RequestMoves ==
    ASSUME Inv, NEW c \in Clients, Pending(c), req[c].op # "edit_plan", Going, UNCHANGED run,
           NEW s \in Lifecycle!AllowedTransitions[hunt.state],
           s \in Lifecycle!States, hunt.state # "cancelled",
           hunt' = [hunt EXCEPT !.state = s],
           s \in Executed => hunt.state \in Executed,
           hunt.state \in {"report_draft", "finalized"} => s = "cancelled" /\ hunt.reportState # "finalized",
           hunt.state \in Settled => s \in Settled
    PROVE  Kept
<1>1. /\ RowInv' /\ Allowed /\ hunt'.state = s /\ SamePlan(hunt, hunt')
      /\ hunt'.reportState = hunt.reportState /\ hunt'.reportVersion = hunt.reportVersion
      /\ hunt'.report = hunt.report
    BY StateMoves DEF Inv
<1>2. \A d \in Clients : req'[d].op # "edit_plan"
    BY NoEdit DEF Inv, Going
<1>3. RequestInv'
    BY <1>1, <1>2, RequestsKept DEF Inv
<1>4. RunInv'
    BY <1>1, Still, RunsKept DEF Inv
<1> QED BY <1>1, <1>3, <1>4 DEF Kept

LEMMA DiscoverMoves ==
    ASSUME Inv, NEW c \in Clients,
           DiscoverStart(c) \/ DiscoverReview(c) \/ DiscoverFail(c) \/ ExecuteHunt(c)
    PROVE  Kept
<1>1. Going /\ UNCHANGED run /\ Pending(c) /\ req[c].op # "edit_plan"
    BY Responding DEF Inv, DiscoverStart, DiscoverReview, DiscoverFail, ExecuteHunt, rest, At, Pending
<1>2. CASE DiscoverStart(c)
    <2>1. hunt.state = "created" /\ hunt' = [hunt EXCEPT !.state = "discovering"]
        BY <1>2 DEF DiscoverStart, Matches, At
    <2> QED BY <1>1, <2>1, Transitions, StateNames, RequestMoves DEF Executed, Settled, Active
<1>3. CASE DiscoverReview(c)
    <2>1. hunt.state = "plan_draft" /\ hunt' = [hunt EXCEPT !.state = "awaiting_plan_review"]
        BY <1>3 DEF DiscoverReview, Matches, At
    <2> QED BY <1>1, <2>1, Transitions, StateNames, RequestMoves DEF Executed, Settled, Active
<1>4. CASE DiscoverFail(c)
    <2>1. \/ hunt.state = "discovering" /\ hunt' = [hunt EXCEPT !.state = "failed"]
          \/ hunt' = hunt
        BY <1>4 DEF DiscoverFail, Matches, At
    <2>2. CASE hunt' = hunt
        BY <1>1, <2>2, Still, QuietStep
    <2>3. CASE hunt.state = "discovering" /\ hunt' = [hunt EXCEPT !.state = "failed"]
        BY <1>1, <2>3, Transitions, StateNames, RequestMoves DEF Executed, Settled, Active
    <2> QED BY <2>1, <2>2, <2>3
<1>5. CASE ExecuteHunt(c)
    <2>1. hunt.state = "approved" /\ hunt' = [hunt EXCEPT !.state = "queued"]
        BY <1>5 DEF ExecuteHunt, Matches, At
    <2> QED BY <1>1, <2>1, Transitions, StateNames, RequestMoves DEF Executed, Settled, Active
<1> QED BY <1>2, <1>3, <1>4, <1>5

LEMMA CancelMoves == ASSUME Inv, NEW c \in Clients, CancelHunt(c) PROVE Kept
<1>1. Going /\ UNCHANGED run /\ Pending(c) /\ req[c].op # "edit_plan"
    BY Responding DEF Inv, CancelHunt, rest, At, Pending
<1>2. hunt.state = req[c].seen.state /\ hunt' = [hunt EXCEPT !.state = "cancelled"] /\ req[c].op = "cancel"
    BY DEF CancelHunt, Matches, At
<1>3. hunt.state \in Lifecycle!States \ Lifecycle!Terminal
    BY <1>2 DEF Inv, RequestInv, TypeOK, Row
<1>4. hunt.reportState # "finalized" /\ hunt.state # "cancelled"
    BY <1>3 DEF Inv, RowInv, ReportInv, Lifecycle!Terminal
<1> QED BY <1>1, <1>2, <1>3, <1>4, Transitions, StateNames, RequestMoves DEF Executed, Settled, Active

\* Requests that write the plan, under review.
LEMMA PlanStep ==
    ASSUME Inv, NEW c \in Clients, DiscoverDraft(c) \/ EditPlan(c) \/ ApprovePlan(c) \/ RejectPlan(c)
    PROVE  Kept
<1>1. Going /\ Running
    BY Responding, Still DEF Inv, DiscoverDraft, EditPlan, ApprovePlan, RejectPlan, rest
<1>2. /\ hunt.state \in {"discovering", "awaiting_plan_review", "plan_draft"}
      /\ \A d \in Clients : req'[d].op # "edit_plan"
    <2>1. CASE DiscoverDraft(c) \/ ApprovePlan(c) \/ RejectPlan(c)
        <3>1. Pending(c) /\ req[c].op # "edit_plan"
            BY <2>1 DEF DiscoverDraft, ApprovePlan, RejectPlan, At, Pending
        <3>2. hunt.state \in {"discovering", "awaiting_plan_review"}
            BY <2>1 DEF DiscoverDraft, ApprovePlan, RejectPlan, At, Matches
        <3> QED BY <1>1, <3>1, <3>2, NoEdit DEF Inv, Going
    <2>2. CASE EditPlan(c)
        <3>1. hunt.state \in Reviewed /\ \A d \in Clients \ {c} : ~Pending(d)
            BY <2>2 DEF EditPlan, At, Inv, RequestInv
        <3>2. req'[c].op = "none"
            BY <2>2 DEF EditPlan, Respond, NoRequest, Inv, TypeOK
        <3> QED BY <1>1, <3>1, <3>2 DEF Going, Pending, Reviewed
    <2> QED BY <2>1, <2>2
<1>3. /\ hunt'.state \in {"plan_draft", "awaiting_plan_review", "approved"}
      /\ hunt'.state = hunt.state \/ hunt'.state \in Lifecycle!AllowedTransitions[hunt.state]
      /\ hunt'.reportState = hunt.reportState /\ hunt'.reportVersion = hunt.reportVersion
      /\ hunt'.report = hunt.report
    <2>1. CASE DiscoverDraft(c)
        <3>1. hunt.state = "discovering"
            BY <2>1 DEF DiscoverDraft, Matches, At
        <3>2. /\ hunt'.state = "plan_draft"
              /\ hunt'.reportState = hunt.reportState /\ hunt'.reportVersion = hunt.reportVersion
              /\ hunt'.report = hunt.report
            BY <2>1 DEF DiscoverDraft, Inv, TypeOK, Row
        <3> QED BY <3>1, <3>2, Transitions
    <2>2. CASE EditPlan(c)
        <3>1. hunt.state \in {"awaiting_plan_review", "plan_draft"}
            BY <2>2 DEF EditPlan, At, Inv, RequestInv, Reviewed
        <3>2. /\ hunt'.state = "awaiting_plan_review"
              /\ hunt'.reportState = hunt.reportState /\ hunt'.reportVersion = hunt.reportVersion
              /\ hunt'.report = hunt.report
            BY <2>2 DEF EditPlan, Inv, TypeOK, Row
        <3> QED BY <3>1, <3>2, Transitions
    <2>3. CASE ApprovePlan(c)
        <3>1. hunt.state = "awaiting_plan_review"
            BY <2>3 DEF ApprovePlan, Matches, At
        <3>2. /\ hunt'.state = "approved"
              /\ hunt'.reportState = hunt.reportState /\ hunt'.reportVersion = hunt.reportVersion
              /\ hunt'.report = hunt.report
            BY <2>3 DEF ApprovePlan, Inv, TypeOK, Row
        <3> QED BY <3>1, <3>2, Transitions
    <2>4. CASE RejectPlan(c)
        <3>1. hunt.state = "awaiting_plan_review"
            BY <2>4 DEF RejectPlan, Matches, At
        <3>2. /\ hunt'.state = "plan_draft"
              /\ hunt'.reportState = hunt.reportState /\ hunt'.reportVersion = hunt.reportVersion
              /\ hunt'.report = hunt.report
            BY <2>4 DEF RejectPlan, Inv, TypeOK, Row
        <3> QED BY <3>1, <3>2, Transitions
    <2> QED BY <2>1, <2>2, <2>3, <2>4
<1>4. RequestInv'
    BY <1>1, <1>2, <1>3, RequestsKept DEF Inv
<1>5. RunInv'
    <2>1. hunt.state \notin Settled
        BY <1>2 DEF Settled, Active
    <2> QED BY <1>1, <2>1, RunsKept DEF Inv
<1>6. RowInv'
    <2>1. hunt.reportState = "none"
        BY <1>2 DEF Inv, RowInv, ReportInv
    <2>2. ReportInv' /\ PdfMatchesReport'
        BY <1>3, <2>1 DEF Inv, RowInv, ReportInv, PdfMatchesReport
    <2>3. ExecutesApprovedPlan'
        BY <1>3 DEF ExecutesApprovedPlan, Executed
    <2> QED BY <2>2, <2>3 DEF RowInv
<1>7. Allowed
    BY <1>2, <1>3 DEF Allowed, Inv, TypeOK, Row
<1> QED BY <1>4, <1>5, <1>6, <1>7 DEF Kept

LEMMA SaveStep == ASSUME Inv, NEW c \in Clients, SaveReport(c) PROVE Kept
<1>1. Going /\ UNCHANGED run /\ Pending(c) /\ req[c].op = "save_report"
    BY Responding DEF Inv, SaveReport, rest, At, Pending
<1>2. hunt.state = "report_draft" /\ hunt.reportState = "report_draft"
    BY DEF SaveReport, Matches, At, SameReport
<1>3. /\ hunt'.state = hunt.state /\ SamePlan(hunt, hunt') /\ hunt'.ledger = hunt.ledger
      /\ hunt'.reportState = hunt.reportState /\ hunt'.reportVersion = hunt.reportVersion + 1
    BY DEF SaveReport, Inv, TypeOK, Row, SamePlan
<1>4. hunt.reportVersion \in Nat
    BY DEF Inv, TypeOK, Row
<1>5. \A d \in Clients : req'[d].op # "edit_plan"
    BY <1>1, NoEdit DEF Inv, Going
<1>6. RequestInv'
    <2> SUFFICES ASSUME NEW d \in Clients, req'[d].op # "none"
                 PROVE  /\ req'[d].op = "cancel" => req'[d].seen.state \notin Lifecycle!Terminal
                        /\ req'[d].op \in {"save_report", "finalize"} =>
                              /\ hunt'.reportState # "none"
                              /\ req'[d].seen.reportVersion <= hunt'.reportVersion
                              /\ req'[d].seen.reportVersion # hunt'.reportVersion
        BY <1>5 DEF RequestInv, Lifecycle!Terminal
    <2>1. req'[d].op = req[d].op /\ req'[d].seen = req[d].seen /\ req[d].seen.reportVersion \in Nat
        BY <1>1 DEF Going, Inv, TypeOK, Request, Row
    <2>2. req[d].op \in {"save_report", "finalize"} => req[d].seen.reportVersion <= hunt.reportVersion
        BY DEF Inv, RequestInv
    <2>3. req[d].op = "cancel" => req[d].seen.state \notin Lifecycle!Terminal
        BY DEF Inv, RequestInv
    <2> QED BY <1>2, <1>3, <1>4, <2>1, <2>2, <2>3
<1>7. RunInv'
    <2>1. hunt'.state \in Settled
        BY <1>2, <1>3 DEF Settled
    <2> QED BY <1>1, <1>3, <2>1, Still, RunsKept DEF Inv
<1>8. RowInv'
    BY <1>2, <1>3 DEF Inv, RowInv, ReportInv, PdfMatchesReport, ExecutesApprovedPlan, Executed, SamePlan
<1>9. Allowed
    BY <1>2, <1>3, <1>4 DEF Allowed
<1> QED BY <1>6, <1>7, <1>8, <1>9 DEF Kept

LEMMA FinalizeStep == ASSUME Inv, NEW c \in Clients, FinalizeReport(c) PROVE Kept
<1>1. Going /\ UNCHANGED run /\ Pending(c) /\ req[c].op = "finalize"
    BY Responding DEF Inv, FinalizeReport, rest, At, Pending
<1>2. /\ hunt.state = "report_draft" /\ hunt.reportState = "report_draft"
      /\ hunt.reportVersion = req[c].seen.reportVersion
    BY DEF FinalizeReport, Matches, At, SameReport
<1>3. /\ hunt'.state = "finalized" /\ SamePlan(hunt, hunt') /\ hunt'.ledger = hunt.ledger
      /\ hunt'.reportState = "finalized" /\ hunt'.reportVersion = hunt.reportVersion
      /\ hunt'.report = hunt.report /\ hunt'.pdf = req[c].seen.report
    BY DEF FinalizeReport, Inv, TypeOK, Row, SamePlan
<1>4. req[c].seen.report = hunt.report
    BY <1>1, <1>2 DEF Inv, RequestInv
<1>5. \A d \in Clients : req'[d].op # "edit_plan"
    BY <1>1, NoEdit DEF Inv, Going
<1>6. RequestInv'
    <2> SUFFICES ASSUME NEW d \in Clients, req'[d].op # "none"
                 PROVE  /\ req'[d].op = "cancel" => req'[d].seen.state \notin Lifecycle!Terminal
                        /\ req'[d].op \in {"save_report", "finalize"} =>
                              /\ req'[d].seen.reportVersion <= hunt.reportVersion
                              /\ req'[d].seen.reportVersion = hunt.reportVersion => req'[d].seen.report = hunt.report
        BY <1>3, <1>5 DEF RequestInv, Lifecycle!Terminal
    <2>1. req'[d].op = req[d].op /\ req'[d].seen = req[d].seen
        BY <1>1 DEF Going
    <2> QED BY <2>1 DEF Inv, RequestInv
<1>7. RunInv'
    <2>1. hunt'.state \in Settled
        BY <1>3 DEF Settled
    <2> QED BY <1>1, <1>3, <2>1, Still, RunsKept DEF Inv
<1>8. RowInv'
    <2>1. ReportInv'
        BY <1>3 DEF ReportInv
    <2>2. PdfMatchesReport'
        BY <1>3, <1>4 DEF PdfMatchesReport
    <2>3. ExecutesApprovedPlan'
        BY <1>2, <1>3 DEF Inv, RowInv, ExecutesApprovedPlan, Executed, SamePlan
    <2> QED BY <2>1, <2>2, <2>3 DEF RowInv
<1>9. Allowed
    <2>1. hunt.reportVersion \in Nat
        BY DEF Inv, TypeOK, Row
    <2> QED BY <1>2, <1>3, <2>1, Transitions DEF Allowed
<1> QED BY <1>6, <1>7, <1>8, <1>9 DEF Kept

LEMMA ClientKept == ASSUME EditsAlone, Inv, NEW c \in Clients, ClientStep(c) PROVE Kept
<1>1. CASE Conflict(c) \/ Abandon(c) \/ CancelJob(c)
    <2>1. Going /\ UNCHANGED <<hunt, run>>
        BY <1>1, Responding DEF Inv, Conflict, Abandon, CancelJob, rest
    <2> QED BY <2>1, Still, QuietStep
<1> QED BY <1>1, BeginStep, DiscoverMoves, CancelMoves, PlanStep, SaveStep, FinalizeStep DEF ClientStep

\* A worker moves the state column of an active hunt.
LEMMA WorkerMoves ==
    ASSUME Inv, Running, UNCHANGED req, hunt.state \in Active,
           NEW s \in Lifecycle!AllowedTransitions[hunt.state],
           s \in {"synthesizing", "failed"}, s = "synthesizing" => hunt.state = "running",
           hunt' = [hunt EXCEPT !.state = s]
    PROVE  Kept
<1>1. /\ RowInv' /\ Allowed /\ hunt'.state = s /\ SamePlan(hunt, hunt')
      /\ hunt'.reportState = hunt.reportState /\ hunt'.reportVersion = hunt.reportVersion
      /\ hunt'.report = hunt.report
    BY StateMoves, StateNames DEF Inv, Active, Executed
<1>2. \A d \in Clients : req'[d].op # "edit_plan"
    BY DEF Inv, RequestInv, Active, Reviewed
<1>3. RequestInv'
    BY <1>1, <1>2, Still, RequestsKept DEF Inv
<1>4. RunInv'
    BY <1>1, RunsKept DEF Inv, Settled, Active
<1> QED BY <1>1, <1>3, <1>4 DEF Kept

LEMMA StartStep == ASSUME Inv, NEW w \in Workers, StartRunning(w) PROVE Kept
<1>1. Running /\ UNCHANGED req
    BY GoingTo DEF StartRunning, Move, others, Inv
<1>2. CASE hunt.state # "queued"
    BY <1>1, <1>2, Still, QuietStep DEF StartRunning, Move
<1>3. CASE hunt.state = "queued"
    <2>1. hunt' = [hunt EXCEPT !.state = "running", !.ledger = run[w].seen.plan]
        BY <1>3 DEF StartRunning, Move
    <2>2. /\ hunt'.state = "running" /\ SamePlan(hunt, hunt') /\ hunt'.ledger = run[w].seen.plan
          /\ hunt'.reportState = hunt.reportState /\ hunt'.reportVersion = hunt.reportVersion
          /\ hunt'.report = hunt.report
        BY <2>1 DEF Inv, TypeOK, Row, SamePlan
    <2>3. Approved(run[w].seen) /\ SamePlan(run[w].seen, hunt)
        BY DEF StartRunning, Inv, RunInv
    <2>4. RequestInv'
        <3>1. \A d \in Clients : req'[d].op # "edit_plan"
            BY <1>1, <1>3 DEF Inv, RequestInv, Reviewed
        <3> QED BY <1>1, <2>2, <3>1, Still, RequestsKept DEF Inv
    <2>5. RunInv'
        BY <1>1, <2>2, RunsKept DEF Inv, Settled, Active
    <2>6. hunt.reportState = "none"
        BY <1>3 DEF Inv, RowInv, ReportInv
    <2>7. RowInv'
        <3>1. ReportInv' /\ PdfMatchesReport'
            BY <2>2, <2>6 DEF Inv, RowInv, ReportInv, PdfMatchesReport
        <3>2. ExecutesApprovedPlan'
            BY <2>2, <2>3 DEF ExecutesApprovedPlan, Approved, SamePlan
        <3> QED BY <3>1, <3>2 DEF RowInv
    <2>8. Allowed
        BY <1>3, <2>2, Transitions DEF Allowed, Inv, TypeOK, Row
    <2> QED BY <2>4, <2>5, <2>7, <2>8 DEF Kept
<1> QED BY <1>2, <1>3

LEMMA PublishStep == ASSUME Inv, NEW w \in Workers, PublishReport(w) PROVE Kept
<1>1. Running /\ UNCHANGED req
    BY GoingTo DEF PublishReport, Move, others, Inv
<1>2. CASE hunt.state # "synthesizing"
    BY <1>1, <1>2, Still, QuietStep DEF PublishReport, Move
<1>3. CASE hunt.state = "synthesizing"
    <2>1. hunt' = [hunt EXCEPT !.state = "report_draft", !.reportState = "report_draft",
                               !.reportVersion = 1, !.report = run[w].seen.plan]
        BY <1>3 DEF PublishReport, Move
    <2>2. /\ hunt'.state = "report_draft" /\ SamePlan(hunt, hunt') /\ hunt'.ledger = hunt.ledger
          /\ hunt'.reportState = "report_draft"
        BY <2>1 DEF Inv, TypeOK, Row, SamePlan
    <2>3. hunt.reportState = "none" /\ hunt.reportVersion = 0
        BY <1>3 DEF Inv, RowInv, ReportInv
    <2>4. RequestInv'
        <3>1. \A d \in Clients : req[d].op \notin {"edit_plan", "save_report", "finalize"}
            BY <1>3, <2>3 DEF Inv, RequestInv, Reviewed
        <3> QED BY <1>1, <3>1 DEF Inv, RequestInv, Lifecycle!Terminal
    <2>5. RunInv'
        BY <1>1, <2>2, RunsKept DEF Inv, Settled
    <2>6. RowInv'
        <3>1. ReportInv' /\ PdfMatchesReport'
            BY <2>2 DEF ReportInv, PdfMatchesReport
        <3>2. ExecutesApprovedPlan'
            BY <1>3, <2>2 DEF Inv, RowInv, ExecutesApprovedPlan, Executed, SamePlan
        <3> QED BY <3>1, <3>2 DEF RowInv
    <2>7. Allowed
        BY <1>3, <2>2, <2>3, Transitions DEF Allowed
    <2> QED BY <2>4, <2>5, <2>6, <2>7 DEF Kept
<1> QED BY <1>2, <1>3

\* The row is read: what a worker goes on with.
LEMMA ReadStep == ASSUME Inv, NEW w \in Workers, LoadHunt(w) \/ FailRead(w) PROVE Kept
<1>1. PICK at : /\ run' = [run EXCEPT ![w] = [at |-> at, seen |-> hunt]]
                /\ at = "fail_write" => hunt.state \in Active
                /\ at \in {"drafted", "start"} => hunt.state = "queued" /\ Bound(hunt)
    <2>1. CASE LoadHunt(w)
        <3>1. run' = [run EXCEPT ![w] = [at |-> ResumeAt(hunt), seen |-> hunt]]
            BY <2>1 DEF LoadHunt
        <3>2. /\ ResumeAt(hunt) # "fail_write"
              /\ ResumeAt(hunt) \in {"drafted", "start"} => hunt.state = "queued" /\ Bound(hunt)
            BY DEF ResumeAt, Active
        <3> QED BY <3>1, <3>2
    <2>2. CASE FailRead(w)
        <3> DEFINE next == IF hunt.state \in Active THEN "fail_write" ELSE "error"
        <3>1. run' = [run EXCEPT ![w] = [at |-> next, seen |-> hunt]]
            BY <2>2 DEF FailRead
        <3>2. next \notin {"drafted", "start"} /\ (next = "fail_write" => hunt.state \in Active)
            OBVIOUS
        <3> HIDE DEF next
        <3> QED BY <3>1, <3>2
    <2> QED BY <2>1, <2>2
<1>2. UNCHANGED <<hunt, req>>
    BY DEF LoadHunt, FailRead, others
<1>3. Bound(hunt) => Approved(hunt)
    <2>1. hunt.approval \in [version : Nat, plan : Nat, config : Nat]
        BY DEF Inv, TypeOK, Row
    <2> QED BY <2>1 DEF Bound, Approved
<1>4. RunInv'
    <2> SUFFICES ASSUME NEW v \in Workers
                 PROVE  /\ run'[v].at = "fail_write" => run'[v].seen.state \in Active
                        /\ run'[v].at \in {"drafted", "start"} =>
                              hunt.state \in Settled /\ Approved(run'[v].seen) /\ SamePlan(run'[v].seen, hunt)
        BY <1>2 DEF RunInv, Settled, Active, Approved, SamePlan
    <2>1. CASE v = w
        BY <1>1, <1>3, <2>1 DEF Inv, TypeOK, Settled, Active, SamePlan
    <2>2. CASE v # w
        <3>1. run'[v] = run[v]
            BY <1>1, <2>2 DEF Inv, TypeOK
        <3> QED BY <3>1 DEF Inv, RunInv
    <2> QED BY <2>1, <2>2
<1>5. RequestInv'
    <2>1. hunt'.state \in Reviewed \/ \A d \in Clients : req'[d].op # "edit_plan"
        BY <1>2 DEF Inv, RequestInv
    <2> QED BY <1>2, <2>1, Still, RequestsKept DEF Inv
<1> QED BY <1>2, <1>4, <1>5, RowKept DEF Inv, Kept

LEMMA WorkerKept ==
    ASSUME Inv, NEW w \in Workers, WorkerStep(w) \/ LeaseLost(w) \/ DbError(w) \/ WorkerCrash(w)
    PROVE  Kept
<1>1. CASE Claim(w) \/ Raise(w) \/ DbError(w)
    <2>1. Running /\ UNCHANGED <<hunt, req>>
        BY <1>1, GoingTo DEF Claim, Raise, DbError, others, Inv
    <2> QED BY <2>1, Still, QuietStep
<1>2. CASE RequireLease(w)
    <2>1. PICK at : /\ Goto(w, at) /\ at \notin {"fail_write", "drafted"}
                    /\ at = "start" => run[w].at = "drafted"
        BY <1>2 DEF RequireLease, LeasePoints, Granted, Refused
    <2>2. Running /\ UNCHANGED <<hunt, req>>
        BY <1>2, <2>1, GoingTo DEF RequireLease, others, Inv
    <2> QED BY <2>2, Still, QuietStep
<1>3. CASE StartSynthesis(w)
    <2>1. Running /\ UNCHANGED req
        BY <1>3, GoingTo DEF StartSynthesis, Move, others, Inv
    <2>2. CASE hunt.state = "running"
        <3>1. hunt' = [hunt EXCEPT !.state = "synthesizing"]
            BY <1>3, <2>2 DEF StartSynthesis, Move
        <3> QED BY <2>1, <2>2, <3>1, Transitions, WorkerMoves DEF Active
    <2>3. CASE hunt.state # "running"
        BY <1>3, <2>1, <2>3, Still, QuietStep DEF StartSynthesis, Move
    <2> QED BY <2>2, <2>3
<1>4. CASE FailWrite(w)
    <2>1. Running /\ UNCHANGED req
        BY <1>4, GoingTo DEF FailWrite, others, Inv
    <2>2. CASE hunt.state = run[w].seen.state
        <3>1. hunt' = [hunt EXCEPT !.state = "failed"] /\ hunt.state \in Active
            BY <1>4, <2>2 DEF FailWrite, Inv, RunInv
        <3> QED BY <2>1, <3>1, Transitions, WorkerMoves
    <2>3. CASE hunt.state # run[w].seen.state
        BY <1>4, <2>1, <2>3, Still, QuietStep DEF FailWrite
    <2> QED BY <2>2, <2>3
<1>5. CASE Finish(w) \/ WorkerCrash(w)
    <2>1. run' = [run EXCEPT ![w] = Idle] /\ UNCHANGED <<hunt, req>>
        BY <1>5 DEF Finish, WorkerCrash, others
    <2>2. Running
        BY <2>1 DEF Running, Idle, Inv, TypeOK
    <2> QED BY <2>1, <2>2, Still, QuietStep
<1>6. CASE LeaseLost(w)
    BY <1>6, Still, QuietStep DEF LeaseLost
<1> QED BY <1>1, <1>2, <1>3, <1>4, <1>5, <1>6, StartStep, PublishStep, ReadStep DEF WorkerStep

LEMMA WorkflowStep == ASSUME EditsAlone, Inv, [Next]_vars PROVE Inv' /\ Allowed
<1>1. CASE RecoverJob \/ UNCHANGED vars
    <2>1. UNCHANGED <<hunt, req, run>>
        BY <1>1 DEF RecoverJob, vars, others
    <2> QED BY <2>1, <1>1, Still, QuietStep, TypeStep DEF Inv, Kept
<1>2. CASE Redeploy
    <2>1. UNCHANGED hunt /\ Going /\ Running
        BY <1>2 DEF Redeploy, Going, Running, NoRequest, Idle
    <2> QED BY <2>1, QuietStep, TypeStep DEF Inv, Kept
<1>3. CASE \E c \in Clients : ClientStep(c)
    BY <1>3, ClientKept, TypeStep DEF Inv, Kept
<1>4. CASE \E w \in Workers : WorkerStep(w) \/ LeaseLost(w) \/ DbError(w) \/ WorkerCrash(w)
    BY <1>4, WorkerKept, TypeStep DEF Inv, Kept
<1> QED BY <1>1, <1>2, <1>3, <1>4 DEF Next

LEMMA WorkflowInitial == ASSUME Init PROVE Inv
<1>1. TypeOK
    BY Constants DEF Init, Job!Init, TypeOK
<1>2. RequestInv /\ RunInv
    BY DEF Init, RequestInv, RunInv, NoRequest, Idle
<1>3. RowInv
    BY DEF Init, CreatedHunt, RowInv, ReportInv, PdfMatchesReport, ExecutesApprovedPlan, Executed
<1> QED BY <1>1, <1>2, <1>3 DEF Inv

LEMMA WorkflowInvariant == ASSUME EditsAlone PROVE Spec => []Inv
<1>1. Inv /\ [Next]_vars => Inv'
    BY WorkflowStep
<1> QED BY <1>1, WorkflowInitial, PTL DEF Spec

-----------------------------------------------------------------------------
(* The theorems.                                                           *)

\* The plan that is executed is the one the analyst approved, with its version
\* and its configuration, if the analyst edits a plan only while no other
\* request is in flight (without that, TLC shows that it is not).
THEOREM ApprovedPlanIsExecuted == ASSUME EditsAlone PROVE Spec => []ExecutesApprovedPlan
<1>1. Inv => ExecutesApprovedPlan
    BY DEF Inv, RowInv
<1> QED BY <1>1, WorkflowInvariant, PTL

\* The PDF of a finalized report shows its final text, though requests to save
\* and to finalize it overlap.
THEOREM PdfIsFinalText == ASSUME EditsAlone PROVE Spec => []PdfMatchesReport
<1>1. Inv => PdfMatchesReport
    BY DEF Inv, RowInv
<1> QED BY <1>1, WorkflowInvariant, PTL

\* No late request or replaced worker writes over a settled report or a cancelled
\* hunt.
THEOREM ReportsAreKept == ASSUME EditsAlone PROVE Spec => ReportNeverOverwritten
<1>1. Inv /\ [Next]_vars =>
        [/\ hunt.reportVersion > 0 =>
              /\ hunt'.reportVersion >= hunt.reportVersion
              /\ hunt'.report # hunt.report => /\ hunt.reportState = "report_draft"
                                               /\ hunt'.reportVersion > hunt.reportVersion
         /\ hunt.state = "cancelled" => hunt' = hunt]_vars
    BY WorkflowStep DEF Allowed
<1> QED BY <1>1, WorkflowInvariant, PTL DEF Spec, ReportNeverOverwritten

\* HuntWorkflow implements HuntLifecycle: whatever the requests, workers and faults
\* do, the state column takes only the moves of ALLOWED_TRANSITIONS.
THEOREM ImplementsLifecycle == ASSUME EditsAlone PROVE Spec => FollowsLifecycle
<1>1. Init => Lifecycle!Init
    BY DEF Init, CreatedHunt, Lifecycle!Init
<1>2. Inv /\ [Next]_vars => [Lifecycle!Next]_(hunt.state)
    BY WorkflowStep DEF Allowed, Lifecycle!Next
<1> QED BY <1>1, <1>2, WorkflowInvariant, PTL DEF Spec, FollowsLifecycle, Lifecycle!Spec
=============================================================================
