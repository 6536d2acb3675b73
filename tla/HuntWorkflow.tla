---------------------------- MODULE HuntWorkflow ----------------------------
(***************************************************************************)
(* One hunt, from creation to its final report (services/workflow.py): the *)
(* analyst's requests, served concurrently by the API's thread pool, and   *)
(* the workers that run its execution job.                                 *)
(*                                                                         *)
(* Every operation of WorkflowService reads the hunts row (_owned_row),    *)
(* works on its copy, and then writes with _update, a compare-and-set on   *)
(* the columns the operation names.  The read and each write are separate  *)
(* transactions and separate steps here.  The job is the one JobContract   *)
(* describes; require_lease is a step of its own, before the write it      *)
(* guards.                                                                 *)
(*                                                                         *)
(* Plans and reports are content numbers: equal numbers are equal texts    *)
(* and equal hashes.  0 is SQL NULL.                                       *)
(***************************************************************************)
EXTENDS Naturals, FiniteSets

CONSTANTS
    Clients,       \* requests in flight at once
    Workers,       \* worker processes
    Nobody,        \* no lease holder
    EditsAlone,    \* TRUE: the analyst edits a plan only while no other
                   \* request is in flight, and waits for the answer
    MaxEdits,      \* bound: contents written by the analyst
    MaxRedeploys,  \* bound: releases that change the execution configuration
    MaxCrashes,    \* bound: worker crashes
    MaxGlitches,   \* bound: leases lost by a live worker, database errors
    MaxFaults      \* bound: crashes, glitches and releases together

ASSUME NobodyIsNoWorker == Nobody \notin Workers
ASSUME EditsAloneIsBoolean == EditsAlone \in BOOLEAN
ASSUME BoundsAreNumbers ==
    /\ MaxEdits \in Nat
    /\ MaxRedeploys \in Nat
    /\ MaxCrashes \in Nat
    /\ MaxGlitches \in Nat
    /\ MaxFaults \in Nat

VARIABLES
    hunt,       \* the hunts row
    job,        \* the status of its execution job
    holder,     \* the worker that holds the job's lease
    config,     \* the execution configuration the processes run with
    req,        \* the requests in flight
    run,        \* execute_job on each worker
    stranded,   \* the job's holder fails and its hunt is not told
    edits, redeploys, crashes, glitches

bounds == <<stranded, redeploys, crashes, glitches>>
vars   == <<hunt, job, holder, config, req, run, edits, bounds>>

Job       == INSTANCE JobContract WITH status <- job
Lifecycle == INSTANCE HuntLifecycle WITH state <- hunt.state

-----------------------------------------------------------------------------
NoApproval == [version |-> 0, plan |-> 0, config |-> 0]

CreatedHunt ==
    [ state       |-> "created",
      planVersion |-> 0,
      plan        |-> 0,           \* plan
      snapshot    |-> 0,           \* discovery_snapshot.execution_config_snapshot
      approval    |-> NoApproval,  \* plan_version, plan_sha256, config sha256
      ledger      |-> 0,           \* the plan results.query_ledger was drafted for
      reportState |-> "none", reportVersion |-> 0, report |-> 0,
      pdf         |-> 0 ]          \* the content report_pdf was rendered from

Row == [ state : Lifecycle!States, planVersion : Nat, plan : Nat, snapshot : Nat,
         approval : [version : Nat, plan : Nat, config : Nat], ledger : Nat,
         reportState : {"none", "report_draft", "finalized"}, reportVersion : Nat,
         report : Nat, pdf : Nat ]

Ops == {"discover", "edit_plan", "approve", "reject", "execute", "cancel",
        "save_report", "finalize"}

\* A request is between its read and its first write ("write"), or, for
\* discover and cancel, at a later write.
NoRequest == [op |-> "none", at |-> "done", seen |-> CreatedHunt, content |-> 0]
Request   == [ op : Ops \cup {"none"}, at : {"done", "write", "draft", "review", "cancel_job"},
               seen : Row, content : Nat ]

\* execute_job: the points where require_lease is called, and the others.
LeasePoints == {"load", "drafted", "searched", "synthesized", "failing"}
RunPoints   == LeasePoints \cup {"idle", "read", "start", "advance", "publish",
                                 "fail_read", "fail_write", "ok", "error"}
Idle == [at |-> "idle", seen |-> CreatedHunt]

TypeOK ==
    /\ hunt \in Row
    /\ job \in {"absent", "queued", "claimed", "completed", "failed", "cancelled"}
    /\ holder \in Workers \cup {Nobody}
    /\ config \in Nat
    /\ req \in [Clients -> Request]
    /\ run \in [Workers -> [at : RunPoints, seen : Row]]
    /\ stranded \in BOOLEAN
    /\ edits \in Nat /\ redeploys \in Nat /\ crashes \in Nat /\ glitches \in Nat

Init ==
    /\ hunt = CreatedHunt
    /\ Job!Init
    /\ config = 1
    /\ req = [c \in Clients |-> NoRequest]
    /\ run = [w \in Workers |-> Idle]
    /\ stranded = FALSE
    /\ edits = 0 /\ redeploys = 0 /\ crashes = 0 /\ glitches = 0

-----------------------------------------------------------------------------
(* Requests: the read and the checks on it.                                *)

\* The checks of execute on the row it read.
Executable(row) ==
    /\ row.state = "approved"
    /\ row.approval.version = row.planVersion
    /\ row.approval.config = row.snapshot
    /\ row.snapshot = config

\* Mutant: a plan may be edited until a worker starts it.
AcceptsEditsWhileQueued(op) ==
    CASE op = "discover"              -> hunt.state = "created"
      [] op = "edit_plan"             -> hunt.state \in {"awaiting_plan_review", "plan_draft",
                                                        "approved", "queued"}
      [] op \in {"approve", "reject"} -> hunt.state = "awaiting_plan_review"
      [] op = "execute"               -> Executable(hunt)
      [] op = "cancel"                -> hunt.state \notin Lifecycle!Terminal
      [] OTHER                        -> hunt.reportState = "report_draft"

Accepts(op) ==
    CASE op = "discover"              -> hunt.state = "created"
      [] op = "edit_plan"             -> hunt.state \in {"awaiting_plan_review", "plan_draft"}
      [] op \in {"approve", "reject"} -> hunt.state = "awaiting_plan_review"
      [] op = "execute"               -> Executable(hunt)
      [] op = "cancel"                -> hunt.state \notin Lifecycle!Terminal
      [] OTHER                        -> hunt.reportState = "report_draft"

WritesContent(op) == op \in {"edit_plan", "reject", "save_report"}

Pending(c) == req[c].op # "none"

\* What EditsAlone assumes of the analyst.
Undisturbed(c, op) ==
    EditsAlone => \A d \in Clients \ {c} :
        Pending(d) => op # "edit_plan" /\ req[d].op # "edit_plan"

\* A request that the checks refuse changes nothing.
Begin(c, op) ==
    /\ ~Pending(c)
    /\ Accepts(op)
    /\ Undisturbed(c, op)
    /\ WritesContent(op) => edits < MaxEdits
    /\ edits' = IF WritesContent(op) THEN edits + 1 ELSE edits
    /\ req' = [req EXCEPT ![c] = [op |-> op, at |-> "write", seen |-> hunt,
                                  content |-> IF WritesContent(op) THEN edits + 2 ELSE 0]]
    /\ UNCHANGED <<hunt, job, holder, config, run, bounds>>

-----------------------------------------------------------------------------
(* Requests: the writes.                                                   *)

At(c, op, at) == req[c].op = op /\ req[c].at = at

Respond(c) == req' = [req EXCEPT ![c] = NoRequest]
Proceed(c, at) == req' = [req EXCEPT ![c].at = at]

\* Mutant: the version is not compared.
SameReportAnyVersion(c) == hunt.state = "report_draft" /\ hunt.reportState = "report_draft"

\* The WHERE clause of save_report and finalize_report.
SameReport(c) ==
    /\ hunt.state = "report_draft"
    /\ hunt.reportState = "report_draft"
    /\ hunt.reportVersion = req[c].seen.reportVersion

\* The WHERE clause of the request's next _update.
Matches(c) ==
    LET seen == req[c].seen IN
    CASE At(c, "discover", "write")  -> hunt.state = "created"
      [] At(c, "discover", "draft")  -> hunt.state = "discovering"
      [] At(c, "discover", "review") -> hunt.state = "plan_draft"
      [] req[c].op = "edit_plan"     -> hunt.planVersion = seen.planVersion
      [] req[c].op \in {"approve", "reject"} ->
            hunt.state = "awaiting_plan_review" /\ hunt.planVersion = seen.planVersion
      [] req[c].op = "execute" ->
            hunt.state = "approved" /\ hunt.planVersion = seen.planVersion
      [] req[c].op = "cancel" -> hunt.state = seen.state
      [] OTHER -> SameReport(c)

rest == <<config, run, edits, bounds>>

\* _update raises Conflict: "hunt changed before the operation completed".
\* discover's catch does not include it.
Conflict(c) ==
    /\ req[c].at \in {"write", "draft", "review"}
    /\ ~Matches(c)
    /\ Respond(c)
    /\ UNCHANGED <<hunt, job, holder, rest>>

\* The request ends without its next write: a validation or adapter error,
\* a database error, or the API process dies.
Abandon(c) ==
    /\ Pending(c)
    /\ Respond(c)
    /\ UNCHANGED <<hunt, job, holder, rest>>

DiscoverStart(c) ==
    /\ At(c, "discover", "write") /\ Matches(c)
    /\ hunt' = [hunt EXCEPT !.state = "discovering"]
    /\ Proceed(c, "draft")
    /\ UNCHANGED <<job, holder, rest>>

\* Discovery and planning end; the plan is drafted under this configuration.
DiscoverDraft(c) ==
    /\ At(c, "discover", "draft") /\ Matches(c)
    /\ hunt' = [hunt EXCEPT !.state = "plan_draft", !.plan = 1, !.planVersion = 1,
                            !.snapshot = config]
    /\ Proceed(c, "review")
    /\ UNCHANGED <<job, holder, rest>>

DiscoverReview(c) ==
    /\ At(c, "discover", "review") /\ Matches(c)
    /\ hunt' = [hunt EXCEPT !.state = "awaiting_plan_review"]
    /\ Respond(c)
    /\ UNCHANGED <<job, holder, rest>>

\* Mutant: the failure is recorded whatever the hunt has become.
DiscoverFailAlways(c) ==
    /\ At(c, "discover", "draft")
    /\ hunt' = [hunt EXCEPT !.state = "failed"]
    /\ Respond(c)
    /\ UNCHANGED <<job, holder, rest>>

\* Splunk, the model or a check fails: the hunt fails if it still can.
DiscoverFail(c) ==
    /\ At(c, "discover", "draft")
    /\ hunt' = IF Matches(c) THEN [hunt EXCEPT !.state = "failed"] ELSE hunt
    /\ Respond(c)
    /\ UNCHANGED <<job, holder, rest>>

\* save_plan and revise_plan.
EditPlan(c) ==
    /\ At(c, "edit_plan", "write") /\ Matches(c)
    /\ hunt' = [hunt EXCEPT !.state = "awaiting_plan_review", !.plan = req[c].content,
                            !.planVersion = @ + 1, !.approval = NoApproval]
    /\ Respond(c)
    /\ UNCHANGED <<job, holder, rest>>

\* The approval binds the plan and configuration of the row that was read.
ApprovePlan(c) ==
    /\ At(c, "approve", "write") /\ Matches(c)
    /\ LET seen == req[c].seen IN
       hunt' = [hunt EXCEPT !.state = "approved",
                            !.approval = [version |-> seen.planVersion, plan |-> seen.plan,
                                          config |-> seen.snapshot]]
    /\ Respond(c)
    /\ UNCHANGED <<job, holder, rest>>

\* The plan gets the note as a limitation and keeps its version.
RejectPlan(c) ==
    /\ At(c, "reject", "write") /\ Matches(c)
    /\ hunt' = [hunt EXCEPT !.state = "plan_draft", !.plan = req[c].content,
                            !.approval = NoApproval]
    /\ Respond(c)
    /\ UNCHANGED <<job, holder, rest>>

\* One transaction: the hunt is queued and its job enqueued, unless the
\* idempotency key has a job already.
ExecuteHunt(c) ==
    /\ At(c, "execute", "write") /\ Matches(c)
    /\ hunt' = [hunt EXCEPT !.state = "queued"]
    /\ IF job = "absent" THEN Job!Submit ELSE UNCHANGED <<job, holder>>
    /\ Respond(c)
    /\ UNCHANGED rest

CancelHunt(c) ==
    /\ At(c, "cancel", "write") /\ Matches(c)
    /\ hunt' = [hunt EXCEPT !.state = "cancelled"]
    /\ Proceed(c, "cancel_job")
    /\ UNCHANGED <<job, holder, rest>>

\* request_cancel, in a transaction of its own.
CancelJob(c) ==
    /\ At(c, "cancel", "cancel_job")
    /\ Job!Cancel \/ (job \notin {"queued", "claimed"} /\ UNCHANGED <<job, holder>>)
    /\ Respond(c)
    /\ UNCHANGED <<hunt, rest>>

SaveReport(c) ==
    /\ At(c, "save_report", "write") /\ Matches(c)
    /\ hunt' = [hunt EXCEPT !.report = req[c].content, !.reportVersion = @ + 1]
    /\ Respond(c)
    /\ UNCHANGED <<job, holder, rest>>

\* The PDF is rendered from the row that was read.
FinalizeReport(c) ==
    /\ At(c, "finalize", "write") /\ Matches(c)
    /\ hunt' = [hunt EXCEPT !.state = "finalized", !.reportState = "finalized",
                            !.pdf = req[c].seen.report]
    /\ Respond(c)
    /\ UNCHANGED <<job, holder, rest>>

-----------------------------------------------------------------------------
(* execute_job.                                                            *)

Active == {"queued", "running", "synthesizing"}

\* The approval still binds the plan, and the configuration has not drifted.
Bound(row) ==
    /\ row.approval.plan = row.plan
    /\ row.approval.version = row.planVersion
    /\ row.approval.config = row.snapshot
    /\ row.snapshot = config

Goto(w, at) == run' = [run EXCEPT ![w].at = at]

others == <<config, req, edits, bounds>>

Claim(w) ==
    /\ run[w].at = "idle"
    /\ Job!Claim(w)
    /\ Goto(w, "load")
    /\ UNCHANGED <<hunt, others>>

\* require_lease: what follows while the lease is held, and otherwise.
Granted == [load |-> "read", drafted |-> "start", searched |-> "advance",
            synthesized |-> "publish", failing |-> "fail_read"]
Refused == [load |-> "error", drafted |-> "failing", searched |-> "failing",
            synthesized |-> "failing", failing |-> "error"]

RequireLease(w) ==
    /\ run[w].at \in LeasePoints
    /\ Goto(w, (IF holder = w THEN Granted ELSE Refused)[run[w].at])
    /\ UNCHANGED <<hunt, job, holder, others>>

\* Where execute_job goes on from a row: it resumes from the saved state.
ResumeAt(row) ==
    IF row.state \in {"cancelled", "report_draft"} THEN "ok"
    ELSE IF row.state \notin Active \/ ~Bound(row) THEN "error"
    ELSE [queued |-> "drafted", running |-> "searched", synthesizing |-> "synthesized"][row.state]

LoadHunt(w) ==
    /\ run[w].at = "read"
    /\ run' = [run EXCEPT ![w] = [at |-> ResumeAt(hunt), seen |-> hunt]]
    /\ UNCHANGED <<hunt, job, holder, others>>

\* The draft, the investigation or the report raises: adapter, model or policy errors, a
\* spent budget or deadline, a cancelled token, a lost checkpoint update.
Raise(w) ==
    /\ run[w].at \in {"drafted", "searched", "publish"}
    /\ Goto(w, "failing")
    /\ UNCHANGED <<hunt, job, holder, others>>

\* Mutant: the update does not compare the state.
MoveAlways(w, from, new, next) ==
    /\ hunt' = new /\ Goto(w, next)
    /\ UNCHANGED <<job, holder, others>>

\* A state change of execute_job: compare-and-set, or Conflict.
Move(w, from, new, next) ==
    /\ IF hunt.state = from
       THEN hunt' = new /\ Goto(w, next)
       ELSE UNCHANGED hunt /\ Goto(w, "failing")
    /\ UNCHANGED <<job, holder, others>>

\* queued -> running, with the ledger drafted for the plan that was read.
StartRunning(w) ==
    /\ run[w].at = "start"
    /\ Move(w, "queued", [hunt EXCEPT !.state = "running", !.ledger = run[w].seen.plan],
            "searched")

\* The investigation and the answers are done.  Nothing checks the lease for
\* this write: the last check is the one of the last answer, at "searched",
\* and the lease may be lost in between.
StartSynthesis(w) ==
    /\ run[w].at = "advance"
    /\ Move(w, "running", [hunt EXCEPT !.state = "synthesizing"], "synthesized")

\* The drafted report; its content is that of the plan it answers.
PublishReport(w) ==
    /\ run[w].at = "publish"
    /\ Move(w, "synthesizing",
            [hunt EXCEPT !.state = "report_draft", !.reportState = "report_draft",
                         !.reportVersion = 1, !.report = run[w].seen.plan],
            "ok")

FailRead(w) ==
    /\ run[w].at = "fail_read"
    /\ run' = [run EXCEPT ![w] = [at   |-> IF hunt.state \in Active THEN "fail_write" ELSE "error",
                                  seen |-> hunt]]
    /\ UNCHANGED <<hunt, job, holder, others>>

\* Mutant: the failure is raised and not recorded.
FailUnrecorded(w) ==
    /\ run[w].at = "fail_write"
    /\ Goto(w, "error")
    /\ UNCHANGED <<hunt, job, holder, others>>

\* A Conflict here is swallowed and the first error raised again, also when
\* a worker that has lost its lease has moved the hunt since it was read.
FailWrite(w) ==
    /\ run[w].at = "fail_write"
    /\ hunt' = IF hunt.state = run[w].seen.state
               THEN [hunt EXCEPT !.state = "failed"] ELSE hunt
    /\ stranded' = (stranded \/ (hunt'.state \in Active /\ holder = w))
    /\ Goto(w, "error")
    /\ UNCHANGED <<job, holder, config, req, edits, redeploys, crashes, glitches>>

\* process_one completes the job with the handler's outcome, if it can.
Finish(w) ==
    /\ run[w].at \in {"ok", "error"}
    /\ IF holder = w
       THEN Job!Decide(w, IF run[w].at = "ok" THEN "completed" ELSE "failed")
       ELSE UNCHANGED <<job, holder>>
    /\ run' = [run EXCEPT ![w] = Idle]
    /\ UNCHANGED <<hunt, others>>

-----------------------------------------------------------------------------
(* Faults.                                                                 *)

Faults == crashes + glitches + redeploys

\* A live worker loses its lease: a pause, a clock, a database error.
LeaseLost(w) ==
    /\ glitches < MaxGlitches /\ Faults < MaxFaults
    /\ glitches' = glitches + 1
    /\ run[w].at # "idle" /\ holder = w
    /\ Job!Lapse
    /\ UNCHANGED <<hunt, config, req, run, edits, stranded, redeploys, crashes>>

\* The points of execute_job outside its try, and those of its handler: an
\* error there leaves execute_job at once and the hunt as it is.
Unguarded == {"load", "read", "failing", "fail_read", "fail_write"}
Guarded   == {"drafted", "start", "searched", "advance", "synthesized", "publish"}

\* The database fails at the worker's next read or write.  (A reply lost
\* after a commit is the write followed by this error.)
DbError(w) ==
    /\ glitches < MaxGlitches /\ Faults < MaxFaults
    /\ glitches' = glitches + 1
    /\ run[w].at \in Unguarded \cup Guarded
    /\ Goto(w, IF run[w].at \in Unguarded THEN "error" ELSE "failing")
    /\ stranded' = (stranded \/ (run[w].at \in Unguarded /\ holder = w))
    /\ UNCHANGED <<hunt, job, holder, config, req, edits, redeploys, crashes>>

WorkerCrash(w) ==
    /\ crashes < MaxCrashes /\ Faults < MaxFaults
    /\ crashes' = crashes + 1
    /\ run[w].at # "idle"
    /\ run' = [run EXCEPT ![w] = Idle]
    /\ IF holder = w THEN Job!Lapse ELSE UNCHANGED <<job, holder>>
    /\ UNCHANGED <<hunt, config, req, edits, stranded, redeploys, glitches>>

\* Mutant: only the jobs of active hunts are recovered.
RecoverActiveJob ==
    /\ holder = Nobody
    /\ hunt.state \in Active
    /\ Job!Recover
    /\ UNCHANGED <<hunt, run, others>>

\* A job whose holder is gone returns to the queue when its lease expires.
RecoverJob ==
    /\ holder = Nobody
    /\ Job!Recover
    /\ UNCHANGED <<hunt, run, others>>

\* A release: API and workers stop and start with other settings (an image
\* version, a model, a budget).
Redeploy ==
    /\ redeploys < MaxRedeploys /\ Faults < MaxFaults
    /\ redeploys' = redeploys + 1
    /\ config' = config + 1
    /\ req' = [c \in Clients |-> NoRequest]
    /\ run' = [w \in Workers |-> Idle]
    /\ Job!Lapse \/ (holder = Nobody /\ UNCHANGED <<job, holder>>)
    /\ UNCHANGED <<hunt, edits, stranded, crashes, glitches>>

-----------------------------------------------------------------------------
ClientStep(c) ==
    \/ \E op \in Ops : Begin(c, op)
    \/ Conflict(c) \/ Abandon(c)
    \/ DiscoverStart(c) \/ DiscoverDraft(c) \/ DiscoverReview(c) \/ DiscoverFail(c)
    \/ EditPlan(c) \/ ApprovePlan(c) \/ RejectPlan(c) \/ ExecuteHunt(c)
    \/ CancelHunt(c) \/ CancelJob(c)
    \/ SaveReport(c) \/ FinalizeReport(c)

WorkerStep(w) ==
    \/ Claim(w) \/ RequireLease(w) \/ LoadHunt(w) \/ Raise(w)
    \/ StartRunning(w) \/ StartSynthesis(w) \/ PublishReport(w)
    \/ FailRead(w) \/ FailWrite(w) \/ Finish(w)

Next ==
    \/ \E c \in Clients : ClientStep(c)
    \/ \E w \in Workers : WorkerStep(w) \/ LeaseLost(w) \/ DbError(w) \/ WorkerCrash(w)
    \/ RecoverJob
    \/ Redeploy

Spec == Init /\ [][Next]_vars

\* Workers keep working and expired leases are recovered; nothing is assumed
\* of the analyst.
FairSpec == Spec /\ WF_vars(RecoverJob) /\ \A w \in Workers : WF_vars(WorkerStep(w))

-----------------------------------------------------------------------------
(* Properties.                                                             *)

\* The state column only moves along ALLOWED_TRANSITIONS (domain/state.py):
\* no interleaving of requests, workers and crashes skips a step, revives a
\* terminal hunt or steps back.
FollowsLifecycle == Lifecycle!Spec

\* Once execution has begun, the searches, the plan in the row, its version
\* and its configuration are the ones the analyst approved.
Executed == {"running", "synthesizing", "report_draft", "finalized"}
ExecutesApprovedPlan ==
    hunt.state \in Executed =>
        /\ hunt.ledger = hunt.plan
        /\ hunt.approval = [version |-> hunt.planVersion, plan |-> hunt.plan,
                            config  |-> hunt.snapshot]

\* A finalized report's PDF shows the report's final text, though the PDF is
\* rendered outside the transaction that finalizes it.
PdfMatchesReport == hunt.reportState = "finalized" => hunt.pdf = hunt.report

\* No request or worker, late or replaced, writes over what is settled: once
\* there is a report its version never goes back and finalizing freezes it,
\* and a cancelled hunt keeps its plan, approval, ledger and report.
ReportNeverOverwritten ==
    [][/\ hunt.reportVersion > 0 =>
            /\ hunt'.reportVersion >= hunt.reportVersion
            /\ hunt'.report # hunt.report => /\ hunt.reportState = "report_draft"
                                             /\ hunt'.reportVersion > hunt.reportVersion
       /\ hunt.state = "cancelled" => hunt' = hunt]_vars

\* A queued hunt is executed, cancelled or failed, wherever a worker crashes,
\* loses its lease or meets a database error.  Three things alone leave it
\* active for good: a release runs another configuration than the approved
\* one (execute_job refuses the row before its try); the database fails the
\* job's holder before the try or while it records a failure; a worker that
\* has lost its lease moves the hunt while the holder records one.
QueuedHuntEnds ==
    hunt.state = "queued" ~>
        \/ hunt.state \notin Active
        \/ stranded /\ glitches > 0
        \/ hunt.snapshot # config

\* The job of a cancelled hunt ends, though the request that cancels the job
\* may never be made.
CancelledJobEnds ==
    hunt.state = "cancelled" /\ job \in {"queued", "claimed"} ~> job \notin {"queued", "claimed"}
=============================================================================
