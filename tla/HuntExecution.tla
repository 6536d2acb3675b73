---------------------------- MODULE HuntExecution ----------------------------
(***************************************************************************)
(* The execution of one queued hunt: execute_job from the draft of its     *)
(* queries to its report (services/workflow.py), with the searches it runs *)
(* in Splunk (services/orchestration.py, integrations/splunk.py).          *)
(*                                                                         *)
(* All progress is one JSON document, the results column.  A worker reads  *)
(* it, calls Splunk or the model, and writes the whole document back with  *)
(* a comparison of the hunt's state only.  require_lease, the read and the *)
(* write are separate transactions, hence separate steps.  The job is the  *)
(* one JobContract describes.                                              *)
(*                                                                         *)
(* A query is its number; its Splunk job has the query's id.  The clock    *)
(* has the values the deadlines tell apart: 0 before the query start       *)
(* cutoff, 1 before the end of the investigation, 2 after it.              *)
(***************************************************************************)
EXTENDS Naturals, Sequences, FiniteSets

CONSTANTS
    Workers,       \* worker processes
    Nobody,        \* no lease holder
    MaxDraft,      \* bound: queries in the model's first proposal
    MaxIssued,     \* bound: queries in all
    MaxSearches,   \* max_splunk_queries
    MaxCycles,     \* max_agent_cycles
    MaxQueryRows,  \* max_cached_rows_per_query
    MaxRows,       \* max_cached_rows_per_hunt
    MaxCrashes,    \* bound: worker crashes
    MaxErrors,     \* bound: transactions that fail
    MaxGlitches    \* bound: leases lost by a live worker

ASSUME NobodyIsNoWorker == Nobody \notin Workers
ASSUME LimitsAreNumbers ==
    /\ MaxDraft \in Nat /\ MaxIssued \in Nat /\ MaxDraft <= MaxIssued
    /\ MaxSearches \in Nat /\ MaxCycles \in Nat
    /\ MaxQueryRows \in Nat /\ MaxRows \in Nat
    /\ MaxCrashes \in Nat /\ MaxErrors \in Nat /\ MaxGlitches \in Nat

VARIABLES
    hunt,        \* the hunts row: state, results, report
    job,         \* the status of its execution job
    holder,      \* the worker that holds the job's lease
    run,         \* execute_job on each worker
    search,      \* the Splunk job of each query
    dispatched,  \* searches Splunk was made to run, ever
    dropped,     \* those cancelled because their submission was not recorded
    issued,      \* query ids given out
    stranded,    \* an execution's failure could not be recorded either
    clock, crashes, errors, glitches

faults == <<stranded, crashes, errors, glitches>>
vars == <<hunt, job, holder, run, search, dispatched, dropped, issued, clock, faults>>

Job == INSTANCE JobContract WITH status <- job

-----------------------------------------------------------------------------
Queries  == 1 .. MaxIssued
\* Mutant: a submitted search is taken for finished.
FinishedOrSubmitted == {"completed", "skipped_time_cutoff", "skipped_budget", "timed_out",
                        "submitted"}

Finished == {"completed", "skipped_time_cutoff", "skipped_budget", "timed_out"}
Statuses == Finished \cup {"planned", "submitted"}
Active   == {"queued", "running", "synthesizing"}

\* BudgetCounters, as far as searches and rows go.
NoUsage == [searches |-> 0, rows |-> 0, cycles |-> 0]
Usage   == [searches : Nat, rows : Nat, cycles : Nat]

\* queries: for each query, how many result records it has and the rows they hold.
\* A result's record and its evidence are replaced together.
NoRecords == [q \in Queries |-> [records |-> 0, rows |-> 0]]
Records   == [Queries -> [records : Nat, rows : Nat]]
NoResults == [ledger |-> <<>>, queries |-> NoRecords, usage |-> NoUsage,
              adaptiveComplete |-> FALSE, answered |-> FALSE]
Results   == [ledger : Seq([id : Queries, status : Statuses]),
              queries : Records, usage : Usage,
              adaptiveComplete : BOOLEAN, answered : BOOLEAN]

\* The points where require_lease is called, those where results are saved,
\* and the others.
LeasePoints == {"load", "start", "checkpoint", "assess", "cover", "reserve",
                "synth", "answer", "publish", "failing"}
SavePoints  == {"save", "cover_save", "interim_save", "round_save", "reserve_save",
                "answer_save"}
OtherPoints == {"idle", "read", "draft", "start_save", "scan", "submit", "dispatch",
                "poll", "abort", "apply", "assess_read", "round", "decide",
                "reserve_read", "synth_read", "answering", "advance", "publish_save",
                "fail_read", "fail_save", "ok", "error"}

\* pos, len: the loop of _run_checkpoint_queries.  q, todo, rows: its query,
\* the status to checkpoint next and the rows retrieved.  mem: the results
\* document being edited.  usage: the counters, in memory.  seen: the state
\* a failure is to replace; "running" while execute_job calls itself.
Idle == [at |-> "idle", pos |-> 0, len |-> 0, q |-> 0, todo |-> "planned", rows |-> 0,
         mem |-> NoResults, usage |-> NoUsage, seen |-> "none"]
Run  == [at : LeasePoints \cup SavePoints \cup OtherPoints, pos : Nat, len : Nat,
         q : Queries \cup {0}, todo : Statuses, rows : Nat, mem : Results, usage : Usage,
         seen : Active \cup {"none"}]

TypeOK ==
    /\ hunt \in [state : Active \cup {"report_draft", "failed", "cancelled"},
                 results : Results, report : Records]
    /\ job \in {"queued", "claimed", "completed", "failed", "cancelled"}
    /\ holder \in Workers \cup {Nobody}
    /\ run \in [Workers -> Run]
    /\ search \in [Queries -> {"none", "running", "done", "gone"}]
    /\ dispatched \in Nat /\ dropped \in Nat /\ issued \in 0 .. MaxIssued
    /\ clock \in 0 .. 2 /\ stranded \in BOOLEAN
    /\ crashes \in Nat /\ errors \in Nat /\ glitches \in Nat

\* The hunt was approved and queued.
Init ==
    /\ hunt = [state |-> "queued", results |-> NoResults, report |-> NoRecords]
    /\ job = "queued" /\ holder = Nobody
    /\ run = [w \in Workers |-> Idle]
    /\ search = [q \in Queries |-> "none"]
    /\ dispatched = 0 /\ dropped = 0 /\ issued = 0
    /\ clock = 0 /\ stranded = FALSE /\ crashes = 0 /\ errors = 0 /\ glitches = 0

-----------------------------------------------------------------------------
(* The lease.                                                              *)

\* An exception or return leaves the loops; only the counters outlive them.
Goto(w, at) ==
    run' = [run EXCEPT ![w] = IF at \in {"failing", "ok", "error"}
                              THEN [Idle EXCEPT !.at = at, !.usage = run[w].usage]
                              ELSE [@ EXCEPT !.at = at]]

jobs   == <<job, holder>>
splunk == <<search, dispatched, dropped>>

\* _HuntCancellationToken.is_cancelled.
Cancelled(w) == holder # w \/ hunt.state = "cancelled"

Claim(w) ==
    /\ run[w].at = "idle"
    /\ Job!Claim(w)
    /\ Goto(w, "load")
    /\ UNCHANGED <<hunt, splunk, issued, clock, faults>>

Granted == [load |-> "read", start |-> "start_save", checkpoint |-> "apply",
            assess |-> "assess_read", cover |-> "cover_save", reserve |-> "reserve_read",
            synth |-> "synth_read", answer |-> "answer_save", publish |-> "publish_save",
            failing |-> "fail_read"]

\* on_submitted runs inside execute_query, which cancels the search when it
\* raises.
Refused(w) ==
    CASE run[w].at \in {"load", "failing"}                         -> "error"
      [] run[w].at = "checkpoint" /\ run[w].todo = "submitted"     -> "abort"
      [] OTHER                                                     -> "failing"

\* on_submitted and the synthesis also ask the token, just before.
AsksToken(w) == run[w].at = "synth" \/ (run[w].at = "checkpoint" /\ run[w].todo = "submitted")

RequireLease(w) ==
    /\ run[w].at \in LeasePoints
    /\ LET refused == IF AsksToken(w) THEN Cancelled(w) ELSE holder # w IN
       Goto(w, IF refused THEN Refused(w) ELSE Granted[run[w].at])
    /\ UNCHANGED <<hunt, jobs, splunk, issued, clock, faults>>

-----------------------------------------------------------------------------
(* Loading and drafting.                                                   *)

local == <<hunt, jobs, splunk, issued, clock, faults>>

\* execute_job resumes from the saved state, with the saved counters.
LoadHunt(w) ==
    /\ run[w].at = "read"
    /\ LET saved == hunt.results IN
       run' = [run EXCEPT ![w] =
         CASE hunt.state \in {"cancelled", "report_draft"} -> [@ EXCEPT !.at = "ok"]
           [] hunt.state = "failed"       -> [@ EXCEPT !.at = "error"]
           [] hunt.state = "queued"       -> [Idle EXCEPT !.at = "draft"]
           [] hunt.state = "running"      -> [Idle EXCEPT !.at = "scan", !.pos = 1,
                                                !.len = Len(saved.ledger), !.usage = saved.usage]
           [] hunt.state = "synthesizing" -> [Idle EXCEPT !.at = "publish", !.mem = saved]]
    /\ UNCHANGED local

\* _draft_execution_ledger.  The ids become visible with the ledger.
Draft(w) ==
    /\ run[w].at = "draft"
    /\ \E n \in 0 .. MaxDraft :
         run' = [run EXCEPT ![w].at = "start",
                            ![w].mem.ledger = [i \in 1 .. n |-> [id |-> i, status |-> "planned"]]]
    /\ UNCHANGED local

\* queued -> running; the clock starts.
StartRunning(w) ==
    /\ run[w].at = "start_save"
    /\ IF hunt.state = "queued"
       THEN /\ hunt' = [hunt EXCEPT !.state = "running", !.results = run[w].mem]
            /\ issued' = Len(run[w].mem.ledger)
            /\ run' = [run EXCEPT ![w].at = "scan", ![w].pos = 1, ![w].len = issued']
       ELSE Goto(w, "failing") /\ UNCHANGED <<hunt, issued>>
    /\ UNCHANGED <<jobs, splunk, clock, faults>>

-----------------------------------------------------------------------------
(* _run_checkpoint_queries and execute_query.                              *)

\* can_start_query.
CanStartQuery(usage) == usage.searches < MaxSearches

\* record_splunk_query, record_result, record_cycle: in memory.
RecordSplunkQuery(usage) == [usage EXCEPT !.searches = @ + 1]
RecordResult(usage, rows) == [usage EXCEPT !.rows = @ + rows]
RecordCycle(usage) == [usage EXCEPT !.cycles = @ + 1]

\* The status a query gets without running, or the point where it runs.
Dispose(entry, usage) ==
    IF entry.status = "planned" /\ clock > 0
    THEN [at |-> "checkpoint", todo |-> "skipped_time_cutoff"]
    ELSE IF usage.rows >= MaxRows
    THEN [at |-> "checkpoint", todo |-> "skipped_budget"]
    ELSE [at |-> IF entry.status = "planned" THEN "submit" ELSE "poll", todo |-> "planned"]

\* One turn of the loop, on the row as it now is.
Scan(w) ==
    /\ run[w].at = "scan"
    /\ LET pos == run[w].pos
           ledger == hunt.results.ledger
       IN IF pos > run[w].len
          THEN run' = [run EXCEPT ![w] = [Idle EXCEPT !.usage = run[w].usage,
                                     !.at = IF clock = 0 THEN "assess" ELSE "reserve"]]
          ELSE IF pos > Len(ledger)
          THEN Goto(w, "failing")
          ELSE IF ledger[pos].status \in Finished
          THEN run' = [run EXCEPT ![w].pos = pos + 1]
          ELSE LET d == Dispose(ledger[pos], run[w].usage) IN
               run' = [run EXCEPT ![w].q = ledger[pos].id, ![w].at = d.at, ![w].todo = d.todo]
    /\ UNCHANGED local

\* The checks before a search is submitted; it is counted before it is sent.
Submit(w) ==
    /\ run[w].at = "submit"
    /\ LET r == run[w] IN
       run' = [run EXCEPT ![w] =
         IF clock = 2 THEN [r EXCEPT !.at = "checkpoint", !.todo = "timed_out"]
         ELSE IF ~CanStartQuery(r.usage)
         THEN [r EXCEPT !.at = "checkpoint", !.todo = "skipped_budget"]
         ELSE [r EXCEPT !.usage = RecordSplunkQuery(r.usage),
                        !.at = IF Cancelled(w) THEN "failing" ELSE "dispatch"]]
    /\ UNCHANGED local

\* Mutant: a search is created under a new name each time.
CreateAnother(q) ==
    /\ search' = [search EXCEPT ![q] = "running"]
    /\ dispatched' = dispatched + 1 /\ UNCHANGED dropped

\* Splunk has no job of this name, or still has it.
Create(q) ==
    IF search[q] \in {"none", "gone"}
    THEN /\ search' = [search EXCEPT ![q] = "running"]
         /\ dispatched' = dispatched + 1 /\ UNCHANGED dropped
    ELSE UNCHANGED splunk

\* jobs[id] or jobs.create; the token is asked once more on return.
Dispatch(w) ==
    /\ run[w].at = "dispatch"
    /\ Create(run[w].q)
    /\ run' = [run EXCEPT ![w].at = IF Cancelled(w) THEN "failing" ELSE "checkpoint",
                          ![w].todo = "submitted"]
    /\ UNCHANGED <<hunt, jobs, issued, clock, faults>>

\* The call fails or times out, before or after Splunk took the search, and
\* no job id is known.
DispatchError(w) ==
    /\ run[w].at = "dispatch"
    /\ Create(run[w].q) \/ UNCHANGED splunk
    /\ \/ Goto(w, "failing")
       \/ run' = [run EXCEPT ![w].at = "checkpoint", ![w].todo = "timed_out"]
    /\ UNCHANGED <<hunt, jobs, issued, clock, faults>>

\* The token is cancelled, Splunk no longer knows the job, or a call fails.
PollError(w) ==
    /\ run[w].at = "poll"
    /\ run' = [run EXCEPT ![w].at = "abort", ![w].todo = "planned"]
    /\ UNCHANGED local

\* The query's own deadline, or the investigation's.
PollTimeout(w) ==
    /\ run[w].at = "poll" /\ ~Cancelled(w)
    /\ run' = [run EXCEPT ![w].at = "abort", ![w].todo = "timed_out"]
    /\ UNCHANGED local

\* The search is done and its pages are read, up to the limits.
Retrieve(w) ==
    /\ run[w].at = "poll" /\ ~Cancelled(w)
    /\ search[run[w].q] = "done"
    /\ clock < 2
    /\ \E n \in 0 .. MaxQueryRows :
         /\ run[w].usage.rows + n <= MaxRows
         /\ run' = [run EXCEPT ![w].at = "checkpoint", ![w].todo = "completed", ![w].rows = n,
                               ![w].usage = RecordResult(@, n)]
    /\ UNCHANGED local

\* _cancel_after_sid, best effort, whatever the error was.
Abort(w) ==
    /\ run[w].at = "abort"
    /\ \/ /\ search' = [search EXCEPT ![run[w].q] = "gone"]
          /\ dropped' = IF run[w].todo = "submitted" THEN dropped + 1 ELSE dropped
       \/ UNCHANGED <<search, dropped>>
    /\ Goto(w, IF run[w].todo = "timed_out" THEN "checkpoint" ELSE "failing")
    /\ UNCHANGED <<hunt, jobs, dispatched, issued, clock, faults>>

-----------------------------------------------------------------------------
(* Checkpoints: the document is read, edited and saved.                    *)

Entries(ledger, q) == {i \in DOMAIN ledger : ledger[i].id = q}

\* Mutant: the query's earlier result record is kept.
RecordAnother(queries, q, rows) ==
    [queries EXCEPT ![q] = [records |-> @.records + 1, rows |-> @.rows + rows]]

\* A result replaces the query's earlier one.
Record(queries, q, rows) == [queries EXCEPT ![q] = [records |-> 1, rows |-> rows]]

Checkpointed(r, q, status, rows, usage) ==
    [r EXCEPT
        !.ledger  = [i \in DOMAIN @ |-> IF @[i].id = q THEN [@[i] EXCEPT !.status = status] ELSE @[i]],
        !.queries = IF status = "completed" THEN Record(@, q, rows) ELSE @,
        !.usage   = usage]

\* on_submitted insists on a planned entry, a completed query on any entry.
Applicable(ledger, q, status) ==
    CASE status = "submitted" -> \E i \in Entries(ledger, q) : ledger[i].status = "planned"
      [] status = "completed" -> Entries(ledger, q) # {}
      [] OTHER                -> TRUE

OnConflict(w) ==
    IF run[w].at \in {"apply", "save"} /\ run[w].todo = "submitted" THEN "abort" ELSE "failing"

Apply(w) ==
    /\ run[w].at = "apply"
    /\ LET r == run[w] IN
       IF Applicable(hunt.results.ledger, r.q, r.todo)
       THEN run' = [run EXCEPT ![w].at  = "save",
                               ![w].mem = Checkpointed(hunt.results, r.q, r.todo, r.rows, r.usage)]
       ELSE Goto(w, OnConflict(w))
    /\ UNCHANGED local

\* After a round that does not go on: the cutoff may have passed meanwhile.
Close == IF clock > 0 THEN "reserve" ELSE "synth"

\* execute_job calls itself to take up follow-ups.
CallAgain(w) == [Idle EXCEPT !.at = "load", !.seen = "running", !.usage = run[w].usage]

\* Where execute_job goes on from a saved document.
Saved(w) ==
    CASE run[w].at = "save" ->
            IF run[w].todo = "submitted"
            THEN [run[w] EXCEPT !.at = "poll", !.mem = NoResults]
            ELSE [run[w] EXCEPT !.at = "scan", !.pos = @ + 1, !.rows = 0, !.mem = NoResults]
      [] run[w].at = "cover_save"   -> CallAgain(w)
      [] run[w].at = "interim_save" -> [run[w] EXCEPT !.at = "decide"]
      [] run[w].at = "round_save"   ->
            IF run[w].mem.adaptiveComplete
            THEN [run[w] EXCEPT !.at = Close]
            ELSE CallAgain(w)
      [] run[w].at = "reserve_save" -> [run[w] EXCEPT !.at = "synth"]
      [] run[w].at = "answer_save"  -> [run[w] EXCEPT !.at = "advance"]

\* _update with expected_state running, or Conflict.
Save(w) ==
    /\ run[w].at \in SavePoints
    /\ IF hunt.state = "running"
       THEN /\ hunt' = [hunt EXCEPT !.results = run[w].mem]
            /\ run' = [run EXCEPT ![w] = Saved(w)]
       ELSE Goto(w, OnConflict(w)) /\ UNCHANGED hunt
    /\ UNCHANGED <<jobs, splunk, issued, clock, faults>>

-----------------------------------------------------------------------------
(* _assess_execution_round.                                                *)

AssessRead(w) ==
    /\ run[w].at = "assess_read"
    /\ run' = [run EXCEPT ![w].mem = hunt.results,
                          ![w].at = IF hunt.results.adaptiveComplete THEN Close ELSE "round"]
    /\ UNCHANGED local

\* Mutant: follow-ups replace the ledger.
PlanAnew(r, q) == [r EXCEPT !.ledger = <<[id |-> q, status |-> "planned"]>>]

Plan(r, q) == [r EXCEPT !.ledger = Append(@, [id |-> q, status |-> "planned"])]

\* A truncated result starved a source: the search is narrowed to it.
CoverSources(w) ==
    /\ run[w].at = "round"
    /\ CanStartQuery(run[w].usage) /\ run[w].usage.cycles < MaxCycles
    /\ issued < MaxIssued
    /\ issued' = issued + 1
    /\ run' = [run EXCEPT ![w].at = "cover",
                          ![w].mem = [Plan(@, issued') EXCEPT !.usage = run[w].usage]]
    /\ UNCHANGED <<hunt, jobs, splunk, clock, faults>>

\* Nothing to assess, or no budget for it.
NoRound(w) ==
    /\ run[w].at = "round"
    /\ run' = [run EXCEPT ![w].at = "round_save",
                          ![w].mem = [@ EXCEPT !.usage = run[w].usage, !.adaptiveComplete = TRUE]]
    /\ UNCHANGED local

\* Mutant: the cycle is not counted.
AssessUncounted(w) ==
    /\ run[w].at = "round"
    /\ CanStartQuery(run[w].usage) /\ run[w].usage.cycles < MaxCycles
    /\ run' = [run EXCEPT ![w].at = "interim_save"]
    /\ UNCHANGED local

\* The model assesses the results; the assessment is saved without asking
\* for the lease.
AssessResults(w) ==
    /\ run[w].at = "round"
    /\ CanStartQuery(run[w].usage) /\ run[w].usage.cycles < MaxCycles
    /\ run' = [run EXCEPT ![w].at = "interim_save", ![w].usage = RecordCycle(@)]
    /\ UNCHANGED local

\* No question is left to decide on: the copy read before the round is saved
\* again.
DecideNothing(w) ==
    /\ run[w].at = "decide"
    /\ run' = [run EXCEPT ![w].at = "round_save",
                          ![w].mem = [@ EXCEPT !.usage = run[w].usage, !.adaptiveComplete = TRUE]]
    /\ UNCHANGED local

\* The row is read again; the model proposes a follow-up, or none, perhaps
\* with questions left for another round.
DecideFollowUp(w) ==
    /\ run[w].at = "decide"
    /\ LET now == [hunt.results EXCEPT !.usage = run[w].usage] IN
       \/ /\ issued < MaxIssued
          /\ issued' = issued + 1
          /\ run' = [run EXCEPT ![w].at = "round_save",
                                ![w].mem = [Plan(now, issued') EXCEPT !.adaptiveComplete = FALSE]]
       \/ \E complete \in BOOLEAN :
            /\ run' = [run EXCEPT ![w].at = "round_save",
                                  ![w].mem = [now EXCEPT !.adaptiveComplete = complete]]
            /\ UNCHANGED issued
    /\ UNCHANGED <<hunt, jobs, splunk, clock, faults>>

\* The budget reserved for the synthesis is reached, or the cutoff.
StopRounds(w) ==
    /\ run[w].at \in {"round", "decide"}
    /\ Goto(w, "reserve")
    /\ UNCHANGED local

ReserveRead(w) ==
    /\ run[w].at = "reserve_read"
    /\ run' = [run EXCEPT ![w].at = "reserve_save",
                          ![w].mem = [hunt.results EXCEPT !.usage = run[w].usage,
                                                          !.adaptiveComplete = TRUE]]
    /\ UNCHANGED local

-----------------------------------------------------------------------------
(* Synthesis, report, failure.                                             *)

SynthRead(w) ==
    /\ run[w].at = "synth_read"
    /\ run' = [run EXCEPT ![w].mem = hunt.results,
                          ![w].at = IF hunt.results.answered THEN "advance" ELSE "answering"]
    /\ UNCHANGED local

\* The model answers the questions; each answer is saved under the lease.
Answer(w) ==
    /\ run[w].at = "answering"
    /\ run' = [run EXCEPT ![w].at = "answer",
                          ![w].mem = [@ EXCEPT !.answered = TRUE, !.usage = run[w].usage]]
    /\ UNCHANGED local

\* Not guarded by require_lease, unlike the report.
StartSynthesis(w) ==
    /\ run[w].at = "advance"
    /\ IF hunt.state = "running"
       THEN /\ hunt' = [hunt EXCEPT !.state = "synthesizing", !.results = run[w].mem]
            /\ Goto(w, "publish")
       ELSE Goto(w, "failing") /\ UNCHANGED hunt
    /\ UNCHANGED <<jobs, splunk, issued, clock, faults>>

\* The report is made from the worker's document.
PublishReport(w) ==
    /\ run[w].at = "publish_save"
    /\ IF hunt.state = "synthesizing"
       THEN /\ hunt' = [hunt EXCEPT !.state = "report_draft", !.report = run[w].mem.queries]
            /\ Goto(w, "ok")
       ELSE Goto(w, "failing") /\ UNCHANGED hunt
    /\ UNCHANGED <<jobs, splunk, issued, clock, faults>>

\* A model call fails, is cancelled or runs past the hard deadline, or a policy
\* or grounding check rejects its output.
Raise(w) ==
    /\ run[w].at \in {"draft", "scan", "round", "decide", "answering", "publish_save"}
    /\ Goto(w, "failing")
    /\ UNCHANGED local

FailRead(w) ==
    /\ run[w].at = "fail_read"
    /\ IF hunt.state \in Active
       THEN run' = [run EXCEPT ![w].at = "fail_save", ![w].seen = hunt.state,
                               ![w].mem = [hunt.results EXCEPT !.usage = run[w].usage]]
       ELSE Goto(w, "error")
    /\ UNCHANGED local

\* The failure is recorded unless the state moved; the error is raised again.
FailSave(w) ==
    /\ run[w].at = "fail_save"
    /\ hunt' = IF hunt.state = run[w].seen
               THEN [hunt EXCEPT !.state = "failed", !.results = run[w].mem] ELSE hunt
    /\ Goto(w, "error")
    /\ UNCHANGED <<jobs, splunk, issued, clock, faults>>

\* Where execute_job reads or writes the database.
DbPoints == LeasePoints \cup SavePoints \cup
            {"read", "start_save", "scan", "apply", "assess_read", "decide", "reserve_read",
             "synth_read", "advance", "publish_save", "fail_read", "fail_save"}

\* The first lease check and read precede the try of execute_job, and its
\* handler lets every error but a conflict out.  A nested call is inside the
\* try of its caller.
Unguarded(w) ==
    \/ run[w].at \in {"failing", "fail_read", "fail_save"}
    \/ run[w].at \in {"load", "read"} /\ run[w].seen = "none"

\* A transaction fails and is rolled back.  (One that commits and loses its
\* reply is the commit and a failure at the next point.)
DbError(w) ==
    /\ errors < MaxErrors
    /\ errors' = errors + 1
    /\ run[w].at \in DbPoints
    /\ stranded' = (stranded \/ (Unguarded(w) /\ holder = w))
    /\ Goto(w, IF Unguarded(w) THEN "error"
               ELSE IF run[w].at \in {"checkpoint", "apply", "save"} /\ run[w].todo = "submitted"
               THEN "abort" ELSE "failing")
    /\ UNCHANGED <<hunt, jobs, splunk, issued, clock, crashes, glitches>>

\* process_one completes the job with the handler's outcome, if it can.
Finish(w) ==
    /\ run[w].at \in {"ok", "error"}
    /\ IF holder = w
       THEN Job!Decide(w, IF run[w].at = "ok" THEN "completed" ELSE "failed")
       ELSE UNCHANGED jobs
    /\ run' = [run EXCEPT ![w] = Idle]
    /\ UNCHANGED <<hunt, splunk, issued, clock, faults>>

-----------------------------------------------------------------------------
(* The environment: Splunk, time, the analyst, faults.                     *)

SearchDone(q) ==
    /\ search[q] = "running"
    /\ search' = [search EXCEPT ![q] = "done"]
    /\ UNCHANGED <<hunt, jobs, run, dispatched, dropped, issued, clock, faults>>

Tick ==
    /\ hunt.state = "running" /\ clock < 2
    /\ clock' = clock + 1
    /\ UNCHANGED <<hunt, jobs, run, splunk, issued, faults>>

\* cancel commits the state and then, in another transaction, cancels the job.
CancelHunt ==
    /\ hunt.state \in Active
    /\ hunt' = [hunt EXCEPT !.state = "cancelled"]
    /\ UNCHANGED <<jobs, run, splunk, issued, clock, faults>>

CancelJob ==
    /\ hunt.state = "cancelled"
    /\ Job!Cancel
    /\ UNCHANGED <<hunt, run, splunk, issued, clock, faults>>

\* A live worker loses its lease: a pause, a clock, a database error.
LeaseLost(w) ==
    /\ glitches < MaxGlitches
    /\ glitches' = glitches + 1
    /\ run[w].at # "idle" /\ holder = w
    /\ Job!Lapse
    /\ UNCHANGED <<hunt, run, splunk, issued, clock, stranded, crashes, errors>>

WorkerCrash(w) ==
    /\ crashes < MaxCrashes
    /\ crashes' = crashes + 1
    /\ run[w].at # "idle"
    /\ run' = [run EXCEPT ![w] = Idle]
    /\ IF holder = w THEN Job!Lapse ELSE UNCHANGED jobs
    /\ UNCHANGED <<hunt, splunk, issued, clock, stranded, errors, glitches>>

RecoverJob ==
    /\ holder = Nobody
    /\ Job!Recover
    /\ UNCHANGED <<hunt, run, splunk, issued, clock, faults>>

-----------------------------------------------------------------------------
WorkerStep(w) ==
    \/ Claim(w) \/ RequireLease(w) \/ LoadHunt(w) \/ Draft(w) \/ StartRunning(w)
    \/ Scan(w) \/ Submit(w) \/ Dispatch(w) \/ DispatchError(w)
    \/ PollError(w) \/ PollTimeout(w) \/ Retrieve(w) \/ Abort(w)
    \/ Apply(w) \/ Save(w)
    \/ AssessRead(w) \/ CoverSources(w) \/ NoRound(w) \/ AssessResults(w)
    \/ DecideNothing(w) \/ DecideFollowUp(w) \/ StopRounds(w) \/ ReserveRead(w)
    \/ SynthRead(w) \/ Answer(w) \/ StartSynthesis(w) \/ PublishReport(w)
    \/ Raise(w) \/ FailRead(w) \/ FailSave(w) \/ Finish(w)

Next ==
    \/ \E w \in Workers : WorkerStep(w) \/ DbError(w) \/ LeaseLost(w) \/ WorkerCrash(w)
    \/ \E q \in Queries : SearchDone(q)
    \/ Tick \/ CancelHunt \/ CancelJob \/ RecoverJob

Spec == Init /\ [][Next]_vars

\* Workers keep working and expired leases are recovered.
FairSpec == Spec /\ WF_vars(RecoverJob) /\ \A w \in Workers : WF_vars(WorkerStep(w))

-----------------------------------------------------------------------------
(* Properties.                                                             *)

\* The ledger and the results in the row always agree, whichever of two workers
\* wrote last: every search the ledger calls completed has its result record,
\* no search has two, and the published report is made from the results in the
\* row (_run_checkpoint_queries).  It does not say that a result stays: a stale
\* save takes a completed search back together with its result
\* (CompletedNotReplayed).
OneResultPerSearch ==
    LET r == hunt.results IN
    /\ \A q \in Queries : r.queries[q].records <= 1
    /\ \A i \in DOMAIN r.ledger :
         r.ledger[i].status = "completed" => r.queries[r.ledger[i].id].records = 1
    /\ hunt.state = "report_draft" => hunt.report = r.queries

\* A query keeps its place in the ledger, its status only advances and a
\* completed search keeps its result record: work that was checkpointed is
\* neither run again nor lost.
Rank(status) == CASE status = "planned" -> 0 [] status = "submitted" -> 1 [] OTHER -> 2
CheckpointsAdvance ==
    [][LET old == hunt.results.ledger
           new == hunt'.results.ledger
       IN \A i \in DOMAIN old :
            /\ i \in DOMAIN new /\ new[i].id = old[i].id
            /\ Rank(old[i].status) <= Rank(new[i].status)
            /\ old[i].status \in Finished => new[i] = old[i]
            /\ old[i].status = "completed" =>
                 hunt'.results.queries[old[i].id] = hunt.results.queries[old[i].id]]_vars

\* Does not hold beside a stale worker: a search whose results were saved
\* stays completed while the hunt runs, neither disowned nor done again.
CompletedNotReplayed ==
    [][LET old == hunt.results.ledger
           new == hunt'.results.ledger
       IN hunt'.state = "running" =>
            \A i \in DOMAIN old : old[i].status = "completed" =>
                i \in DOMAIN new /\ new[i].status = "completed"]_vars

\* A hunt is answered only when every planned query was run or its omission
\* recorded.
NothingLeftOpen ==
    hunt.state \in {"synthesizing", "report_draft"} =>
        \A i \in DOMAIN hunt.results.ledger :
            hunt.results.ledger[i].status \notin {"planned", "submitted"}

\* The limits hold across restarts and database errors, though counters live in
\* memory and a crash may lose them: Splunk runs at most max_splunk_queries
\* searches for the hunt beside those that were cancelled because their
\* submission could not be recorded, and at most max_cached_rows_per_hunt rows
\* are kept.
RowsKept(r) ==
    LET total[q \in 0 .. MaxIssued] == IF q = 0 THEN 0 ELSE total[q - 1] + r.queries[q].rows
    IN total[MaxIssued]
WithinLimits == dispatched <= MaxSearches + dropped /\ RowsKept(hunt.results) <= MaxRows

\* Does not hold across a crash before the checkpoint: every search submitted
\* to Splunk counts against the query limit.
EverySearchCounts ==
    hunt.state \in {"synthesizing", "report_draft"} =>
        dispatched <= hunt.results.usage.searches

\* Does not hold beside a stale worker: a worker does not cancel a search
\* while another worker holds the lease.
SearchNotTakenAway ==
    [][\A w \in Workers :
         run[w].at = "abort" /\ run'[w].at # "abort" /\ search' # search
            => holder \in {w, Nobody}]_vars

\* A hunt that started ends: it is reported, failed or cancelled, whatever
\* rounds the model asks for and wherever workers stop or transactions fail,
\* unless the holder of its lease met an error outside the try of execute_job
\* or while it recorded a failure.
HuntEnds == hunt.state = "running" ~> hunt.state \notin Active \/ stranded
=============================================================================
