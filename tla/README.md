# A formal model of the AI-enabled threat hunting service

TLA+ modules that model the service in `src/src/threat_hunting`, TLC
configurations that check them on small instances, and TLAPS proofs for all
instances. `PROJECT.json` maps every definition to the lines it models.

## The system

An analyst describes a hunt. The API discovers what Splunk holds and asks a
model for a plan; the analyst edits and approves it; the hunt is queued; a
worker drafts SPL queries, runs them, assesses the results in rounds, writes
answers and a report; the analyst edits the report and finalizes it as a PDF.

| Part | State | Operations | Talks to |
| --- | --- | --- | --- |
| `services/jobs.py` execution queue | `execution_jobs`: status, worker, lease expiry, attempts (fencing generation), cancel flag | enqueue, claim, heartbeat, complete, require_lease, request_cancel, recover_expired | called by API and workers, one transaction per call |
| `worker/main.py` worker loop | one lease, a handler thread, a fence flag | recover, claim, run the handler under heartbeats, complete | queue, `execute_job` |
| `services/workflow.py` requests | `workflow_hunts`: state, plan and version, approval, results, report and version, PDF; `audit_records` | create, discover, save/revise plan, approve, reject, execute, cancel, save/finalize report | database, Splunk, model; endpoints are synchronous, so FastAPI runs them concurrently in its thread pool |
| `services/workflow.py` `execute_job` | `results`: query ledger, usage, answers | load and verify bindings, draft, search, assess, synthesize, publish, fail | queue (require_lease), database, Splunk, model |
| `domain/state.py` | the table of allowed moves | transition | none: the services write the state column themselves |
| `services/orchestration.py`, `integrations/splunk.py` | a Splunk job id, pages, byte and event counts; discovery's catalog | submit, poll, page, cancel; discover | Splunk |
| `services/evidence.py`, `investigation.py`, `reports.py` | the retained rows, searches, decisions, answers and report inside `results` | sample, group, look up, decide, answer, draft, validate | called by `workflow.py`; pure |
| `services/model_output.py`, `domain/budgets.py`, `integrations/models` | counters of calls, repairs, tokens; one adapter slot per process | fit a request, call, repair once, account, close | model providers |
| `auth/service.py` | users, sessions, limiter buckets | login, logout, authenticate | database |
| `services/uploads.py`, `temporary_results.py` | files, quota rows, upload rows | save, list, stage, commit, abort | disk, database |
| `services/retention.py` | cleanup tasks with a cursor | candidates, lock, delete, retry | disk, database |
| `integrations/mcp.py` | a request ledger | submit, reconcile, status, cancel | MCP service, database |
| `mcp/authorization.py` | request reservations, audit records | authorize, reserve, replay | database |
| findings, citations services; SPL policy and strategy; configuration; front end; migrations | content, settings, views | mostly pure | |

What is hard: every read and write of a hunt is its own transaction and
requests overlap; a worker may die, pause past its lease or lose replies at
any point; another worker then resumes from the saved state while the first
may still be running; calls to Splunk and models take minutes, so a row that
was read is old when it is used; a release may fall anywhere. `PROJECT.json`
lists these hazards with their lines and the properties that cover them.

What makes each part correct: a job is run by one worker at a time, decided
once, and never lost; no more hunts run than were admitted; a hunt follows its
lifecycle; only the approved plan is executed; a report is neither overwritten
nor published late; a queued hunt ends; searches are submitted once and stay
within their limits; a reported absence is true of Splunk; every lead is
accounted for; model calls are counted and leave room for the final answer; a
discovery result says what it lacks; the login limiter's block holds; uploads
match their quota.

## Modules

| Module | What it is |
| --- | --- |
| `JobQueue` | the queue and the worker loop, for several hunts and processes |
| `JobContract` | what the queue promises about one job: the abstract specification |
| `JobQueueRefinement` | the mapping under which `JobQueue` implements `JobContract` for every hunt |
| `HuntLifecycle` | the allowed moves of a hunt (`domain/state.py`): an abstract specification |
| `HuntWorkflow` | one hunt with concurrent requests and workers, over `JobContract` |
| `HuntExecution` | one hunt's execution under crashes and stale workers: ledger, searches, budgets, rounds, report, over `JobContract` |
| `RetainedEvidence` | what is computed from retained rows: coverage, timeline, leads, lookups, activity |
| `Investigation` | samples, questions, decisions, findings, lead coverage |
| `ModelOutput` | the labels a model cites records by, and their decoding |
| `ReportContent` | the report draft, its limitations and its validation |
| `HuntRecord` | composes the four above: one hunt from its searches to its final report |
| `ModelGateway` | budgets, request fitting, repairs and the provider adapter of one process |
| `Discovery` | `SplunkConnector.discover` |
| `McpConnector`, `McpAuthorization` | the MCP client with its ledger; the server's checks and reservation |
| `McpGateway` | composes them with a network and Splunk |
| `Access` | logins, the failure limiter and sessions |
| `Storage` | uploads of one hunt: files, rows and quota |
| `MC*` | instances for TLC |
| `*Proofs` | theorems about the modules they are named after |

### JobQueue

A hunt has at most one job, since `execute` uses the key
`hunt:{id}:execution`; `status`, `workerId`, `attempts`, `cancelRequested` and
`created` are its columns. `ttl` is what is left of the lease, in ticks of one
heartbeat interval (`lease_seconds / 3`), so time needs no bound. `pc`,
`lease`, `fenced`, `due` and `outcome` are the locals of `process_one`.

Each `JobService` call is one step, except `claim`: `AdmissionOpen` takes the
advisory lock and counts, `ClaimOldest` takes the row. Every call that compares
a timestamp does it with its own offset in `-Skew .. Skew`. `Tick` lets an
interval pass once every live worker made its due call; `Stall` lets it pass
although one did not (a pause, a partition). `Crash`, `ClaimDbError`,
`ClaimReplyLost`, `HeartbeatDbError`, `CompleteDbError` and `Stall` draw on
`MaxFaults`. All processes of the checked instances use the default worker id
`worker-1`, the hardest case for the fence. `deployment_scope_id` is fixed per
deployment and left out. The handler is abstract: it returns or raises.

### HuntWorkflow

`hunt` is the row. A request reads it (`Begin`, with the operation's checks)
and writes later with the comparison its `_update` makes (`Matches`); a failed
comparison is `Conflict`, any other end without a write is `Abandon` (a
validation or adapter error, or the API dies). `discover` has three writes and
`cancel` two, each a step. Plans and reports are content numbers, so a hash is
the number. `save_plan` and `revise_plan` make the same write and are one
operation, `edit_plan`.

A worker runs `execute_job`: `RequireLease` at each point where the code calls
`require_lease`, apart from the write it guards; `LoadHunt` with the binding
checks; `StartRunning`, `StartSynthesis` and `PublishReport`, compare-and-set on
the state only; `FailRead` and `FailWrite` for the `except` branch; `Finish` for
`process_one`. What happens while queries are drafted, run and assessed is one
point that may `Raise`. Leases come from `JobContract`: `holder` is the worker
whose `require_lease` succeeds. `LeaseLost` takes the lease from a live worker,
`WorkerCrash` stops one, `RecoverJob` requeues; `Redeploy` restarts every
process with another execution configuration (image version, model, budgets).
`HuntExecution` opens that point.

`DbError` is a database error at any read or write of a worker. `Unguarded` are
the points outside the `try` of `execute_job` and those of its handler: an error
there ends the job and leaves the hunt as it is, which the ghost variable
`stranded` records. `MaxFaults` bounds crashes, lost leases, these errors and
releases together.

`EditsAlone` is an assumption about the analyst: a plan is edited only while no
other request is in flight. Runs that show what the code guarantees use it; the
run `edit_during_start` drops it, and shows what then goes wrong.

### HuntExecution

`hunt.results` is the JSON document that holds all progress: the query ledger
(a sequence of ids and statuses), the result records by query, the saved counters
(`usage`), whether the rounds are over and whether the questions are answered.
A worker's `mem` is its copy, `usage` its counters in memory. `RequireLease`,
the read (`LoadHunt`, `Scan`, `Apply`, `AssessRead`, ...) and the write (`Save`,
`StartRunning`, `StartSynthesis`, `PublishReport`, `FailSave`) are separate
steps, so a lease can be lost between any two. `AssessResults`,
`DecideNothing` and `DecideFollowUp` lead to saves the code does not guard with
`require_lease`; neither does the model.

`search` is Splunk: the job named after each query. `Create` is the lookup
before `jobs.create`, taken as one step, since Splunk keeps names unique;
`DispatchError` is a call that failed before or after Splunk took the search;
`Abort` is the best-effort cancellation after any exception. `clock` has three
values: before the query cutoff, before the investigation's end, after it; a
query's own deadline is `PollTimeout`. `DbError` fails the transaction of any
point: while a submission is recorded it makes `execute_query` cancel the
search (`dropped` counts those), before the `try` or while a failure is recorded
it strands the hunt (`stranded`); a nested call of `execute_job` (`CallAgain`) is
inside its caller's `try`. Model calls choose freely: how many
queries to draft, whether to cover a starved source, go on, or stop. The
execution configuration does not change here (`HuntWorkflow` has releases).

### HuntRecord and the modules under it

`HuntExecution` leaves out what a search returns and what the model says;
`HuntRecord` is the other half: one undisturbed worker, and the contents. An
event has the sources its projected fields allow, identity fields (empty or
multivalued), a time that may be unknown and whether it matches an advisory
indicator. `store` is what Splunk holds; only Splunk and the properties see it.
A search is a set of sources and filter branches; its text is left out.

`StartSearch`, `FetchPage`, `FetchTimeout` and `RecordSearch` are
`execute_query` and its checkpoint: Splunk reports a count or none, pages come
short, byte and row limits cut them, time runs out between pages.
`CoverSources`, `Assess`, `Decide` and `NoMoreRounds` are
`_assess_execution_round`; `StopRounds` and `RoundExhausted` its two exceptions
in `execute_job`. `Synthesize`, `FinalOnly`, `BudgetLimited` and
`PublishReport` are the synthesis loop, `SaveReport`, `FinalizeReport` and
`FinalizeRefused` the analyst. The size of a report is the number of row ids its
answers list for their leads, the one part no list limit bounds. The model's answers are chosen freely, citing labels it was not given
too; `ModelOutput` and `Investigation` reject what the code rejects. A refused
answer changes nothing the record keeps (its calls are `ModelGateway`'s), so
those choices are not steps. At most one question per synthesis call gets more
than an empty slot, which bounds the choices and not what can be reached in
several calls.

### ModelGateway

A request is its size, an answer its usage and verdict. `Limits` are the
runner's limits in a step that reserves for the final answer. `Run` builds a
request, for synthesis through `FitRows`, a turn of the binary search over row
limits, for every monotone growth of the request in `SampleSizes`. `Call` counts and
enters the adapter's single thread; `GiveUp` is a caller that stops waiting;
`EndWork` ends the call, abandoned or not; `Close` and `CloseClient` are the two
halves of `close`. Usage is unknown (zero) or at most what the request allows.
(Usage above the allowance, which orchestration.py:252 handles, needs a provider
that ignores the limits it was sent, and is left out.) A round is admitted when a
call is left beside it; with unassessed searches the code wants two
(workflow.py:1149, exact in `HuntRecord`), so the model admits a little more.
Thresholds such as the 4096 tokens `execute_job` wants for a retrieval are
"more than zero". A process lifetime is modelled; lost counters are
`HuntExecution`'s.

### Discovery

`ReadEndpoint` reads the four collections, each of which may fail or be cut;
`ReadRoles` cuts the indexes to what the roles allow; a tstats search completes
the source names; `Choose` decides what to sample in the three modes (bootstrap,
scope, exact pairs); each sample is a search with `Submitted`, `SearchDone`,
`WaitTimeout`, `StatusFails`, `ResultsFail` and the two ways a cancellation is
seen. `tried` holds what was sampled, `sampled` what was read. `left` holds the searches nobody looks after, `lost` those whose own call
failed. Field names, limitation texts and data models are left out.

### McpConnector, McpAuthorization, McpGateway

One idempotency key of one subject, since requests under different keys share
no row. Each database access and each call is a step of its own; `Reserve`,
`Record` and `UpdateStatus` write the client's row, `ReserveCheck`,
`ReserveInsert` and `ReserveCommit` are the server's transaction under
PostgreSQL's unique index. A request is what it asserts, each assertion equal,
different or absent. The network loses and duplicates requests (two copies
race as more do), callers die anywhere, `Lapse` ends the hunt's authority.
`mcp/main.py` refuses to serve, so the handler between authorization and Splunk
is external: it is assumed to submit once per new reservation and to know a
search by either id. Both sides keep their row in a table `mcp_tool_requests` of
the database they are given; two databases are modelled, since in a shared one
the server would take the client's row for its own and every request for a
replay.

### Access

One account, two clients: a bucket each. `StartLogin` is `allowed` in its
transaction, `CheckPassword` the slow check, `RecordFailure`, the audit insert,
`Clear` and `OpenSession` a transaction each; `Die` falls between any two.

### Storage

`WriteFile`, then `SaveRow` (quota and row in one transaction, which may commit
without an answer), then `Unlink` after any error; a request dies anywhere. Of
an upload's content only the size is kept, against both limits of
`_reserve_quota`.

## Runs

| Run | Instance | Shows |
| --- | --- | --- |
| `queue` | 2 hunts, 2 processes with one worker id, 1 slot, 2 faults, 4 claims | a job is run by one worker and decided by its holder; admission is bounded; a healthy lease is never recovered; every job follows `JobContract`; all jobs end and a fenced worker polls again |
| `workflow` | 2 requests, 2 workers, 1 edit, 1 fault of any kind | the lifecycle, the approved plan, the report and its PDF survive every interleaving; a queued hunt ends, but for three named ways to strand it, and so does a cancelled hunt's job |
| `execution` | 1 worker that dies and is restarted, 3 queries, limits of 2 searches and 1 row, 1 crash, 1 database error, every deadline | no query is forgotten, limits hold beside dropped searches, checkpoints only advance, the hunt ends unless an error falls outside `execute_job`'s `try` |
| `execution_stale` | 2 workers, 1 query, a lease lost anywhere | whichever of a worker and its replacement writes last, the row agrees with itself: one result for each completed entry, a report made from its results |
| `hunt_record` | every store of 4 events, 2 searches, 1 round, pages of 1 row, reports of 5 row ids | absences are true, leads accounted for, activity is on its right side, samples are balanced, a draft that is not too large validates |
| `hunt_rounds` | 3 searches, 2 rounds, 5 calls | skips are current, pages together are the matches, the excerpt spans the timeline |
| `mcp_gateway` | 2 callers under one key, 2 actions, lost and duplicated requests, 1 database fault | one search per key, ids and final statuses that agree with Splunk, late requests refused |
| `access` | 2 logins, 2 clients, limits of 2 and 3, a clock of 4, 1 death | concurrent failures overrun the limit by no more than the other logins in flight; a block lasts |
| `storage` | 3 requests, 5 uploads of 1 to 3 bytes, limits of 3 files and 5 bytes, 2 faults | the quota is the number and bytes of the stored uploads within both limits; rows and files agree |
| `model_gateway` | 2 hunts, 4 calls, 6 units of input, 4 row limits, 3 growths of the request | every request is counted first; the final answer's share is kept; the client outlives its calls; the largest sample that fits is sent |
| `discovery` | 5 sites, 7 requests, 2 items, 2 samples | a complete result has every list that fits the limit and every sample it was to read; no search is left running |
| `edit_during_start` | 2 requests, 1 worker, 1 edit at any time | a violation, see below |

Two workers and one slot are enough for a stale worker, its replacement and
competition for admission; two hunts for the order of claims; two faults for
losing a lease and failing again on recovery. Two requests give every race of
a read with another's write. Three queries against a limit of two searches and
one row make every budget bind; the stale run has one query because the
documents two workers hold multiply its states, and the lost updates it is
about need no more. `execution` has one worker, since no two work at once on a
running hunt while live workers keep their leases (`AloneInv`, proved for any
number). `workflow` takes its two requests as alike, for its liveness properties
too: fairness is of workers only and no property speaks of a request. One crash and one database error after each other are what
it takes to exceed the search limit; the theorem has any number of both.
`hunt_record` takes every subset of four events (two timed rows of one lead, an
earlier row of the same session that is none, an untimed lead of another source),
so that scopes have rows before, at and after a lead and without a time; its
pages of one row and limits of two and three let each limit, the byte cut and
the row count meet; `hunt_rounds` has three searches and two rounds, and stops
where synthesis begins. Four calls and six units of input leave room for a
repair, a retrieval and the final answer. Two logins at once overrun a limit of
two or three by one. In `storage` both the third file and the bytes of two can
exceed a limit. In `discovery` lists of three are cut at two.

Deadlock is checked in `queue`, `hunt_record` and `discovery`; elsewhere the
system may really stop (a hunt is over, a bound is used up).

`edit_during_start` drops `EditsAlone` and must fail: see the next section.

## Disagreements with the documents

Each is a behaviour of the code that the models have, except for the retention
clean-up, which is not modelled. The first has a run of its
own; for the next three the property is stated in `HuntExecution` and fails
when it is added to the configuration named; the others follow from the lines
given.

- `save_plan` and `revise_plan` (workflow.py:591, 600) compare only the plan's
  version: a late edit re-opens a queued hunt (or revives a cancelled one), and
  the worker starts the newly approved version with the earlier plan's queries.
  The MVP specification (line 173) ties execution to the exact approved version
  and hash. Run `edit_during_start`.
- A checkpoint compares only the state (workflow.py:989): a worker that lost its
  lease after `require_lease` saves its document over a search its replacement
  completed (`CompletedNotReplayed`, `HuntExecutionStale.cfg`; specification
  line 894).
- `execute_query` cancels its Splunk job on every exception, a refused lease
  included (orchestration.py:625), and so the job its replacement resumes under
  the same name (`SearchNotTakenAway`, `HuntExecutionStale.cfg`; line 898).
- A crash between submission and checkpoint, then the query cutoff: the search
  that ran is counted nowhere (`EverySearchCounts`, `HuntExecution.cfg`; line
  761).
- A checkpoint that takes a completed search back takes its result with it
  (the same save): the row still agrees with itself (`OneResultPerSearch`), and
  the search is run again.
- A database error while a submission is recorded (workflow.py:1693-1724) makes
  `execute_query` cancel the search it sent. If the worker then dies before it
  has recorded the failure (workflow.py:1942-1957), its replacement sends the
  search again, and Splunk runs one more than `max_splunk_queries`
  (specification line 761). `WithinLimits` counts such searches apart
  (`dropped`).
- A hunt may stay active for ever, where the specification (line 862) has it move
  to `failed`. A release that changes the configuration fails the job before
  `execute_job`'s `try` (workflow.py:1556). A database error in the first
  `require_lease` or read (workflow.py:1532-1540), or while a failure is recorded
  (1942-1957), does too. And a worker that has lost its lease may make the
  unguarded move to `synthesizing` (workflow.py:1915) between the read and the
  write of the holder's failure, whose conflict is swallowed. `QueuedHuntEnds`
  and `HuntEnds` except these by name (`hunt.snapshot # config`, `stranded`), and
  show that there are no others.
- `status` writes what the service told it over whatever other calls wrote since
  (mcp.py:808-815): `running` may replace `cancelled` or `completed`. `submit`
  writes `failed` or `unknown` (mcp.py:796) while the search may run. Of the
  row's statuses only `completed` and `cancelled` can be relied on
  (`RowNamesTheSearch`).
- The draft the worker publishes is not validated (workflow.py:1932), and its
  lead coverage lists the evidence ids of every lead (investigation.py:709-715).
  A hunt with enough matches has a draft above the 1 MiB that
  `_validate_report_content` allows (reports.py:616), which can be neither saved
  nor finalized. `DraftValidates` is about drafts within the limit.
- `retention.py` reads and deletes from tables that no migration creates
  (`hunts`, `workspace_artifacts`, `hunt_notes`, ...); hunts live in
  `workflow_hunts`, whose activity its second check therefore would not see
  (retention.py:170 says it rules out that race), and `execution_jobs` and
  `mcp_tool_requests` are not in its list. Nothing in the application calls it.
- Follow-ups are widened from the rows of the round's own sample
  (workflow.py:1331), where the docstring (investigation.py:530) and
  `docs/remaining-work.md:33` speak of all retained lead sessions. A lead
  follow-up that timed out is followed by a round without new searches, an empty
  sample and no widening.
- `limitations[:8]` (reports.py:930) can drop the disclosure of a truncated
  search that `docs/implementation-plan.md:362` asks for.
- Endpoints cut at `max_discovery_items` leave a discovery result complete
  without a word (specification line 127; splunk.py:1196), a scope without pairs
  does not name approved sources that are missing, and an index whose coverage is
  reversed is passed over; `ResultIsHonest` names these exceptions. Production
  passes no cancellation token to discovery
  (`docs/agentic-refactor-phase2-audit.md:107`).
- `max_model_repair_attempts` (budgets.py:46) is never read: one repair per run
  and one `repair_once`, where `docs/agentic-refactor-phase2-audit.md:63` has two
  budgeted repairs.
- `reject` (workflow.py:636) keeps the plan's version, where the specification
  (line 174) asks for a new one.

Smaller ones, known and covered by no property: an API process that dies
between a login failure and its audit record (auth/service.py:239); a model
call abandoned on timeout keeps the adapter's only slot, so that the final
answer may be refused although its budget is left (models/base.py:310); the
tokens of such a call are never counted (orchestration.py:218); an analyst's
cancellation between Splunk's answer and the token check leaves a search
(orchestration.py:548); a follow-up dropped as a duplicate of one planned in the
same round whose search then times out (workflow.py:1441).

## Fairness

`queue`: time passes, a live process continues its loop, compose restarts
a dead one (`restart: unless-stopped`), and the handler ends, since
`execute_job` has a hard deadline and every adapter call a timeout. Faults are
finitely many. `workflow`: workers keep stepping and expired leases are
recovered; `execution` the same, polling being bounded by each query's
deadline and rounds by the saved counters. Nothing is assumed of the analyst,
of open requests or of Splunk. The other runs state safety only.

## Proofs

The theorems hold for every value of the constants that satisfies the `ASSUME`s
of the module (that limits are numbers, null values are no members, and sets
that are counted are finite); the bounds the runs need (`MaxFaults`,
`MaxCrashes`, `MaxUploads`, ...) are arbitrary numbers. Every specification but
two has its `TypeCorrect`, `Spec => []TypeOK` (`LoginTypeCorrect` for `Access`,
whose specification is `LoginSpec`); `DiscoveryProofs` and `HuntRecordProofs`
have the part of the types they need in their invariants.

The safety properties are not inductive; each module states the invariant that
is, as a conjunction of named parts, and proves that every action preserves it.

**`JobQueueProofs`**: any number of hunts and processes, any worker ids, faults
and clock skew.

- `LeaseIsExclusive` (`ExclusiveLease`). A lease's generation is at most the
  row's `attempts`, and two leases on one hunt have different generations.
- `AdmissionIsBounded` (`AdmissionBound`). A process about to select holds the
  advisory lock, and a slot is then free.
- `HolderDecides` (`OnlyHolderDecides`). A process that finished has an outcome.
- `ImplementsContract` (`KeepsContract`): `JobQueue` implements `JobContract` for
  every hunt. The initial states map to initial states; each step is mapped to a
  step of the contract or a stutter, action by action, from the fencing
  invariant.
- `RestartsArePaid` (`NoRestartWithoutFault`), while the clocks agree
  (`Skew = 0` in the property). A lease is healthy while it outlasts the interval
  its holder has left for its next call; when a job has no healthy holder
  (`Spent`), all its claims have been paid for by faults (`Paid`).

**`HuntWorkflowProofs`**: any number of requests, workers, edits, releases and
faults. `TypeCorrect` needs nothing else; the others assume `EditsAlone`, without
which they are false (`edit_during_start`).

- `ApprovedPlanIsExecuted` (`ExecutesApprovedPlan`), `PdfIsFinalText`
  (`PdfMatchesReport`), `ReportsAreKept` (`ReportNeverOverwritten`) and
  `ImplementsLifecycle` (`FollowsLifecycle`, the refinement of `HuntLifecycle`).
  The invariant says what remains true of a row that was read although the
  write does not compare it: an edit finds the hunt under review (`RequestInv`);
  a worker about to start read an approved plan that is still the hunt's
  (`RunInv`); a report of the version that was read is that report.

**`HuntExecutionProofs`**: any number of workers, queries, limits, crashes and
deadlines.

- `ResultsExactlyOnce` (`OneResultPerSearch`, the row agrees with itself), with
  stale workers too
  (`BaseInv`): every document, in the row or in a worker's memory, has at most
  one result per search and one per completed search, and a worker about to
  publish has the results of the row.
- `AnsweredHuntIsFinished` (`NothingLeftOpen`) and `LedgerOnlyAdvances`
  (`CheckpointsAdvance`), assuming `MaxGlitches = 0`: a live worker keeps its
  lease, workers crash and transactions fail as often as they like. With a lease lost by a live worker
  the ledger may be taken back (`CompletedNotReplayed`, above). `SafeInv` adds
  that the worker at work is alone (`AloneInv`), that the row's ledger has each
  query once (`LedgerOK`), and, for each point of the loop, how the worker's copy
  of the ledger differs from the row's (`WorkOK`): nowhere but in the entry it
  is about to save, or one query more.
- `LimitsHold` (`WithinLimits`), assuming `MaxGlitches = 0`. A crash loses the
  worker's counters, so the searches Splunk ran and nobody dropped are compared with
  what the row still shows (`BudgetInv`): at most one of them is missing from the row's count,
  the one a worker submitted and did not save, and if one is, its query is the
  next to be sent or none is sent again. The rows add up because a
  step changes one query's rows and a sum over the queries changes by as much, a
  lemma by induction over how many queries are added.

**`McpGatewayProofs`**: any number of callers, actions, copies of a request and
database faults.

- `OneSearchPerKey` (`SubmittedAtMostOnce`), `LateRequestsStop`
  (`LateRequestsRefused`): one delivery owns the key, the row, its audit record
  and the search come from it, and a late delivery gets no further than its
  arrival (`LedgerInv`).
- `RowsAgree` (`RowNamesTheSearch`): what each caller holds at each point of
  `submit`, `status` and `cancel` agrees with the search (`CallInv`, `RowInv`).

**`AccessAndStorageProofs`** is about two modules that share nothing. For
`Access`, any number of processes and clients:

- `OverrunIsBounded` (`OverrunBounded`): a bucket at its maximum blocks for a
  window after its last failure and has room for every login let in before,
  counted as a set of processes (`LimiterInv`).
- `BlocksLast` (`BlockLasts`), from the types and a case split over the steps.

For `Storage`, any number of uploads, requests, sizes and faults:

- `QuotaMatchesUploads` (`UploadsConsistent`), with `IdsInv`: requests under way
  have ids of their own. The bytes are a sum over the ids, which changes by one
  term when a row is added.

**`ModelGatewayProofs`**: any number of hunts, budgets and sizes.

- `CallsAreCounted` (`RequestsCounted`), `AnswerHasReserve` (`SynthesisReserve`),
  `ClientLasts` (`ClientOutlivesCalls`): usage stays within the limits of the
  step and a request on its way fits what is left (`HuntInv`); there is one
  call, counted, whose caller waits while it is live (`WorkInv`).
- `SearchKeepsLargest` (`LargestSampleSent`), for every number of rows and all
  sizes that grow with them: while a request is fitted, limits below the
  interval fit, those above it do not, and the best one is the last below it
  (`SearchInv`); the other hunts' calls do not change what is left for this one.

**`DiscoveryProofs`**: any sites, requests and limits.

- `ResultsAreHonest` (`ResultIsHonest`): an endpoint is unread, failed or read, and
  one that was read is in the catalog up to the limit (`ReadInv`, `CatalogInv`);
  without an error and without a cut, what was asked for was read or is still to
  be (`CoverageInv`), and only what the account may search is named or tried
  (`ScopeInv`).
- `SearchesAreWatched` (`NoSearchLeftRunning`), inductive with `ControlInv`.

**`HuntRecordProofs`**: any plan, questions, proposals, store, page sizes and
limits (`HuntAssumption`, `ReportAssumption`: the limits are positive, the
timeline's has room for its two ends, a planned question's id is its place).
The sequence operators the model is built from are treated first: `Ordered`
lists a finite set by any strict total order (`Listed`), and slices, filters,
concatenations and `FlattenSeq` keep what they should. Recursion and counting
are reached by induction over the naturals, with a set in the place of the
predicate (`NumbersByInduction`, from the well-foundedness of `<`).

- `NegativeFindingsAreSound` (`NegativeFindingsSound`). While a retrieval runs,
  its rows are a prefix of what Splunk found, whole pages unless it is at its
  limit, and one that ended by itself has everything (`FetchRuns`, in
  `TypeInv`). So a search that is not reported incomplete retained everything
  (`CompleteInv`), and what an accepted negative finding rests on stays retained
  (`SoundInv`).
- `SkipsStayCurrent` (`SkipsAreCurrent`): a round ends the investigation by
  itself only when no question is pending, which means that the latest decision
  about it stands (`Settled`), and nothing is searched afterwards.
- `LeadsAreAccounted` (`LeadsAccounted`). The rows of one identity are an
  equivalence class and have one earliest row, so the lead groups partition the
  matches (`LeadGroupsFacts`); the coverage of an answer is a rearrangement of
  them (`CoverageRearranges`), which `AnswersInv` keeps, with one answer for a
  question.
- `ActivityIsConsistent` (`ActivityAddsUp`), from `AnswersInv`: the timed rows of a
  scope are in order, and the bisections at the lead's earliest time count the
  places before and after it (`AnchorFacts`, `PlacesCount`), which are the rows
  on that side (`SidesCount`, `OnRightSides`).
- `ExcerptsSpan` (`ExcerptSpansTimeline`): the quotients that place the rows of a
  spread grow by at least one and end at the last place (`QuotientSteps`,
  `SpreadSamples`), and the share of the timed rows leaves no more places than
  there are untimed ones (`RestSuffices`).
- `DraftsValidate` (`DraftValidates`), inductive with `AnswersInv`: the content
  drafted from any results passes the validation against the same results, size
  apart,
  (`DraftAccepted`), and no step changes the results under a draft.
- `PagesAreComplete` (`PagesCoverMatches`): the groups of identical representations
  partition the matching rows (`CompactPartitions`), and the offsets a reader
  reaches are the multiples of the page length below the number of groups
  (`OffsetsReached`, `OffsetsWithin`).
- `SamplesAreBalanced` (`SampleBalanced`), from the inductive `SampleInv`: a query's
  ledger entry is never opened again, so no two rows have an id in common
  (`IdsApart`), and every page shows retained rows and has a round (`PagesFit`).
  The deque of intervals, followed turn by turn, gives every interior place once
  (`MiddlesEnumerate`), so each search offers each of its rows once; the passes
  then enumerate all rows, those of the newest page first, and places taken by
  turns differ by at most one (`TurnsBalance`).

Only model-checked: liveness (`JobsSettle`, `FencedWorkerReturns`, `QueuedHuntEnds`,
`CancelledJobEnds`, `HuntEnds`), which is beyond the prover.

The `queue` run uses agreeing clocks; its theorems hold for every skew.

## Plan

1. Done: the queue and its contract; requests and execution; the hunt's record;
   model calls; discovery; the MCP path; logins; uploads; proofs of
   every safety property of these.
2. Larger instances where a bound is tight: three requests in `HuntWorkflow`
   (the race of `discover`'s last write), follow-ups beside a stale worker in
   `HuntExecution`.

## Not modelled

Text: prompts, schemas, SPL parsing, report wording, PDF layout, extraction
from uploads. HTTP, TLS, hashing, settings validation. The local demo mode. The
front end, migrations and scripts. Parts that nothing in the application calls:
`query_strategy.py` (a shadow ranking in floating point), `ReportService`,
`EvidenceRepository`, the findings and citations services, temporary results,
`retention.py` (whose tables do not exist, see above).
`inventory` measurements of an answer (counts of field values) are left out of
`HuntRecord`; `RetainedFieldCounts` has the counting.
