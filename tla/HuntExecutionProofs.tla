------------------------ MODULE HuntExecutionProofs -------------------------
(***************************************************************************)
(* Proofs about HuntExecution, for any number of workers and queries, any  *)
(* limits and any number of crashes, database errors and lost leases.      *)
(***************************************************************************)
EXTENDS HuntExecution, Integers, TLAPS, WellFoundedInduction

-----------------------------------------------------------------------------
(* Documents keep their type.                                              *)

Points == LeasePoints \cup SavePoints \cup OtherPoints
Entry  == [id : Queries, status : Statuses]
Exits  == {"failing", "ok", "error"}

LEMMA PointNames ==
    Points = {"load", "start", "checkpoint", "assess", "cover", "reserve", "synth", "answer", "publish", "failing",
              "save", "cover_save", "interim_save", "round_save", "reserve_save", "answer_save",
              "idle", "read", "draft", "start_save", "scan", "submit", "dispatch", "poll", "abort", "apply",
              "assess_read", "round", "decide", "reserve_read", "synth_read", "answering", "advance",
              "publish_save", "fail_read", "fail_save", "ok", "error"}
BY DEF Points, LeasePoints, SavePoints, OtherPoints

LEMMA StatusNames ==
    Statuses = {"completed", "skipped_time_cutoff", "skipped_budget", "timed_out", "planned", "submitted"}
BY DEF Statuses, Finished

LEMMA Constants ==
    /\ NoUsage \in Usage /\ NoRecords \in Records /\ NoResults \in Results /\ Idle \in Run
    /\ NoResults.ledger = <<>> /\ NoResults.queries = NoRecords
<1>1. NoUsage \in Usage
    BY DEF NoUsage, Usage
<1>2. NoRecords \in Records
    BY DEF NoRecords, Records
<1>3. NoResults \in Results /\ NoResults.ledger = <<>> /\ NoResults.queries = NoRecords
    BY <1>1, <1>2 DEF NoResults, Results
<1>4. Idle \in Run
    BY <1>1, <1>3, StatusNames DEF Idle, Run, OtherPoints
<1> QED BY <1>1, <1>2, <1>3, <1>4

LEMMA CounterTypes ==
    ASSUME NEW u \in Usage
    PROVE  /\ RecordSplunkQuery(u) \in Usage /\ RecordCycle(u) \in Usage
           /\ \A n \in Nat : RecordResult(u, n) \in Usage
BY DEF Usage, RecordSplunkQuery, RecordCycle, RecordResult

\* The counters and the two marks of a document.
LEMMA DocumentEdits ==
    ASSUME NEW r \in Results, NEW u \in Usage, NEW b \in BOOLEAN
    PROVE  /\ [r EXCEPT !.usage = u] \in Results
           /\ [r EXCEPT !.usage = u].ledger = r.ledger /\ [r EXCEPT !.usage = u].queries = r.queries
           /\ [r EXCEPT !.usage = u, !.adaptiveComplete = b] \in Results
           /\ [r EXCEPT !.usage = u, !.adaptiveComplete = b].ledger = r.ledger
           /\ [r EXCEPT !.usage = u, !.adaptiveComplete = b].queries = r.queries
           /\ [r EXCEPT !.usage = u, !.adaptiveComplete = b].adaptiveComplete = b
           /\ [r EXCEPT !.answered = TRUE, !.usage = u] \in Results
           /\ [r EXCEPT !.answered = TRUE, !.usage = u].ledger = r.ledger
           /\ [r EXCEPT !.answered = TRUE, !.usage = u].queries = r.queries
           /\ [r EXCEPT !.adaptiveComplete = b] \in Results
           /\ [r EXCEPT !.adaptiveComplete = b].ledger = r.ledger
           /\ [r EXCEPT !.adaptiveComplete = b].queries = r.queries
           /\ [r EXCEPT !.adaptiveComplete = b].adaptiveComplete = b
BY DEF Results

LEMMA CounterEdits ==
    ASSUME NEW r \in Results, NEW u, NEW b
    PROVE  /\ [r EXCEPT !.usage = u].usage = u /\ [r EXCEPT !.usage = u, !.adaptiveComplete = b].usage = u
           /\ [r EXCEPT !.answered = TRUE, !.usage = u].usage = u
           /\ [r EXCEPT !.adaptiveComplete = b].usage = r.usage
BY DEF Results

LEMMA PlanTyped ==
    ASSUME NEW r \in Results, NEW q \in Queries
    PROVE  /\ Plan(r, q) \in Results /\ Plan(r, q).queries = r.queries
           /\ Plan(r, q).ledger = Append(r.ledger, [id |-> q, status |-> "planned"])
           /\ Plan(r, q).usage = r.usage
<1>1. r.ledger \in Seq(Entry)
    BY DEF Results, Entry
<1>2. [id |-> q, status |-> "planned"] \in Entry
    BY StatusNames DEF Entry
<1>3. Append(r.ledger, [id |-> q, status |-> "planned"]) \in Seq(Entry)
    BY <1>1, <1>2
<1> QED BY <1>3 DEF Plan, Results, Entry

Marked(L, q, status) == [i \in DOMAIN L |-> IF L[i].id = q THEN [L[i] EXCEPT !.status = status] ELSE L[i]]

LEMMA MarkedTyped ==
    ASSUME NEW L \in Seq(Entry), NEW q, NEW status \in Statuses
    PROVE  /\ Marked(L, q, status) \in Seq(Entry) /\ Len(Marked(L, q, status)) = Len(L)
           /\ DOMAIN Marked(L, q, status) = DOMAIN L
           /\ \A i \in DOMAIN L : /\ Marked(L, q, status)[i].id = L[i].id
                                  /\ L[i].id = q => Marked(L, q, status)[i].status = status
                                  /\ L[i].id # q => Marked(L, q, status)[i] = L[i]
<1>1. \A i \in DOMAIN L : L[i] \in Entry
    OBVIOUS
<1>2. \A i \in DOMAIN L : /\ [L[i] EXCEPT !.status = status] \in Entry
                          /\ [L[i] EXCEPT !.status = status].id = L[i].id
                          /\ [L[i] EXCEPT !.status = status].status = status
    BY <1>1 DEF Entry
<1>3. DOMAIN L = 1 .. Len(L) /\ Len(L) \in Nat
    OBVIOUS
<1>4. Marked(L, q, status) \in [1 .. Len(L) -> Entry]
    BY <1>1, <1>2, <1>3 DEF Marked
<1> QED BY <1>2, <1>3, <1>4 DEF Marked

LEMMA RecordTyped ==
    ASSUME NEW queries \in Records, NEW q, NEW rows \in Nat
    PROVE  /\ Record(queries, q, rows) \in Records
           /\ \A p \in Queries : Record(queries, q, rows)[p] = IF p = q THEN [records |-> 1, rows |-> rows] ELSE queries[p]
BY DEF Records, Record

LEMMA CheckpointTyped ==
    ASSUME NEW r \in Results, NEW q, NEW status \in Statuses, NEW rows \in Nat, NEW u \in Usage
    PROVE  /\ Checkpointed(r, q, status, rows, u) \in Results
           /\ Checkpointed(r, q, status, rows, u).ledger = Marked(r.ledger, q, status)
           /\ Checkpointed(r, q, status, rows, u).queries =
                IF status = "completed" THEN Record(r.queries, q, rows) ELSE r.queries
           /\ Checkpointed(r, q, status, rows, u).usage = u
<1>1. Marked(r.ledger, q, status) \in Seq(Entry)
    BY MarkedTyped DEF Results, Entry
<1> DEFINE new == IF status = "completed" THEN Record(r.queries, q, rows) ELSE r.queries
<1>2. new \in Records
    BY RecordTyped DEF Results
<1>3. Checkpointed(r, q, status, rows, u) =
        [r EXCEPT !.ledger = Marked(r.ledger, q, status), !.queries = new, !.usage = u]
    BY DEF Checkpointed, Marked
<1> HIDE DEF new
<1>4. [r EXCEPT !.ledger = Marked(r.ledger, q, status), !.queries = new, !.usage = u] \in Results
    BY <1>1, <1>2 DEF Results, Entry
<1>5. LET c == [r EXCEPT !.ledger = Marked(r.ledger, q, status), !.queries = new, !.usage = u]
      IN c.ledger = Marked(r.ledger, q, status) /\ c.queries = new /\ c.usage = u
    BY DEF Results
<1> QED BY <1>3, <1>4, <1>5 DEF new

-----------------------------------------------------------------------------
(* What a step makes of its worker.                                        *)

HuntStates == Active \cup {"report_draft", "failed", "cancelled"}

\* The worker goes to another point and keeps the rest.
Stays(new, old, at) ==
    /\ new.at = at /\ new.pos = old.pos /\ new.len = old.len /\ new.q = old.q /\ new.todo = old.todo
    /\ new.rows = old.rows /\ new.mem = old.mem /\ new.usage = old.usage /\ new.seen = old.seen

\* It leaves its loops.
Leaves(new, old, at) == new.at = at /\ new.mem = NoResults /\ new.usage = old.usage

\* It checks, or waits for, its query.
Turns(new, old, at, todo) ==
    /\ new.at = at /\ new.pos = old.pos /\ new.len = old.len /\ new.q = old.q /\ new.todo = todo
    /\ new.mem = old.mem /\ new.seen = old.seen

\* It edits its document.
Edits(new, old, at, mem) ==
    /\ new.at = at /\ new.pos = old.pos /\ new.len = old.len /\ new.q = old.q /\ new.todo = old.todo
    /\ new.rows = old.rows /\ new.mem = mem /\ new.seen = old.seen

LEMMA RowTyped ==
    ASSUME TypeOK
    PROVE  /\ hunt.state \in HuntStates /\ hunt.results \in Results /\ hunt.report \in Records
           /\ hunt.results.ledger \in Seq(Entry) /\ hunt.results.queries \in Records
           /\ hunt.results.usage \in Usage
           /\ hunt.results.adaptiveComplete \in BOOLEAN /\ hunt.results.answered \in BOOLEAN
BY DEF TypeOK, Results, Entry, HuntStates

LEMMA WorkerTyped ==
    ASSUME TypeOK, NEW w \in Workers
    PROVE  /\ run[w] \in Run
           /\ run[w].at \in Points /\ run[w].mem \in Results /\ run[w].usage \in Usage
           /\ run[w].pos \in Nat /\ run[w].len \in Nat /\ run[w].rows \in Nat /\ run[w].todo \in Statuses
           /\ run[w].q \in Queries \cup {0} /\ run[w].seen \in Active \cup {"none"}
           /\ run[w].mem.ledger \in Seq(Entry) /\ run[w].mem.queries \in Records
<1>1. run[w] \in Run
    BY DEF TypeOK
<1>2. /\ run[w].at \in Points /\ run[w].mem \in Results /\ run[w].usage \in Usage
      /\ run[w].pos \in Nat /\ run[w].len \in Nat /\ run[w].rows \in Nat /\ run[w].todo \in Statuses
      /\ run[w].q \in Queries \cup {0} /\ run[w].seen \in Active \cup {"none"}
    BY <1>1 DEF Run, Points
<1>3. run[w].mem.ledger \in Seq(Entry) /\ run[w].mem.queries \in Records
    BY <1>2 DEF Results, Entry
<1> QED BY <1>1, <1>2, <1>3

LEMMA StayTyped ==
    ASSUME NEW r \in Run, NEW at \in Points
    PROVE  [r EXCEPT !.at = at] \in Run /\ Stays([r EXCEPT !.at = at], r, at)
BY DEF Run, Points, Stays

LEMMA LeaveTyped ==
    ASSUME NEW r \in Run, NEW at \in Points
    PROVE  /\ [Idle EXCEPT !.at = at, !.usage = r.usage] \in Run
           /\ Leaves([Idle EXCEPT !.at = at, !.usage = r.usage], r, at)
<1>1. Idle \in Run /\ Idle.mem = NoResults
    BY Constants DEF Idle
<1> QED BY <1>1 DEF Run, Points, Leaves

LEMMA GotoEffect ==
    ASSUME TypeOK, NEW w \in Workers, NEW at \in Points, Goto(w, at)
    PROVE  \E new \in Run : /\ run' = [run EXCEPT ![w] = new]
                            /\ at \in Exits => Leaves(new, run[w], at)
                            /\ at \notin Exits => Stays(new, run[w], at)
<1>1. run[w] \in Run
    BY WorkerTyped
<1>2. CASE at \in Exits
    <2>1. run' = [run EXCEPT ![w] = [Idle EXCEPT !.at = at, !.usage = run[w].usage]]
        BY <1>2 DEF Goto, Exits
    <2> QED BY <1>1, <1>2, <2>1, LeaveTyped
<1>3. CASE at \notin Exits
    <2>1. run' = [run EXCEPT ![w] = [run[w] EXCEPT !.at = at]]
        BY <1>3 DEF Goto, Exits
    <2> QED BY <1>1, <1>3, <2>1, StayTyped
<1> QED BY <1>2, <1>3

\* A worker's turn.
LEMMA Turned ==
    ASSUME TypeOK, NEW w \in Workers, NEW new \in Run, run' = [run EXCEPT ![w] = new]
    PROVE  /\ run' \in [Workers -> Run] /\ run'[w] = new
           /\ \A v \in Workers : v # w => run'[v] = run[v]
BY DEF TypeOK

LEMMA TurnTyped ==
    ASSUME NEW r \in Run, NEW at \in Points, NEW todo \in Statuses
    PROVE  /\ [r EXCEPT !.at = at, !.todo = todo] \in Run
           /\ Turns([r EXCEPT !.at = at, !.todo = todo], r, at, todo)
           /\ [r EXCEPT !.at = at, !.todo = todo].usage = r.usage
           /\ [r EXCEPT !.at = at, !.todo = todo].rows = r.rows
BY DEF Run, Points, Turns

LEMMA EditTyped ==
    ASSUME NEW r \in Run, NEW at \in Points, NEW mem \in Results
    PROVE  /\ [r EXCEPT !.at = at, !.mem = mem] \in Run
           /\ Edits([r EXCEPT !.at = at, !.mem = mem], r, at, mem)
           /\ [r EXCEPT !.at = at, !.mem = mem].usage = r.usage
BY DEF Run, Points, Edits

\* Splitting the updates of two fields of a worker.
LEMMA TwoFields ==
    ASSUME TypeOK, NEW w \in Workers, NEW a, NEW b
    PROVE  /\ [run EXCEPT ![w].at = a, ![w].todo = b] = [run EXCEPT ![w] = [run[w] EXCEPT !.at = a, !.todo = b]]
           /\ [run EXCEPT ![w].at = a, ![w].mem = b] = [run EXCEPT ![w] = [run[w] EXCEPT !.at = a, !.mem = b]]
           /\ [run EXCEPT ![w].mem = b, ![w].at = a] = [run EXCEPT ![w] = [run[w] EXCEPT !.at = a, !.mem = b]]
           /\ [run EXCEPT ![w].at = a] = [run EXCEPT ![w] = [run[w] EXCEPT !.at = a]]
<1>1. run[w] \in Run
    BY WorkerTyped
<1>2. [[run[w] EXCEPT !.mem = b] EXCEPT !.at = a] = [run[w] EXCEPT !.at = a, !.mem = b]
    BY <1>1 DEF Run
<1> QED BY <1>2 DEF TypeOK

LEMMA LoadEffect ==
    ASSUME TypeOK, NEW w \in Workers, LoadHunt(w)
    PROVE  \E new \in Run :
             /\ run' = [run EXCEPT ![w] = new]
             /\ \/ Stays(new, run[w], "ok") \/ Stays(new, run[w], "error")
                \/ hunt.state = "queued" /\ new.at = "draft" /\ new.mem = NoResults /\ new.usage = NoUsage
                \/ /\ hunt.state = "running" /\ new.at = "scan" /\ new.mem = NoResults /\ new.pos = 1
                   /\ new.len = Len(hunt.results.ledger) /\ new.usage = hunt.results.usage
                \/ hunt.state = "synthesizing" /\ new.at = "publish" /\ new.mem = hunt.results
<1>1. run[w] \in Run /\ Idle \in Run
    BY WorkerTyped, Constants
<1>2. hunt.results \in Results /\ hunt.results.usage \in Usage /\ Len(hunt.results.ledger) \in Nat
    BY RowTyped
<1>3. CASE hunt.state \in {"cancelled", "report_draft", "failed"}
    <2>1. PICK at \in {"ok", "error"} : run' = [run EXCEPT ![w] = [run[w] EXCEPT !.at = at]]
        BY <1>3 DEF LoadHunt
    <2>2. at \in Points
        BY PointNames
    <2> QED BY <1>1, <2>1, <2>2, StayTyped
<1>4. CASE hunt.state = "queued"
    <2>1. run' = [run EXCEPT ![w] = [Idle EXCEPT !.at = "draft"]]
        BY <1>4 DEF LoadHunt
    <2>2. "draft" \in Points
        BY PointNames
    <2>3. [Idle EXCEPT !.at = "draft"] \in Run /\ Stays([Idle EXCEPT !.at = "draft"], Idle, "draft")
        BY <1>1, <2>2, StayTyped
    <2>4. Idle.mem = NoResults /\ Idle.usage = NoUsage
        BY DEF Idle
    <2> QED BY <1>4, <2>1, <2>3, <2>4 DEF Stays
<1>5. CASE hunt.state = "running"
    <2> DEFINE new == [Idle EXCEPT !.at = "scan", !.pos = 1, !.len = Len(hunt.results.ledger),
                                   !.usage = hunt.results.usage]
    <2>1. run' = [run EXCEPT ![w] = new]
        BY <1>5 DEF LoadHunt
    <2>2. "scan" \in Points /\ Idle.mem = NoResults
        BY PointNames DEF Idle
    <2>3. /\ new \in Run /\ new.at = "scan" /\ new.mem = NoResults /\ new.pos = 1
          /\ new.len = Len(hunt.results.ledger) /\ new.usage = hunt.results.usage
        BY <1>1, <1>2, <2>2 DEF Run, Points
    <2> HIDE DEF new
    <2> QED BY <1>5, <2>1, <2>3
<1>6. CASE hunt.state = "synthesizing"
    <2> DEFINE new == [Idle EXCEPT !.at = "publish", !.mem = hunt.results]
    <2>1. run' = [run EXCEPT ![w] = new]
        BY <1>6 DEF LoadHunt
    <2>2. "publish" \in Points
        BY PointNames
    <2>3. new \in Run /\ new.at = "publish" /\ new.mem = hunt.results
        BY <1>1, <1>2, <2>2, EditTyped DEF Edits
    <2> HIDE DEF new
    <2> QED BY <1>6, <2>1, <2>3
<1> QED BY <1>3, <1>4, <1>5, <1>6, RowTyped DEF HuntStates, Active

LEMMA DraftEffect ==
    ASSUME TypeOK, NEW w \in Workers, Draft(w)
    PROVE  \E new \in Run, n \in 0 .. MaxDraft :
             /\ run' = [run EXCEPT ![w] = new] /\ new.at = "start"
             /\ new.mem.ledger = [i \in 1 .. n |-> [id |-> i, status |-> "planned"]]
             /\ new.mem.queries = run[w].mem.queries /\ new.mem.usage = run[w].mem.usage
             /\ new.usage = run[w].usage
<1>1. PICK n \in 0 .. MaxDraft :
        run' = [run EXCEPT ![w].at = "start",
                           ![w].mem.ledger = [i \in 1 .. n |-> [id |-> i, status |-> "planned"]]]
    BY DEF Draft
<1> DEFINE L == [i \in 1 .. n |-> [id |-> i, status |-> "planned"]]
<1> DEFINE mem == [run[w].mem EXCEPT !.ledger = L]
<1>2. n \in Nat /\ n <= MaxIssued
    BY LimitsAreNumbers
<1>3. L \in Seq(Entry)
    <2>1. \A i \in 1 .. n : [id |-> i, status |-> "planned"] \in Entry
        BY <1>2, StatusNames, LimitsAreNumbers DEF Entry, Queries
    <2> QED BY <1>2, <2>1
<1>4. run' = [run EXCEPT ![w] = [run[w] EXCEPT !.at = "start", !.mem = mem]]
    <2> HIDE DEF L
    <2>1. run' = [run EXCEPT ![w].at = "start", ![w].mem.ledger = L]
        BY <1>1 DEF L
    <2> QED BY <2>1, WorkerTyped DEF TypeOK, Run
<1>5. mem \in Results /\ mem.ledger = L /\ mem.queries = run[w].mem.queries /\ mem.usage = run[w].mem.usage
    <2> HIDE DEF L
    <2> QED BY <1>3, WorkerTyped DEF Results, Entry
<1>6. "start" \in Points /\ run[w] \in Run
    BY PointNames, WorkerTyped
<1> DEFINE new == [run[w] EXCEPT !.at = "start", !.mem = mem]
<1>7. new \in Run /\ new.at = "start" /\ new.mem = mem /\ new.usage = run[w].usage
    <2>1. mem \in Results
        BY <1>5
    <2> HIDE DEF mem, L
    <2>2. new \in Run /\ Edits(new, run[w], "start", mem) /\ new.usage = run[w].usage
        BY <1>6, <2>1, EditTyped
    <2> QED BY <2>2 DEF Edits
<1> HIDE DEF new, mem
<1> QED BY <1>4, <1>5, <1>7 DEF new

LEMMA StartEffect ==
    ASSUME TypeOK, NEW w \in Workers, StartRunning(w)
    PROVE  \E new \in Run :
             /\ run' = [run EXCEPT ![w] = new]
             /\ \/ /\ hunt.state = "queued"
                   /\ hunt' = [hunt EXCEPT !.state = "running", !.results = run[w].mem]
                   /\ issued' = Len(run[w].mem.ledger)
                   /\ new.at = "scan" /\ new.pos = 1 /\ new.len = Len(run[w].mem.ledger)
                   /\ new.mem = run[w].mem /\ new.usage = run[w].usage
                \/ hunt.state # "queued" /\ Leaves(new, run[w], "failing") /\ UNCHANGED <<hunt, issued>>
<1>1. /\ run[w] \in Run /\ Len(run[w].mem.ledger) \in Nat
      /\ "scan" \in Points /\ "failing" \in Points /\ "failing" \in Exits
    BY WorkerTyped, PointNames DEF Exits
<1>2. CASE hunt.state = "queued"
    <2> DEFINE new == [run[w] EXCEPT !.at = "scan", !.pos = 1, !.len = Len(run[w].mem.ledger)]
    <2>1. run' = [run EXCEPT ![w].at = "scan", ![w].pos = 1, ![w].len = issued']
          /\ issued' = Len(run[w].mem.ledger)
          /\ hunt' = [hunt EXCEPT !.state = "running", !.results = run[w].mem]
        BY <1>2 DEF StartRunning
    <2>2. run' = [run EXCEPT ![w] = new]
        BY <2>1 DEF TypeOK
    <2>3. /\ new \in Run /\ new.at = "scan" /\ new.pos = 1 /\ new.len = Len(run[w].mem.ledger)
          /\ new.mem = run[w].mem /\ new.usage = run[w].usage
        BY <1>1 DEF Run, Points
    <2> HIDE DEF new
    <2> QED BY <1>2, <2>1, <2>2, <2>3
<1>3. CASE hunt.state # "queued"
    <2>1. Goto(w, "failing") /\ UNCHANGED <<hunt, issued>>
        BY <1>3 DEF StartRunning
    <2> QED BY <1>1, <1>3, <2>1, GotoEffect
<1> QED BY <1>2, <1>3

LEMMA ScanEffect ==
    ASSUME TypeOK, NEW w \in Workers, Scan(w), run[w].pos # 0
    PROVE  \E new \in Run :
             /\ run' = [run EXCEPT ![w] = new]
             /\ \/ run[w].pos > run[w].len /\ \E at \in {"assess", "reserve"} : Leaves(new, run[w], at)
                \/ Leaves(new, run[w], "failing")
                \/ /\ run[w].pos <= run[w].len /\ run[w].pos <= Len(hunt.results.ledger)
                   /\ hunt.results.ledger[run[w].pos].status \in Finished
                   /\ new.at = "scan" /\ new.pos = run[w].pos + 1 /\ new.len = run[w].len
                   /\ new.mem = run[w].mem /\ new.usage = run[w].usage
                \/ /\ run[w].pos <= run[w].len /\ run[w].pos <= Len(hunt.results.ledger)
                   /\ hunt.results.ledger[run[w].pos].status \notin Finished
                   /\ new.q = hunt.results.ledger[run[w].pos].id
                   /\ new.pos = run[w].pos /\ new.len = run[w].len /\ new.mem = run[w].mem
                   /\ new.usage = run[w].usage
                   /\ new.at \in {"checkpoint", "submit", "poll"}
                   /\ new.at = "checkpoint" => /\ new.todo \in {"skipped_time_cutoff", "skipped_budget"}
                                               /\ clock > 0 \/ run[w].usage.rows >= MaxRows
                   /\ new.at = "submit" => hunt.results.ledger[run[w].pos].status = "planned" /\ clock = 0
                   /\ new.at = "submit" => ~(run[w].usage.rows >= MaxRows)
                   /\ new.at = "poll" => hunt.results.ledger[run[w].pos].status # "planned"
<1> DEFINE r == run[w]
<1> DEFINE ledger == hunt.results.ledger
<1>1. /\ r \in Run /\ r.pos \in Nat /\ r.len \in Nat /\ r.mem \in Results /\ r.usage \in Usage
      /\ ledger \in Seq(Entry) /\ Len(ledger) \in Nat
    BY WorkerTyped, RowTyped
<1>2. CASE r.pos > r.len
    <2>1. PICK at \in {"assess", "reserve"} : run' = [run EXCEPT ![w] = [Idle EXCEPT !.usage = r.usage, !.at = at]]
        BY <1>2 DEF Scan
    <2>2. at \in Points
        BY PointNames
    <2>3. [Idle EXCEPT !.usage = r.usage, !.at = at] = [Idle EXCEPT !.at = at, !.usage = r.usage]
        BY Constants DEF Run
    <2> QED BY <1>1, <1>2, <2>1, <2>2, <2>3, LeaveTyped
<1>3. CASE r.pos <= r.len /\ r.pos > Len(ledger)
    <2>1. Goto(w, "failing")
        BY <1>1, <1>3 DEF Scan
    <2> QED BY <2>1, PointNames, GotoEffect DEF Exits
<1>4. CASE r.pos <= r.len /\ r.pos <= Len(ledger)
    <2>0. ~(r.pos > r.len) /\ ~(r.pos > Len(ledger))
        BY <1>1, <1>4
    <2>1. CASE ledger[r.pos].status \in Finished
        <3> DEFINE new == [r EXCEPT !.pos = r.pos + 1]
        <3>1. run' = [run EXCEPT ![w].pos = r.pos + 1] /\ r.at = "scan"
            BY <2>0, <2>1 DEF Scan
        <3>2. run' = [run EXCEPT ![w] = new]
            BY <3>1 DEF TypeOK
        <3>3. /\ new \in Run /\ new.at = "scan" /\ new.pos = r.pos + 1 /\ new.len = r.len
              /\ new.mem = r.mem /\ new.usage = r.usage
            BY <1>1, <3>1 DEF Run
        <3> HIDE DEF new
        <3> QED BY <1>4, <2>1, <3>2, <3>3
    <2>2. CASE ledger[r.pos].status \notin Finished
        <3> DEFINE d == Dispose(ledger[r.pos], r.usage)
        <3> DEFINE new == [r EXCEPT !.q = ledger[r.pos].id, !.at = d.at, !.todo = d.todo]
        <3>1. run' = [run EXCEPT ![w].q = ledger[r.pos].id, ![w].at = d.at, ![w].todo = d.todo]
            BY <2>0, <2>2 DEF Scan
        <3>2. /\ d.at \in {"checkpoint", "submit", "poll"} /\ d.todo \in Statuses
              /\ d.at = "checkpoint" => /\ d.todo \in {"skipped_time_cutoff", "skipped_budget"}
                                        /\ clock > 0 \/ r.usage.rows >= MaxRows
              /\ d.at = "submit" => ledger[r.pos].status = "planned" /\ ~(clock > 0) /\ ~(r.usage.rows >= MaxRows)
              /\ d.at = "poll" => ledger[r.pos].status # "planned"
            BY StatusNames DEF Dispose
        <3>22. ~(clock > 0) => clock = 0
            BY DEF TypeOK
        <3>3. d.at \in Points
            BY <3>2, PointNames
        <3>4. ledger[r.pos].id \in Queries
            <4>1. r.pos \in 1 .. Len(ledger)
                BY <1>1, <1>4
            <4>2. ledger[r.pos] \in Entry
                BY <1>1, <4>1
            <4> QED BY <4>2 DEF Entry
        <3> HIDE DEF d
        <3>5. run' = [run EXCEPT ![w] = new]
            BY <3>1 DEF TypeOK
        <3>6. /\ new \in Run /\ new.q = ledger[r.pos].id /\ new.pos = r.pos /\ new.len = r.len
              /\ new.mem = r.mem /\ new.usage = r.usage /\ new.at = d.at /\ new.todo = d.todo
            BY <1>1, <3>2, <3>3, <3>4 DEF Run, Points
        <3> HIDE DEF new
        <3> QED BY <1>4, <2>2, <3>2, <3>22, <3>5, <3>6
    <2> QED BY <2>1, <2>2
<1> QED BY <1>1, <1>2, <1>3, <1>4

LEMMA SubmitEffect ==
    ASSUME TypeOK, NEW w \in Workers, Submit(w)
    PROVE  \E new \in Run :
             /\ run' = [run EXCEPT ![w] = new] /\ new.rows = run[w].rows
             /\ \/ /\ \E todo \in {"timed_out", "skipped_budget"} : Turns(new, run[w], "checkpoint", todo)
                   /\ new.usage = run[w].usage /\ (clock = 2 \/ ~CanStartQuery(run[w].usage))
                \/ /\ \/ Turns(new, run[w], "failing", run[w].todo)
                      \/ Turns(new, run[w], "dispatch", run[w].todo) /\ ~Cancelled(w)
                   /\ CanStartQuery(run[w].usage) /\ new.usage = RecordSplunkQuery(run[w].usage)
<1> DEFINE r == run[w]
<1>1. r \in Run /\ r.usage \in Usage /\ RecordSplunkQuery(r.usage) \in Usage
    BY WorkerTyped, CounterTypes
<1>2. "checkpoint" \in Points /\ "timed_out" \in Statuses /\ "skipped_budget" \in Statuses
    BY PointNames, StatusNames
<1>3. CASE clock = 2 \/ ~CanStartQuery(r.usage)
    <2>1. PICK todo \in {"timed_out", "skipped_budget"} :
            run' = [run EXCEPT ![w] = [r EXCEPT !.at = "checkpoint", !.todo = todo]]
        BY <1>3 DEF Submit
    <2> QED BY <1>1, <1>2, <1>3, <2>1, TurnTyped
<1>4. CASE clock # 2 /\ CanStartQuery(r.usage)
    <2> DEFINE next == IF Cancelled(w) THEN "failing" ELSE "dispatch"
    <2>1. run' = [run EXCEPT ![w] = [r EXCEPT !.usage = RecordSplunkQuery(r.usage), !.at = next]]
        BY <1>4 DEF Submit
    <2>2. next \in {"failing", "dispatch"} /\ (next = "dispatch" => ~Cancelled(w))
        OBVIOUS
    <2> HIDE DEF next
    <2>22. PICK at \in {"failing", "dispatch"} : at = next /\ (at = "dispatch" => ~Cancelled(w))
        BY <2>2
    <2> DEFINE new == [r EXCEPT !.usage = RecordSplunkQuery(r.usage), !.at = at]
    <2>23. run' = [run EXCEPT ![w] = new]
        BY <2>1, <2>22
    <2>3. at \in Points
        BY PointNames
    <2>4. /\ new \in Run /\ Turns(new, r, at, r.todo) /\ new.rows = r.rows
          /\ new.usage = RecordSplunkQuery(r.usage)
        BY <1>1, <2>3 DEF Run, Points, Turns
    <2> HIDE DEF new
    <2> QED BY <1>4, <2>22, <2>23, <2>4
<1> QED BY <1>3, <1>4

\* The steps about a search.
LEMMA SearchEffect ==
    ASSUME TypeOK, NEW w \in Workers,
           Dispatch(w) \/ DispatchError(w) \/ PollError(w) \/ PollTimeout(w)
    PROVE  \E new \in Run :
             /\ run' = [run EXCEPT ![w] = new] /\ new.usage = run[w].usage
             /\ \/ \E at \in {"failing", "checkpoint"} : Dispatch(w) /\ Turns(new, run[w], at, "submitted")
                \/ DispatchError(w) /\ Leaves(new, run[w], "failing")
                \/ DispatchError(w) /\ Turns(new, run[w], "checkpoint", "timed_out")
                \/ \E todo \in {"planned", "timed_out"} : /\ PollError(w) \/ PollTimeout(w)
                                                         /\ Turns(new, run[w], "abort", todo)
<1>1. /\ run[w] \in Run
      /\ {"checkpoint", "failing", "abort"} \subseteq Points /\ {"timed_out", "planned", "submitted"} \subseteq Statuses
    BY WorkerTyped, PointNames, StatusNames
<1>2. CASE Dispatch(w)
    <2>1. PICK at \in {"failing", "checkpoint"} : run' = [run EXCEPT ![w].at = at, ![w].todo = "submitted"]
        BY <1>2 DEF Dispatch
    <2> DEFINE new == [run[w] EXCEPT !.at = at, !.todo = "submitted"]
    <2>2. run' = [run EXCEPT ![w] = new]
        BY <2>1, TwoFields
    <2>3. at \in Points /\ "submitted" \in Statuses /\ run[w] \in Run
        BY <1>1
    <2>4. new \in Run /\ Turns(new, run[w], at, "submitted") /\ new.usage = run[w].usage
        BY <2>3, TurnTyped
    <2> HIDE DEF new
    <2> QED BY <1>2, <2>2, <2>4
<1>3. CASE DispatchError(w) /\ Goto(w, "failing")
    <2>1. PICK new \in Run : run' = [run EXCEPT ![w] = new] /\ Leaves(new, run[w], "failing")
        BY <1>1, <1>3, GotoEffect DEF Exits
    <2> QED BY <1>3, <2>1 DEF Leaves
<1>4. ASSUME NEW at \in {"checkpoint", "abort"}, NEW todo \in {"timed_out", "planned"},
             run' = [run EXCEPT ![w].at = at, ![w].todo = todo]
      PROVE  \E new \in Run : /\ run' = [run EXCEPT ![w] = new] /\ new.usage = run[w].usage
                              /\ Turns(new, run[w], at, todo)
    <2>1. run' = [run EXCEPT ![w] = [run[w] EXCEPT !.at = at, !.todo = todo]]
        BY <1>4, TwoFields
    <2>2. at \in Points /\ todo \in Statuses
        BY <1>1
    <2> QED BY <1>1, <2>1, <2>2, TurnTyped
<1>5. CASE DispatchError(w) /\ run' = [run EXCEPT ![w].at = "checkpoint", ![w].todo = "timed_out"]
    BY <1>4, <1>5
<1>6. CASE PollError(w)
    <2>1. run' = [run EXCEPT ![w].at = "abort", ![w].todo = "planned"]
        BY <1>6 DEF PollError
    <2> QED BY <1>4, <1>6, <2>1
<1>7. CASE PollTimeout(w)
    <2>1. run' = [run EXCEPT ![w].at = "abort", ![w].todo = "timed_out"]
        BY <1>7 DEF PollTimeout
    <2> QED BY <1>4, <1>7, <2>1
<1>8. DispatchError(w) =>
        Goto(w, "failing") \/ run' = [run EXCEPT ![w].at = "checkpoint", ![w].todo = "timed_out"]
    BY DEF DispatchError
<1> QED BY <1>2, <1>3, <1>5, <1>6, <1>7, <1>8

LEMMA RetrieveEffect ==
    ASSUME TypeOK, NEW w \in Workers, Retrieve(w)
    PROVE  \E new \in Run, n \in 0 .. MaxQueryRows :
             /\ run' = [run EXCEPT ![w] = new] /\ Turns(new, run[w], "checkpoint", "completed")
             /\ new.rows = n /\ new.usage = RecordResult(run[w].usage, n)
             /\ run[w].usage.rows + n <= MaxRows
<1>1. PICK n \in 0 .. MaxQueryRows :
        /\ run[w].usage.rows + n <= MaxRows
        /\ run' = [run EXCEPT ![w].at = "checkpoint", ![w].todo = "completed", ![w].rows = n,
                              ![w].usage = RecordResult(@, n)]
    BY DEF Retrieve
<1>0. n \in Nat
    BY LimitsAreNumbers
<1>2. run[w] \in Run /\ RecordResult(run[w].usage, n) \in Usage
    BY <1>0, WorkerTyped, CounterTypes
<1> DEFINE usage == RecordResult(run[w].usage, n)
<1> DEFINE new == [run[w] EXCEPT !.at = "checkpoint", !.todo = "completed", !.rows = n, !.usage = usage]
<1>3. run' = [run EXCEPT ![w] = new]
    <2>1. run' = [run EXCEPT ![w].at = "checkpoint", ![w].todo = "completed", ![w].rows = n,
                             ![w].usage = usage]
        BY <1>1, <1>2 DEF TypeOK, Run
    <2> HIDE DEF usage
    <2> QED BY <2>1 DEF TypeOK
<1>4. "checkpoint" \in Points /\ "completed" \in Statuses /\ usage \in Usage
    BY <1>2, PointNames, StatusNames
<1>5. new \in Run /\ Turns(new, run[w], "checkpoint", "completed") /\ new.rows = n /\ new.usage = usage
    <2> HIDE DEF usage
    <2> QED BY <1>0, <1>2, <1>4 DEF Run, Points, Turns
<1> HIDE DEF new
<1> QED BY <1>1, <1>3, <1>5

LEMMA AbortEffect ==
    ASSUME TypeOK, NEW w \in Workers, Abort(w)
    PROVE  \E new \in Run :
             /\ run' = [run EXCEPT ![w] = new]
             /\ \/ run[w].todo = "timed_out" /\ Stays(new, run[w], "checkpoint")
                \/ Leaves(new, run[w], "failing")
<1>1. "checkpoint" \in Points \ Exits /\ "failing" \in Points \cap Exits
    BY PointNames DEF Exits
<1>2. CASE run[w].todo = "timed_out"
    <2>1. Goto(w, "checkpoint")
        BY <1>2 DEF Abort
    <2> QED BY <1>1, <1>2, <2>1, GotoEffect
<1>3. CASE run[w].todo # "timed_out"
    <2>1. Goto(w, "failing")
        BY <1>3 DEF Abort
    <2> QED BY <1>1, <2>1, GotoEffect
<1> QED BY <1>2, <1>3

LEMMA ConflictEffect ==
    ASSUME TypeOK, NEW w \in Workers, Goto(w, OnConflict(w))
    PROVE  \E new \in Run :
             /\ run' = [run EXCEPT ![w] = new]
             /\ \/ Leaves(new, run[w], "failing")
                \/ run[w].at \in {"apply", "save"} /\ run[w].todo = "submitted" /\ Stays(new, run[w], "abort")
<1>1. "abort" \in Points \ Exits /\ "failing" \in Points \cap Exits
    BY PointNames DEF Exits
<1>2. CASE run[w].at \in {"apply", "save"} /\ run[w].todo = "submitted"
    <2>1. Goto(w, "abort")
        BY <1>2 DEF OnConflict
    <2> QED BY <1>1, <1>2, <2>1, GotoEffect
<1>3. CASE ~(run[w].at \in {"apply", "save"} /\ run[w].todo = "submitted")
    <2>1. Goto(w, "failing")
        BY <1>3 DEF OnConflict
    <2> QED BY <1>1, <2>1, GotoEffect
<1> QED BY <1>2, <1>3

LEMMA ApplyEffect ==
    ASSUME TypeOK, NEW w \in Workers, Apply(w)
    PROVE  LET r == run[w]
               doc == Checkpointed(hunt.results, r.q, r.todo, r.rows, r.usage)
           IN \E new \in Run :
                /\ run' = [run EXCEPT ![w] = new] /\ new.usage = r.usage
                /\ \/ Applicable(hunt.results.ledger, r.q, r.todo) /\ Edits(new, r, "save", doc)
                   \/ Leaves(new, r, "failing")
                   \/ /\ r.todo = "submitted" /\ Stays(new, r, "abort")
                      /\ ~Applicable(hunt.results.ledger, r.q, r.todo)
<1> DEFINE r == run[w]
<1> DEFINE doc == Checkpointed(hunt.results, r.q, r.todo, r.rows, r.usage)
<1>1. r \in Run /\ doc \in Results /\ "save" \in Points
    BY WorkerTyped, RowTyped, CheckpointTyped, PointNames
<1>2. CASE Applicable(hunt.results.ledger, r.q, r.todo)
    <2>1. run' = [run EXCEPT ![w].at = "save", ![w].mem = doc]
        BY <1>2 DEF Apply
    <2> HIDE DEF doc
    <2>2. run' = [run EXCEPT ![w] = [r EXCEPT !.at = "save", !.mem = doc]]
        BY <2>1, TwoFields
    <2>3. /\ [r EXCEPT !.at = "save", !.mem = doc] \in Run
          /\ Edits([r EXCEPT !.at = "save", !.mem = doc], r, "save", doc)
          /\ [r EXCEPT !.at = "save", !.mem = doc].usage = r.usage
        BY <1>1, EditTyped
    <2>4. \E new \in Run : /\ run' = [run EXCEPT ![w] = new] /\ new.usage = r.usage
                           /\ Edits(new, r, "save", doc)
        BY <2>2, <2>3
    <2> QED BY <1>2, <2>4 DEF doc
<1>3. CASE ~Applicable(hunt.results.ledger, r.q, r.todo)
    <2>1. Goto(w, OnConflict(w))
        BY <1>3 DEF Apply
    <2>2. PICK new \in Run : /\ run' = [run EXCEPT ![w] = new]
                             /\ Leaves(new, r, "failing") \/ (r.todo = "submitted" /\ Stays(new, r, "abort"))
        BY <2>1, ConflictEffect
    <2>3. new.usage = r.usage
        BY <2>2 DEF Leaves, Stays
    <2> QED BY <1>3, <2>2, <2>3
<1> QED BY <1>2, <1>3

LEMMA EditEffect ==
    ASSUME TypeOK, NEW w \in Workers, NEW at \in Points, NEW mem \in Results,
           run' = [run EXCEPT ![w].at = at, ![w].mem = mem]
    PROVE  \E new \in Run : /\ run' = [run EXCEPT ![w] = new] /\ new.usage = run[w].usage
                            /\ Edits(new, run[w], at, mem)
<1> DEFINE new == [run[w] EXCEPT !.at = at, !.mem = mem]
<1>1. run' = [run EXCEPT ![w] = new]
    BY TwoFields
<1>2. run[w] \in Run
    BY WorkerTyped
<1>3. new \in Run /\ Edits(new, run[w], at, mem) /\ new.usage = run[w].usage
    BY <1>2, EditTyped
<1> HIDE DEF new
<1> QED BY <1>1, <1>3

\* The searches and the rows are counted alike.
SameCounts(u, v) == u.searches = v.searches /\ u.rows = v.rows

\* The ledger and the results are those of another document.
Copies(doc, old) == doc.ledger = old.ledger /\ doc.queries = old.queries

LEMMA SaveEffect ==
    ASSUME TypeOK, NEW w \in Workers, Save(w)
    PROVE  LET r == run[w] IN
           \E new \in Run :
             /\ run' = [run EXCEPT ![w] = new]
             /\ \/ /\ hunt.state = "running" /\ hunt' = [hunt EXCEPT !.results = r.mem]
                   /\ \/ /\ r.at = "save" /\ r.todo = "submitted" /\ new.at = "poll" /\ new.pos = r.pos
                         /\ new.len = r.len /\ new.q = r.q /\ new.mem = NoResults /\ new.usage = r.usage
                      \/ /\ r.at = "save" /\ r.todo # "submitted" /\ new.at = "scan" /\ new.pos = r.pos + 1
                         /\ new.len = r.len /\ new.mem = NoResults /\ new.usage = r.usage
                      \/ /\ r.at = "cover_save" \/ (r.at = "round_save" /\ ~r.mem.adaptiveComplete)
                         /\ new.at = "load" /\ new.mem = NoResults
                      \/ r.at = "interim_save" /\ Stays(new, r, "decide")
                      \/ /\ r.at = "round_save" /\ r.mem.adaptiveComplete
                         /\ \E at \in {"reserve", "synth"} : Stays(new, r, at)
                      \/ r.at = "reserve_save" /\ Stays(new, r, "synth")
                      \/ r.at = "answer_save" /\ Stays(new, r, "advance")
                \/ /\ hunt.state # "running" /\ hunt' = hunt
                   /\ \/ Leaves(new, r, "failing")
                      \/ r.at = "save" /\ r.todo = "submitted" /\ Stays(new, r, "abort")
<1> DEFINE r == run[w]
<1>1. /\ r \in Run /\ r.pos \in Nat /\ r.mem.adaptiveComplete \in BOOLEAN /\ Idle \in Run /\ NoResults \in Results
      /\ {"poll", "scan", "load", "decide", "reserve", "synth", "advance"} \subseteq Points
    BY WorkerTyped, Constants, PointNames DEF Results
<1>2. CASE hunt.state # "running"
    <2>1. Goto(w, OnConflict(w)) /\ hunt' = hunt /\ r.at \in SavePoints
        BY <1>2 DEF Save
    <2>2. r.at \in {"apply", "save"} => r.at = "save"
        BY <2>1 DEF SavePoints
    <2>3. PICK new \in Run :
            /\ run' = [run EXCEPT ![w] = new]
            /\ \/ Leaves(new, r, "failing")
               \/ r.at \in {"apply", "save"} /\ r.todo = "submitted" /\ Stays(new, r, "abort")
        BY <2>1, ConflictEffect
    <2> QED BY <1>2, <2>1, <2>2, <2>3
<1>3. ASSUME hunt.state = "running"
      PROVE  /\ hunt' = [hunt EXCEPT !.results = r.mem] /\ run' = [run EXCEPT ![w] = Saved(w)]
             /\ r.at \in SavePoints
    BY <1>3 DEF Save
<1>4. CASE hunt.state = "running" /\ r.at = "save" /\ r.todo = "submitted"
    <2> DEFINE new == [r EXCEPT !.at = "poll", !.mem = NoResults]
    <2>1. Saved(w) = new
        BY <1>4 DEF Saved
    <2>2. new \in Run /\ Edits(new, r, "poll", NoResults) /\ new.usage = r.usage
        BY <1>1, EditTyped
    <2> HIDE DEF new
    <2> QED BY <1>3, <1>4, <2>1, <2>2 DEF Edits
<1>5. CASE hunt.state = "running" /\ r.at = "save" /\ r.todo # "submitted"
    <2> DEFINE new == [r EXCEPT !.at = "scan", !.pos = r.pos + 1, !.rows = 0, !.mem = NoResults]
    <2>1. Saved(w) = new
        BY <1>5 DEF Saved
    <2>2. r.pos + 1 \in Nat /\ 0 \in Nat /\ "scan" \in LeasePoints \cup SavePoints \cup OtherPoints
        BY <1>1 DEF Points
    <2> DEFINE next == r.pos + 1
    <2> DEFINE start == "scan"
    <2> HIDE DEF next, start
    <2>21. [r EXCEPT !.at = start, !.pos = next, !.rows = 0, !.mem = NoResults] \in Run
        BY <1>1, <2>2 DEF Run, next, start
    <2>3. /\ new \in Run /\ new.at = "scan" /\ new.pos = r.pos + 1 /\ new.len = r.len /\ new.mem = NoResults
          /\ new.usage = r.usage
        BY <1>1, <2>21 DEF Run, next, start
    <2> HIDE DEF new
    <2> QED BY <1>3, <1>5, <2>1, <2>3
<1>6. CASE hunt.state = "running" /\ (r.at = "cover_save" \/ (r.at = "round_save" /\ ~r.mem.adaptiveComplete))
    <2> DEFINE new == CallAgain(w)
    <2>1. Saved(w) = new
        BY <1>6 DEF Saved
    <2>2. new \in Run /\ new.at = "load" /\ new.mem = NoResults
        <3>1. Idle.mem = NoResults /\ r.usage \in Usage /\ "running" \in Active
            BY WorkerTyped DEF Idle, Active
        <3>2. "load" \in LeasePoints \cup SavePoints \cup OtherPoints
            BY <1>1 DEF Points
        <3> QED BY <1>1, <3>1, <3>2 DEF Run, CallAgain
    <2> HIDE DEF new
    <2> QED BY <1>3, <1>6, <2>1, <2>2
<1>7. CASE hunt.state = "running" /\ r.at = "interim_save"
    <2>1. Saved(w) = [r EXCEPT !.at = "decide"]
        BY <1>7 DEF Saved
    <2> QED BY <1>1, <1>3, <1>7, <2>1, StayTyped
<1>8. CASE hunt.state = "running" /\ r.at = "round_save" /\ r.mem.adaptiveComplete
    <2>1. Saved(w) = [r EXCEPT !.at = Close]
        BY <1>8 DEF Saved
    <2>2. Close \in {"reserve", "synth"}
        BY DEF Close
    <2> HIDE DEF Close
    <2> QED BY <1>1, <1>3, <1>8, <2>1, <2>2, StayTyped
<1>9. CASE hunt.state = "running" /\ r.at = "reserve_save"
    <2>1. Saved(w) = [r EXCEPT !.at = "synth"]
        BY <1>9 DEF Saved
    <2> QED BY <1>1, <1>3, <1>9, <2>1, StayTyped
<1>10. CASE hunt.state = "running" /\ r.at = "answer_save"
    <2>1. Saved(w) = [r EXCEPT !.at = "advance"]
        BY <1>10 DEF Saved
    <2> QED BY <1>1, <1>3, <1>10, <2>1, StayTyped
<1> QED BY <1>1, <1>2, <1>3, <1>4, <1>5, <1>6, <1>7, <1>8, <1>9, <1>10 DEF SavePoints

\* The steps that read the row into the worker's document.
LEMMA ReadEffect ==
    ASSUME TypeOK, NEW w \in Workers, AssessRead(w) \/ SynthRead(w) \/ ReserveRead(w)
    PROVE  \E new \in Run, mem \in Results, at \in {"reserve", "synth", "round", "advance", "answering", "reserve_save"} :
             /\ run' = [run EXCEPT ![w] = new] /\ new.usage = run[w].usage
             /\ Edits(new, run[w], at, mem) /\ Copies(mem, hunt.results)
             /\ mem.usage = hunt.results.usage \/ mem.usage = run[w].usage
<1>1. /\ hunt.results \in Results /\ run[w].usage \in Usage
      /\ {"reserve", "synth", "round", "advance", "answering", "reserve_save"} \subseteq Points
    BY WorkerTyped, RowTyped, PointNames
<1>2. CASE AssessRead(w) \/ SynthRead(w)
    <2>1. PICK at \in {"reserve", "synth", "round", "advance", "answering"} :
            run' = [run EXCEPT ![w].mem = hunt.results, ![w].at = at]
        BY <1>2 DEF AssessRead, SynthRead, Close
    <2>2. run' = [run EXCEPT ![w].at = at, ![w].mem = hunt.results]
        BY <2>1, TwoFields
    <2>3. at \in Points /\ hunt.results \in Results
        BY <1>1
    <2>4. PICK new \in Run : /\ run' = [run EXCEPT ![w] = new] /\ new.usage = run[w].usage
                             /\ Edits(new, run[w], at, hunt.results)
        BY <2>2, <2>3, EditEffect
    <2>5. Copies(hunt.results, hunt.results)
        BY DEF Copies
    <2> QED BY <2>3, <2>4, <2>5
<1>3. CASE ReserveRead(w)
    <2> DEFINE mem == [hunt.results EXCEPT !.usage = run[w].usage, !.adaptiveComplete = TRUE]
    <2>1. run' = [run EXCEPT ![w].at = "reserve_save", ![w].mem = mem]
        BY <1>3 DEF ReserveRead
    <2>2. mem \in Results /\ Copies(mem, hunt.results)
        BY <1>1, DocumentEdits DEF Copies
    <2>21. mem.usage = run[w].usage
        BY <1>1, CounterEdits
    <2>3. "reserve_save" \in Points
        BY <1>1
    <2> HIDE DEF mem
    <2>4. PICK new \in Run : /\ run' = [run EXCEPT ![w] = new] /\ new.usage = run[w].usage
                             /\ Edits(new, run[w], "reserve_save", mem)
        BY <2>1, <2>2, <2>3, EditEffect
    <2> QED BY <2>2, <2>21, <2>4
<1> QED BY <1>2, <1>3

\* The steps that keep the document the worker has.
LEMMA KeepEffect ==
    ASSUME TypeOK, NEW w \in Workers,
           NoRound(w) \/ AssessResults(w) \/ DecideNothing(w) \/ Answer(w) \/ StopRounds(w)
    PROVE  \E new \in Run, mem \in Results, at \in {"round_save", "interim_save", "answer", "reserve"} :
             /\ run' = [run EXCEPT ![w] = new] /\ Edits(new, run[w], at, mem)
             /\ Copies(mem, run[w].mem) /\ SameCounts(new.usage, run[w].usage)
             /\ mem.usage = run[w].mem.usage \/ mem.usage = run[w].usage
<1>1. /\ run[w] \in Run /\ run[w].mem \in Results /\ run[w].usage \in Usage /\ RecordCycle(run[w].usage) \in Usage
      /\ {"round_save", "interim_save", "answer", "reserve"} \subseteq Points
    BY WorkerTyped, CounterTypes, PointNames
<1>2. CASE NoRound(w) \/ DecideNothing(w)
    <2> DEFINE mem == [run[w].mem EXCEPT !.usage = run[w].usage, !.adaptiveComplete = TRUE]
    <2>1. run' = [run EXCEPT ![w].at = "round_save", ![w].mem = mem]
        BY <1>1, <1>2 DEF NoRound, DecideNothing, TypeOK, Run
    <2>2. mem \in Results /\ Copies(mem, run[w].mem) /\ "round_save" \in Points
        BY <1>1, DocumentEdits DEF Copies
    <2>21. mem.usage = run[w].usage
        BY <1>1, CounterEdits
    <2> HIDE DEF mem
    <2>3. PICK new \in Run : /\ run' = [run EXCEPT ![w] = new] /\ new.usage = run[w].usage
                             /\ Edits(new, run[w], "round_save", mem)
        BY <2>1, <2>2, EditEffect
    <2> QED BY <2>2, <2>21, <2>3 DEF SameCounts
<1>3. CASE Answer(w)
    <2> DEFINE mem == [run[w].mem EXCEPT !.answered = TRUE, !.usage = run[w].usage]
    <2>1. run' = [run EXCEPT ![w].at = "answer", ![w].mem = mem]
        BY <1>1, <1>3 DEF Answer, TypeOK, Run
    <2>2. mem \in Results /\ Copies(mem, run[w].mem) /\ mem.usage = run[w].usage /\ "answer" \in Points
        BY <1>1, DocumentEdits, CounterEdits DEF Copies
    <2> HIDE DEF mem
    <2>3. PICK new \in Run : /\ run' = [run EXCEPT ![w] = new] /\ new.usage = run[w].usage
                             /\ Edits(new, run[w], "answer", mem)
        BY <2>1, <2>2, EditEffect
    <2> QED BY <2>2, <2>3 DEF SameCounts
<1>4. CASE AssessResults(w)
    <2> DEFINE new == [run[w] EXCEPT !.at = "interim_save", !.usage = RecordCycle(run[w].usage)]
    <2>1. run' = [run EXCEPT ![w] = new]
        BY <1>1, <1>4 DEF AssessResults, TypeOK, Run
    <2>2. "interim_save" \in Points
        BY <1>1
    <2>3. new \in Run /\ Edits(new, run[w], "interim_save", run[w].mem) /\ new.usage = RecordCycle(run[w].usage)
        BY <1>1, <2>2 DEF Run, Points, Edits
    <2>4. SameCounts(RecordCycle(run[w].usage), run[w].usage)
        BY <1>1 DEF SameCounts, RecordCycle, Usage
    <2> HIDE DEF new
    <2> QED BY <1>1, <2>1, <2>3, <2>4 DEF Copies
<1>5. CASE StopRounds(w)
    <2>1. Goto(w, "reserve") /\ "reserve" \notin Exits /\ "reserve" \in Points
        BY <1>1, <1>5 DEF StopRounds, Exits
    <2>2. PICK new \in Run : run' = [run EXCEPT ![w] = new] /\ Stays(new, run[w], "reserve")
        BY <2>1, GotoEffect
    <2>3. Edits(new, run[w], "reserve", run[w].mem) /\ SameCounts(new.usage, run[w].usage)
        BY <2>2 DEF Edits, Stays, SameCounts
    <2> QED BY <1>1, <2>2, <2>3 DEF Copies
<1> QED BY <1>2, <1>3, <1>4, <1>5

\* The steps that plan a follow-up, or look for one.
LEMMA PlanEffect ==
    ASSUME TypeOK, NEW w \in Workers, CoverSources(w) \/ DecideFollowUp(w)
    PROVE  \E new \in Run, mem \in Results :
             /\ run' = [run EXCEPT ![w] = new] /\ new.usage = run[w].usage /\ mem.usage = run[w].usage
             /\ \/ /\ issued < MaxIssued /\ issued' = issued + 1
                   /\ \E doc \in Results :
                        /\ \/ CoverSources(w) /\ doc = run[w].mem /\ Edits(new, run[w], "cover", mem)
                           \/ DecideFollowUp(w) /\ doc = hunt.results /\ Edits(new, run[w], "round_save", mem)
                        /\ mem.ledger = Append(doc.ledger, [id |-> issued + 1, status |-> "planned"])
                        /\ mem.queries = doc.queries
                   /\ DecideFollowUp(w) => ~mem.adaptiveComplete
                \/ /\ issued' = issued /\ DecideFollowUp(w)
                   /\ Edits(new, run[w], "round_save", mem) /\ Copies(mem, hunt.results)
<1>1. /\ run[w] \in Run /\ run[w].mem \in Results /\ run[w].usage \in Usage /\ hunt.results \in Results
      /\ "cover" \in Points /\ "round_save" \in Points
    BY WorkerTyped, RowTyped, PointNames
<1>2. issued < MaxIssued => issued + 1 \in Queries
    BY LimitsAreNumbers DEF TypeOK, Queries
<1>3. CASE CoverSources(w)
    <2>1. issued < MaxIssued /\ issued' = issued + 1
        BY <1>3 DEF CoverSources
    <2> DEFINE planned == Plan(run[w].mem, issued + 1)
    <2> DEFINE mem == [planned EXCEPT !.usage = run[w].usage]
    <2>2. run' = [run EXCEPT ![w].at = "cover", ![w].mem = mem]
        <3>1. run' = [run EXCEPT ![w].at = "cover",
                                 ![w].mem = [Plan(run[w].mem, issued') EXCEPT !.usage = run[w].usage]]
            BY <1>1, <1>3 DEF CoverSources, TypeOK, Run
        <3> QED BY <2>1, <3>1
    <2>3. /\ planned \in Results /\ planned.queries = run[w].mem.queries
          /\ planned.ledger = Append(run[w].mem.ledger, [id |-> issued + 1, status |-> "planned"])
        BY <1>1, <1>2, <2>1, PlanTyped
    <2> HIDE DEF planned
    <2>4. /\ mem \in Results /\ mem.ledger = planned.ledger /\ mem.queries = planned.queries
          /\ mem.usage = run[w].usage
        BY <1>1, <2>3, DocumentEdits, CounterEdits
    <2> HIDE DEF mem
    <2>5. PICK new \in Run : /\ run' = [run EXCEPT ![w] = new] /\ new.usage = run[w].usage
                             /\ Edits(new, run[w], "cover", mem)
        BY <1>1, <2>2, <2>4, EditEffect
    <2>6. ~DecideFollowUp(w)
        BY <1>3 DEF CoverSources, DecideFollowUp
    <2> QED BY <1>1, <1>3, <2>1, <2>3, <2>4, <2>5, <2>6
<1>4. CASE DecideFollowUp(w)
    <2> DEFINE now == [hunt.results EXCEPT !.usage = run[w].usage]
    <2>1. now \in Results /\ Copies(now, hunt.results) /\ now.usage = run[w].usage
        BY <1>1, DocumentEdits, CounterEdits DEF Copies
    <2>2. \/ /\ issued < MaxIssued /\ issued' = issued + 1
             /\ run' = [run EXCEPT ![w].at = "round_save",
                                   ![w].mem = [Plan(now, issued') EXCEPT !.adaptiveComplete = FALSE]]
          \/ \E complete \in BOOLEAN :
                /\ run' = [run EXCEPT ![w].at = "round_save", ![w].mem = [now EXCEPT !.adaptiveComplete = complete]]
                /\ issued' = issued
        BY <1>4 DEF DecideFollowUp
    <2> HIDE DEF now
    <2>3. CASE /\ issued < MaxIssued /\ issued' = issued + 1
               /\ run' = [run EXCEPT ![w].at = "round_save",
                                     ![w].mem = [Plan(now, issued') EXCEPT !.adaptiveComplete = FALSE]]
        <3> DEFINE planned == Plan(now, issued + 1)
        <3> DEFINE mem == [planned EXCEPT !.adaptiveComplete = FALSE]
        <3>1. run' = [run EXCEPT ![w].at = "round_save", ![w].mem = mem]
            BY <2>3
        <3>2. /\ planned \in Results /\ planned.queries = now.queries
              /\ planned.ledger = Append(now.ledger, [id |-> issued + 1, status |-> "planned"])
              /\ planned.usage = now.usage
            BY <1>2, <2>1, <2>3, PlanTyped
        <3> HIDE DEF planned
        <3>3. mem \in Results /\ mem.ledger = planned.ledger /\ mem.queries = planned.queries
              /\ mem.adaptiveComplete = FALSE /\ mem.usage = planned.usage
            BY <1>1, <3>2, DocumentEdits, CounterEdits
        <3> HIDE DEF mem
        <3>4. PICK new \in Run : /\ run' = [run EXCEPT ![w] = new] /\ new.usage = run[w].usage
                                 /\ Edits(new, run[w], "round_save", mem)
            BY <1>1, <3>1, <3>3, EditEffect
        <3>5. mem.ledger = Append(hunt.results.ledger, [id |-> issued + 1, status |-> "planned"])
              /\ mem.queries = hunt.results.queries /\ mem.usage = run[w].usage
            BY <2>1, <3>2, <3>3 DEF Copies
        <3> QED BY <1>1, <1>4, <2>3, <3>3, <3>4, <3>5
    <2>4. ASSUME NEW complete \in BOOLEAN,
                 run' = [run EXCEPT ![w].at = "round_save", ![w].mem = [now EXCEPT !.adaptiveComplete = complete]],
                 issued' = issued
          PROVE  \E new \in Run, mem \in Results :
                   /\ run' = [run EXCEPT ![w] = new] /\ new.usage = run[w].usage /\ mem.usage = run[w].usage
                   /\ Edits(new, run[w], "round_save", mem) /\ Copies(mem, hunt.results)
        <3> DEFINE mem == [now EXCEPT !.adaptiveComplete = complete]
        <3>1. mem \in Results /\ Copies(mem, hunt.results)
            <4>1. mem \in Results /\ mem.ledger = now.ledger /\ mem.queries = now.queries
                BY <1>1, <2>1, DocumentEdits
            <4> QED BY <2>1, <4>1 DEF Copies
        <3>11. mem.usage = run[w].usage
            BY <2>1, CounterEdits
        <3>2. run' = [run EXCEPT ![w].at = "round_save", ![w].mem = mem]
            BY <2>4
        <3> HIDE DEF mem
        <3>3. PICK new \in Run : /\ run' = [run EXCEPT ![w] = new] /\ new.usage = run[w].usage
                                 /\ Edits(new, run[w], "round_save", mem)
            BY <1>1, <3>1, <3>2, EditEffect
        <3> QED BY <3>1, <3>11, <3>3
    <2> QED BY <1>4, <2>2, <2>3, <2>4
<1> QED BY <1>3, <1>4

LEMMA FailReadEffect ==
    ASSUME TypeOK, NEW w \in Workers, FailRead(w)
    PROVE  \E new \in Run :
             /\ run' = [run EXCEPT ![w] = new]
             /\ \/ hunt.state \in Active /\ new.at = "fail_save" /\ Copies(new.mem, hunt.results)
                \/ Leaves(new, run[w], "error")
<1>1. /\ run[w] \in Run /\ run[w].usage \in Usage /\ hunt.results \in Results
      /\ "fail_save" \in Points /\ "error" \in Points /\ "error" \in Exits
    BY WorkerTyped, RowTyped, PointNames DEF Exits
<1>2. CASE hunt.state \in Active
    <2> DEFINE mem == [hunt.results EXCEPT !.usage = run[w].usage]
    <2> DEFINE new == [run[w] EXCEPT !.at = "fail_save", !.seen = hunt.state, !.mem = mem]
    <2>1. run' = [run EXCEPT ![w].at = "fail_save", ![w].seen = hunt.state, ![w].mem = mem]
        BY <1>2 DEF FailRead
    <2>2. mem \in Results /\ Copies(mem, hunt.results)
        BY <1>1, DocumentEdits DEF Copies
    <2> HIDE DEF mem
    <2>3. run' = [run EXCEPT ![w] = new]
        BY <2>1 DEF TypeOK
    <2>4. new \in Run /\ new.at = "fail_save" /\ new.mem = mem
        BY <1>1, <1>2, <2>2 DEF Run, Points
    <2> HIDE DEF new
    <2> QED BY <1>2, <2>2, <2>3, <2>4
<1>3. CASE hunt.state \notin Active
    <2>1. Goto(w, "error")
        BY <1>3 DEF FailRead
    <2> QED BY <1>1, <2>1, GotoEffect
<1> QED BY <1>2, <1>3

LEMMA LeaseEffect ==
    ASSUME TypeOK, NEW w \in Workers, RequireLease(w)
    PROVE  \E new \in Run :
             /\ run' = [run EXCEPT ![w] = new]
             /\ \/ \E at \in {"failing", "error"} : Leaves(new, run[w], at)
                \/ /\ run[w].at = "checkpoint" /\ run[w].todo = "submitted" /\ Stays(new, run[w], "abort")
                   /\ Cancelled(w)
                \/ Stays(new, run[w], Granted[run[w].at])
<1> DEFINE refused == IF AsksToken(w) THEN Cancelled(w) ELSE holder # w
<1>1. run[w].at \in LeasePoints /\ Goto(w, IF refused THEN Refused(w) ELSE Granted[run[w].at])
    BY DEF RequireLease
<1> HIDE DEF refused
<1>2. {"failing", "error"} \subseteq Points \cap Exits /\ "abort" \in Points \ Exits
    BY PointNames DEF Exits
<1>3. CASE refused
    <2>0. Goto(w, Refused(w))
        BY <1>1, <1>3
    <2>1. CASE run[w].at \in {"load", "failing"}
        <3>1. Refused(w) = "error"
            BY <2>1 DEF Refused
        <3> QED BY <1>2, <2>0, <3>1, GotoEffect
    <2>2. CASE run[w].at = "checkpoint" /\ run[w].todo = "submitted"
        <3>1. Refused(w) = "abort" /\ Cancelled(w)
            BY <1>3, <2>2 DEF Refused, refused, AsksToken
        <3> QED BY <1>2, <2>0, <2>2, <3>1, GotoEffect
    <2>3. CASE run[w].at \notin {"load", "failing"} /\ ~(run[w].at = "checkpoint" /\ run[w].todo = "submitted")
        <3>1. Refused(w) = "failing"
            BY <2>3 DEF Refused
        <3> QED BY <1>2, <2>0, <3>1, GotoEffect
    <2> QED BY <2>1, <2>2, <2>3
<1>4. CASE ~refused
    <2>1. Goto(w, Granted[run[w].at])
        BY <1>1, <1>4
    <2>2. Granted[run[w].at] \in Points \ Exits
        BY <1>1, PointNames DEF LeasePoints, Granted, Exits
    <2> QED BY <2>1, <2>2, GotoEffect
<1> QED BY <1>3, <1>4

LEMMA ErrorEffect ==
    ASSUME TypeOK, NEW w \in Workers, DbError(w)
    PROVE  \E new \in Run :
             /\ run' = [run EXCEPT ![w] = new]
             /\ \/ \E at \in {"failing", "error"} : Leaves(new, run[w], at)
                \/ /\ run[w].at \in {"checkpoint", "apply", "save"} /\ run[w].todo = "submitted"
                   /\ Stays(new, run[w], "abort")
<1>1. {"failing", "error"} \subseteq Points \cap Exits /\ "abort" \in Points \ Exits
    BY PointNames DEF Exits
<1>2. CASE Goto(w, "failing") \/ Goto(w, "error")
    BY <1>1, <1>2, GotoEffect
<1>3. CASE run[w].at \in {"checkpoint", "apply", "save"} /\ run[w].todo = "submitted" /\ Goto(w, "abort")
    BY <1>1, <1>3, GotoEffect
<1> QED BY <1>2, <1>3 DEF DbError

-----------------------------------------------------------------------------
(* What holds whatever workers crash, fail and lose their leases.          *)

\* The points inside the loop of _run_checkpoint_queries.
LoopAt == {"scan", "submit", "dispatch", "poll", "abort", "checkpoint", "apply", "save"}

FirstDraft(ledger) == \E n \in 0 .. MaxDraft : ledger = [i \in 1 .. n |-> [id |-> i, status |-> "planned"]]

\* A document has at most one result per search, and one per completed search.
DocOK(doc) ==
    /\ \A q \in Queries : doc.queries[q].records <= 1
    /\ \A i \in DOMAIN doc.ledger :
         doc.ledger[i].status = "completed" => doc.queries[doc.ledger[i].id].records = 1

\* A worker about to publish has the results of the row it publishes.
ReadyOK(r, row) ==
    r.at \in {"publish", "publish_save"} =>
        /\ row.state \notin {"queued", "running"}
        /\ row.state = "synthesizing" => r.mem.queries = row.results.queries

PlaceOK(r) ==
    /\ r.at \in LoopAt => r.pos # 0
    /\ r.at \in {"start", "start_save"} => FirstDraft(r.mem.ledger)

WorkerOK(r, row) == PlaceOK(r) /\ DocOK(r.mem) /\ ReadyOK(r, row)

RowOK(row) ==
    /\ DocOK(row.results)
    /\ row.state = "report_draft" => row.report = row.results.queries

BaseInv ==
    /\ TypeOK
    /\ RowOK(hunt)
    /\ \A w \in Workers : WorkerOK(run[w], hunt)

\* The state other than the workers'.
RestTyped ==
    /\ hunt \in [state : Active \cup {"report_draft", "failed", "cancelled"},
                 results : Results, report : Records]
    /\ job \in {"queued", "claimed", "completed", "failed", "cancelled"}
    /\ holder \in Workers \cup {Nobody}
    /\ search \in [Queries -> {"none", "running", "done", "gone"}]
    /\ dispatched \in Nat /\ dropped \in Nat /\ issued \in 0 .. MaxIssued
    /\ clock \in 0 .. 2 /\ stranded \in BOOLEAN
    /\ crashes \in Nat /\ errors \in Nat /\ glitches \in Nat

LEMMA EmptyOK == DocOK(NoResults) /\ \A row : WorkerOK(Idle, row)
<1>1. DocOK(NoResults)
    BY Constants DEF DocOK, NoRecords
<1>2. Idle.at = "idle" /\ Idle.mem = NoResults
    BY DEF Idle
<1> QED BY <1>1, <1>2 DEF WorkerOK, PlaceOK, ReadyOK, LoopAt

LEMMA PlansOK ==
    ASSUME NEW L, FirstDraft(L)
    PROVE  /\ L \in Seq(Entry) /\ Len(L) \in 0 .. MaxDraft
           /\ \A i \in DOMAIN L : L[i].id = i /\ L[i].status = "planned" /\ i \in 1 .. Len(L)
<1>1. PICK n \in 0 .. MaxDraft : L = [i \in 1 .. n |-> [id |-> i, status |-> "planned"]]
    BY DEF FirstDraft
<1>2. n \in Nat /\ \A i \in 1 .. n : [id |-> i, status |-> "planned"] \in Entry
    BY StatusNames, LimitsAreNumbers DEF Entry, Queries
<1> QED BY <1>1, <1>2

\* A worker's step keeps the invariant when what it leaves behind is right.
LEMMA BaseStep ==
    ASSUME BaseInv, NEW w \in Workers, NEW new \in Run, run' = [run EXCEPT ![w] = new],
           RestTyped', RowOK(hunt'), WorkerOK(new, hunt'),
           \A v \in Workers \ {w} : ReadyOK(run[v], hunt')
    PROVE  BaseInv'
<1>1. TypeOK
    BY DEF BaseInv
<1>2. run' \in [Workers -> Run] /\ run'[w] = new /\ \A v \in Workers : v # w => run'[v] = run[v]
    BY <1>1, Turned
<1>3. TypeOK'
    BY <1>2 DEF TypeOK, RestTyped
<1>4. \A v \in Workers : WorkerOK(run'[v], hunt')
    BY <1>2 DEF BaseInv, WorkerOK
<1> QED BY <1>3, <1>4 DEF BaseInv

LEMMA RestSame ==
    ASSUME TypeOK, UNCHANGED local
    PROVE  RestTyped' /\ hunt' = hunt
BY DEF TypeOK, RestTyped, local, jobs, splunk, faults

\* A worker that leaves its loops, or only moves, has what it needs.
LEMMA LeaveOK ==
    ASSUME NEW r, NEW new, NEW row, NEW at, Leaves(new, r, at),
           at \notin LoopAt \cup {"start", "start_save", "publish", "publish_save"}
    PROVE  WorkerOK(new, row)
BY EmptyOK DEF Leaves, WorkerOK, PlaceOK, ReadyOK

LEMMA StayOK ==
    ASSUME NEW r, NEW new, NEW row, NEW at, Stays(new, r, at), WorkerOK(r, row),
           at \in LoopAt => r.at \in LoopAt,
           at \in {"start", "start_save"} => r.at \in {"start", "start_save"},
           at \in {"publish", "publish_save"} => r.at \in {"publish", "publish_save"}
    PROVE  WorkerOK(new, row)
BY DEF Stays, WorkerOK, PlaceOK, ReadyOK

LEMMA RunStep ==
    ASSUME BaseInv, NEW w \in Workers, NEW new \in Run, run' = [run EXCEPT ![w] = new],
           RestTyped', hunt' = hunt, WorkerOK(new, hunt)
    PROVE  BaseInv'
<1>1. RowOK(hunt') /\ WorkerOK(new, hunt') /\ \A v \in Workers \ {w} : ReadyOK(run[v], hunt')
    BY DEF BaseInv, WorkerOK
<1> QED BY <1>1, BaseStep

LEMMA CheckpointOK ==
    ASSUME NEW r \in Results, NEW q, NEW status \in Statuses, NEW rows \in Nat, NEW u \in Usage, DocOK(r)
    PROVE  DocOK(Checkpointed(r, q, status, rows, u))
<1> DEFINE L == r.ledger
<1> DEFINE new == Checkpointed(r, q, status, rows, u)
<1>1. L \in Seq(Entry) /\ r.queries \in Records
    BY DEF Results, Entry
<1>2. /\ new.ledger = Marked(L, q, status)
      /\ new.queries = IF status = "completed" THEN Record(r.queries, q, rows) ELSE r.queries
    BY CheckpointTyped
<1>3. /\ DOMAIN new.ledger = DOMAIN L
      /\ \A i \in DOMAIN L : /\ new.ledger[i].id = L[i].id
                             /\ L[i].id = q => new.ledger[i].status = status
                             /\ L[i].id # q => new.ledger[i] = L[i]
    BY <1>1, <1>2, MarkedTyped
<1>4. \A p \in Queries : Record(r.queries, q, rows)[p] = IF p = q THEN [records |-> 1, rows |-> rows] ELSE r.queries[p]
    BY <1>1, RecordTyped
<1>5. \A i \in DOMAIN L : L[i].id \in Queries
    <2>1. \A i \in DOMAIN L : L[i] \in Entry
        BY <1>1
    <2> QED BY <2>1 DEF Entry
<1> HIDE DEF new
<1>6. ASSUME NEW p \in Queries
      PROVE  /\ new.queries[p].records <= 1
             /\ r.queries[p].records = 1 => new.queries[p].records = 1
             /\ (p = q /\ status = "completed") => new.queries[p].records = 1
    <2>1. r.queries[p].records <= 1
        BY DEF DocOK
    <2>2. CASE p = q /\ status = "completed"
        <3>1. new.queries[p].records = 1
            BY <1>2, <1>4, <2>2
        <3> QED BY <3>1
    <2>3. CASE ~(p = q /\ status = "completed")
        <3>1. new.queries[p] = r.queries[p]
            BY <1>2, <1>4, <2>3
        <3> QED BY <2>1, <2>3, <3>1
    <2> QED BY <2>2, <2>3
<1>8. ASSUME NEW i \in DOMAIN new.ledger, new.ledger[i].status = "completed"
      PROVE  new.queries[new.ledger[i].id].records = 1
    <2>1. i \in DOMAIN L /\ new.ledger[i].id = L[i].id /\ L[i].id \in Queries
        BY <1>3, <1>5
    <2>2. CASE L[i].id = q
        BY <1>3, <1>6, <1>8, <2>1, <2>2
    <2>3. CASE L[i].id # q
        <3>1. L[i].status = "completed"
            BY <1>3, <1>8, <2>1, <2>3
        <3>2. r.queries[L[i].id].records = 1
            BY <2>1, <3>1 DEF DocOK
        <3> QED BY <1>6, <2>1, <3>2
    <2> QED BY <2>2, <2>3
<1> QED BY <1>6, <1>8 DEF DocOK, new

\* A document with the same ledger and results, or one query more.
LEMMA CopiesOK ==
    ASSUME NEW doc, NEW old, Copies(doc, old), DocOK(old)
    PROVE  DocOK(doc)
BY DEF Copies, DocOK

LEMMA AppendedOK ==
    ASSUME NEW doc, NEW old \in Results, NEW q \in Queries, DocOK(old), doc.queries = old.queries,
           doc.ledger = Append(old.ledger, [id |-> q, status |-> "planned"])
    PROVE  DocOK(doc)
<1>1. old.ledger \in Seq(Entry)
    BY DEF Results, Entry
<1>2. \A i \in DOMAIN doc.ledger :
        \/ i \in DOMAIN old.ledger /\ doc.ledger[i] = old.ledger[i]
        \/ doc.ledger[i].status = "planned"
    BY <1>1
<1> QED BY <1>2 DEF DocOK

LEMMA BaseMoves ==
    ASSUME BaseInv, NEW w \in Workers, RequireLease(w) \/ LoadHunt(w) \/ Draft(w) \/ Scan(w)
    PROVE  BaseInv'
<1>1. TypeOK /\ WorkerOK(run[w], hunt) /\ RowOK(hunt)
    BY DEF BaseInv
<1>2. RestTyped' /\ hunt' = hunt
    <2>1. UNCHANGED local
        BY DEF RequireLease, LoadHunt, Draft, Scan, local
    <2> QED BY <1>1, <2>1, RestSame
<1>3. CASE RequireLease(w)
    <2>1. PICK new \in Run :
             /\ run' = [run EXCEPT ![w] = new]
             /\ \/ \E at \in {"failing", "error"} : Leaves(new, run[w], at)
                \/ run[w].at = "checkpoint" /\ run[w].todo = "submitted" /\ Stays(new, run[w], "abort")
                \/ Stays(new, run[w], Granted[run[w].at])
        BY <1>1, <1>3, LeaseEffect
    <2>2. ASSUME \E at \in {"failing", "error"} : Leaves(new, run[w], at)
          PROVE  WorkerOK(new, hunt)
        BY <2>2, LeaveOK DEF LoopAt
    <2>3. ASSUME run[w].at = "checkpoint" /\ Stays(new, run[w], "abort")
          PROVE  WorkerOK(new, hunt)
        BY <1>1, <2>3, StayOK DEF LoopAt
    <2>4. ASSUME Stays(new, run[w], Granted[run[w].at])
          PROVE  WorkerOK(new, hunt)
        <3> DEFINE at == Granted[run[w].at]
        <3>1. /\ at \in LoopAt => run[w].at \in LoopAt
              /\ at \in {"start", "start_save"} => run[w].at \in {"start", "start_save"}
              /\ at \in {"publish", "publish_save"} => run[w].at \in {"publish", "publish_save"}
            BY <1>3 DEF RequireLease, LeasePoints, Granted, LoopAt
        <3> HIDE DEF at
        <3>2. WorkerOK(new, hunt)
            BY <1>1, <2>4, <3>1, StayOK DEF at
        <3> QED BY <3>2
    <2>5. WorkerOK(new, hunt)
        BY <2>1, <2>2, <2>3, <2>4
    <2> QED BY <1>2, <2>1, <2>5, RunStep
<1>4. CASE LoadHunt(w)
    <2>1. PICK new \in Run :
             /\ run' = [run EXCEPT ![w] = new]
             /\ \/ Stays(new, run[w], "ok") \/ Stays(new, run[w], "error")
                \/ hunt.state = "queued" /\ new.at = "draft" /\ new.mem = NoResults
                \/ /\ hunt.state = "running" /\ new.at = "scan" /\ new.mem = NoResults /\ new.pos = 1
                   /\ new.len = Len(hunt.results.ledger) /\ new.usage = hunt.results.usage
                \/ hunt.state = "synthesizing" /\ new.at = "publish" /\ new.mem = hunt.results
        BY <1>1, <1>4, LoadEffect
    <2>2. ASSUME Stays(new, run[w], "ok") \/ Stays(new, run[w], "error")
          PROVE  WorkerOK(new, hunt)
        BY <1>1, <2>2, StayOK DEF LoopAt
    <2>3. ASSUME new.mem = NoResults /\ (new.at = "draft" \/ (new.at = "scan" /\ new.pos = 1))
          PROVE  WorkerOK(new, hunt)
        BY <2>3, EmptyOK DEF WorkerOK, PlaceOK, ReadyOK, LoopAt
    <2>4. ASSUME hunt.state = "synthesizing" /\ new.at = "publish" /\ new.mem = hunt.results
          PROVE  WorkerOK(new, hunt)
        BY <1>1, <2>4 DEF WorkerOK, PlaceOK, ReadyOK, LoopAt, RowOK
    <2>5. WorkerOK(new, hunt)
        BY <2>1, <2>2, <2>3, <2>4
    <2> QED BY <1>2, <2>1, <2>5, RunStep
<1>5. CASE Draft(w)
    <2>1. PICK new \in Run, n \in 0 .. MaxDraft :
             /\ run' = [run EXCEPT ![w] = new] /\ new.at = "start"
             /\ new.mem.ledger = [i \in 1 .. n |-> [id |-> i, status |-> "planned"]]
             /\ new.mem.queries = run[w].mem.queries
        BY <1>1, <1>5, DraftEffect
    <2>2. FirstDraft(new.mem.ledger)
        BY <2>1 DEF FirstDraft
    <2>3. DocOK(new.mem)
        BY <1>1, <2>1, <2>2, PlansOK DEF DocOK, WorkerOK
    <2>4. WorkerOK(new, hunt)
        BY <2>1, <2>2, <2>3 DEF WorkerOK, PlaceOK, ReadyOK, LoopAt
    <2> QED BY <1>2, <2>1, <2>4, RunStep
<1>6. CASE Scan(w)
    <2>0. run[w].at = "scan" /\ run[w].pos # 0 /\ run[w].pos \in Nat
        BY <1>1, <1>6, WorkerTyped DEF Scan, WorkerOK, PlaceOK, LoopAt
    <2>1. PICK new \in Run :
             /\ run' = [run EXCEPT ![w] = new]
             /\ \/ \E at \in {"assess", "reserve", "failing"} : Leaves(new, run[w], at)
                \/ /\ new.at \in LoopAt /\ new.mem = run[w].mem
                   /\ new.pos = run[w].pos + 1 \/ new.pos = run[w].pos
        BY <1>1, <1>6, <2>0, ScanEffect DEF LoopAt
    <2>2. ASSUME \E at \in {"assess", "reserve", "failing"} : Leaves(new, run[w], at)
          PROVE  WorkerOK(new, hunt)
        BY <2>2, LeaveOK DEF LoopAt
    <2>3. ASSUME new.at \in LoopAt /\ new.mem = run[w].mem /\ new.pos # 0
          PROVE  WorkerOK(new, hunt)
        BY <1>1, <2>3 DEF WorkerOK, PlaceOK, ReadyOK, LoopAt
    <2>4. WorkerOK(new, hunt)
        BY <2>0, <2>1, <2>2, <2>3
    <2> QED BY <1>2, <2>1, <2>4, RunStep
<1> QED BY <1>3, <1>4, <1>5, <1>6

LEMMA TurnOK ==
    ASSUME NEW r, NEW new, NEW row, NEW at, NEW todo, Turns(new, r, at, todo), WorkerOK(r, row), r.at \in LoopAt,
           at \in LoopAt \cup {"failing"}
    PROVE  WorkerOK(new, row)
BY DEF Turns, WorkerOK, PlaceOK, ReadyOK, LoopAt

LEMMA SplunkTyped ==
    ASSUME TypeOK, NEW q,
           \/ Create(q) \/ UNCHANGED splunk
           \/ /\ search' = [search EXCEPT ![q] = "gone"] /\ dispatched' = dispatched
              /\ dropped' \in {dropped, dropped + 1},
           UNCHANGED <<hunt, jobs, issued, clock, faults>>
    PROVE  RestTyped' /\ hunt' = hunt
<1>1. search' \in [Queries -> {"none", "running", "done", "gone"}] /\ dispatched' \in Nat /\ dropped' \in Nat
    BY DEF TypeOK, Create, splunk
<1> QED BY <1>1 DEF TypeOK, RestTyped, jobs, faults

LEMMA BaseSearch ==
    ASSUME BaseInv, NEW w \in Workers,
           \/ Submit(w) \/ Dispatch(w) \/ DispatchError(w) \/ PollError(w) \/ PollTimeout(w)
           \/ Retrieve(w) \/ Abort(w) \/ Apply(w)
    PROVE  BaseInv'
<1>1. TypeOK /\ WorkerOK(run[w], hunt) /\ RowOK(hunt)
    BY DEF BaseInv
<1>2. run[w].at \in LoopAt
    BY DEF Submit, Dispatch, DispatchError, PollError, PollTimeout, Retrieve, Abort, Apply, LoopAt
<1>3. RestTyped' /\ hunt' = hunt
    <2>1. CASE Submit(w) \/ PollError(w) \/ PollTimeout(w) \/ Retrieve(w) \/ Apply(w)
        <3>1. UNCHANGED local
            BY <2>1 DEF Submit, PollError, PollTimeout, Retrieve, Apply, local
        <3> QED BY <1>1, <3>1, RestSame
    <2>2. CASE Dispatch(w) \/ DispatchError(w)
        <3>1. (Create(run[w].q) \/ UNCHANGED splunk) /\ UNCHANGED <<hunt, jobs, issued, clock, faults>>
            BY <2>2 DEF Dispatch, DispatchError
        <3> QED BY <1>1, <3>1, SplunkTyped
    <2>3. CASE Abort(w)
        <3>1. /\ \/ UNCHANGED splunk
                 \/ /\ search' = [search EXCEPT ![run[w].q] = "gone"] /\ dispatched' = dispatched
                    /\ dropped' \in {dropped, dropped + 1}
              /\ UNCHANGED <<hunt, jobs, issued, clock, faults>>
            BY <2>3 DEF Abort, splunk
        <3> QED BY <1>1, <3>1, SplunkTyped
    <2> QED BY <2>1, <2>2, <2>3
<1>4. ASSUME NEW new \in Run, run' = [run EXCEPT ![w] = new],
             \/ \E at \in LoopAt \cup {"failing"} : \E todo : Turns(new, run[w], at, todo)
             \/ \E at \in LoopAt : Stays(new, run[w], at)
             \/ Leaves(new, run[w], "failing")
             \/ \E doc : Edits(new, run[w], "save", doc) /\ DocOK(doc)
      PROVE  BaseInv'
    <2>1. ASSUME NEW at \in LoopAt \cup {"failing"}, NEW todo, Turns(new, run[w], at, todo)
          PROVE  WorkerOK(new, hunt)
        BY <1>1, <1>2, <2>1, TurnOK
    <2>2. ASSUME NEW at \in LoopAt, Stays(new, run[w], at)
          PROVE  WorkerOK(new, hunt)
        <3>1. at \notin {"start", "start_save", "publish", "publish_save"}
            BY DEF LoopAt
        <3> QED BY <1>1, <1>2, <2>2, <3>1, StayOK
    <2>3. ASSUME Leaves(new, run[w], "failing")
          PROVE  WorkerOK(new, hunt)
        BY <2>3, LeaveOK DEF LoopAt
    <2>4. ASSUME NEW doc, Edits(new, run[w], "save", doc), DocOK(doc)
          PROVE  WorkerOK(new, hunt)
        BY <1>1, <1>2, <2>4 DEF Edits, WorkerOK, PlaceOK, ReadyOK, LoopAt
    <2>5. WorkerOK(new, hunt)
        BY <1>4, <2>1, <2>2, <2>3, <2>4
    <2> QED BY <1>3, <1>4, <2>5, RunStep
<1>5. CASE Submit(w)
    <2>1. PICK new \in Run, at \in LoopAt \cup {"failing"}, todo \in Statuses :
            run' = [run EXCEPT ![w] = new] /\ Turns(new, run[w], at, todo)
        BY <1>1, <1>5, SubmitEffect, WorkerTyped, StatusNames DEF LoopAt
    <2> QED BY <1>4, <2>1
<1>6. CASE Dispatch(w) \/ DispatchError(w) \/ PollError(w) \/ PollTimeout(w)
    <2>1. PICK new \in Run :
            /\ run' = [run EXCEPT ![w] = new]
            /\ \/ \E at \in LoopAt \cup {"failing"}, todo \in Statuses : Turns(new, run[w], at, todo)
               \/ Leaves(new, run[w], "failing")
        BY <1>1, <1>6, SearchEffect, StatusNames DEF LoopAt
    <2> QED BY <1>4, <2>1
<1>7. CASE Retrieve(w)
    <2>1. PICK new \in Run : run' = [run EXCEPT ![w] = new] /\ Turns(new, run[w], "checkpoint", "completed")
        BY <1>1, <1>7, RetrieveEffect
    <2>2. "checkpoint" \in LoopAt
        BY DEF LoopAt
    <2> QED BY <1>4, <2>1, <2>2
<1>8. CASE Abort(w)
    <2>1. PICK new \in Run : /\ run' = [run EXCEPT ![w] = new]
                             /\ Stays(new, run[w], "checkpoint") \/ Leaves(new, run[w], "failing")
        BY <1>1, <1>8, AbortEffect
    <2>2. "checkpoint" \in LoopAt
        BY DEF LoopAt
    <2> QED BY <1>4, <2>1, <2>2
<1>9. CASE Apply(w)
    <2> DEFINE doc == Checkpointed(hunt.results, run[w].q, run[w].todo, run[w].rows, run[w].usage)
    <2>1. PICK new \in Run :
            /\ run' = [run EXCEPT ![w] = new]
            /\ Edits(new, run[w], "save", doc) \/ Leaves(new, run[w], "failing") \/ Stays(new, run[w], "abort")
        BY <1>1, <1>9, ApplyEffect
    <2>2. DocOK(doc)
        BY <1>1, WorkerTyped, RowTyped, CheckpointOK DEF RowOK
    <2>3. "abort" \in LoopAt
        BY DEF LoopAt
    <2> HIDE DEF doc
    <2> QED BY <1>4, <2>1, <2>2, <2>3
<1> QED BY <1>5, <1>6, <1>7, <1>8, <1>9

LEMMA EditOK ==
    ASSUME NEW r, NEW new, NEW row, NEW at, NEW doc, Edits(new, r, at, doc), DocOK(doc),
           at \notin LoopAt \cup {"start", "start_save", "publish", "publish_save"}
    PROVE  WorkerOK(new, row)
BY DEF Edits, WorkerOK, PlaceOK, ReadyOK, LoopAt

LEMMA BaseRounds ==
    ASSUME BaseInv, NEW w \in Workers,
           \/ AssessRead(w) \/ SynthRead(w) \/ ReserveRead(w)
           \/ NoRound(w) \/ AssessResults(w) \/ DecideNothing(w) \/ Answer(w) \/ StopRounds(w)
           \/ CoverSources(w) \/ DecideFollowUp(w) \/ FailRead(w) \/ Raise(w)
    PROVE  BaseInv'
<1>1. TypeOK /\ WorkerOK(run[w], hunt) /\ RowOK(hunt) /\ DocOK(hunt.results) /\ DocOK(run[w].mem)
    BY DEF BaseInv, WorkerOK, RowOK
<1>2. CASE AssessRead(w) \/ SynthRead(w) \/ ReserveRead(w)
    <2>1. UNCHANGED local
        BY <1>2 DEF AssessRead, SynthRead, ReserveRead, local
    <2>2. PICK new \in Run, mem \in Results,
               at \in {"reserve", "synth", "round", "advance", "answering", "reserve_save"} :
             /\ run' = [run EXCEPT ![w] = new]
             /\ Edits(new, run[w], at, mem) /\ Copies(mem, hunt.results)
        BY <1>1, <1>2, ReadEffect
    <2>3. DocOK(mem) /\ at \notin LoopAt \cup {"start", "start_save", "publish", "publish_save"}
        BY <1>1, <2>2, CopiesOK DEF LoopAt
    <2>4. WorkerOK(new, hunt)
        BY <2>2, <2>3, EditOK
    <2> QED BY <1>1, <2>1, <2>2, <2>4, RestSame, RunStep
<1>3. CASE NoRound(w) \/ AssessResults(w) \/ DecideNothing(w) \/ Answer(w) \/ StopRounds(w)
    <2>1. UNCHANGED local
        BY <1>3 DEF NoRound, AssessResults, DecideNothing, Answer, StopRounds, local
    <2>2. PICK new \in Run, mem \in Results, at \in {"round_save", "interim_save", "answer", "reserve"} :
             /\ run' = [run EXCEPT ![w] = new] /\ Edits(new, run[w], at, mem)
             /\ Copies(mem, run[w].mem)
        BY <1>1, <1>3, KeepEffect
    <2>3. DocOK(mem) /\ at \notin LoopAt \cup {"start", "start_save", "publish", "publish_save"}
        BY <1>1, <2>2, CopiesOK DEF LoopAt
    <2>4. WorkerOK(new, hunt)
        BY <2>2, <2>3, EditOK
    <2> QED BY <1>1, <2>1, <2>2, <2>4, RestSame, RunStep
<1>4. CASE CoverSources(w) \/ DecideFollowUp(w)
    <2>1. PICK new \in Run, mem \in Results :
             /\ run' = [run EXCEPT ![w] = new]
             /\ \/ /\ issued < MaxIssued /\ issued' = issued + 1
                   /\ \E doc \in Results :
                        /\ \/ CoverSources(w) /\ doc = run[w].mem /\ Edits(new, run[w], "cover", mem)
                           \/ DecideFollowUp(w) /\ doc = hunt.results /\ Edits(new, run[w], "round_save", mem)
                        /\ mem.ledger = Append(doc.ledger, [id |-> issued + 1, status |-> "planned"])
                        /\ mem.queries = doc.queries
                   /\ DecideFollowUp(w) => ~mem.adaptiveComplete
                \/ /\ issued' = issued /\ DecideFollowUp(w)
                   /\ Edits(new, run[w], "round_save", mem) /\ Copies(mem, hunt.results)
        BY <1>1, <1>4, PlanEffect
    <2>2. PICK at \in {"cover", "round_save"} : Edits(new, run[w], at, mem)
        BY <2>1
    <2>3. issued' \in 0 .. MaxIssued /\ (issued < MaxIssued => issued + 1 \in Queries)
        BY <1>1, <2>1, LimitsAreNumbers DEF TypeOK, Queries
    <2>4. DocOK(mem)
        <3>1. CASE Copies(mem, hunt.results)
            BY <1>1, <3>1, CopiesOK
        <3>2. ASSUME issued < MaxIssued, NEW doc \in Results, DocOK(doc),
                     mem.ledger = Append(doc.ledger, [id |-> issued + 1, status |-> "planned"]),
                     mem.queries = doc.queries
              PROVE  DocOK(mem)
            BY <2>3, <3>2, AppendedOK
        <3> QED BY <1>1, <2>1, <3>1, <3>2
    <2>5. WorkerOK(new, hunt)
        <3>1. at \notin LoopAt \cup {"start", "start_save", "publish", "publish_save"}
            BY DEF LoopAt
        <3> QED BY <2>2, <2>4, <3>1, EditOK
    <2>6. UNCHANGED <<hunt, job, holder, search, dispatched, dropped, clock, stranded, crashes, errors, glitches>>
        BY <1>4 DEF CoverSources, DecideFollowUp, jobs, splunk, faults
    <2>7. RestTyped' /\ hunt' = hunt
        BY <1>1, <2>3, <2>6 DEF TypeOK, RestTyped
    <2> QED BY <2>1, <2>5, <2>7, RunStep
<1>5. CASE FailRead(w)
    <2>1. UNCHANGED local
        BY <1>5 DEF FailRead, local
    <2>2. PICK new \in Run :
             /\ run' = [run EXCEPT ![w] = new]
             /\ \/ new.at = "fail_save" /\ Copies(new.mem, hunt.results)
                \/ Leaves(new, run[w], "error")
        BY <1>1, <1>5, FailReadEffect
    <2>3. ASSUME new.at = "fail_save", Copies(new.mem, hunt.results) PROVE WorkerOK(new, hunt)
        BY <1>1, <2>3, CopiesOK DEF WorkerOK, PlaceOK, ReadyOK, LoopAt
    <2>4. ASSUME Leaves(new, run[w], "error") PROVE WorkerOK(new, hunt)
        BY <2>4, LeaveOK DEF LoopAt
    <2> QED BY <1>1, <2>1, <2>2, <2>3, <2>4, RestSame, RunStep
<1>6. CASE Raise(w)
    <2>1. UNCHANGED local /\ Goto(w, "failing") /\ "failing" \in Points /\ "failing" \in Exits
        BY <1>6, PointNames DEF Raise, local, Exits
    <2>2. PICK new \in Run : run' = [run EXCEPT ![w] = new] /\ Leaves(new, run[w], "failing")
        BY <1>1, <2>1, GotoEffect
    <2>3. WorkerOK(new, hunt)
        BY <2>2, LeaveOK DEF LoopAt
    <2> QED BY <1>1, <2>1, <2>2, <2>3, RestSame, RunStep
<1> QED BY <1>2, <1>3, <1>4, <1>5, <1>6

\* The steps that write the row.
LEMMA RowWritten ==
    ASSUME TypeOK, NEW results \in Results, NEW state \in HuntStates, NEW report \in Records
    PROVE  /\ [hunt EXCEPT !.results = results] \in [state : HuntStates, results : Results, report : Records]
           /\ [hunt EXCEPT !.results = results].results = results
           /\ [hunt EXCEPT !.results = results].state = hunt.state
           /\ [hunt EXCEPT !.state = state, !.results = results] \in [state : HuntStates, results : Results, report : Records]
           /\ [hunt EXCEPT !.state = state, !.results = results].results = results
           /\ [hunt EXCEPT !.state = state, !.results = results].state = state
           /\ [hunt EXCEPT !.state = state, !.report = report] \in [state : HuntStates, results : Results, report : Records]
           /\ [hunt EXCEPT !.state = state, !.report = report].results = hunt.results
           /\ [hunt EXCEPT !.state = state, !.report = report].report = report
           /\ [hunt EXCEPT !.state = state, !.report = report].state = state
           /\ [hunt EXCEPT !.state = state] \in [state : HuntStates, results : Results, report : Records]
           /\ [hunt EXCEPT !.state = state].results = hunt.results
           /\ [hunt EXCEPT !.state = state].state = state
BY DEF TypeOK, HuntStates

LEMMA WriteStep ==
    ASSUME BaseInv, NEW w \in Workers, NEW new \in Run, run' = [run EXCEPT ![w] = new],
           hunt' \in [state : HuntStates, results : Results, report : Records],
           UNCHANGED <<jobs, splunk, clock, faults>>, issued' \in 0 .. MaxIssued,
           RowOK(hunt'), WorkerOK(new, hunt'),
           \/ hunt.state \in {"queued", "running"}
           \/ hunt' = hunt
           \/ hunt'.state \notin {"queued", "running", "synthesizing"}
    PROVE  BaseInv'
<1>1. RestTyped'
    BY DEF BaseInv, TypeOK, RestTyped, jobs, splunk, faults, HuntStates
<1>2. \A v \in Workers \ {w} : ReadyOK(run[v], hunt')
    BY DEF BaseInv, WorkerOK, ReadyOK
<1> QED BY <1>1, <1>2, BaseStep

LEMMA FailingStep ==
    ASSUME BaseInv, NEW w \in Workers, Goto(w, "failing"), hunt' = hunt,
           UNCHANGED <<jobs, splunk, clock, faults>>, issued' = issued
    PROVE  BaseInv'
<1>1. TypeOK /\ "failing" \in Points /\ "failing" \in Exits
    BY PointNames DEF BaseInv, Exits
<1>2. PICK new \in Run : run' = [run EXCEPT ![w] = new] /\ Leaves(new, run[w], "failing")
    BY <1>1, GotoEffect
<1>3. WorkerOK(new, hunt)
    BY <1>2, LeaveOK DEF LoopAt
<1>4. RestTyped'
    BY <1>1 DEF TypeOK, RestTyped, jobs, splunk, faults
<1> QED BY <1>2, <1>3, <1>4, RunStep

LEMMA BaseWrites ==
    ASSUME BaseInv, NEW w \in Workers,
           StartRunning(w) \/ Save(w) \/ StartSynthesis(w) \/ PublishReport(w) \/ FailSave(w)
    PROVE  BaseInv'
<1>1. TypeOK /\ WorkerOK(run[w], hunt) /\ RowOK(hunt) /\ DocOK(hunt.results) /\ DocOK(run[w].mem)
    BY DEF BaseInv, WorkerOK, RowOK
<1>2. /\ run[w].mem \in Results /\ hunt.results \in Results /\ run[w].mem.queries \in Records /\ hunt.state \in HuntStates
      /\ {"running", "synthesizing", "report_draft", "failed"} \subseteq HuntStates
      /\ NoRecords \in Records /\ hunt \in [state : HuntStates, results : Results, report : Records]
    BY <1>1, WorkerTyped, RowTyped, Constants DEF HuntStates, Active, TypeOK
<1>3. CASE StartRunning(w)
    <2>0. UNCHANGED <<jobs, splunk, clock, faults>> /\ run[w].at = "start_save"
        BY <1>3 DEF StartRunning
    <2>1. CASE hunt.state # "queued"
        BY <1>3, <2>0, <2>1, FailingStep DEF StartRunning
    <2>2. CASE hunt.state = "queued"
        <3>1. PICK new \in Run :
                /\ run' = [run EXCEPT ![w] = new] /\ new.at = "scan" /\ new.pos = 1 /\ new.mem = run[w].mem
                /\ hunt' = [hunt EXCEPT !.state = "running", !.results = run[w].mem]
                /\ issued' = Len(run[w].mem.ledger)
            BY <1>1, <1>3, <2>2, StartEffect
        <3>2. hunt' \in [state : HuntStates, results : Results, report : Records]
              /\ hunt'.results = run[w].mem /\ hunt'.state = "running"
            BY <1>1, <1>2, <3>1, RowWritten
        <3>3. issued' \in 0 .. MaxIssued
            <4>1. FirstDraft(run[w].mem.ledger)
                BY <1>1, <2>0 DEF WorkerOK, PlaceOK
            <4> QED BY <3>1, <4>1, PlansOK, LimitsAreNumbers
        <3>4. RowOK(hunt') /\ WorkerOK(new, hunt')
            BY <1>1, <3>1, <3>2 DEF RowOK, WorkerOK, PlaceOK, ReadyOK, LoopAt
        <3> QED BY <2>0, <2>2, <3>1, <3>2, <3>3, <3>4, WriteStep
    <2> QED BY <2>1, <2>2
<1>4. CASE Save(w)
    <2>0. UNCHANGED <<jobs, splunk, issued, clock, faults>> /\ issued' \in 0 .. MaxIssued /\ run[w].at \in SavePoints
        BY <1>1, <1>4 DEF Save, TypeOK
    <2>1. PICK new \in Run :
            /\ run' = [run EXCEPT ![w] = new]
            /\ \/ /\ hunt.state = "running" /\ hunt' = [hunt EXCEPT !.results = run[w].mem]
                  /\ \/ /\ run[w].at = "save" /\ new.at \in LoopAt /\ new.mem = NoResults
                        /\ new.pos = run[w].pos \/ new.pos = run[w].pos + 1
                     \/ new.at = "load" /\ new.mem = NoResults
                     \/ \E at \in {"decide", "reserve", "synth", "advance"} : Stays(new, run[w], at)
               \/ /\ hunt.state # "running" /\ hunt' = hunt
                  /\ \/ Leaves(new, run[w], "failing")
                     \/ run[w].at = "save" /\ Stays(new, run[w], "abort")
        BY <1>1, <1>4, SaveEffect DEF LoopAt
    <2>2. CASE hunt.state = "running" /\ hunt' = [hunt EXCEPT !.results = run[w].mem]
        <3>1. /\ hunt' \in [state : HuntStates, results : Results, report : Records]
              /\ hunt'.results = run[w].mem /\ hunt'.state = "running"
            BY <1>1, <1>2, <2>2, RowWritten
        <3>2. RowOK(hunt')
            BY <1>1, <3>1 DEF RowOK
        <3>3. ASSUME run[w].at = "save", new.at \in LoopAt, new.mem = NoResults,
                     new.pos = run[w].pos \/ new.pos = run[w].pos + 1
              PROVE  WorkerOK(new, hunt')
            <4>1. run[w].pos # 0 /\ run[w].pos \in Nat
                BY <1>1, <3>3, WorkerTyped DEF WorkerOK, PlaceOK, LoopAt
            <4>2. new.pos # 0
                BY <3>3, <4>1
            <4> QED BY <3>3, <4>2, EmptyOK DEF WorkerOK, PlaceOK, ReadyOK, LoopAt
        <3>4. ASSUME new.at = "load", new.mem = NoResults
              PROVE  WorkerOK(new, hunt')
            BY <3>4, EmptyOK DEF WorkerOK, PlaceOK, ReadyOK, LoopAt
        <3>5. ASSUME NEW at \in {"decide", "reserve", "synth", "advance"}, Stays(new, run[w], at)
              PROVE  WorkerOK(new, hunt')
            BY <1>1, <3>5 DEF Stays, WorkerOK, PlaceOK, ReadyOK, LoopAt
        <3>6. WorkerOK(new, hunt')
            BY <2>1, <2>2, <3>3, <3>4, <3>5
        <3> QED BY <2>0, <2>1, <2>2, <3>1, <3>2, <3>6, WriteStep
    <2>3. CASE hunt.state # "running"
        <3>1. hunt' = hunt
            BY <2>1, <2>3
        <3>2. ASSUME Leaves(new, run[w], "failing") PROVE WorkerOK(new, hunt)
            BY <3>2, LeaveOK DEF LoopAt
        <3>3. ASSUME run[w].at = "save", Stays(new, run[w], "abort") PROVE WorkerOK(new, hunt)
            BY <1>1, <3>3, StayOK DEF LoopAt
        <3>4. WorkerOK(new, hunt)
            BY <2>1, <2>3, <3>2, <3>3
        <3> QED BY <1>1, <1>2, <2>0, <2>1, <3>1, <3>4, WriteStep
    <2> QED BY <2>1, <2>2, <2>3
<1>5. CASE StartSynthesis(w)
    <2>0. UNCHANGED <<jobs, splunk, issued, clock, faults>> /\ issued' \in 0 .. MaxIssued /\ run[w].at = "advance"
        BY <1>1, <1>5 DEF StartSynthesis, TypeOK
    <2>1. CASE hunt.state # "running"
        BY <1>5, <2>0, <2>1, FailingStep DEF StartSynthesis
    <2>2. CASE hunt.state = "running"
        <3>1. /\ hunt' = [hunt EXCEPT !.state = "synthesizing", !.results = run[w].mem]
              /\ Goto(w, "publish") /\ "publish" \in Points /\ "publish" \notin Exits
            BY <1>5, <2>2, PointNames DEF StartSynthesis, Exits
        <3>2. /\ hunt' \in [state : HuntStates, results : Results, report : Records]
              /\ hunt'.results = run[w].mem /\ hunt'.state = "synthesizing"
            BY <1>1, <1>2, <3>1, RowWritten
        <3>3. PICK new \in Run : run' = [run EXCEPT ![w] = new] /\ Stays(new, run[w], "publish")
            BY <1>1, <3>1, GotoEffect
        <3>4. RowOK(hunt') /\ WorkerOK(new, hunt')
            BY <1>1, <3>2, <3>3 DEF Stays, RowOK, WorkerOK, PlaceOK, ReadyOK, LoopAt
        <3> QED BY <2>0, <2>2, <3>2, <3>3, <3>4, WriteStep
    <2> QED BY <2>1, <2>2
<1>6. CASE PublishReport(w)
    <2>0. UNCHANGED <<jobs, splunk, issued, clock, faults>> /\ issued' \in 0 .. MaxIssued /\ run[w].at = "publish_save"
        BY <1>1, <1>6 DEF PublishReport, TypeOK
    <2>1. CASE hunt.state # "synthesizing"
        BY <1>6, <2>0, <2>1, FailingStep DEF PublishReport
    <2>2. CASE hunt.state = "synthesizing"
        <3>1. /\ hunt' = [hunt EXCEPT !.state = "report_draft", !.report = run[w].mem.queries]
              /\ Goto(w, "ok") /\ "ok" \in Points /\ "ok" \in Exits
            BY <1>6, <2>2, PointNames DEF PublishReport, Exits
        <3>2. /\ hunt' \in [state : HuntStates, results : Results, report : Records]
              /\ hunt'.results = hunt.results /\ hunt'.state = "report_draft" /\ hunt'.report = run[w].mem.queries
            BY <1>1, <1>2, <3>1, RowWritten
        <3>3. PICK new \in Run : run' = [run EXCEPT ![w] = new] /\ Leaves(new, run[w], "ok")
            BY <1>1, <3>1, GotoEffect
        <3>4. WorkerOK(new, hunt')
            BY <3>3, LeaveOK DEF LoopAt
        <3>5. RowOK(hunt')
            BY <1>1, <2>0, <2>2, <3>2 DEF RowOK, WorkerOK, ReadyOK
        <3> QED BY <2>0, <3>2, <3>3, <3>4, <3>5, WriteStep
    <2> QED BY <2>1, <2>2
<1>7. CASE FailSave(w)
    <2>0. UNCHANGED <<jobs, splunk, issued, clock, faults>> /\ issued' \in 0 .. MaxIssued
          /\ Goto(w, "error") /\ "error" \in Points /\ "error" \in Exits
        BY <1>1, <1>7, PointNames DEF FailSave, TypeOK, Exits
    <2>1. PICK new \in Run : run' = [run EXCEPT ![w] = new] /\ Leaves(new, run[w], "error")
        BY <1>1, <2>0, GotoEffect
    <2>2. WorkerOK(new, hunt')
        BY <2>1, LeaveOK DEF LoopAt
    <2>3. CASE hunt' = hunt
        BY <1>1, <1>2, <2>0, <2>1, <2>2, <2>3, WriteStep
    <2>4. CASE hunt' = [hunt EXCEPT !.state = "failed", !.results = run[w].mem]
        <3>1. /\ hunt' \in [state : HuntStates, results : Results, report : Records]
              /\ hunt'.results = run[w].mem /\ hunt'.state = "failed"
            BY <1>1, <1>2, <2>4, RowWritten
        <3>2. RowOK(hunt')
            BY <1>1, <3>1 DEF RowOK
        <3> QED BY <2>0, <2>1, <2>2, <3>1, <3>2, WriteStep
    <2> QED BY <1>7, <2>3, <2>4 DEF FailSave
<1> QED BY <1>3, <1>4, <1>5, <1>6, <1>7

LEMMA BaseEnds ==
    ASSUME BaseInv, NEW w \in Workers, Claim(w) \/ Finish(w) \/ WorkerCrash(w) \/ LeaseLost(w)
    PROVE  BaseInv'
<1>1. TypeOK /\ WorkerOK(run[w], hunt) /\ Idle \in Run /\ WorkerOK(Idle, hunt)
    BY Constants, EmptyOK DEF BaseInv
<1>2. job' \in {"queued", "claimed", "completed", "failed", "cancelled"} /\ holder' \in Workers \cup {Nobody}
    <2>1. CASE Claim(w)
        BY <2>1 DEF Claim, Job!Claim
    <2>2. CASE Finish(w)
        <3>1. CASE holder = w
            BY <2>2, <3>1 DEF Finish, Job!Decide
        <3>2. CASE holder # w
            BY <1>1, <2>2, <3>2 DEF Finish, jobs, TypeOK
        <3> QED BY <3>1, <3>2
    <2>3. CASE WorkerCrash(w) \/ LeaseLost(w)
        <3>1. (holder' = Nobody /\ job' = job) \/ UNCHANGED jobs
            BY <2>3 DEF WorkerCrash, LeaseLost, Job!Lapse
        <3> QED BY <1>1, <3>1 DEF jobs, TypeOK
    <2> QED BY <2>1, <2>2, <2>3
<1>3. /\ hunt' = hunt /\ UNCHANGED <<search, dispatched, dropped, issued, clock, stranded, errors>>
      /\ crashes' \in Nat /\ glitches' \in Nat
    BY <1>1 DEF Claim, Finish, WorkerCrash, LeaseLost, splunk, faults, TypeOK
<1>4. RestTyped'
    BY <1>1, <1>2, <1>3 DEF TypeOK, RestTyped
<1>5. CASE Claim(w)
    <2>1. Goto(w, "load") /\ "load" \in Points /\ "load" \notin Exits
        BY <1>5, PointNames DEF Claim, Exits
    <2>2. PICK new \in Run : run' = [run EXCEPT ![w] = new] /\ Stays(new, run[w], "load")
        BY <1>1, <2>1, GotoEffect
    <2>3. WorkerOK(new, hunt)
        BY <1>1, <2>2, StayOK DEF LoopAt
    <2> QED BY <1>3, <1>4, <2>2, <2>3, RunStep
<1>6. CASE Finish(w) \/ WorkerCrash(w)
    <2>1. run' = [run EXCEPT ![w] = Idle]
        BY <1>6 DEF Finish, WorkerCrash
    <2> QED BY <1>1, <1>3, <1>4, <2>1, RunStep
<1>7. CASE LeaseLost(w)
    <2>1. run' = run
        BY <1>7 DEF LeaseLost
    <2>2. TypeOK'
        BY <1>1, <1>4, <2>1 DEF TypeOK, RestTyped
    <2> QED BY <1>3, <2>1, <2>2 DEF BaseInv
<1> QED BY <1>5, <1>6, <1>7

LEMMA BaseError ==
    ASSUME BaseInv, NEW w \in Workers, DbError(w)
    PROVE  BaseInv'
<1>1. TypeOK /\ WorkerOK(run[w], hunt)
    BY DEF BaseInv
<1>2. /\ UNCHANGED <<hunt, job, holder, search, dispatched, dropped, issued, clock, crashes, glitches>>
      /\ errors' = errors + 1 /\ stranded' \in BOOLEAN
    BY DEF DbError, jobs, splunk
<1>3. RestTyped'
    BY <1>1, <1>2 DEF TypeOK, RestTyped
<1>4. PICK new \in Run :
         /\ run' = [run EXCEPT ![w] = new]
         /\ \/ \E at \in {"failing", "error"} : Leaves(new, run[w], at)
            \/ run[w].at \in {"checkpoint", "apply", "save"} /\ Stays(new, run[w], "abort")
    BY <1>1, ErrorEffect
<1>5. CASE \E at \in {"failing", "error"} : Leaves(new, run[w], at)
    <2>1. WorkerOK(new, hunt)
        BY <1>5, LeaveOK DEF LoopAt
    <2> QED BY <1>2, <1>3, <1>4, <2>1, RunStep
<1>6. CASE run[w].at \in {"checkpoint", "apply", "save"} /\ Stays(new, run[w], "abort")
    <2>1. WorkerOK(new, hunt)
        BY <1>1, <1>6, StayOK DEF LoopAt
    <2> QED BY <1>2, <1>3, <1>4, <2>1, RunStep
<1> QED BY <1>4, <1>5, <1>6

LEMMA BaseEnvironment ==
    ASSUME BaseInv, (\E q \in Queries : SearchDone(q)) \/ Tick \/ CancelHunt \/ CancelJob \/ RecoverJob
    PROVE  BaseInv'
<1>1. TypeOK /\ RowOK(hunt) /\ \A v \in Workers : WorkerOK(run[v], hunt)
    BY DEF BaseInv
<1>2. run' = run
    BY DEF SearchDone, Tick, CancelHunt, CancelJob, RecoverJob
<1>3. CASE (\E q \in Queries : SearchDone(q)) \/ Tick \/ CancelJob \/ RecoverJob
    <2>1. hunt' = hunt
        BY <1>3 DEF SearchDone, Tick, CancelJob, RecoverJob
    <2>2. TypeOK'
        <3>1. CASE \E q \in Queries : SearchDone(q)
            BY <1>1, <3>1 DEF SearchDone, TypeOK, jobs, faults
        <3>2. CASE Tick
            BY <1>1, <3>2 DEF Tick, TypeOK, jobs, faults, splunk
        <3>3. CASE CancelJob
            BY <1>1, <3>3 DEF CancelJob, Job!Cancel, TypeOK, faults, splunk
        <3>4. CASE RecoverJob
            BY <1>1, <3>4 DEF RecoverJob, Job!Recover, TypeOK, faults, splunk
        <3> QED BY <1>3, <3>1, <3>2, <3>3, <3>4
    <2> QED BY <1>1, <1>2, <2>1, <2>2 DEF BaseInv
<1>4. CASE CancelHunt
    <2>1. hunt' = [hunt EXCEPT !.state = "cancelled"] /\ UNCHANGED <<jobs, splunk, issued, clock, faults>>
        BY <1>4 DEF CancelHunt
    <2>2. "cancelled" \in HuntStates /\ hunt.results \in Results /\ NoRecords \in Records
        BY <1>1, RowTyped, Constants DEF HuntStates
    <2>3. /\ hunt' \in [state : HuntStates, results : Results, report : Records]
          /\ hunt'.results = hunt.results /\ hunt'.state = "cancelled"
        BY <1>1, <2>1, <2>2, RowWritten
    <2>4. TypeOK'
        BY <1>1, <1>2, <2>1, <2>3 DEF TypeOK, jobs, splunk, faults, HuntStates
    <2>5. RowOK(hunt')
        BY <1>1, <2>3 DEF RowOK
    <2>6. \A v \in Workers : WorkerOK(run'[v], hunt')
        BY <1>1, <1>2, <2>3 DEF WorkerOK, ReadyOK
    <2> QED BY <2>4, <2>5, <2>6 DEF BaseInv
<1> QED BY <1>3, <1>4

LEMMA BaseInduction ==
    /\ Init => BaseInv
    /\ BaseInv /\ [Next]_vars => BaseInv'
<1>1. ASSUME Init PROVE BaseInv
    <2>1. hunt.results = NoResults /\ hunt.state = "queued" /\ hunt.report = NoRecords
        BY <1>1 DEF Init
    <2>2. TypeOK
        <3>1. /\ hunt \in [state : Active \cup {"report_draft", "failed", "cancelled"},
                           results : Results, report : Records]
              /\ run \in [Workers -> Run]
            BY <1>1, Constants DEF Init, Active
        <3>2. stranded \in BOOLEAN
            BY <1>1 DEF Init
        <3> QED BY <1>1, <3>1, <3>2, LimitsAreNumbers DEF Init, TypeOK
    <2>3. \A w \in Workers : run[w] = Idle
        BY <1>1 DEF Init
    <2> QED BY <2>1, <2>2, <2>3, EmptyOK DEF BaseInv, RowOK
<1>2. ASSUME BaseInv, UNCHANGED vars PROVE BaseInv'
    <2>1. UNCHANGED <<hunt, job, holder, run, search, dispatched, dropped, issued, clock, stranded, crashes, errors,
                      glitches>>
        BY <1>2 DEF vars, faults
    <2> QED BY <1>2, <2>1 DEF BaseInv, TypeOK
<1>3. ASSUME BaseInv, NEW w \in Workers, WorkerStep(w) \/ DbError(w) \/ LeaseLost(w) \/ WorkerCrash(w)
      PROVE  BaseInv'
    <2>1. CASE \/ RequireLease(w) \/ LoadHunt(w) \/ Draft(w) \/ Scan(w)
               \/ Submit(w) \/ Dispatch(w) \/ DispatchError(w) \/ PollError(w) \/ PollTimeout(w)
               \/ Retrieve(w) \/ Abort(w) \/ Apply(w)
        BY <1>3, <2>1, BaseMoves, BaseSearch
    <2>2. CASE \/ AssessRead(w) \/ SynthRead(w) \/ ReserveRead(w)
               \/ NoRound(w) \/ AssessResults(w) \/ DecideNothing(w) \/ Answer(w) \/ StopRounds(w)
               \/ CoverSources(w) \/ DecideFollowUp(w) \/ FailRead(w) \/ Raise(w)
        BY <1>3, <2>2, BaseRounds
    <2>3. CASE \/ StartRunning(w) \/ Save(w) \/ StartSynthesis(w) \/ PublishReport(w) \/ FailSave(w)
               \/ Claim(w) \/ Finish(w) \/ WorkerCrash(w) \/ LeaseLost(w) \/ DbError(w)
        BY <1>3, <2>3, BaseWrites, BaseEnds, BaseError
    <2> QED BY <1>3, <2>1, <2>2, <2>3 DEF WorkerStep
<1> QED BY <1>1, <1>2, <1>3, BaseEnvironment DEF Next

\* Documents, counters and the points of execute_job stay within their types:
\* a worker's place in the query loop exists in the ledger it walks, and query
\* ids do not run out of the ones given out.
THEOREM TypeCorrect == Spec => []TypeOK
<1>1. BaseInv => TypeOK
    BY DEF BaseInv
<1> QED BY <1>1, BaseInduction, PTL DEF Spec

\* However many workers work on the hunt at once, after however many crashes,
\* database errors and lost leases, the row agrees with itself: no search has
\* two result records, every search its ledger calls completed has its one, and
\* the report is made from the row's results (_run_checkpoint_queries).
THEOREM ResultsExactlyOnce == Spec => []OneResultPerSearch
<1>1. BaseInv => OneResultPerSearch
    BY DEF BaseInv, RowOK, DocOK, OneResultPerSearch
<1> QED BY <1>1, BaseInduction, PTL DEF Spec

-----------------------------------------------------------------------------
(* What holds as long as a live worker keeps its lease.                    *)

\* The worker that works on a hunt holds its lease; only a cancelled hunt has
\* others.
AloneInv ==
    /\ holder # Nobody => job = "claimed"
    /\ hunt.state # "cancelled" => \A w \in Workers : run[w].at # "idle" => holder = w

\* The ledger of the row: each query once, its id given out.
Distinct(L) == \A i, j \in DOMAIN L : L[i].id = L[j].id => i = j
AllFinished(L) == \A i \in DOMAIN L : L[i].status \in Finished

LedgerOK(row, n) ==
    LET L == row.results.ledger IN
    /\ row.state = "queued" => L = <<>>
    /\ Distinct(L)
    /\ \A i \in DOMAIN L : L[i].id <= n
    /\ row.state \in {"synthesizing", "report_draft"} => AllFinished(L)

\* The points whose worker has the row's ledger in its document, those where
\* it may have planned one more query, and all that come after the loop.
Copied    == {"round", "interim_save", "decide", "reserve_save", "answering", "answer", "answer_save", "advance"}
Extended  == {"cover", "cover_save", "round_save"}
AfterLoop == Copied \cup Extended \cup {"assess", "assess_read", "reserve", "reserve_read", "synth", "synth_read"}

\* In the loop every query before the worker's is finished and its own is not.
InLoop(r, L) ==
    /\ r.len = Len(L) /\ r.pos \in 1 .. Len(L) + 1
    /\ \A i \in 1 .. r.pos - 1 : L[i].status \in Finished
OnQuery(r, L) == r.pos <= Len(L) /\ L[r.pos].id = r.q /\ L[r.pos].status \notin Finished

OneMore(L, new, n) ==
    \E q \in Queries : /\ q <= n /\ \A i \in DOMAIN L : L[i].id < q
                       /\ new = Append(L, [id |-> q, status |-> "planned"])

RunningOK(r, L, n) ==
    /\ r.at \in LoopAt => InLoop(r, L)
    /\ r.at \in LoopAt \ {"scan"} => OnQuery(r, L)
    /\ r.at \in {"checkpoint", "apply", "save"} => r.todo # "planned"
    /\ r.at = "save" => r.mem.ledger = Marked(L, r.q, r.todo)
    /\ (r.at = "save" /\ r.todo = "submitted") => L[r.pos].status = "planned"
    /\ r.at \in AfterLoop => AllFinished(L)
    /\ r.at \in Copied => r.mem.ledger = L
    /\ r.at \in Extended => (r.mem.ledger = L \/ OneMore(L, r.mem.ledger, n))
    /\ (r.at = "round_save" /\ r.mem.adaptiveComplete) => r.mem.ledger = L

WorkOK(r, row, n) ==
    /\ (r.at = "fail_save" /\ row.state # "cancelled") => r.mem.ledger = row.results.ledger
    /\ row.state = "running" => RunningOK(r, row.results.ledger, n)

SafeInv ==
    /\ BaseInv
    /\ AloneInv
    /\ LedgerOK(hunt, issued)
    /\ \A w \in Workers : WorkOK(run[w], hunt, issued)

\* A worker outside the loop, the rounds and fail_save is bound by nothing.
LEMMA FreeOK ==
    ASSUME NEW r, NEW row, NEW n,
           row.state = "cancelled" \/ r.at \notin LoopAt \cup AfterLoop \cup {"fail_save"}
    PROVE  WorkOK(r, row, n)
<1>1. r.at \notin LoopAt \cup AfterLoop \cup {"fail_save"} => RunningOK(r, row.results.ledger, n)
    BY DEF RunningOK, LoopAt, AfterLoop, Copied, Extended
<1> QED BY <1>1 DEF WorkOK

\* The steps of a claimed job, all but Claim, Finish, crashes and lost leases.
Working(w) ==
    \/ RequireLease(w) \/ LoadHunt(w) \/ Draft(w) \/ StartRunning(w)
    \/ Scan(w) \/ Submit(w) \/ Dispatch(w) \/ DispatchError(w)
    \/ PollError(w) \/ PollTimeout(w) \/ Retrieve(w) \/ Abort(w)
    \/ Apply(w) \/ Save(w)
    \/ AssessRead(w) \/ CoverSources(w) \/ NoRound(w) \/ AssessResults(w)
    \/ DecideNothing(w) \/ DecideFollowUp(w) \/ StopRounds(w) \/ ReserveRead(w)
    \/ SynthRead(w) \/ Answer(w) \/ StartSynthesis(w) \/ PublishReport(w)
    \/ Raise(w) \/ FailRead(w) \/ FailSave(w) \/ DbError(w)

LEMMA WorkingFacts ==
    ASSUME TypeOK, NEW w \in Workers, Working(w)
    PROVE  /\ run[w].at # "idle" /\ UNCHANGED <<job, holder>>
           /\ \A v \in Workers \ {w} : run'[v] = run[v]
           /\ hunt'.state = "cancelled" <=> hunt.state = "cancelled"
<1>1. run[w].at # "idle" /\ UNCHANGED <<job, holder>>
    <2>1. CASE \/ RequireLease(w) \/ LoadHunt(w) \/ Draft(w) \/ StartRunning(w)
               \/ Scan(w) \/ Submit(w) \/ Dispatch(w) \/ DispatchError(w)
        BY <2>1 DEF RequireLease, LoadHunt, Draft, StartRunning, Scan, Submit, Dispatch, DispatchError, local, jobs,
                    LeasePoints
    <2>2. CASE PollError(w) \/ PollTimeout(w) \/ Retrieve(w) \/ Abort(w) \/ Apply(w) \/ Save(w)
        BY <2>2 DEF PollError, PollTimeout, Retrieve, Abort, Apply, Save, local, jobs, SavePoints
    <2>3. CASE \/ AssessRead(w) \/ CoverSources(w) \/ NoRound(w) \/ AssessResults(w)
               \/ DecideNothing(w) \/ DecideFollowUp(w) \/ StopRounds(w) \/ ReserveRead(w)
        BY <2>3 DEF AssessRead, CoverSources, NoRound, AssessResults, DecideNothing, DecideFollowUp, StopRounds,
                    ReserveRead, local, jobs
    <2>4. CASE \/ SynthRead(w) \/ Answer(w) \/ StartSynthesis(w) \/ PublishReport(w)
               \/ Raise(w) \/ FailRead(w) \/ FailSave(w) \/ DbError(w)
        BY <2>4 DEF SynthRead, Answer, StartSynthesis, PublishReport, Raise, FailRead, FailSave, DbError, DbPoints,
                    LeasePoints, SavePoints, local, jobs
    <2> QED BY <2>1, <2>2, <2>3, <2>4 DEF Working
<1>2. \A v \in Workers \ {w} : run'[v] = run[v]
    <2>0. ASSUME NEW at, Goto(w, at) PROVE \A v \in Workers \ {w} : run'[v] = run[v]
        BY <2>0 DEF Goto, TypeOK
    <2>1. CASE \/ RequireLease(w) \/ LoadHunt(w) \/ Draft(w) \/ StartRunning(w)
               \/ Scan(w) \/ Submit(w) \/ Dispatch(w) \/ DispatchError(w)
        BY <2>0, <2>1 DEF RequireLease, LoadHunt, Draft, StartRunning, Scan, Submit, Dispatch, DispatchError, TypeOK
    <2>2. CASE PollError(w) \/ PollTimeout(w) \/ Retrieve(w) \/ Abort(w) \/ Apply(w) \/ Save(w)
        BY <2>0, <2>2 DEF PollError, PollTimeout, Retrieve, Abort, Apply, Save, TypeOK
    <2>3. CASE \/ AssessRead(w) \/ CoverSources(w) \/ NoRound(w) \/ AssessResults(w)
               \/ DecideNothing(w) \/ DecideFollowUp(w) \/ StopRounds(w) \/ ReserveRead(w)
        BY <2>0, <2>3 DEF AssessRead, CoverSources, NoRound, AssessResults, DecideNothing, DecideFollowUp, StopRounds,
                    ReserveRead, TypeOK
    <2>4. CASE \/ SynthRead(w) \/ Answer(w) \/ StartSynthesis(w) \/ PublishReport(w)
               \/ Raise(w) \/ FailRead(w) \/ FailSave(w) \/ DbError(w)
        BY <2>0, <2>4 DEF SynthRead, Answer, StartSynthesis, PublishReport, Raise, FailRead, FailSave, DbError, TypeOK
    <2> QED BY <2>1, <2>2, <2>3, <2>4 DEF Working
<1>3. hunt'.state = "cancelled" <=> hunt.state = "cancelled"
    <2>1. \/ hunt' = hunt
          \/ hunt.state = "queued" /\ hunt' = [hunt EXCEPT !.state = "running", !.results = run[w].mem]
          \/ hunt' = [hunt EXCEPT !.results = run[w].mem]
          \/ hunt.state = "running" /\ hunt' = [hunt EXCEPT !.state = "synthesizing", !.results = run[w].mem]
          \/ hunt.state = "synthesizing" /\ hunt' = [hunt EXCEPT !.state = "report_draft", !.report = run[w].mem.queries]
          \/ hunt.state = run[w].seen /\ hunt' = [hunt EXCEPT !.state = "failed", !.results = run[w].mem]
        <3>1. CASE StartRunning(w) \/ Save(w) \/ StartSynthesis(w) \/ PublishReport(w) \/ FailSave(w)
            BY <3>1 DEF StartRunning, Save, StartSynthesis, PublishReport, FailSave
        <3>2. CASE \/ RequireLease(w) \/ LoadHunt(w) \/ Draft(w)
                   \/ Scan(w) \/ Submit(w) \/ Dispatch(w) \/ DispatchError(w)
                   \/ PollError(w) \/ PollTimeout(w) \/ Retrieve(w) \/ Abort(w) \/ Apply(w)
            BY <3>2 DEF RequireLease, LoadHunt, Draft, Scan, Submit, Dispatch, DispatchError,
                        PollError, PollTimeout, Retrieve, Abort, Apply, local
        <3>3. CASE \/ AssessRead(w) \/ CoverSources(w) \/ NoRound(w) \/ AssessResults(w)
                   \/ DecideNothing(w) \/ DecideFollowUp(w) \/ StopRounds(w) \/ ReserveRead(w)
                   \/ SynthRead(w) \/ Answer(w) \/ Raise(w) \/ FailRead(w) \/ DbError(w)
            BY <3>3 DEF AssessRead, CoverSources, NoRound, AssessResults, DecideNothing, DecideFollowUp, StopRounds,
                        ReserveRead, SynthRead, Answer, Raise, FailRead, DbError, local
        <3> QED BY <3>1, <3>2, <3>3 DEF Working
    <2>2. run[w].seen # "cancelled"
        BY WorkerTyped DEF Active
    <2> QED BY <2>1, <2>2 DEF TypeOK
<1> QED BY <1>1, <1>2, <1>3

LEMMA AloneStep ==
    ASSUME MaxGlitches = 0, TypeOK, AloneInv, [Next]_vars
    PROVE  AloneInv'
<1>1. ASSUME NEW w \in Workers, Working(w) PROVE AloneInv'
    BY <1>1, WorkingFacts DEF AloneInv
<1>2. ASSUME NEW w \in Workers, Claim(w) PROVE AloneInv'
    <2>1. /\ holder = Nobody /\ holder' = w /\ job' = "claimed" /\ hunt' = hunt
          /\ \A v \in Workers : v # w => run'[v] = run[v]
        BY <1>2 DEF AloneInv, Claim, Job!Claim, Goto, TypeOK
    <2> QED BY <2>1, NobodyIsNoWorker DEF AloneInv
<1>3. ASSUME NEW w \in Workers, Finish(w) \/ WorkerCrash(w) PROVE AloneInv'
    <2>1. /\ hunt' = hunt /\ run'[w] = Idle /\ Idle.at = "idle" /\ run[w].at # "idle"
          /\ \A v \in Workers : v # w => run'[v] = run[v]
        BY <1>3 DEF Finish, WorkerCrash, TypeOK, Idle
    <2>2. \/ holder = w /\ holder' = Nobody
          \/ holder # w /\ holder' = holder /\ job' = job
        BY <1>3 DEF Finish, WorkerCrash, jobs, Job!Decide, Job!Lapse
    <2> QED BY <2>1, <2>2 DEF AloneInv
<1>4. ASSUME NEW w \in Workers, LeaseLost(w) PROVE FALSE
    BY <1>4 DEF LeaseLost, TypeOK
<1>5. CASE (\E q \in Queries : SearchDone(q)) \/ Tick
    BY <1>5 DEF SearchDone, Tick, AloneInv, jobs
<1>6. CASE CancelHunt
    <2>1. hunt'.state = "cancelled" /\ UNCHANGED <<job, holder>>
        BY <1>6 DEF CancelHunt, jobs, TypeOK
    <2> QED BY <2>1 DEF AloneInv
<1>7. CASE CancelJob
    BY <1>7 DEF CancelJob, Job!Cancel, AloneInv
<1>8. CASE RecoverJob
    BY <1>8 DEF RecoverJob, Job!Recover, AloneInv
<1>9. CASE UNCHANGED vars
    BY <1>9 DEF vars, AloneInv
<1> QED BY <1>1, <1>2, <1>3, <1>4, <1>5, <1>6, <1>7, <1>8, <1>9 DEF Next, WorkerStep, Working

\* What a step of the worker leaves when the others are out of the way.
LEMMA OthersFree ==
    ASSUME SafeInv, NEW w \in Workers, Working(w), hunt.state # "cancelled"
    PROVE  \A v \in Workers \ {w} : run[v].at = "idle" /\ run'[v].at = "idle"
<1>1. TypeOK /\ AloneInv
    BY DEF SafeInv, BaseInv
<1>2. run[w].at # "idle" /\ holder = w /\ \A v \in Workers \ {w} : run'[v] = run[v]
    BY <1>1, WorkingFacts DEF AloneInv
<1> QED BY <1>1, <1>2 DEF AloneInv

WorkInv ==
    /\ LedgerOK(hunt, issued)
    /\ \A w \in Workers : WorkOK(run[w], hunt, issued)

LEMMA WorkStep ==
    ASSUME SafeInv, NEW w \in Workers, Working(w), NEW new \in Run, run' = [run EXCEPT ![w] = new],
           hunt.state # "cancelled" => LedgerOK(hunt', issued') /\ WorkOK(new, hunt', issued'),
           hunt.state = "cancelled" => hunt' = hunt /\ issued' \in Nat /\ issued' >= issued
    PROVE  WorkInv'
<1>1. TypeOK /\ LedgerOK(hunt, issued)
    BY DEF SafeInv, BaseInv
<1>2. run'[w] = new
    BY <1>1, Turned
<1>3. CASE hunt.state # "cancelled"
    <2>1. \A v \in Workers \ {w} : WorkOK(run'[v], hunt', issued')
        <3>1. ASSUME NEW v \in Workers \ {w} PROVE WorkOK(run'[v], hunt', issued')
            <4>1. run'[v].at = "idle"
                BY <1>3, OthersFree
            <4>2. "idle" \notin LoopAt \cup AfterLoop \cup {"fail_save"}
                BY DEF LoopAt, AfterLoop, Copied, Extended
            <4> QED BY <4>1, <4>2, FreeOK
        <3> QED BY <3>1
    <2> QED BY <1>2, <1>3, <2>1 DEF WorkInv
<1>4. CASE hunt.state = "cancelled"
    <2>1. \A v \in Workers : WorkOK(run'[v], hunt', issued')
        BY <1>4, FreeOK
    <2>2. LedgerOK(hunt', issued')
        <3>1. hunt' = hunt /\ issued \in Nat /\ issued' \in Nat /\ issued <= issued'
            BY <1>1, <1>4, LimitsAreNumbers DEF TypeOK
        <3>2. \A i \in DOMAIN hunt.results.ledger : hunt.results.ledger[i].id \in Nat
            <4>1. \A i \in DOMAIN hunt.results.ledger : hunt.results.ledger[i] \in Entry
                BY <1>1, RowTyped
            <4> QED BY <4>1 DEF Entry, Queries
        <3>3. \A i \in DOMAIN hunt.results.ledger : hunt.results.ledger[i].id <= issued'
            BY <1>1, <3>1, <3>2 DEF LedgerOK
        <3> QED BY <1>1, <3>1, <3>3 DEF LedgerOK
    <2> QED BY <2>1, <2>2 DEF WorkInv
<1> QED BY <1>3, <1>4

\* The same for a step that leaves the row and the ids alone.
LEMMA QuietStep ==
    ASSUME SafeInv, NEW w \in Workers, Working(w), NEW new \in Run, run' = [run EXCEPT ![w] = new],
           hunt' = hunt, issued' = issued,
           hunt.state # "cancelled" => WorkOK(new, hunt, issued)
    PROVE  WorkInv'
<1>1. issued \in Nat /\ issued <= issued
    BY LimitsAreNumbers DEF SafeInv, BaseInv, TypeOK
<1>2. LedgerOK(hunt', issued')
    BY DEF SafeInv
<1> QED BY <1>1, <1>2, WorkStep

\* A worker busy with its query goes on to another point of the loop.
LEMMA TurnWork ==
    ASSUME NEW r, NEW new, NEW row, NEW n, NEW at, NEW todo, WorkOK(r, row, n), Turns(new, r, at, todo),
           r.at \in LoopAt \ {"scan"}, at \in {"dispatch", "poll", "abort", "checkpoint", "apply"},
           at \in {"checkpoint", "apply"} => todo # "planned"
    PROVE  WorkOK(new, row, n)
<1>1. ASSUME row.state = "running" PROVE RunningOK(new, row.results.ledger, n)
    <2>1. InLoop(r, row.results.ledger) /\ OnQuery(r, row.results.ledger)
        BY <1>1 DEF WorkOK, RunningOK
    <2>2. InLoop(new, row.results.ledger) /\ OnQuery(new, row.results.ledger)
        BY <2>1 DEF InLoop, OnQuery, Turns
    <2>3. new.at \notin AfterLoop /\ new.at # "save" /\ new.todo = todo /\ new.at = at
        BY DEF Turns, AfterLoop, Copied, Extended
    <2> QED BY <2>2, <2>3 DEF RunningOK, AfterLoop
<1> QED BY <1>1 DEF WorkOK, Turns

LEMMA StaysTurns ==
    ASSUME NEW r, NEW new, NEW at, Stays(new, r, at)
    PROVE  Turns(new, r, at, r.todo)
BY DEF Stays, Turns

\* A worker after the loop goes on with the same document.
LEMMA KeepWork ==
    ASSUME NEW r, NEW new, NEW row, NEW n, NEW at, WorkOK(r, row, n), new.at = at, new.mem.ledger = r.mem.ledger,
           r.at \in AfterLoop, at \in AfterLoop,
           at \in Copied => r.at \in Copied,
           at \in Extended => r.at \in Extended \cup Copied,
           at = "round_save" => r.at \in Copied
    PROVE  WorkOK(new, row, n)
<1>1. ASSUME row.state = "running" PROVE RunningOK(new, row.results.ledger, n)
    <2>1. new.at \notin LoopAt
        BY DEF LoopAt, AfterLoop, Copied, Extended
    <2> QED BY <1>1, <2>1 DEF WorkOK, RunningOK, LoopAt
<1>2. at # "fail_save"
    BY DEF AfterLoop, Copied, Extended
<1> QED BY <1>1, <1>2 DEF WorkOK

LEMMA LeaseWork ==
    ASSUME SafeInv, NEW w \in Workers, RequireLease(w)
    PROVE  WorkInv'
<1>1. TypeOK /\ WorkOK(run[w], hunt, issued)
    BY DEF SafeInv, BaseInv
<1>2. hunt' = hunt /\ issued' = issued /\ Working(w) /\ run[w].at \in LeasePoints
    BY DEF RequireLease, Working
<1>3. PICK new \in Run :
         /\ run' = [run EXCEPT ![w] = new]
         /\ \/ \E at \in {"failing", "error"} : Leaves(new, run[w], at)
            \/ run[w].at = "checkpoint" /\ run[w].todo = "submitted" /\ Stays(new, run[w], "abort")
            \/ Stays(new, run[w], Granted[run[w].at])
    BY <1>1, LeaseEffect
<1>4. ASSUME NEW at \in {"failing", "error"}, Leaves(new, run[w], at) PROVE WorkOK(new, hunt, issued)
    BY <1>4, FreeOK DEF Leaves, LoopAt, AfterLoop, Copied, Extended
<1>5. ASSUME run[w].at = "checkpoint", Stays(new, run[w], "abort") PROVE WorkOK(new, hunt, issued)
    <2>1. run[w].at \in LoopAt \ {"scan"}
        BY <1>5 DEF LoopAt
    <2> QED BY <1>1, <1>5, <2>1, StaysTurns, TurnWork
<1>6. ASSUME Stays(new, run[w], Granted[run[w].at]) PROVE hunt.state # "cancelled" => WorkOK(new, hunt, issued)
    <2>1. CASE run[w].at \in {"load", "start", "publish", "failing"}
        <3>1. new.at \in {"read", "start_save", "publish_save", "fail_read"}
            BY <1>6, <2>1 DEF Granted, Stays
        <3>2. new.at \notin LoopAt \cup AfterLoop \cup {"fail_save"}
            BY <3>1 DEF LoopAt, AfterLoop, Copied, Extended
        <3> QED BY <3>2, FreeOK
    <2>2. CASE run[w].at = "checkpoint"
        <3>1. Stays(new, run[w], "apply")
            BY <1>6, <2>2 DEF Granted
        <3>2. CASE hunt.state = "running"
            <4>1. run[w].todo # "planned" /\ run[w].at \in LoopAt \ {"scan"}
                BY <1>1, <2>2, <3>2 DEF WorkOK, RunningOK, LoopAt
            <4> QED BY <1>1, <3>1, <4>1, StaysTurns, TurnWork
        <3>3. CASE hunt.state # "running"
            BY <3>1, <3>3 DEF WorkOK, Stays
        <3> QED BY <3>2, <3>3
    <2>3. CASE run[w].at \in {"assess", "cover", "reserve", "synth", "answer"}
        <3> DEFINE at == Granted[run[w].at]
        <3>1. /\ run[w].at \in AfterLoop /\ at \in AfterLoop
              /\ at \in Copied => run[w].at \in Copied
              /\ at \in Extended => run[w].at \in Extended \cup Copied
              /\ at # "round_save"
            BY <2>3 DEF Granted, AfterLoop, Copied, Extended
        <3>2. new.at = at /\ new.mem.ledger = run[w].mem.ledger
            BY <1>6 DEF Stays
        <3> HIDE DEF at
        <3> QED BY <1>1, <3>1, <3>2, KeepWork
    <2> QED BY <1>2, <2>1, <2>2, <2>3 DEF LeasePoints
<1> QED BY <1>2, <1>3, <1>4, <1>5, <1>6, QuietStep

LEMMA ErrorWork ==
    ASSUME SafeInv, NEW w \in Workers, DbError(w)
    PROVE  WorkInv'
<1>1. TypeOK /\ WorkOK(run[w], hunt, issued)
    BY DEF SafeInv, BaseInv
<1>2. hunt' = hunt /\ issued' = issued /\ Working(w)
    BY DEF DbError, Working
<1>3. PICK new \in Run :
         /\ run' = [run EXCEPT ![w] = new]
         /\ \/ \E at \in {"failing", "error"} : Leaves(new, run[w], at)
            \/ run[w].at \in {"checkpoint", "apply", "save"} /\ Stays(new, run[w], "abort")
    BY <1>1, ErrorEffect
<1>4. ASSUME NEW at \in {"failing", "error"}, Leaves(new, run[w], at) PROVE WorkOK(new, hunt, issued)
    BY <1>4, FreeOK DEF Leaves, LoopAt, AfterLoop, Copied, Extended
<1>5. ASSUME run[w].at \in {"checkpoint", "apply", "save"}, Stays(new, run[w], "abort")
      PROVE  WorkOK(new, hunt, issued)
    <2>1. run[w].at \in LoopAt \ {"scan"}
        BY <1>5 DEF LoopAt
    <2> QED BY <1>1, <1>5, <2>1, StaysTurns, TurnWork
<1> QED BY <1>2, <1>3, <1>4, <1>5, QuietStep

LEMMA LoadWork ==
    ASSUME SafeInv, NEW w \in Workers, LoadHunt(w) \/ Draft(w)
    PROVE  WorkInv'
<1>1. TypeOK /\ WorkOK(run[w], hunt, issued)
    BY DEF SafeInv, BaseInv
<1>2. hunt' = hunt /\ issued' = issued /\ Working(w)
    BY DEF LoadHunt, Draft, Working, local
<1>3. CASE LoadHunt(w)
    <2>1. PICK new \in Run :
             /\ run' = [run EXCEPT ![w] = new]
             /\ \/ new.at \in {"ok", "error", "draft", "publish"}
                \/ new.at = "scan" /\ new.pos = 1 /\ new.len = Len(hunt.results.ledger)
        BY <1>1, <1>3, LoadEffect DEF Stays
    <2>2. CASE new.at \in {"ok", "error", "draft", "publish"}
        <3>1. new.at \notin LoopAt \cup AfterLoop \cup {"fail_save"}
            BY <2>2 DEF LoopAt, AfterLoop, Copied, Extended
        <3>2. WorkOK(new, hunt, issued)
            BY <3>1, FreeOK
        <3> QED BY <1>2, <2>1, <3>2, QuietStep
    <2>3. CASE new.at = "scan" /\ new.pos = 1 /\ new.len = Len(hunt.results.ledger)
        <3>1. Len(hunt.results.ledger) \in Nat
            BY <1>1, RowTyped
        <3>2. InLoop(new, hunt.results.ledger)
            BY <2>3, <3>1 DEF InLoop
        <3>3. WorkOK(new, hunt, issued)
            BY <2>3, <3>2 DEF WorkOK, RunningOK, LoopAt, AfterLoop, Copied, Extended
        <3> QED BY <1>2, <2>1, <3>3, QuietStep
    <2> QED BY <2>1, <2>2, <2>3
<1>4. CASE Draft(w)
    <2>1. PICK new \in Run : run' = [run EXCEPT ![w] = new] /\ new.at = "start"
        BY <1>1, <1>4, DraftEffect
    <2>2. WorkOK(new, hunt, issued)
        BY <2>1, FreeOK DEF LoopAt, AfterLoop, Copied, Extended
    <2> QED BY <1>2, <2>1, <2>2, QuietStep
<1> QED BY <1>3, <1>4

LEMMA ScanWork ==
    ASSUME SafeInv, NEW w \in Workers, Scan(w)
    PROVE  WorkInv'
<1> DEFINE r == run[w]
<1> DEFINE L == hunt.results.ledger
<1>1. TypeOK /\ WorkOK(r, hunt, issued) /\ r.at = "scan" /\ r.pos # 0 /\ r.pos \in Nat /\ L \in Seq(Entry)
    BY WorkerTyped, RowTyped DEF SafeInv, BaseInv, WorkerOK, PlaceOK, LoopAt, Scan
<1>2. hunt' = hunt /\ issued' = issued /\ Working(w)
    BY DEF Scan, Working, local
<1>3. PICK new \in Run :
         /\ run' = [run EXCEPT ![w] = new]
         /\ \/ r.pos > r.len /\ \E at \in {"assess", "reserve"} : Leaves(new, r, at)
            \/ Leaves(new, r, "failing")
            \/ /\ r.pos <= r.len /\ r.pos <= Len(L) /\ L[r.pos].status \in Finished
               /\ new.at = "scan" /\ new.pos = r.pos + 1 /\ new.len = r.len
            \/ /\ r.pos <= r.len /\ r.pos <= Len(L) /\ L[r.pos].status \notin Finished
               /\ new.q = L[r.pos].id /\ new.pos = r.pos /\ new.len = r.len
               /\ new.at \in {"checkpoint", "submit", "poll"}
               /\ new.at = "checkpoint" => new.todo # "planned"
    <2>1. "planned" \notin {"skipped_time_cutoff", "skipped_budget"}
        OBVIOUS
    <2> QED BY <1>1, <2>1, ScanEffect
<1>4. CASE hunt.state # "running"
    <2>1. new.at # "fail_save"
        BY <1>3 DEF Leaves
    <2>2. WorkOK(new, hunt, issued)
        BY <1>4, <2>1 DEF WorkOK
    <2> QED BY <1>2, <1>3, <2>2, QuietStep
<1>5. CASE hunt.state = "running"
    <2>1. r.len = Len(L) /\ r.pos \in 1 .. Len(L) + 1 /\ \A i \in 1 .. r.pos - 1 : L[i].status \in Finished
        BY <1>1, <1>5 DEF WorkOK, RunningOK, InLoop, LoopAt
    <2>2. ASSUME NEW at \in {"assess", "reserve"}, Leaves(new, r, at), r.pos > r.len
          PROVE  WorkOK(new, hunt, issued)
        <3>1. \A i \in 1 .. Len(L) : L[i].status \in Finished
            BY <1>1, <2>1, <2>2
        <3>2. AllFinished(L)
            BY <1>1, <3>1 DEF AllFinished
        <3>3. new.at \in {"assess", "reserve"}
            BY <2>2 DEF Leaves
        <3>4. RunningOK(new, L, issued)
            BY <3>2, <3>3 DEF RunningOK, LoopAt, AfterLoop, Copied, Extended
        <3> QED BY <3>3, <3>4 DEF WorkOK
    <2>3. ASSUME Leaves(new, r, "failing") PROVE WorkOK(new, hunt, issued)
        BY <2>3, FreeOK DEF Leaves, LoopAt, AfterLoop, Copied, Extended
    <2>4. ASSUME r.pos <= Len(L), L[r.pos].status \in Finished,
                 new.at = "scan", new.pos = r.pos + 1, new.len = r.len
          PROVE  WorkOK(new, hunt, issued)
        <3>1. Len(L) \in Nat
            BY <1>1
        <3>2. \A i \in 1 .. r.pos : L[i].status \in Finished
            BY <1>1, <2>1, <2>4
        <3>3. new.pos - 1 = r.pos /\ new.pos \in 1 .. Len(L) + 1
            BY <1>1, <2>4, <3>1
        <3>4. InLoop(new, L)
            BY <2>1, <2>4, <3>2, <3>3 DEF InLoop
        <3>5. RunningOK(new, L, issued)
            BY <2>4, <3>4 DEF RunningOK, LoopAt, AfterLoop, Copied, Extended
        <3> QED BY <2>4, <3>5 DEF WorkOK
    <2>5. ASSUME r.pos <= Len(L), L[r.pos].status \notin Finished, new.q = L[r.pos].id, new.pos = r.pos,
                 new.len = r.len, new.at \in {"checkpoint", "submit", "poll"}, new.at = "checkpoint" => new.todo # "planned"
          PROVE  WorkOK(new, hunt, issued)
        <3>1. InLoop(new, L) /\ OnQuery(new, L)
            BY <2>1, <2>5 DEF InLoop, OnQuery
        <3>2. RunningOK(new, L, issued)
            BY <2>5, <3>1 DEF RunningOK, LoopAt, AfterLoop, Copied, Extended
        <3> QED BY <2>5, <3>2 DEF WorkOK
    <2>6. WorkOK(new, hunt, issued)
        BY <1>3, <2>2, <2>3, <2>4, <2>5
    <2> QED BY <1>2, <1>3, <2>6, QuietStep
<1> QED BY <1>4, <1>5

LEMMA SearchWork ==
    ASSUME SafeInv, NEW w \in Workers,
           \/ Submit(w) \/ Dispatch(w) \/ DispatchError(w) \/ PollError(w) \/ PollTimeout(w)
           \/ Retrieve(w) \/ Abort(w)
    PROVE  WorkInv'
<1> DEFINE r == run[w]
<1>1. TypeOK /\ WorkOK(r, hunt, issued)
    BY DEF SafeInv, BaseInv
<1>2. hunt' = hunt /\ issued' = issued /\ Working(w) /\ r.at \in LoopAt \ {"scan"}
    BY DEF Submit, Dispatch, DispatchError, PollError, PollTimeout, Retrieve, Abort, Working, local, LoopAt
<1>3. ASSUME NEW new \in Run, run' = [run EXCEPT ![w] = new],
             \/ new.at = "failing"
             \/ \E at \in {"dispatch", "abort", "checkpoint"}, todo \in Statuses :
                   Turns(new, r, at, todo) /\ (at = "checkpoint" => todo # "planned")
      PROVE  WorkInv'
    <2>1. ASSUME new.at = "failing" PROVE WorkOK(new, hunt, issued)
        BY <2>1, FreeOK DEF LoopAt, AfterLoop, Copied, Extended
    <2>2. ASSUME NEW at \in {"dispatch", "abort", "checkpoint"}, NEW todo \in Statuses,
                 Turns(new, r, at, todo), at = "checkpoint" => todo # "planned"
          PROVE  WorkOK(new, hunt, issued)
        BY <1>1, <1>2, <2>2, TurnWork
    <2>3. WorkOK(new, hunt, issued)
        BY <1>3, <2>1, <2>2
    <2> QED BY <1>2, <1>3, <2>3, QuietStep
<1>4. CASE Submit(w)
    <2>1. PICK new \in Run :
            /\ run' = [run EXCEPT ![w] = new]
            /\ \/ \E todo \in {"timed_out", "skipped_budget"} : Turns(new, r, "checkpoint", todo)
               \/ \E at \in {"failing", "dispatch"} : Turns(new, r, at, r.todo)
        BY <1>1, <1>4, SubmitEffect
    <2>2. r.todo \in Statuses /\ {"timed_out", "skipped_budget"} \subseteq Statuses
        BY <1>1, WorkerTyped, StatusNames
    <2>3. \/ new.at = "failing"
          \/ \E at \in {"dispatch", "abort", "checkpoint"}, todo \in Statuses :
                Turns(new, r, at, todo) /\ (at = "checkpoint" => todo # "planned")
        BY <2>1, <2>2 DEF Turns
    <2> QED BY <1>3, <2>1, <2>3
<1>5. CASE Dispatch(w) \/ DispatchError(w) \/ PollError(w) \/ PollTimeout(w)
    <2>1. PICK new \in Run :
            /\ run' = [run EXCEPT ![w] = new]
            /\ \/ \E at \in {"failing", "checkpoint"} : Turns(new, r, at, "submitted")
               \/ Leaves(new, r, "failing")
               \/ Turns(new, r, "checkpoint", "timed_out")
               \/ \E todo \in {"planned", "timed_out"} : Turns(new, r, "abort", todo)
        BY <1>1, <1>5, SearchEffect
    <2>2. {"timed_out", "planned", "submitted"} \subseteq Statuses
        BY StatusNames
    <2>3. \/ new.at = "failing"
          \/ \E at \in {"dispatch", "abort", "checkpoint"}, todo \in Statuses :
                Turns(new, r, at, todo) /\ (at = "checkpoint" => todo # "planned")
        BY <2>1, <2>2 DEF Turns, Leaves
    <2> QED BY <1>3, <2>1, <2>3
<1>6. CASE Retrieve(w)
    <2>1. PICK new \in Run : run' = [run EXCEPT ![w] = new] /\ Turns(new, r, "checkpoint", "completed")
        BY <1>1, <1>6, RetrieveEffect
    <2>2. "completed" \in Statuses
        BY StatusNames
    <2> QED BY <1>3, <2>1, <2>2
<1>7. CASE Abort(w)
    <2>1. PICK new \in Run : /\ run' = [run EXCEPT ![w] = new]
                             /\ \/ r.todo = "timed_out" /\ Stays(new, r, "checkpoint")
                                \/ Leaves(new, r, "failing")
        BY <1>1, <1>7, AbortEffect
    <2>2. "timed_out" \in Statuses
        BY StatusNames
    <2>3. new.at = "failing" \/ Turns(new, r, "checkpoint", "timed_out")
        BY <2>1, StaysTurns DEF Leaves
    <2> QED BY <1>3, <2>1, <2>2, <2>3
<1> QED BY <1>4, <1>5, <1>6, <1>7

LEMMA ApplyWork ==
    ASSUME SafeInv, NEW w \in Workers, Apply(w)
    PROVE  WorkInv'
<1> DEFINE r == run[w]
<1> DEFINE L == hunt.results.ledger
<1> DEFINE doc == Checkpointed(hunt.results, r.q, r.todo, r.rows, r.usage)
<1>1. TypeOK /\ WorkOK(r, hunt, issued) /\ LedgerOK(hunt, issued) /\ L \in Seq(Entry)
    BY RowTyped DEF SafeInv, BaseInv
<1>2. hunt' = hunt /\ issued' = issued /\ Working(w) /\ r.at = "apply"
    BY DEF Apply, Working, local
<1>3. doc.ledger = Marked(L, r.q, r.todo)
    BY <1>1, WorkerTyped, RowTyped, CheckpointTyped
<1>4. PICK new \in Run :
        /\ run' = [run EXCEPT ![w] = new]
        /\ \/ Applicable(L, r.q, r.todo) /\ Edits(new, r, "save", doc)
           \/ Leaves(new, r, "failing")
           \/ r.todo = "submitted" /\ Stays(new, r, "abort")
    BY <1>1, ApplyEffect
<1> HIDE DEF doc
<1>5. ASSUME Applicable(L, r.q, r.todo), Edits(new, r, "save", doc) PROVE WorkOK(new, hunt, issued)
    <2>1. new.at = "save" /\ new.todo = r.todo /\ new.q = r.q /\ new.pos = r.pos /\ new.len = r.len /\ new.mem = doc
        BY <1>5 DEF Edits
    <2>2. ASSUME hunt.state = "running" PROVE RunningOK(new, L, issued)
        <3>1. InLoop(r, L) /\ OnQuery(r, L) /\ r.todo # "planned"
            BY <1>1, <1>2, <2>2 DEF WorkOK, RunningOK, LoopAt
        <3>2. InLoop(new, L) /\ OnQuery(new, L)
            BY <2>1, <3>1 DEF InLoop, OnQuery
        <3>3. ASSUME r.todo = "submitted" PROVE L[r.pos].status = "planned"
            <4>1. PICK i \in DOMAIN L : L[i].id = r.q /\ L[i].status = "planned"
                BY <1>5, <3>3 DEF Applicable, Entries
            <4>2. r.pos \in DOMAIN L /\ L[r.pos].id = r.q
                BY <1>1, <3>1 DEF InLoop, OnQuery
            <4>3. i = r.pos
                BY <1>1, <4>1, <4>2 DEF LedgerOK, Distinct
            <4> QED BY <4>1, <4>3
        <3> QED BY <1>3, <2>1, <3>1, <3>2, <3>3 DEF RunningOK, LoopAt, AfterLoop, Copied, Extended
    <2> QED BY <2>1, <2>2 DEF WorkOK
<1>6. ASSUME Leaves(new, r, "failing") PROVE WorkOK(new, hunt, issued)
    BY <1>6, FreeOK DEF Leaves, LoopAt, AfterLoop, Copied, Extended
<1>7. ASSUME Stays(new, r, "abort") PROVE WorkOK(new, hunt, issued)
    <2>1. r.at \in LoopAt \ {"scan"}
        BY <1>2 DEF LoopAt
    <2> QED BY <1>1, <1>7, <2>1, StaysTurns, TurnWork
<1>8. WorkOK(new, hunt, issued)
    BY <1>4, <1>5, <1>6, <1>7
<1> QED BY <1>2, <1>4, <1>8, QuietStep

LEMMA RoundWork ==
    ASSUME SafeInv, NEW w \in Workers,
           \/ AssessRead(w) \/ SynthRead(w) \/ ReserveRead(w)
           \/ NoRound(w) \/ AssessResults(w) \/ DecideNothing(w) \/ Answer(w) \/ StopRounds(w)
           \/ FailRead(w) \/ Raise(w)
    PROVE  WorkInv'
<1> DEFINE r == run[w]
<1> DEFINE L == hunt.results.ledger
<1>1. TypeOK /\ WorkOK(r, hunt, issued)
    BY DEF SafeInv, BaseInv
<1>2. hunt' = hunt /\ issued' = issued /\ Working(w)
    BY DEF AssessRead, SynthRead, ReserveRead, NoRound, AssessResults, DecideNothing, Answer, StopRounds,
           FailRead, Raise, Working, local
<1>3. CASE AssessRead(w) \/ SynthRead(w) \/ ReserveRead(w)
    <2>1. r.at \in {"assess_read", "synth_read", "reserve_read"}
        BY <1>3 DEF AssessRead, SynthRead, ReserveRead
    <2>2. PICK new \in Run, mem \in Results,
               at \in {"reserve", "synth", "round", "advance", "answering", "reserve_save"} :
             /\ run' = [run EXCEPT ![w] = new]
             /\ Edits(new, r, at, mem) /\ Copies(mem, hunt.results)
        BY <1>1, <1>3, ReadEffect
    <2>3. new.at = at /\ new.mem.ledger = L
        BY <2>2 DEF Edits, Copies
    <2>4. ASSUME hunt.state = "running" PROVE RunningOK(new, L, issued)
        <3>1. AllFinished(L)
            BY <1>1, <2>1, <2>4 DEF WorkOK, RunningOK, AfterLoop
        <3> QED BY <2>3, <3>1 DEF RunningOK, LoopAt, AfterLoop, Copied, Extended
    <2>5. WorkOK(new, hunt, issued)
        BY <2>3, <2>4 DEF WorkOK
    <2> QED BY <1>2, <2>2, <2>5, QuietStep
<1>4. CASE NoRound(w) \/ AssessResults(w) \/ DecideNothing(w) \/ Answer(w) \/ StopRounds(w)
    <2>1. r.at \in {"round", "decide", "answering"}
        BY <1>4 DEF NoRound, AssessResults, DecideNothing, Answer, StopRounds
    <2>2. PICK new \in Run, mem \in Results, at \in {"round_save", "interim_save", "answer", "reserve"} :
             /\ run' = [run EXCEPT ![w] = new] /\ Edits(new, r, at, mem)
             /\ Copies(mem, r.mem)
        BY <1>1, <1>4, KeepEffect
    <2>3. new.at = at /\ new.mem.ledger = r.mem.ledger
        BY <2>2 DEF Edits, Copies
    <2>4. r.at \in AfterLoop /\ r.at \in Copied /\ at \in AfterLoop
        BY <2>1 DEF AfterLoop, Copied, Extended
    <2>5. WorkOK(new, hunt, issued)
        BY <1>1, <2>3, <2>4, KeepWork
    <2> QED BY <1>2, <2>2, <2>5, QuietStep
<1>5. CASE FailRead(w)
    <2>1. PICK new \in Run :
             /\ run' = [run EXCEPT ![w] = new]
             /\ \/ new.at = "fail_save" /\ Copies(new.mem, hunt.results)
                \/ Leaves(new, r, "error")
        BY <1>1, <1>5, FailReadEffect
    <2>2. ASSUME new.at = "fail_save", Copies(new.mem, hunt.results) PROVE WorkOK(new, hunt, issued)
        BY <2>2 DEF WorkOK, Copies, RunningOK, LoopAt, AfterLoop, Copied, Extended
    <2>3. ASSUME Leaves(new, r, "error") PROVE WorkOK(new, hunt, issued)
        BY <2>3, FreeOK DEF Leaves, LoopAt, AfterLoop, Copied, Extended
    <2> QED BY <1>2, <2>1, <2>2, <2>3, QuietStep
<1>6. CASE Raise(w)
    <2>1. Goto(w, "failing") /\ "failing" \in Points /\ "failing" \in Exits
        BY <1>6, PointNames DEF Raise, Exits
    <2>2. PICK new \in Run : run' = [run EXCEPT ![w] = new] /\ Leaves(new, r, "failing")
        BY <1>1, <2>1, GotoEffect
    <2>3. WorkOK(new, hunt, issued)
        BY <2>2, FreeOK DEF Leaves, LoopAt, AfterLoop, Copied, Extended
    <2> QED BY <1>2, <2>2, <2>3, QuietStep
<1> QED BY <1>3, <1>4, <1>5, <1>6

\* A new query has an id that no entry has.
LEMMA OneMoreOK ==
    ASSUME NEW L \in Seq(Entry), NEW n \in Nat, \A i \in DOMAIN L : L[i].id <= n, n + 1 \in Queries
    PROVE  OneMore(L, Append(L, [id |-> n + 1, status |-> "planned"]), n + 1)
<1>1. \A i \in DOMAIN L : L[i] \in Entry
    OBVIOUS
<1>2. \A i \in DOMAIN L : L[i].id \in Nat
    BY <1>1 DEF Entry, Queries
<1>3. \A i \in DOMAIN L : L[i].id < n + 1
    BY <1>2
<1> QED BY <1>3 DEF OneMore

LEMMA PlanWork ==
    ASSUME SafeInv, NEW w \in Workers, CoverSources(w) \/ DecideFollowUp(w)
    PROVE  WorkInv'
<1> DEFINE r == run[w]
<1> DEFINE L == hunt.results.ledger
<1>1. TypeOK /\ WorkOK(r, hunt, issued) /\ LedgerOK(hunt, issued) /\ L \in Seq(Entry) /\ issued \in Nat
    BY RowTyped, LimitsAreNumbers DEF SafeInv, BaseInv, TypeOK
<1>2. hunt' = hunt /\ Working(w) /\ r.at \in {"round", "decide"}
    BY DEF CoverSources, DecideFollowUp, Working
<1>3. PICK new \in Run, mem \in Results :
         /\ run' = [run EXCEPT ![w] = new]
         /\ \/ /\ issued < MaxIssued /\ issued' = issued + 1
               /\ \E doc \in Results :
                    /\ \/ CoverSources(w) /\ doc = r.mem /\ Edits(new, r, "cover", mem)
                       \/ DecideFollowUp(w) /\ doc = hunt.results /\ Edits(new, r, "round_save", mem)
                    /\ mem.ledger = Append(doc.ledger, [id |-> issued + 1, status |-> "planned"])
                    /\ mem.queries = doc.queries
               /\ DecideFollowUp(w) => ~mem.adaptiveComplete
            \/ /\ issued' = issued /\ DecideFollowUp(w)
               /\ Edits(new, r, "round_save", mem) /\ Copies(mem, hunt.results)
    BY <1>1, PlanEffect
<1>4. issued' \in Nat /\ issued' >= issued
    BY <1>1, <1>3
<1>5. LedgerOK(hunt', issued')
    <2>1. \A i \in DOMAIN L : L[i] \in Entry
        BY <1>1
    <2>2. \A i \in DOMAIN L : L[i].id \in Nat /\ L[i].id <= issued
        BY <1>1, <2>1 DEF Entry, Queries, LedgerOK
    <2>3. \A i \in DOMAIN L : L[i].id <= issued'
        BY <1>1, <1>4, <2>2
    <2> QED BY <1>1, <1>2, <2>3 DEF LedgerOK
<1>6. new.at \in {"cover", "round_save"} /\ new.mem = mem
    BY <1>3 DEF Edits
<1>7. ASSUME hunt.state = "running" PROVE RunningOK(new, L, issued')
    <2>1. AllFinished(L) /\ r.mem.ledger = L
        BY <1>1, <1>2, <1>7 DEF WorkOK, RunningOK, AfterLoop, Copied
    <2>2. CASE issued' = issued /\ Copies(mem, hunt.results)
        BY <1>6, <2>1, <2>2 DEF Copies, RunningOK, LoopAt, AfterLoop, Copied, Extended
    <2>3. CASE issued < MaxIssued /\ issued' = issued + 1 /\ ~(Copies(mem, hunt.results) /\ issued' = issued)
        <3>1. mem.ledger = Append(L, [id |-> issued + 1, status |-> "planned"])
            BY <1>3, <2>1, <2>3
        <3>2. issued + 1 \in Queries
            BY <1>1, <2>3, LimitsAreNumbers DEF Queries
        <3>3. OneMore(L, mem.ledger, issued')
            BY <1>1, <2>3, <3>1, <3>2, OneMoreOK DEF LedgerOK
        <3>4. new.at = "round_save" => ~mem.adaptiveComplete
            BY <1>3, <2>3 DEF Edits
        <3> QED BY <1>6, <2>1, <3>3, <3>4 DEF RunningOK, LoopAt, AfterLoop, Copied, Extended
    <2> QED BY <1>3, <2>2, <2>3
<1>8. WorkOK(new, hunt', issued')
    BY <1>2, <1>6, <1>7 DEF WorkOK
<1> QED BY <1>2, <1>3, <1>4, <1>5, <1>8, WorkStep

\* What one write makes of the row's ledger.
LEMMA MarkedLedger ==
    ASSUME NEW L \in Seq(Entry), Distinct(L), NEW pos \in DOMAIN L, NEW status \in Statuses
    PROVE  LET M == Marked(L, L[pos].id, status) IN
           /\ M \in Seq(Entry) /\ Len(M) = Len(L) /\ DOMAIN M = DOMAIN L /\ Distinct(M)
           /\ M[pos].id = L[pos].id /\ M[pos].status = status
           /\ \A i \in DOMAIN L : M[i].id = L[i].id /\ (i # pos => M[i] = L[i])
<1> DEFINE M == Marked(L, L[pos].id, status)
<1>1. /\ M \in Seq(Entry) /\ Len(M) = Len(L) /\ DOMAIN M = DOMAIN L
      /\ \A i \in DOMAIN L : /\ M[i].id = L[i].id
                             /\ L[i].id = L[pos].id => M[i].status = status
                             /\ L[i].id # L[pos].id => M[i] = L[i]
    BY MarkedTyped
<1> HIDE DEF M
<1>2. \A i \in DOMAIN L : i # pos => M[i] = L[i]
    BY <1>1 DEF Distinct
<1>3. Distinct(M)
    BY <1>1 DEF Distinct
<1>4. M[pos].id = L[pos].id /\ M[pos].status = status
    BY <1>1
<1> QED BY <1>1, <1>2, <1>3, <1>4 DEF M

LEMMA ExtendedLedger ==
    ASSUME NEW L \in Seq(Entry), Distinct(L), NEW n \in Nat, \A i \in DOMAIN L : L[i].id <= n,
           NEW M, OneMore(L, M, n)
    PROVE  /\ Distinct(M) /\ \A i \in DOMAIN M : M[i].id <= n
           /\ \A i \in DOMAIN L : i \in DOMAIN M /\ M[i] = L[i]
<1>1. PICK q \in Queries : /\ q <= n /\ \A i \in DOMAIN L : L[i].id < q
                           /\ M = Append(L, [id |-> q, status |-> "planned"])
    BY DEF OneMore
<1>2. /\ DOMAIN L = 1 .. Len(L) /\ Len(L) \in Nat /\ DOMAIN M = 1 .. Len(L) + 1
      /\ \A i \in DOMAIN L : M[i] = L[i]
      /\ M[Len(L) + 1] = [id |-> q, status |-> "planned"]
    BY <1>1
<1>3. \A i \in DOMAIN M : i \in DOMAIN L \/ i = Len(L) + 1
    BY <1>2
<1>4. \A i \in DOMAIN L : L[i].id \in Nat /\ L[i].id # q
    <2>1. \A i \in DOMAIN L : L[i] \in Entry
        OBVIOUS
    <2>2. \A i \in DOMAIN L : L[i].id \in Nat
        BY <2>1 DEF Entry, Queries
    <2> QED BY <1>1, <2>2 DEF Queries
<1>5. \A i \in DOMAIN M : M[i].id <= n
    BY <1>1, <1>2, <1>3
<1>6. Distinct(M)
    <2>1. ASSUME NEW i \in DOMAIN M, NEW j \in DOMAIN M, M[i].id = M[j].id PROVE i = j
        <3>1. CASE i \in DOMAIN L /\ j \in DOMAIN L
            BY <1>2, <2>1, <3>1 DEF Distinct
        <3>2. CASE i \in DOMAIN L /\ j = Len(L) + 1
            BY <1>2, <1>4, <2>1, <3>2
        <3>3. CASE i = Len(L) + 1 /\ j \in DOMAIN L
            BY <1>2, <1>4, <2>1, <3>3
        <3> QED BY <1>3, <3>1, <3>2, <3>3
    <2> QED BY <2>1 DEF Distinct
<1> QED BY <1>2, <1>5, <1>6

\* What a worker may write over a running hunt's ledger.
LEMMA Written ==
    ASSUME SafeInv, NEW w \in Workers, run[w].at \in SavePoints, hunt.state = "running"
    PROVE  LET r == run[w]
               L == hunt.results.ledger
               M == r.mem.ledger
           IN \/ /\ r.at = "save" /\ r.pos \in DOMAIN L /\ L[r.pos].id = r.q /\ L[r.pos].status \notin Finished
                 /\ r.todo # "planned" /\ M = Marked(L, L[r.pos].id, r.todo)
                 /\ r.todo = "submitted" => L[r.pos].status = "planned"
                 /\ InLoop(r, L)
              \/ r.at # "save" /\ AllFinished(L) /\ M = L
              \/ /\ r.at = "cover_save" \/ (r.at = "round_save" /\ ~r.mem.adaptiveComplete)
                 /\ OneMore(L, M, issued)
<1> DEFINE r == run[w]
<1> DEFINE L == hunt.results.ledger
<1>1. WorkOK(r, hunt, issued) /\ L \in Seq(Entry) /\ RunningOK(r, L, issued)
    BY RowTyped DEF SafeInv, BaseInv, WorkOK
<1>2. CASE r.at = "save"
    <2>1. /\ InLoop(r, L) /\ OnQuery(r, L) /\ r.todo # "planned" /\ r.mem.ledger = Marked(L, r.q, r.todo)
          /\ r.todo = "submitted" => L[r.pos].status = "planned"
        BY <1>1, <1>2 DEF RunningOK, LoopAt
    <2>2. r.pos \in DOMAIN L
        BY <1>1, <2>1 DEF InLoop, OnQuery
    <2> QED BY <1>2, <2>1, <2>2 DEF OnQuery
<1>3. CASE r.at \in {"cover_save", "round_save"}
    <2>1. /\ (AllFinished(L) /\ r.mem.ledger = L) \/ OneMore(L, r.mem.ledger, issued)
          /\ (r.at = "round_save" /\ r.mem.adaptiveComplete) => r.mem.ledger = L
          /\ AllFinished(L)
        BY <1>1, <1>3 DEF RunningOK, AfterLoop, Extended
    <2> QED BY <1>3, <2>1
<1>4. CASE r.at \in {"interim_save", "reserve_save", "answer_save"}
    <2>1. AllFinished(L) /\ r.mem.ledger = L
        BY <1>1, <1>4 DEF RunningOK, AfterLoop, Copied
    <2> QED BY <1>4, <2>1
<1> QED BY <1>2, <1>3, <1>4 DEF SavePoints

LEMMA SaveWork ==
    ASSUME SafeInv, NEW w \in Workers, Save(w)
    PROVE  WorkInv'
<1> DEFINE r == run[w]
<1> DEFINE L == hunt.results.ledger
<1> DEFINE M == r.mem.ledger
<1>1. /\ TypeOK /\ WorkOK(r, hunt, issued) /\ LedgerOK(hunt, issued) /\ L \in Seq(Entry) /\ issued \in Nat
      /\ r.mem \in Results /\ r.todo \in Statuses /\ r.pos \in Nat
    BY RowTyped, WorkerTyped, LimitsAreNumbers DEF SafeInv, BaseInv, TypeOK
<1>2. issued' = issued /\ Working(w) /\ r.at \in SavePoints
    BY DEF Save, Working
<1>3. CASE hunt.state # "running"
    <2>1. PICK new \in Run :
            /\ run' = [run EXCEPT ![w] = new] /\ hunt' = hunt
            /\ Leaves(new, r, "failing") \/ Stays(new, r, "abort")
        BY <1>1, <1>3, SaveEffect
    <2>2. new.at # "fail_save"
        BY <2>1 DEF Leaves, Stays
    <2>3. WorkOK(new, hunt, issued)
        BY <1>3, <2>2 DEF WorkOK
    <2> QED BY <1>2, <2>1, <2>3, QuietStep
<1>4. CASE hunt.state = "running"
    <2>1. PICK new \in Run :
            /\ run' = [run EXCEPT ![w] = new]
            /\ hunt' = [hunt EXCEPT !.results = r.mem]
            /\ \/ /\ r.at = "save" /\ r.todo = "submitted" /\ new.at = "poll" /\ new.pos = r.pos
                  /\ new.len = r.len /\ new.q = r.q
               \/ /\ r.at = "save" /\ r.todo # "submitted" /\ new.at = "scan" /\ new.pos = r.pos + 1
                  /\ new.len = r.len
               \/ /\ r.at = "cover_save" \/ (r.at = "round_save" /\ ~r.mem.adaptiveComplete)
                  /\ new.at = "load"
               \/ r.at = "interim_save" /\ Stays(new, r, "decide")
               \/ /\ r.at = "round_save" /\ r.mem.adaptiveComplete
                  /\ \E at \in {"reserve", "synth"} : Stays(new, r, at)
               \/ r.at = "reserve_save" /\ Stays(new, r, "synth")
               \/ r.at = "answer_save" /\ Stays(new, r, "advance")
        BY <1>1, <1>4, SaveEffect
    <2>2. hunt'.state = "running" /\ hunt'.results = r.mem
        BY <1>1, <1>4, <2>1, RowWritten, RowTyped
    <2>3. \/ /\ r.at = "save" /\ r.pos \in DOMAIN L /\ L[r.pos].id = r.q /\ L[r.pos].status \notin Finished
             /\ r.todo # "planned" /\ M = Marked(L, L[r.pos].id, r.todo)
             /\ r.todo = "submitted" => L[r.pos].status = "planned"
             /\ InLoop(r, L)
          \/ r.at # "save" /\ AllFinished(L) /\ M = L
          \/ /\ r.at = "cover_save" \/ (r.at = "round_save" /\ ~r.mem.adaptiveComplete)
             /\ OneMore(L, M, issued)
        BY <1>2, <1>4, Written
    <2>4. CASE r.at = "save"
        <3>0. /\ r.pos \in DOMAIN L /\ L[r.pos].id = r.q /\ r.todo # "planned" /\ M = Marked(L, L[r.pos].id, r.todo)
              /\ InLoop(r, L)
            BY <2>3, <2>4
        <3>1. /\ M \in Seq(Entry) /\ Len(M) = Len(L) /\ DOMAIN M = DOMAIN L /\ Distinct(M)
              /\ M[r.pos].id = L[r.pos].id /\ M[r.pos].status = r.todo
              /\ \A i \in DOMAIN L : M[i].id = L[i].id /\ (i # r.pos => M[i] = L[i])
            <4>1. L \in Seq(Entry) /\ Distinct(L) /\ r.pos \in DOMAIN L /\ r.todo \in Statuses
                BY <1>1, <3>0 DEF LedgerOK
            <4> HIDE DEF L, r, M
            <4>2. LET K == Marked(L, L[r.pos].id, r.todo) IN
                  /\ K \in Seq(Entry) /\ Len(K) = Len(L) /\ DOMAIN K = DOMAIN L /\ Distinct(K)
                  /\ K[r.pos].id = L[r.pos].id /\ K[r.pos].status = r.todo
                  /\ \A i \in DOMAIN L : K[i].id = L[i].id /\ (i # r.pos => K[i] = L[i])
                BY <4>1, MarkedLedger
            <4> QED BY <3>0, <4>2
        <3> HIDE DEF M
        <3>2. LedgerOK(hunt', issued')
            BY <1>1, <1>2, <2>2, <3>1 DEF LedgerOK, M
        <3>3. r.pos \in 1 .. Len(L) /\ Len(L) \in Nat /\ DOMAIN L = 1 .. Len(L)
            BY <1>1, <3>0
        <3>4. \A i \in 1 .. r.pos - 1 : i \in DOMAIN L /\ M[i] = L[i] /\ M[i].status \in Finished
            BY <3>0, <3>1, <3>3 DEF InLoop
        <3>5. CASE r.todo = "submitted"
            <4>1. new.at = "poll" /\ new.pos = r.pos /\ new.len = r.len /\ new.q = r.q
                BY <2>1, <2>4, <3>5
            <4>2. new.len = Len(M) /\ new.pos \in 1 .. Len(M) + 1 /\ new.pos <= Len(M)
                BY <3>0, <3>1, <3>3, <4>1 DEF InLoop
            <4>3. InLoop(new, M)
                BY <3>4, <4>1, <4>2 DEF InLoop
            <4>4. OnQuery(new, M)
                BY <3>0, <3>1, <3>5, <4>1, <4>2 DEF OnQuery, Finished
            <4>5. RunningOK(new, M, issued)
                BY <4>1, <4>3, <4>4 DEF RunningOK, LoopAt, AfterLoop, Copied, Extended
            <4>6. WorkOK(new, hunt', issued')
                BY <1>2, <2>2, <4>1, <4>5 DEF WorkOK, M
            <4> QED BY <1>2, <1>4, <2>1, <3>2, <4>6, WorkStep
        <3>6. CASE r.todo # "submitted"
            <4>1. new.at = "scan" /\ new.pos = r.pos + 1 /\ new.len = r.len
                BY <2>1, <2>4, <3>6
            <4>2. r.todo \in Finished
                BY <1>1, <3>0, <3>6 DEF Statuses
            <4>3. new.len = Len(M) /\ new.pos \in 1 .. Len(M) + 1 /\ new.pos - 1 = r.pos
                BY <3>0, <3>1, <3>3, <4>1 DEF InLoop
            <4>4. \A i \in 1 .. r.pos : M[i].status \in Finished
                <5>1. \A i \in 1 .. r.pos : i = r.pos \/ i \in 1 .. r.pos - 1
                    BY <3>3
                <5> QED BY <3>1, <3>4, <4>2, <5>1
            <4>5. InLoop(new, M)
                BY <4>3, <4>4 DEF InLoop
            <4>6. RunningOK(new, M, issued)
                BY <4>1, <4>5 DEF RunningOK, LoopAt, AfterLoop, Copied, Extended
            <4>7. WorkOK(new, hunt', issued')
                BY <1>2, <2>2, <4>1, <4>6 DEF WorkOK, M
            <4> QED BY <1>2, <1>4, <2>1, <3>2, <4>7, WorkStep
        <3> QED BY <3>5, <3>6
    <2>5. CASE r.at # "save" /\ AllFinished(L) /\ M = L
        <3>1. LedgerOK(hunt', issued')
            BY <1>1, <1>2, <2>2, <2>5 DEF LedgerOK
        <3>2. new.at \in {"load", "decide", "reserve", "synth", "advance"}
            BY <2>1, <2>5 DEF Stays
        <3>3. new.at \in {"decide", "advance"} => new.mem.ledger = L
            BY <2>1, <2>5 DEF Stays
        <3>4. RunningOK(new, L, issued)
            BY <2>5, <3>2, <3>3 DEF RunningOK, LoopAt, AfterLoop, Copied, Extended
        <3>5. WorkOK(new, hunt', issued')
            BY <1>2, <2>2, <2>5, <3>2, <3>4 DEF WorkOK
        <3> QED BY <1>2, <1>4, <2>1, <3>1, <3>5, WorkStep
    <2>6. CASE /\ r.at = "cover_save" \/ (r.at = "round_save" /\ ~r.mem.adaptiveComplete)
               /\ OneMore(L, M, issued)
        <3>1. Distinct(M) /\ \A i \in DOMAIN M : M[i].id <= issued
            BY <1>1, <2>6, ExtendedLedger DEF LedgerOK
        <3>2. LedgerOK(hunt', issued')
            BY <1>2, <2>2, <3>1 DEF LedgerOK
        <3>3. new.at = "load"
            BY <2>1, <2>6
        <3>4. WorkOK(new, hunt', issued')
            BY <3>3, FreeOK DEF LoopAt, AfterLoop, Copied, Extended
        <3> QED BY <1>2, <1>4, <2>1, <3>2, <3>4, WorkStep
    <2> QED BY <2>3, <2>4, <2>5, <2>6
<1> QED BY <1>3, <1>4

LEMMA FailingWork ==
    ASSUME SafeInv, NEW w \in Workers, Working(w), Goto(w, "failing"), hunt' = hunt, issued' = issued
    PROVE  WorkInv'
<1>1. TypeOK /\ "failing" \in Points /\ "failing" \in Exits
    BY PointNames DEF SafeInv, BaseInv, Exits
<1>2. PICK new \in Run : run' = [run EXCEPT ![w] = new] /\ Leaves(new, run[w], "failing")
    BY <1>1, GotoEffect
<1>3. WorkOK(new, hunt, issued)
    BY <1>2, FreeOK DEF Leaves, LoopAt, AfterLoop, Copied, Extended
<1> QED BY <1>2, <1>3, QuietStep

LEMMA WriteWork ==
    ASSUME SafeInv, NEW w \in Workers, StartRunning(w) \/ StartSynthesis(w) \/ PublishReport(w) \/ FailSave(w)
    PROVE  WorkInv'
<1> DEFINE r == run[w]
<1> DEFINE L == hunt.results.ledger
<1>1. /\ TypeOK /\ WorkOK(r, hunt, issued) /\ LedgerOK(hunt, issued) /\ WorkerOK(r, hunt)
      /\ r.mem \in Results /\ r.mem.queries \in Records /\ NoRecords \in Records /\ hunt.results \in Results
      /\ {"running", "synthesizing", "report_draft", "failed"} \subseteq HuntStates
    BY RowTyped, WorkerTyped, Constants DEF SafeInv, BaseInv, HuntStates, Active
<1>2. Working(w)
    BY DEF Working
<1>3. CASE StartRunning(w)
    <2>1. CASE hunt.state # "queued"
        BY <1>2, <1>3, <2>1, FailingWork DEF StartRunning
    <2>2. CASE hunt.state = "queued"
        <3>1. PICK new \in Run :
                /\ run' = [run EXCEPT ![w] = new] /\ new.at = "scan" /\ new.pos = 1
                /\ new.len = Len(r.mem.ledger)
                /\ hunt' = [hunt EXCEPT !.state = "running", !.results = r.mem]
                /\ issued' = Len(r.mem.ledger)
            BY <1>1, <1>3, <2>2, StartEffect
        <3>2. hunt'.results = r.mem /\ hunt'.state = "running"
            BY <1>1, <3>1, RowWritten
        <3>3. FirstDraft(r.mem.ledger)
            BY <1>1, <1>3 DEF WorkerOK, PlaceOK, StartRunning
        <3>4. /\ r.mem.ledger \in Seq(Entry) /\ Len(r.mem.ledger) \in Nat
              /\ \A i \in DOMAIN r.mem.ledger : r.mem.ledger[i].id = i /\ i \in 1 .. Len(r.mem.ledger)
            BY <3>3, PlansOK, LimitsAreNumbers
        <3>5. Distinct(r.mem.ledger) /\ \A i \in DOMAIN r.mem.ledger : r.mem.ledger[i].id <= Len(r.mem.ledger)
            BY <3>4 DEF Distinct
        <3>6. LedgerOK(hunt', issued')
            BY <3>1, <3>2, <3>5 DEF LedgerOK
        <3>7. InLoop(new, r.mem.ledger)
            BY <3>1, <3>4 DEF InLoop
        <3>8. WorkOK(new, hunt', issued')
            BY <3>1, <3>2, <3>7 DEF WorkOK, RunningOK, LoopAt, AfterLoop, Copied, Extended
        <3> QED BY <1>2, <2>2, <3>1, <3>6, <3>8, WorkStep
    <2> QED BY <2>1, <2>2
<1>4. CASE StartSynthesis(w)
    <2>0. issued' = issued /\ r.at = "advance"
        BY <1>4 DEF StartSynthesis
    <2>1. CASE hunt.state # "running"
        BY <1>2, <1>4, <2>0, <2>1, FailingWork DEF StartSynthesis
    <2>2. CASE hunt.state = "running"
        <3>1. /\ hunt' = [hunt EXCEPT !.state = "synthesizing", !.results = r.mem]
              /\ Goto(w, "publish") /\ "publish" \in Points /\ "publish" \notin Exits
            BY <1>4, <2>2, PointNames DEF StartSynthesis, Exits
        <3>2. hunt'.results = r.mem /\ hunt'.state = "synthesizing"
            BY <1>1, <3>1, RowWritten
        <3>3. PICK new \in Run : run' = [run EXCEPT ![w] = new] /\ Stays(new, r, "publish")
            BY <1>1, <3>1, GotoEffect
        <3>4. AllFinished(L) /\ r.mem.ledger = L
            BY <1>1, <2>0, <2>2 DEF WorkOK, RunningOK, AfterLoop, Copied
        <3>5. LedgerOK(hunt', issued')
            BY <1>1, <2>0, <3>2, <3>4 DEF LedgerOK
        <3>6. WorkOK(new, hunt', issued')
            BY <3>3, FreeOK DEF Stays, LoopAt, AfterLoop, Copied, Extended
        <3> QED BY <1>2, <2>2, <3>3, <3>5, <3>6, WorkStep
    <2> QED BY <2>1, <2>2
<1>5. CASE PublishReport(w)
    <2>0. issued' = issued
        BY <1>5 DEF PublishReport
    <2>1. CASE hunt.state # "synthesizing"
        BY <1>2, <1>5, <2>0, <2>1, FailingWork DEF PublishReport
    <2>2. CASE hunt.state = "synthesizing"
        <3>1. /\ hunt' = [hunt EXCEPT !.state = "report_draft", !.report = r.mem.queries]
              /\ Goto(w, "ok") /\ "ok" \in Points /\ "ok" \in Exits
            BY <1>5, <2>2, PointNames DEF PublishReport, Exits
        <3>2. hunt'.results = hunt.results /\ hunt'.state = "report_draft"
            BY <1>1, <3>1, RowWritten
        <3>3. PICK new \in Run : run' = [run EXCEPT ![w] = new] /\ Leaves(new, r, "ok")
            BY <1>1, <3>1, GotoEffect
        <3>4. LedgerOK(hunt', issued')
            BY <1>1, <2>0, <2>2, <3>2 DEF LedgerOK
        <3>5. WorkOK(new, hunt', issued')
            BY <3>3, FreeOK DEF Leaves, LoopAt, AfterLoop, Copied, Extended
        <3> QED BY <1>2, <2>2, <3>3, <3>4, <3>5, WorkStep
    <2> QED BY <2>1, <2>2
<1>6. CASE FailSave(w)
    <2>0. /\ issued' = issued /\ r.at = "fail_save" /\ issued \in Nat
          /\ Goto(w, "error") /\ "error" \in Points /\ "error" \in Exits
        BY <1>1, <1>6, PointNames, LimitsAreNumbers DEF FailSave, TypeOK, Exits
    <2>1. PICK new \in Run : run' = [run EXCEPT ![w] = new] /\ Leaves(new, r, "error")
        BY <1>1, <2>0, GotoEffect
    <2>2. WorkOK(new, hunt', issued')
        BY <2>1, FreeOK DEF Leaves, LoopAt, AfterLoop, Copied, Extended
    <2>3. CASE hunt' = hunt
        BY <1>2, <2>0, <2>1, <2>2, <2>3, QuietStep
    <2>4. CASE hunt' = [hunt EXCEPT !.state = "failed", !.results = r.mem] /\ hunt.state = r.seen
        <3>1. hunt.state # "cancelled"
            BY <1>1, <2>4, WorkerTyped DEF Active
        <3>2. r.mem.ledger = L
            BY <1>1, <2>0, <3>1 DEF WorkOK
        <3>3. hunt'.results = r.mem /\ hunt'.state = "failed"
            BY <1>1, <2>4, RowWritten
        <3>4. LedgerOK(hunt', issued')
            BY <1>1, <2>0, <3>2, <3>3 DEF LedgerOK
        <3> QED BY <1>2, <2>1, <2>2, <3>1, <3>4, WorkStep
    <2> QED BY <1>6, <2>3, <2>4 DEF FailSave
<1> QED BY <1>3, <1>4, <1>5, <1>6

LEMMA SafeStep ==
    ASSUME MaxGlitches = 0, SafeInv, [Next]_vars
    PROVE  SafeInv'
<1>1. TypeOK /\ AloneInv /\ BaseInv /\ WorkInv
    BY DEF SafeInv, BaseInv, WorkInv
<1>2. BaseInv' /\ AloneInv'
    BY <1>1, BaseInduction, AloneStep
<1>3. ASSUME NEW w \in Workers, Working(w) PROVE WorkInv'
    <2>1. CASE \/ RequireLease(w) \/ LoadHunt(w) \/ Draft(w) \/ Scan(w) \/ Apply(w)
               \/ Submit(w) \/ Dispatch(w) \/ DispatchError(w) \/ PollError(w) \/ PollTimeout(w)
               \/ Retrieve(w) \/ Abort(w)
        BY <2>1, LeaseWork, LoadWork, ScanWork, ApplyWork, SearchWork
    <2>2. CASE \/ AssessRead(w) \/ SynthRead(w) \/ ReserveRead(w)
               \/ NoRound(w) \/ AssessResults(w) \/ DecideNothing(w) \/ Answer(w) \/ StopRounds(w)
               \/ CoverSources(w) \/ DecideFollowUp(w) \/ FailRead(w) \/ Raise(w)
        BY <2>2, RoundWork, PlanWork
    <2>3. CASE StartRunning(w) \/ Save(w) \/ StartSynthesis(w) \/ PublishReport(w) \/ FailSave(w) \/ DbError(w)
        BY <2>3, WriteWork, SaveWork, ErrorWork
    <2> QED BY <1>3, <2>1, <2>2, <2>3 DEF Working
<1>4. ASSUME hunt' = hunt, issued' = issued,
             \A v \in Workers : run'[v] = run[v] \/ run'[v].at \in {"idle", "load"}
      PROVE  WorkInv'
    <2>1. ASSUME NEW v \in Workers PROVE WorkOK(run'[v], hunt', issued')
        <3>1. CASE run'[v] = run[v]
            BY <1>1, <1>4, <3>1 DEF WorkInv
        <3>2. CASE run'[v].at \in {"idle", "load"}
            BY <3>2, FreeOK DEF LoopAt, AfterLoop, Copied, Extended
        <3> QED BY <1>4, <3>1, <3>2
    <2> QED BY <1>1, <1>4, <2>1 DEF WorkInv
<1>5. ASSUME NEW w \in Workers, Claim(w) \/ Finish(w) \/ WorkerCrash(w) \/ LeaseLost(w) PROVE WorkInv'
    <2>1. CASE Claim(w)
        <3>1. hunt' = hunt /\ issued' = issued /\ Goto(w, "load") /\ "load" \in Points /\ "load" \notin Exits
            BY <2>1, PointNames DEF Claim, Exits
        <3>2. PICK new \in Run : run' = [run EXCEPT ![w] = new] /\ Stays(new, run[w], "load")
            BY <1>1, <3>1, GotoEffect
        <3>3. run'[w].at = "load" /\ \A v \in Workers : v # w => run'[v] = run[v]
            BY <1>1, <3>2, Turned DEF Stays
        <3> QED BY <1>4, <3>1, <3>3
    <2>2. CASE Finish(w) \/ WorkerCrash(w) \/ LeaseLost(w)
        <3>1. /\ hunt' = hunt /\ issued' = issued
              /\ run' = [run EXCEPT ![w] = Idle] \/ run' = run
            BY <2>2 DEF Finish, WorkerCrash, LeaseLost
        <3>2. \A v \in Workers : run'[v] = run[v] \/ run'[v].at = "idle"
            BY <1>1, <3>1 DEF TypeOK, Idle
        <3> QED BY <1>4, <3>1, <3>2
    <2> QED BY <1>5, <2>1, <2>2
<1>6. ASSUME (\E q \in Queries : SearchDone(q)) \/ Tick \/ CancelJob \/ RecoverJob \/ UNCHANGED vars
      PROVE  WorkInv'
    <2>1. hunt' = hunt /\ issued' = issued /\ run' = run
        BY <1>6 DEF SearchDone, Tick, CancelJob, RecoverJob, vars
    <2> QED BY <1>4, <2>1
<1>7. ASSUME CancelHunt PROVE WorkInv'
    <2>1. /\ hunt'.state = "cancelled" /\ hunt'.results = hunt.results /\ issued' = issued
        BY <1>1, <1>7 DEF CancelHunt, TypeOK
    <2>2. LedgerOK(hunt', issued')
        BY <1>1, <2>1 DEF WorkInv, LedgerOK
    <2>3. \A v \in Workers : WorkOK(run'[v], hunt', issued')
        BY <2>1, FreeOK
    <2> QED BY <2>2, <2>3 DEF WorkInv
<1>8. WorkInv'
    BY <1>3, <1>5, <1>6, <1>7 DEF Next, WorkerStep, Working
<1> QED BY <1>2, <1>8 DEF SafeInv, WorkInv

LEMMA SafeStart == Init => SafeInv
<1> SUFFICES ASSUME Init PROVE SafeInv
    OBVIOUS
<1>1. BaseInv
    BY BaseInduction
<1>2. /\ hunt.results.ledger = <<>> /\ hunt.state = "queued" /\ holder = Nobody
      /\ \A w \in Workers : run[w].at = "idle"
    BY Constants DEF Init, Idle
<1>3. LedgerOK(hunt, issued)
    BY <1>2 DEF LedgerOK, Distinct
<1>4. \A w \in Workers : WorkOK(run[w], hunt, issued)
    BY <1>2, FreeOK DEF LoopAt, AfterLoop, Copied, Extended
<1> QED BY <1>1, <1>2, <1>3, <1>4 DEF SafeInv, AloneInv

\* As long as live workers keep their leases, and wherever they crash or their
\* transactions fail, no query
\* is left planned or running in a hunt that is answered: execute_job reaches
\* the synthesis only from a ledger that is finished to its end.
THEOREM AnsweredHuntIsFinished ==
    ASSUME MaxGlitches = 0
    PROVE  Spec => []NothingLeftOpen
<1>1. SafeInv /\ [Next]_vars => SafeInv'
    BY SafeStep
<1>2. SafeInv => NothingLeftOpen
    <2> SUFFICES ASSUME SafeInv, hunt.state \in {"synthesizing", "report_draft"},
                        NEW i \in DOMAIN hunt.results.ledger
                 PROVE  hunt.results.ledger[i].status \notin {"planned", "submitted"}
        BY DEF NothingLeftOpen
    <2>1. hunt.results.ledger[i].status \in Finished
        BY DEF SafeInv, LedgerOK, AllFinished
    <2> QED BY <2>1 DEF Finished
<1> QED BY <1>1, <1>2, SafeStart, PTL DEF Spec

\* The ledger of one row to the next.
Advances(old, new) ==
    \A i \in DOMAIN old :
        /\ i \in DOMAIN new /\ new[i].id = old[i].id
        /\ Rank(old[i].status) <= Rank(new[i].status)
        /\ old[i].status \in Finished => new[i] = old[i]

LEMMA SameAdvances ==
    ASSUME NEW L, NEW M, \A i \in DOMAIN L : i \in DOMAIN M /\ M[i] = L[i]
    PROVE  Advances(L, M)
<1>1. \A s : Rank(s) <= Rank(s)
    <2>1. \A s : Rank(s) \in Nat
        BY DEF Rank
    <2> QED BY <2>1
<1> QED BY <1>1 DEF Advances

LEMMA MarkedAdvances ==
    ASSUME NEW L \in Seq(Entry), Distinct(L), NEW pos \in DOMAIN L, NEW status \in Statuses,
           L[pos].status \notin Finished, status # "planned", status = "submitted" => L[pos].status = "planned"
    PROVE  Advances(L, Marked(L, L[pos].id, status))
<1> DEFINE M == Marked(L, L[pos].id, status)
<1>1. /\ DOMAIN M = DOMAIN L /\ M[pos].id = L[pos].id /\ M[pos].status = status
      /\ \A i \in DOMAIN L : M[i].id = L[i].id /\ (i # pos => M[i] = L[i])
    BY MarkedLedger
<1> HIDE DEF M
<1>2. \A s : Rank(s) \in Nat /\ Rank(s) <= 2
    BY DEF Rank
<1>3. \A s : Rank(s) <= Rank(s)
    BY <1>2
<1>4. Rank(L[pos].status) <= Rank(status)
    <2>1. CASE status = "submitted"
        BY <2>1 DEF Rank
    <2>2. CASE status # "submitted"
        <3>1. Rank(status) = 2
            BY <2>2 DEF Rank
        <3> QED BY <1>2, <3>1
    <2> QED BY <2>1, <2>2
<1>5. Advances(L, M)
    BY <1>1, <1>3, <1>4 DEF Advances
<1> QED BY <1>5 DEF M

\* The steps that write results.
LEMMA RowsWriters ==
    ASSUME TypeOK, [Next]_vars
    PROVE  \/ hunt'.results = hunt.results
           \/ \E w \in Workers : (StartRunning(w) \/ Save(w) \/ StartSynthesis(w) \/ FailSave(w)) /\ hunt' # hunt
<1>3. ASSUME NEW w \in Workers,
             PublishReport(w) \/ Claim(w) \/ Finish(w) \/ WorkerCrash(w) \/ LeaseLost(w)
      PROVE  hunt'.results = hunt.results
    <2>1. CASE PublishReport(w) /\ hunt' # hunt
        <3>1. hunt' = [hunt EXCEPT !.state = "report_draft", !.report = run[w].mem.queries]
            BY <2>1 DEF PublishReport
        <3> QED BY <3>1 DEF TypeOK
    <2>2. CASE Claim(w) \/ Finish(w) \/ WorkerCrash(w) \/ LeaseLost(w)
        BY <2>2 DEF Claim, Finish, WorkerCrash, LeaseLost
    <2> QED BY <1>3, <2>1, <2>2
<1>4. ASSUME NEW w \in Workers,
             \/ RequireLease(w) \/ LoadHunt(w) \/ Draft(w)
             \/ Scan(w) \/ Submit(w) \/ Dispatch(w) \/ DispatchError(w)
             \/ PollError(w) \/ PollTimeout(w) \/ Retrieve(w) \/ Abort(w) \/ Apply(w)
      PROVE  hunt' = hunt
    BY <1>4 DEF RequireLease, LoadHunt, Draft, Scan, Submit, Dispatch, DispatchError,
                PollError, PollTimeout, Retrieve, Abort, Apply, local
<1>5. ASSUME NEW w \in Workers,
             \/ AssessRead(w) \/ CoverSources(w) \/ NoRound(w) \/ AssessResults(w)
             \/ DecideNothing(w) \/ DecideFollowUp(w) \/ StopRounds(w) \/ ReserveRead(w)
             \/ SynthRead(w) \/ Answer(w) \/ Raise(w) \/ FailRead(w) \/ DbError(w)
      PROVE  hunt' = hunt
    BY <1>5 DEF AssessRead, CoverSources, NoRound, AssessResults, DecideNothing, DecideFollowUp, StopRounds,
                ReserveRead, SynthRead, Answer, Raise, FailRead, DbError, local
<1>6. ASSUME (\E q \in Queries : SearchDone(q)) \/ Tick \/ CancelJob \/ RecoverJob \/ CancelHunt \/ UNCHANGED vars
      PROVE  hunt'.results = hunt.results
    BY <1>6 DEF SearchDone, Tick, CancelJob, RecoverJob, CancelHunt, vars, TypeOK
<1> QED BY <1>3, <1>4, <1>5, <1>6 DEF Next, WorkerStep

LEMMA LedgerAdvances ==
    ASSUME SafeInv, [Next]_vars
    PROVE  Advances(hunt.results.ledger, hunt'.results.ledger)
<1> DEFINE L == hunt.results.ledger
<1>0. /\ TypeOK /\ L \in Seq(Entry) /\ LedgerOK(hunt, issued) /\ issued \in Nat /\ NoRecords \in Records
      /\ hunt.results \in Results
      /\ {"running", "synthesizing", "report_draft", "failed", "cancelled"} \subseteq HuntStates
    BY RowTyped, Constants, LimitsAreNumbers DEF SafeInv, BaseInv, TypeOK, HuntStates, Active
<1>1. CASE hunt'.results = hunt.results
    BY <1>1, SameAdvances
<1>2. ASSUME NEW w \in Workers,
             StartRunning(w) \/ Save(w) \/ StartSynthesis(w) \/ FailSave(w), hunt' # hunt
      PROVE  Advances(L, hunt'.results.ledger)
    <2>0. /\ WorkOK(run[w], hunt, issued) /\ run[w].mem \in Results /\ run[w].todo \in Statuses
          /\ run[w].seen # "cancelled"
        BY <1>0, WorkerTyped DEF SafeInv, Active
    <2>1. CASE StartRunning(w)
        <3>1. hunt.state = "queued"
            BY <1>2, <2>1 DEF StartRunning
        <3>2. DOMAIN L = {}
            BY <1>0, <3>1 DEF LedgerOK
        <3> QED BY <3>2 DEF Advances
    <2>2. CASE Save(w)
        <3>1. /\ hunt.state = "running" /\ run[w].at \in SavePoints
              /\ hunt' = [hunt EXCEPT !.results = run[w].mem]
            BY <1>2, <2>2 DEF Save
        <3>2. hunt'.results = run[w].mem
            BY <1>0, <2>0, <3>1, RowWritten
        <3> DEFINE M == run[w].mem.ledger
        <3>3. \/ /\ run[w].pos \in DOMAIN L /\ L[run[w].pos].status \notin Finished
                 /\ run[w].todo # "planned" /\ M = Marked(L, L[run[w].pos].id, run[w].todo)
                 /\ run[w].todo = "submitted" => L[run[w].pos].status = "planned"
              \/ M = L
              \/ OneMore(L, M, issued)
            BY <3>1, Written
        <3>4. CASE M = L
            BY <3>2, <3>4, SameAdvances
        <3>5. CASE OneMore(L, M, issued)
            <4>1. \A i \in DOMAIN L : i \in DOMAIN M /\ M[i] = L[i]
                BY <1>0, <3>5, ExtendedLedger DEF LedgerOK
            <4> QED BY <3>2, <4>1, SameAdvances
        <3>6. CASE /\ run[w].pos \in DOMAIN L /\ L[run[w].pos].status \notin Finished
                   /\ run[w].todo # "planned" /\ M = Marked(L, L[run[w].pos].id, run[w].todo)
                   /\ run[w].todo = "submitted" => L[run[w].pos].status = "planned"
            <4>1. Distinct(L)
                BY <1>0 DEF LedgerOK
            <4>2. Advances(L, Marked(L, L[run[w].pos].id, run[w].todo))
                BY <1>0, <2>0, <3>6, <4>1, MarkedAdvances
            <4> QED BY <3>2, <3>6, <4>2
        <3> QED BY <3>3, <3>4, <3>5, <3>6
    <2>3. CASE StartSynthesis(w)
        <3>1. /\ hunt.state = "running" /\ run[w].at = "advance"
              /\ hunt' = [hunt EXCEPT !.state = "synthesizing", !.results = run[w].mem]
            BY <1>2, <2>3 DEF StartSynthesis
        <3>2. run[w].mem.ledger = L
            BY <2>0, <3>1 DEF WorkOK, RunningOK, Copied
        <3>3. hunt'.results = run[w].mem
            BY <1>0, <2>0, <3>1, RowWritten
        <3> QED BY <3>2, <3>3, SameAdvances
    <2>4. CASE FailSave(w)
        <3>1. /\ hunt.state = run[w].seen /\ run[w].at = "fail_save"
              /\ hunt' = [hunt EXCEPT !.state = "failed", !.results = run[w].mem]
            BY <1>2, <2>4 DEF FailSave
        <3>2. run[w].mem.ledger = L
            BY <2>0, <3>1 DEF WorkOK
        <3>3. hunt'.results = run[w].mem
            BY <1>0, <2>0, <3>1, RowWritten
        <3> QED BY <3>2, <3>3, SameAdvances
    <2> QED BY <1>2, <2>1, <2>2, <2>3, <2>4
<1>3. \/ hunt'.results = hunt.results
      \/ \E w \in Workers : (StartRunning(w) \/ Save(w) \/ StartSynthesis(w) \/ FailSave(w)) /\ hunt' # hunt
    BY <1>0, RowsWriters
<1> QED BY <1>1, <1>2, <1>3

-----------------------------------------------------------------------------
(* Induction, and what the rows of a document add up to.                   *)

Smaller == {p \in Nat \X Nat : p[1] < p[2]}

LEMMA SmallerWellFounded == IsWellFoundedOn(Smaller, Nat)
BY NatLessThanWellFounded DEF Smaller, OpToRel

LEMMA LeastNumber ==
    ASSUME NEW S \in SUBSET Nat, S # {}
    PROVE  \E m \in S : \A k \in S : m <= k
<1>1. PICK m \in S : \A k \in S : ~(<<k, m>> \in Smaller)
    BY SmallerWellFounded, WFMin
<1>2. ASSUME NEW k \in S PROVE m <= k
    <2>1. k \in Nat /\ m \in Nat
        OBVIOUS
    <2>2. ~(<<k, m>> \in Smaller)
        BY <1>1
    <2>3. ~(k < m)
        BY <2>1, <2>2 DEF Smaller
    <2> QED BY <2>1, <2>3
<1> QED BY <1>2

LEMMA NumbersByInduction ==
    ASSUME NEW T, 0 \in T, \A n \in Nat : n \in T => n + 1 \in T
    PROVE  Nat \subseteq T
<1> SUFFICES ASSUME Nat \ T # {} PROVE FALSE
    OBVIOUS
<1>1. PICK m \in Nat \ T : \A k \in Nat \ T : m <= k
    BY LeastNumber
<1>2. m # 0 /\ m - 1 \in Nat
    BY <1>1
<1>3. m - 1 \in T
    BY <1>1, <1>2
<1>4. (m - 1) + 1 = m
    BY <1>1
<1> QED BY <1>2, <1>3, <1>4

\* f adds up the rows of the first n queries.
AddsUp(f, queries, n) ==
    f = [q \in 0 .. n |-> IF q = 0 THEN 0 ELSE f[q - 1] + queries[q].rows]

LEMMA RowsOf ==
    ASSUME NEW queries \in Records
    PROVE  \A q \in 1 .. MaxIssued : queries[q].rows \in Nat
BY DEF Records, Queries

LEMMA SumExists ==
    ASSUME NEW queries \in Records
    PROVE  \E f : AddsUp(f, queries, MaxIssued)
<1> DEFINE T == {n \in Nat : n <= MaxIssued => \E f : AddsUp(f, queries, n) /\ f \in [0 .. n -> Nat]}
<1>0. MaxIssued \in Nat
    BY LimitsAreNumbers
<1>1. 0 \in T
    <2> DEFINE f == [q \in 0 .. 0 |-> 0]
    <2>1. AddsUp(f, queries, 0) /\ f \in [0 .. 0 -> Nat]
        BY DEF AddsUp
    <2> QED BY <2>1
<1>2. ASSUME NEW n \in Nat, n \in T PROVE n + 1 \in T
    <2> SUFFICES ASSUME n + 1 <= MaxIssued
                 PROVE  \E f : AddsUp(f, queries, n + 1) /\ f \in [0 .. n + 1 -> Nat]
        OBVIOUS
    <2>1. PICK g : AddsUp(g, queries, n) /\ g \in [0 .. n -> Nat]
        BY <1>0, <1>2
    <2>2. queries[n + 1].rows \in Nat
        BY <1>0, RowsOf
    <2> DEFINE f == [q \in 0 .. n + 1 |-> IF q = n + 1 THEN g[n] + queries[n + 1].rows ELSE g[q]]
    <2>3. f \in [0 .. n + 1 -> Nat]
        BY <2>1, <2>2
    <2>4. \A q \in 0 .. n + 1 : f[q] = IF q = 0 THEN 0 ELSE f[q - 1] + queries[q].rows
        BY <2>1 DEF AddsUp
    <2>5. AddsUp(f, queries, n + 1)
        BY <2>4 DEF AddsUp
    <2> QED BY <2>3, <2>5
<1> HIDE DEF T
<1>3. Nat \subseteq T
    BY <1>1, <1>2, NumbersByInduction
<1>4. MaxIssued \in T
    BY <1>0, <1>3
<1> QED BY <1>0, <1>4 DEF T

\* RowsKept is what it says: the rows of the first query, and of each next one.
LEMMA KeptIsSum ==
    ASSUME NEW r, r.queries \in Records
    PROVE  \E f \in [0 .. MaxIssued -> Nat] :
             /\ f[0] = 0 /\ f[MaxIssued] = RowsKept(r)
             /\ \A q \in 1 .. MaxIssued : f[q] = f[q - 1] + r.queries[q].rows
<1> DEFINE c == CHOOSE f : f = [q \in 0 .. MaxIssued |-> IF q = 0 THEN 0 ELSE f[q - 1] + r.queries[q].rows]
<1>0. MaxIssued \in Nat
    BY LimitsAreNumbers
<1>1. \E f : f = [q \in 0 .. MaxIssued |-> IF q = 0 THEN 0 ELSE f[q - 1] + r.queries[q].rows]
    BY SumExists DEF AddsUp
<1>2. c = [q \in 0 .. MaxIssued |-> IF q = 0 THEN 0 ELSE c[q - 1] + r.queries[q].rows]
    BY <1>1
<1>3. RowsKept(r) = c[MaxIssued]
    BY DEF RowsKept
<1> HIDE DEF c
<1>4. c[0] = 0 /\ \A q \in 1 .. MaxIssued : c[q] = c[q - 1] + r.queries[q].rows
    BY <1>0, <1>2
<1> DEFINE T == {n \in Nat : n <= MaxIssued => c[n] \in Nat}
<1>5. 0 \in T
    BY <1>4
<1>6. ASSUME NEW n \in Nat, n \in T PROVE n + 1 \in T
    <2> SUFFICES ASSUME n + 1 <= MaxIssued PROVE c[n + 1] \in Nat
        OBVIOUS
    <2>1. c[n] \in Nat /\ n + 1 \in 1 .. MaxIssued /\ (n + 1) - 1 = n
        BY <1>0, <1>6
    <2>2. r.queries[n + 1].rows \in Nat
        BY <2>1, RowsOf
    <2>3. c[n + 1] = c[n] + r.queries[n + 1].rows
        BY <1>4, <2>1
    <2> QED BY <2>1, <2>2, <2>3
<1> HIDE DEF T
<1>7. Nat \subseteq T
    BY <1>5, <1>6, NumbersByInduction
<1>8. \A n \in 0 .. MaxIssued : c[n] \in Nat
    BY <1>0, <1>7 DEF T
<1>9. c \in [0 .. MaxIssued -> Nat]
    BY <1>2, <1>8
<1> QED BY <1>3, <1>4, <1>9

\* A result replaced by one of n rows adds at most n rows.
LEMMA KeptGrows ==
    ASSUME NEW a, a.queries \in Records, NEW b, b.queries \in Records, NEW q, NEW n \in Nat,
           \A p \in Queries : p = q => b.queries[p].rows = n,
           \A p \in Queries : p # q => b.queries[p].rows = a.queries[p].rows
    PROVE  /\ RowsKept(a) \in Nat /\ RowsKept(b) \in Nat /\ RowsKept(b) <= RowsKept(a) + n
           /\ q \notin Queries => RowsKept(b) = RowsKept(a)
<1>0. MaxIssued \in Nat
    BY LimitsAreNumbers
<1>1. PICK f \in [0 .. MaxIssued -> Nat] :
         /\ f[0] = 0 /\ f[MaxIssued] = RowsKept(a)
         /\ \A p \in 1 .. MaxIssued : f[p] = f[p - 1] + a.queries[p].rows
    BY KeptIsSum
<1>2. PICK g \in [0 .. MaxIssued -> Nat] :
         /\ g[0] = 0 /\ g[MaxIssued] = RowsKept(b)
         /\ \A p \in 1 .. MaxIssued : g[p] = g[p - 1] + b.queries[p].rows
    BY KeptIsSum
<1> DEFINE T == {k \in Nat : k <= MaxIssued =>
                   /\ q \in 1 .. k => g[k] <= f[k] + n
                   /\ q \notin 1 .. k => g[k] = f[k]}
<1>3. 0 \in T
    BY <1>1, <1>2
<1>4. ASSUME NEW k \in Nat, k \in T PROVE k + 1 \in T
    <2> SUFFICES ASSUME k + 1 <= MaxIssued
                 PROVE  /\ q \in 1 .. k + 1 => g[k + 1] <= f[k + 1] + n
                        /\ q \notin 1 .. k + 1 => g[k + 1] = f[k + 1]
        OBVIOUS
    <2>1. /\ k + 1 \in 1 .. MaxIssued /\ (k + 1) - 1 = k /\ k \in 0 .. MaxIssued
          /\ q \in 1 .. k => g[k] <= f[k] + n
          /\ q \notin 1 .. k => g[k] = f[k]
        BY <1>0, <1>4
    <2>2. f[k + 1] = f[k] + a.queries[k + 1].rows /\ g[k + 1] = g[k] + b.queries[k + 1].rows
        BY <1>1, <1>2, <2>1
    <2>3. /\ a.queries[k + 1].rows \in Nat /\ b.queries[k + 1].rows \in Nat
          /\ f[k] \in Nat /\ g[k] \in Nat
        BY <2>1, RowsOf
    <2>4. b.queries[k + 1].rows = IF k + 1 = q THEN n ELSE a.queries[k + 1].rows
        BY <2>1 DEF Queries
    <2>5. CASE q = k + 1
        BY <2>1, <2>2, <2>3, <2>4, <2>5
    <2>6. CASE q # k + 1
        <3>1. q \in 1 .. k + 1 <=> q \in 1 .. k
            BY <2>6
        <3> QED BY <2>1, <2>2, <2>3, <2>4, <2>6, <3>1
    <2> QED BY <2>5, <2>6
<1> HIDE DEF T
<1>5. Nat \subseteq T
    BY <1>3, <1>4, NumbersByInduction
<1>6. MaxIssued \in T
    BY <1>0, <1>5
<1>7. /\ q \in 1 .. MaxIssued => g[MaxIssued] <= f[MaxIssued] + n
      /\ q \notin 1 .. MaxIssued => g[MaxIssued] = f[MaxIssued]
    BY <1>0, <1>6 DEF T
<1>8. f[MaxIssued] \in Nat /\ g[MaxIssued] \in Nat
    BY <1>0
<1> QED BY <1>1, <1>2, <1>7, <1>8 DEF Queries

LEMMA KeptSame ==
    ASSUME NEW a, a.queries \in Records, NEW b, b.queries = a.queries
    PROVE  RowsKept(a) \in Nat /\ RowsKept(b) = RowsKept(a)
<1>1. 0 \notin Queries
    BY LimitsAreNumbers DEF Queries
<1>2. /\ \A p \in Queries : p = 0 => b.queries[p].rows = 0
      /\ \A p \in Queries : p # 0 => b.queries[p].rows = a.queries[p].rows
    BY <1>1
<1> QED BY <1>1, <1>2, KeptGrows

LEMMA KeptNone ==
    ASSUME NEW a, a.queries = NoRecords
    PROVE  RowsKept(a) = 0
<1>0. MaxIssued \in Nat /\ a.queries \in Records
    BY LimitsAreNumbers, Constants
<1>1. PICK f \in [0 .. MaxIssued -> Nat] :
         /\ f[0] = 0 /\ f[MaxIssued] = RowsKept(a)
         /\ \A p \in 1 .. MaxIssued : f[p] = f[p - 1] + a.queries[p].rows
    BY <1>0, KeptIsSum
<1>2. \A p \in 1 .. MaxIssued : a.queries[p].rows = 0
    BY DEF NoRecords, Queries
<1> DEFINE T == {k \in Nat : k <= MaxIssued => f[k] = 0}
<1>3. 0 \in T
    BY <1>1
<1>4. ASSUME NEW k \in Nat, k \in T PROVE k + 1 \in T
    <2> SUFFICES ASSUME k + 1 <= MaxIssued PROVE f[k + 1] = 0
        OBVIOUS
    <2>1. k + 1 \in 1 .. MaxIssued /\ (k + 1) - 1 = k /\ f[k] = 0
        BY <1>0, <1>4
    <2> QED BY <1>1, <1>2, <2>1
<1> HIDE DEF T
<1>5. Nat \subseteq T
    BY <1>3, <1>4, NumbersByInduction
<1> QED BY <1>0, <1>1, <1>5 DEF T

-----------------------------------------------------------------------------
(* The limits, as long as a live worker keeps its lease.                   *)

\* The searches Splunk ran and did not have to drop.
Net == dispatched - dropped

\* The first open query of the ledger is planned and Splunk has its search: a
\* worker that stopped before the checkpoint did not count it.
Lag(L, s) ==
    \E p \in DOMAIN L : /\ L[p].status = "planned" /\ s[L[p].id] \in {"running", "done"}
                        /\ \A i \in 1 .. p - 1 : L[i].status \in Finished

\* No query will be sent any more.
Stopped(c, u) == c > 0 \/ u.rows >= MaxRows
NoneSent(R) == \A w \in Workers : R[w].at \notin {"submit", "dispatch"}

\* Splunk ran at most one search that the row does not count and that was not
\* dropped.  If there is one, its query is the next to be sent, or none is sent again.
AccountOK ==
    LET u == hunt.results.usage IN
    \/ Net <= u.searches
    \/ Net <= u.searches + 1 /\ Lag(hunt.results.ledger, search)
    \/ Net <= u.searches + 1 /\ Stopped(clock, u) /\ NoneSent(run)

\* A worker about to save what became of its query counts the search, or the
\* query needs none.
SettleOK(r, doc, c) ==
    /\ \/ r.usage.searches = doc.usage.searches + 1
       \/ /\ r.usage.searches = doc.usage.searches
          /\ \/ doc.ledger[r.pos].status # "planned" \/ Stopped(c, doc.usage)
             \/ doc.usage.searches >= MaxSearches
    /\ r.todo = "submitted" => doc.ledger[r.pos].status = "planned"
    /\ r.todo = "completed" => r.usage.rows = doc.usage.rows + r.rows
    /\ r.todo # "completed" => r.usage.rows = doc.usage.rows
    /\ r.usage.rows <= MaxRows

\* The counters of a worker against those of the running hunt's document.
Settling == {"checkpoint", "apply", "save"}
Level    == {"scan", "submit", "poll"} \cup AfterLoop
CountOK(r, doc, c) ==
    /\ r.at \in Level => SameCounts(r.usage, doc.usage)
    /\ r.at = "dispatch" => r.usage.searches = doc.usage.searches + 1 /\ r.usage.rows = doc.usage.rows
    /\ r.at \in {"submit", "dispatch"} => doc.ledger[r.pos].status = "planned"
    /\ r.at = "poll" => doc.ledger[r.pos].status # "planned"
    /\ (r.at = "abort" /\ r.todo # "submitted") =>
         SameCounts(r.usage, doc.usage) /\ doc.ledger[r.pos].status # "planned"
    /\ r.at \in Settling => SettleOK(r, doc, c)
    /\ r.at = "save" => /\ r.mem.usage = r.usage /\ RowsKept(r.mem) <= r.usage.rows
                        /\ \A q \in Queries : q # r.q => r.mem.queries[q] = doc.queries[q]
    /\ r.at \in Copied \cup Extended => SameCounts(r.mem.usage, doc.usage) /\ r.mem.queries = doc.queries

\* Before the hunt runs nothing is counted; a failure keeps the results.
Drafting == {"draft", "start", "start_save"}
DraftOK(r) == r.at \in Drafting => r.usage = NoUsage /\ r.mem.usage = NoUsage /\ r.mem.queries = NoRecords
FailOK(r, row) == (r.at = "fail_save" /\ row.state # "cancelled") => r.mem.queries = row.results.queries

\* A search still to be created is within the limit, even for a cancelled hunt.
SendOK(r, s, d) == r.at = "dispatch" => d < MaxSearches \/ (r.q \in Queries /\ s[r.q] \in {"running", "done"})

RowsOK(row) ==
    /\ RowsKept(row.results) <= MaxRows
    /\ row.state = "running" =>
         RowsKept(row.results) <= row.results.usage.rows /\ row.results.usage.rows <= MaxRows

LoopAlone(R) == \A v, w \in Workers : R[v].at \in LoopAt /\ R[w].at \in LoopAt => v = w

BudgetInv ==
    /\ Net <= MaxSearches
    /\ LoopAlone(run)
    /\ hunt.state \notin {"running", "cancelled"} => \A w \in Workers : run[w].at \notin LoopAt
    /\ hunt.state = "queued" => Net = 0
    /\ hunt.state = "running" => AccountOK
    /\ RowsOK(hunt)
    /\ \A w \in Workers : /\ SendOK(run[w], search, Net) /\ DraftOK(run[w]) /\ FailOK(run[w], hunt)
                          /\ hunt.state = "running" => CountOK(run[w], hunt.results, clock)

LimitInv == SafeInv /\ BudgetInv

\* A worker outside the loop, the rounds, the draft and fail_save is bound by
\* nothing.
LEMMA FreeBudget ==
    ASSUME NEW r, r.at \notin LoopAt \cup AfterLoop \cup Drafting \cup {"fail_save"}
    PROVE  /\ DraftOK(r) /\ \A row : FailOK(r, row) /\ \A s, d : SendOK(r, s, d)
           /\ \A doc, c : CountOK(r, doc, c)
BY DEF DraftOK, FailOK, SendOK, CountOK, LoopAt, AfterLoop, Drafting, Settling, Level

LEMMA IdleBudget ==
    ASSUME NEW r, r.at \in {"idle", "load", "read", "failing", "error", "ok", "publish", "publish_save", "fail_read"}
    PROVE  r.at \notin LoopAt \cup AfterLoop \cup Drafting \cup {"fail_save"}
BY DEF LoopAt, AfterLoop, Copied, Extended, Drafting

\* A step of the worker that works on the hunt.
LEMMA BudgetStep ==
    ASSUME LimitInv, NEW w \in Workers, Working(w), NEW new \in Run, run' = [run EXCEPT ![w] = new],
           Net' <= MaxSearches, SendOK(new, search', Net'), DraftOK(new),
           run[w].at \notin LoopAt => UNCHANGED splunk,
           hunt.state = "cancelled" => hunt' = hunt /\ (new.at \in LoopAt => run[w].at \in LoopAt),
           hunt.state # "cancelled" =>
               /\ hunt'.state # "running" => new.at \notin LoopAt
               /\ hunt'.state = "queued" => Net' = 0
               /\ hunt'.state = "running" => AccountOK' /\ CountOK(new, hunt'.results, clock')
               /\ RowsOK(hunt') /\ FailOK(new, hunt')
    PROVE  BudgetInv'
<1>1. TypeOK /\ SafeInv /\ BudgetInv
    BY DEF LimitInv, SafeInv, BaseInv
<1>2. run'[w] = new /\ \A v \in Workers \ {w} : run'[v] = run[v]
    BY <1>1, Turned
<1>3. CASE hunt.state # "cancelled"
    <2>0. hunt'.state # "cancelled"
        BY <1>1, <1>3, WorkingFacts
    <2>1. \A v \in Workers \ {w} : run'[v].at = "idle"
        BY <1>1, <1>3, OthersFree
    <2>2. ASSUME NEW v \in Workers \ {w}
          PROVE  /\ run'[v].at \notin LoopAt
                 /\ SendOK(run'[v], search', Net') /\ DraftOK(run'[v]) /\ FailOK(run'[v], hunt')
                 /\ CountOK(run'[v], hunt'.results, clock')
        <3>1. run'[v].at \notin LoopAt \cup AfterLoop \cup Drafting \cup {"fail_save"}
            BY <2>1, IdleBudget
        <3> QED BY <3>1, FreeBudget
    <2>3. LoopAlone(run')
        BY <2>2 DEF LoopAlone
    <2>4. hunt'.state # "running" => \A v \in Workers : run'[v].at \notin LoopAt
        BY <1>2, <1>3, <2>2
    <2>5. \A v \in Workers : /\ SendOK(run'[v], search', Net') /\ DraftOK(run'[v]) /\ FailOK(run'[v], hunt')
                             /\ hunt'.state = "running" => CountOK(run'[v], hunt'.results, clock')
        BY <1>2, <1>3, <2>2
    <2> QED BY <1>3, <2>3, <2>4, <2>5 DEF BudgetInv
<1>4. CASE hunt.state = "cancelled"
    <2>1. hunt' = hunt
        BY <1>4
    <2>2. LoopAlone(run')
        BY <1>1, <1>2, <1>4 DEF BudgetInv, LoopAlone
    <2>3. ASSUME NEW v \in Workers \ {w} PROVE SendOK(run[v], search', Net')
        <3>1. CASE run[w].at \in LoopAt
            <4>1. run[v].at \notin LoopAt
                BY <1>1, <3>1 DEF BudgetInv, LoopAlone
            <4> QED BY <4>1 DEF SendOK, LoopAt
        <3>2. CASE run[w].at \notin LoopAt
            BY <1>1, <3>2 DEF BudgetInv, splunk, Net
        <3> QED BY <3>1, <3>2
    <2>4. \A v \in Workers : SendOK(run'[v], search', Net') /\ DraftOK(run'[v]) /\ FailOK(run'[v], hunt')
        BY <1>1, <1>2, <1>4, <2>1, <2>3 DEF BudgetInv, FailOK
    <2> QED BY <1>1, <1>4, <2>1, <2>2, <2>4 DEF BudgetInv
<1> QED BY <1>3, <1>4

\* The same for a step that leaves the row and Splunk alone.
LEMMA QuietBudget ==
    ASSUME LimitInv, NEW w \in Workers, Working(w), NEW new \in Run, run' = [run EXCEPT ![w] = new],
           UNCHANGED <<hunt, splunk, clock>>,
           DraftOK(new), SendOK(new, search, Net), FailOK(new, hunt),
           new.at \in LoopAt => run[w].at \in LoopAt \/ hunt.state = "running",
           hunt.state = "running" => CountOK(new, hunt.results, clock),
           (hunt.state = "running" /\ new.at \in {"submit", "dispatch"}) =>
               run[w].at \in {"submit", "dispatch"} \/ ~Stopped(clock, hunt.results.usage)
    PROVE  BudgetInv'
<1>1. TypeOK /\ SafeInv /\ BudgetInv
    BY DEF LimitInv, SafeInv, BaseInv
<1>2. run'[w] = new /\ \A v \in Workers \ {w} : run'[v] = run[v]
    BY <1>1, Turned
<1>3. hunt' = hunt /\ search' = search /\ Net' = Net /\ clock' = clock
    BY DEF splunk, Net
<1>4. ASSUME hunt.state = "running" PROVE AccountOK'
    <2>1. AccountOK
        BY <1>1, <1>4 DEF BudgetInv
    <2>2. ASSUME Stopped(clock, hunt.results.usage), NoneSent(run) PROVE NoneSent(run')
        <3>1. new.at \notin {"submit", "dispatch"}
            BY <1>4, <2>2 DEF NoneSent
        <3> QED BY <1>2, <2>2, <3>1 DEF NoneSent
    <2> QED BY <1>3, <2>1, <2>2 DEF AccountOK
<1>5. hunt.state \notin {"running", "cancelled"} => run[w].at \notin LoopAt
    BY <1>1 DEF BudgetInv
<1>6. hunt.state = "cancelled" => (new.at \in LoopAt => run[w].at \in LoopAt)
    OBVIOUS
<1>7. Net' <= MaxSearches /\ RowsOK(hunt') /\ (hunt'.state = "queued" => Net' = 0)
    BY <1>1, <1>3 DEF BudgetInv
<1> QED BY <1>3, <1>4, <1>5, <1>6, <1>7, BudgetStep DEF splunk

LEMMA FreeQuiet ==
    ASSUME LimitInv, NEW w \in Workers, Working(w), NEW new \in Run, run' = [run EXCEPT ![w] = new],
           UNCHANGED <<hunt, splunk, clock>>,
           new.at \in {"idle", "load", "read", "failing", "error", "ok", "publish", "publish_save", "fail_read"}
    PROVE  BudgetInv'
<1>1. new.at \notin LoopAt \cup AfterLoop \cup Drafting \cup {"fail_save"}
    BY IdleBudget
<1>2. /\ DraftOK(new) /\ FailOK(new, hunt) /\ SendOK(new, search, Net)
      /\ CountOK(new, hunt.results, clock)
    BY <1>1, FreeBudget
<1>3. new.at \notin LoopAt /\ new.at \notin {"submit", "dispatch"}
    BY <1>1 DEF LoopAt
<1> QED BY <1>2, <1>3, QuietBudget

LEMMA BudgetTypes ==
    ASSUME TypeOK, NEW w \in Workers
    PROVE  /\ hunt.results.usage.searches \in Nat /\ hunt.results.usage.rows \in Nat
           /\ run[w].usage.searches \in Nat /\ run[w].usage.rows \in Nat /\ run[w].rows \in Nat
           /\ MaxSearches \in Nat /\ MaxRows \in Nat /\ Net \in Int
<1>1. hunt.results.usage \in Usage /\ run[w].usage \in Usage /\ run[w].rows \in Nat
    BY RowTyped, WorkerTyped
<1> QED BY <1>1, LimitsAreNumbers DEF Usage, TypeOK, Net

\* What a worker at its step may rely on.
LEMMA BudgetFacts ==
    ASSUME LimitInv, NEW w \in Workers
    PROVE  /\ TypeOK /\ SafeInv /\ BudgetInv /\ WorkOK(run[w], hunt, issued)
           /\ DraftOK(run[w]) /\ FailOK(run[w], hunt) /\ SendOK(run[w], search, Net)
           /\ hunt.state = "running" =>
                /\ CountOK(run[w], hunt.results, clock) /\ AccountOK
                /\ RunningOK(run[w], hunt.results.ledger, issued)
                /\ RowsKept(hunt.results) <= hunt.results.usage.rows /\ hunt.results.usage.rows <= MaxRows
           /\ (run[w].at \in LoopAt /\ hunt.state # "cancelled") => hunt.state = "running"
BY DEF LimitInv, BudgetInv, SafeInv, BaseInv, WorkOK, RowsOK

LEMMA LeaseBudget ==
    ASSUME LimitInv, NEW w \in Workers, RequireLease(w)
    PROVE  BudgetInv'
<1> DEFINE r == run[w]
<1>1. /\ TypeOK /\ SafeInv /\ DraftOK(r) /\ FailOK(r, hunt)
      /\ hunt.state = "running" => CountOK(r, hunt.results, clock)
      /\ (r.at \in LoopAt /\ hunt.state # "cancelled") => hunt.state = "running"
    BY BudgetFacts
<1>2. UNCHANGED <<hunt, splunk, clock>> /\ Working(w) /\ r.at \in LeasePoints
    BY DEF RequireLease, Working
<1>3. PICK new \in Run :
         /\ run' = [run EXCEPT ![w] = new]
         /\ \/ \E at \in {"failing", "error"} : Leaves(new, r, at)
            \/ /\ r.at = "checkpoint" /\ r.todo = "submitted" /\ Stays(new, r, "abort")
               /\ Cancelled(w)
            \/ Stays(new, r, Granted[r.at])
    BY <1>1, LeaseEffect
<1>4. CASE \E at \in {"failing", "error"} : Leaves(new, r, at)
    <2>1. new.at \in {"failing", "error"}
        BY <1>4 DEF Leaves
    <2> QED BY <1>2, <1>3, <2>1, FreeQuiet
<1>5. CASE r.at = "checkpoint" /\ Stays(new, r, "abort") /\ Cancelled(w)
    <2>1. new.at = "abort" /\ r.at \in LoopAt /\ r.at # "idle"
        BY <1>5 DEF Stays, LoopAt
    <2>2. hunt.state = "cancelled"
        BY <1>1, <1>5, <2>1 DEF Cancelled, SafeInv, AloneInv
    <2>3. DraftOK(new) /\ SendOK(new, search, Net) /\ FailOK(new, hunt)
        BY <2>1 DEF DraftOK, SendOK, FailOK, Drafting
    <2> QED BY <1>2, <1>3, <2>1, <2>2, <2>3, QuietBudget
<1>6. CASE Stays(new, r, Granted[r.at])
    <2>1. CASE r.at \in {"load", "publish", "failing"}
        <3>1. new.at \in {"read", "publish_save", "fail_read"}
            BY <1>6, <2>1 DEF Granted, Stays
        <3> QED BY <1>2, <1>3, <3>1, FreeQuiet
    <2>2. CASE r.at = "start"
        <3>1. new.at = "start_save" /\ new.mem = r.mem /\ new.usage = r.usage
            BY <1>6, <2>2 DEF Granted, Stays
        <3>2. DraftOK(new)
            BY <1>1, <2>2, <3>1 DEF DraftOK, Drafting
        <3>3. SendOK(new, search, Net) /\ FailOK(new, hunt) /\ new.at \notin LoopAt
            BY <3>1 DEF SendOK, FailOK, LoopAt
        <3>4. CountOK(new, hunt.results, clock)
            BY <3>1 DEF CountOK, Level, Settling, AfterLoop, Copied, Extended
        <3> QED BY <1>2, <1>3, <3>1, <3>2, <3>3, <3>4, QuietBudget
    <2>3. CASE r.at = "checkpoint"
        <3>1. /\ new.at = "apply" /\ new.usage = r.usage /\ new.todo = r.todo /\ new.rows = r.rows /\ new.pos = r.pos
              /\ r.at \in LoopAt
            BY <1>6, <2>3 DEF Granted, Stays, LoopAt
        <3>2. DraftOK(new) /\ SendOK(new, search, Net) /\ FailOK(new, hunt)
            BY <3>1 DEF DraftOK, SendOK, FailOK, Drafting
        <3>3. ASSUME hunt.state = "running" PROVE CountOK(new, hunt.results, clock)
            <4>1. SettleOK(r, hunt.results, clock)
                BY <1>1, <2>3, <3>3 DEF CountOK, Settling
            <4>2. SettleOK(new, hunt.results, clock)
                BY <3>1, <4>1 DEF SettleOK
            <4> QED BY <3>1, <4>2 DEF CountOK, Level, Settling, AfterLoop, Copied, Extended
        <3> QED BY <1>2, <1>3, <3>1, <3>2, <3>3, QuietBudget
    <2>4. CASE r.at \in {"assess", "cover", "reserve", "synth", "answer"}
        <3>1. /\ new.at \in {"assess_read", "cover_save", "reserve_read", "synth_read", "answer_save"}
              /\ new.at \in {"cover_save", "answer_save"} => r.at \in {"cover", "answer"}
              /\ new.usage = r.usage /\ new.mem = r.mem
            BY <1>6, <2>4 DEF Granted, Stays
        <3>2. DraftOK(new) /\ SendOK(new, search, Net) /\ FailOK(new, hunt) /\ new.at \notin LoopAt
            BY <3>1 DEF DraftOK, SendOK, FailOK, Drafting, LoopAt
        <3>3. ASSUME hunt.state = "running" PROVE CountOK(new, hunt.results, clock)
            <4>1. /\ SameCounts(r.usage, hunt.results.usage)
                  /\ r.at \in {"cover", "answer"} =>
                        SameCounts(r.mem.usage, hunt.results.usage) /\ r.mem.queries = hunt.results.queries
                BY <1>1, <2>4, <3>3 DEF CountOK, Level, AfterLoop, Copied, Extended
            <4> QED BY <3>1, <4>1 DEF CountOK, Level, Settling, AfterLoop, Copied, Extended
        <3> QED BY <1>2, <1>3, <3>1, <3>2, <3>3, QuietBudget
    <2> QED BY <1>2, <2>1, <2>2, <2>3, <2>4 DEF LeasePoints
<1> QED BY <1>3, <1>4, <1>5, <1>6

LEMMA LoadBudget ==
    ASSUME LimitInv, NEW w \in Workers, LoadHunt(w) \/ Draft(w)
    PROVE  BudgetInv'
<1> DEFINE r == run[w]
<1>1. TypeOK /\ DraftOK(r)
    BY BudgetFacts
<1>2. UNCHANGED <<hunt, splunk, clock>> /\ Working(w)
    BY DEF LoadHunt, Draft, Working, local
<1>3. ASSUME NEW new \in Run, run' = [run EXCEPT ![w] = new], new.at \in Drafting, DraftOK(new)
      PROVE  BudgetInv'
    <2>1. /\ SendOK(new, search, Net) /\ FailOK(new, hunt) /\ CountOK(new, hunt.results, clock)
          /\ new.at \notin LoopAt /\ new.at \notin {"submit", "dispatch"}
        BY <1>3 DEF Drafting, SendOK, FailOK, CountOK, Level, Settling, LoopAt, AfterLoop, Copied, Extended
    <2> QED BY <1>2, <1>3, <2>1, QuietBudget
<1>4. CASE LoadHunt(w)
    <2>1. PICK new \in Run :
             /\ run' = [run EXCEPT ![w] = new]
             /\ \/ new.at \in {"ok", "error", "publish"}
                \/ new.at = "draft" /\ new.mem = NoResults /\ new.usage = NoUsage
                \/ new.at = "scan" /\ hunt.state = "running" /\ new.usage = hunt.results.usage
        BY <1>1, <1>4, LoadEffect DEF Stays
    <2>2. CASE new.at \in {"ok", "error", "publish"}
        BY <1>2, <2>1, <2>2, FreeQuiet
    <2>3. CASE new.at = "draft" /\ new.mem = NoResults /\ new.usage = NoUsage
        <3>1. NoResults.usage = NoUsage /\ NoResults.queries = NoRecords
            BY DEF NoResults
        <3>2. DraftOK(new) /\ new.at \in Drafting
            BY <2>3, <3>1 DEF DraftOK, Drafting
        <3> QED BY <1>3, <2>1, <3>2
    <2>4. CASE new.at = "scan" /\ hunt.state = "running" /\ new.usage = hunt.results.usage
        <3>1. /\ SendOK(new, search, Net) /\ FailOK(new, hunt) /\ DraftOK(new)
              /\ CountOK(new, hunt.results, clock)
            BY <2>4 DEF Drafting, DraftOK, SendOK, FailOK, CountOK, Level, Settling, SameCounts,
                        LoopAt, AfterLoop, Copied, Extended
        <3> QED BY <1>2, <2>1, <2>4, <3>1, QuietBudget
    <2> QED BY <2>1, <2>2, <2>3, <2>4
<1>5. CASE Draft(w)
    <2>1. PICK new \in Run :
             /\ run' = [run EXCEPT ![w] = new] /\ new.at = "start" /\ new.mem.queries = r.mem.queries
             /\ new.mem.usage = r.mem.usage /\ new.usage = r.usage
        BY <1>1, <1>5, DraftEffect
    <2>2. r.at = "draft"
        BY <1>5 DEF Draft
    <2>3. DraftOK(new) /\ new.at \in Drafting
        BY <1>1, <2>1, <2>2 DEF DraftOK, Drafting
    <2> QED BY <1>3, <2>1, <2>3
<1> QED BY <1>4, <1>5

LEMMA ScanBudget ==
    ASSUME LimitInv, NEW w \in Workers, Scan(w)
    PROVE  BudgetInv'
<1> DEFINE r == run[w]
<1> DEFINE doc == hunt.results
<1>1. /\ TypeOK /\ r.at = "scan" /\ r.pos # 0 /\ r.at \in LoopAt
      /\ hunt.state = "running" => CountOK(r, doc, clock) /\ doc.usage.rows <= MaxRows
    BY BudgetFacts DEF LimitInv, SafeInv, BaseInv, WorkerOK, PlaceOK, LoopAt, Scan
<1>2. UNCHANGED <<hunt, splunk, clock>> /\ Working(w)
    BY DEF Scan, Working, local
<1>3. PICK new \in Run :
         /\ run' = [run EXCEPT ![w] = new]
         /\ \/ new.at \in {"assess", "reserve", "failing"} /\ new.usage = r.usage
            \/ new.at = "scan" /\ new.usage = r.usage
            \/ /\ new.pos = r.pos /\ new.usage = r.usage
               /\ new.at \in {"checkpoint", "submit", "poll"}
               /\ new.at = "checkpoint" => /\ new.todo \in {"skipped_time_cutoff", "skipped_budget"}
                                           /\ clock > 0 \/ r.usage.rows >= MaxRows
               /\ new.at = "submit" => doc.ledger[r.pos].status = "planned" /\ clock = 0
               /\ new.at = "submit" => ~(r.usage.rows >= MaxRows)
               /\ new.at = "poll" => doc.ledger[r.pos].status # "planned"
    BY <1>1, ScanEffect DEF Leaves
<1>4. CASE new.at = "failing"
    BY <1>2, <1>3, <1>4, FreeQuiet
<1>5. CASE new.at # "failing"
    <2>1. DraftOK(new) /\ SendOK(new, search, Net) /\ FailOK(new, hunt) /\ new.at # "dispatch"
        BY <1>3, <1>5 DEF DraftOK, SendOK, FailOK, Drafting
    <2>2. ASSUME hunt.state = "running"
          PROVE  /\ CountOK(new, doc, clock)
                 /\ new.at = "submit" => ~Stopped(clock, doc.usage)
        <3>1. r.usage.searches = doc.usage.searches /\ r.usage.rows = doc.usage.rows
            BY <1>1, <2>2 DEF CountOK, Level, SameCounts
        <3>2. CASE new.at \in {"assess", "reserve", "scan"}
            BY <1>3, <3>1, <3>2 DEF CountOK, Level, Settling, SameCounts, AfterLoop, Copied, Extended
        <3>3. CASE new.at \in {"submit", "poll"}
            BY <1>3, <3>1, <3>3 DEF CountOK, Level, Settling, SameCounts, AfterLoop, Copied, Extended, Stopped
        <3>4. CASE new.at = "checkpoint"
            <4>1. SettleOK(new, doc, clock)
                BY <1>1, <1>3, <2>2, <3>1, <3>4 DEF SettleOK, Stopped
            <4> QED BY <3>4, <4>1 DEF CountOK, Level, Settling, AfterLoop, Copied, Extended
        <3> QED BY <1>3, <1>5, <3>2, <3>3, <3>4
    <2> QED BY <1>1, <1>2, <1>3, <2>1, <2>2, QuietBudget
<1> QED BY <1>4, <1>5

\* The search that the row does not count is that of the worker's query.
LEMMA LagHere ==
    ASSUME NEW r, NEW L \in Seq(Entry), NEW s, InLoop(r, L), OnQuery(r, L), Lag(L, s)
    PROVE  L[r.pos].status = "planned" /\ s[r.q] \in {"running", "done"}
<1>1. PICK p \in DOMAIN L : /\ L[p].status = "planned" /\ s[L[p].id] \in {"running", "done"}
                            /\ \A i \in 1 .. p - 1 : L[i].status \in Finished
    BY DEF Lag
<1>2. Len(L) \in Nat /\ DOMAIN L = 1 .. Len(L)
    OBVIOUS
<1>3. r.pos \in 1 .. Len(L) /\ p \in 1 .. Len(L)
    BY <1>2 DEF InLoop, OnQuery
<1>4. ~(p < r.pos)
    <2> SUFFICES ASSUME p < r.pos PROVE FALSE
        OBVIOUS
    <2>1. p \in 1 .. r.pos - 1
        BY <1>3
    <2>2. L[p].status \in Finished
        BY <2>1 DEF InLoop
    <2> QED BY <1>1, <2>2 DEF Finished
<1>5. ~(r.pos < p)
    <2> SUFFICES ASSUME r.pos < p PROVE FALSE
        OBVIOUS
    <2>1. r.pos \in 1 .. p - 1
        BY <1>3
    <2> QED BY <1>1, <2>1 DEF OnQuery
<1>6. p = r.pos
    BY <1>3, <1>4, <1>5
<1> QED BY <1>1, <1>6 DEF OnQuery

LEMMA SubmitBudget ==
    ASSUME LimitInv, NEW w \in Workers, Submit(w)
    PROVE  BudgetInv'
<1> DEFINE r == run[w]
<1> DEFINE doc == hunt.results
<1>1. /\ TypeOK /\ BudgetInv /\ r.at = "submit" /\ r.at \in LoopAt /\ r.usage \in Usage
      /\ hunt.state = "running" => /\ CountOK(r, doc, clock) /\ AccountOK /\ doc.usage.rows <= MaxRows
                                   /\ RunningOK(r, doc.ledger, issued)
      /\ hunt.state # "cancelled" => hunt.state = "running"
    BY BudgetFacts, WorkerTyped DEF LoopAt, Submit
<1>2. UNCHANGED <<hunt, splunk, clock>> /\ Working(w)
    BY DEF Submit, Working, local
<1>3. PICK new \in Run :
         /\ run' = [run EXCEPT ![w] = new] /\ new.rows = r.rows
         /\ \/ /\ \E todo \in {"timed_out", "skipped_budget"} : Turns(new, r, "checkpoint", todo)
               /\ new.usage = r.usage /\ (clock = 2 \/ ~CanStartQuery(r.usage))
            \/ /\ \/ Turns(new, r, "failing", r.todo)
                  \/ Turns(new, r, "dispatch", r.todo) /\ ~Cancelled(w)
               /\ CanStartQuery(r.usage) /\ new.usage = RecordSplunkQuery(r.usage)
    BY <1>1, SubmitEffect
<1>4. /\ doc.usage.searches \in Nat /\ doc.usage.rows \in Nat /\ r.usage.searches \in Nat /\ r.usage.rows \in Nat
      /\ MaxSearches \in Nat /\ Net \in Int
    BY <1>1, BudgetTypes
<1>5. hunt.state = "running" => r.usage.searches = doc.usage.searches /\ r.usage.rows = doc.usage.rows
    BY <1>1 DEF CountOK, Level, SameCounts
<1>6. CASE \E todo \in {"timed_out", "skipped_budget"} : Turns(new, r, "checkpoint", todo)
    <2>1. /\ new.at = "checkpoint" /\ new.todo \in {"timed_out", "skipped_budget"} /\ new.pos = r.pos
          /\ new.usage = r.usage /\ (clock = 2 \/ ~CanStartQuery(r.usage))
        BY <1>3, <1>6 DEF Turns
    <2>2. DraftOK(new) /\ SendOK(new, search, Net) /\ FailOK(new, hunt)
        BY <2>1 DEF DraftOK, SendOK, FailOK, Drafting
    <2>3. ASSUME hunt.state = "running" PROVE CountOK(new, doc, clock)
        <3>1. clock = 2 => Stopped(clock, doc.usage)
            BY DEF Stopped
        <3>2. ~CanStartQuery(r.usage) => doc.usage.searches >= MaxSearches
            BY <1>4, <1>5, <2>3 DEF CanStartQuery
        <3>3. SettleOK(new, doc, clock)
            BY <1>1, <1>5, <2>1, <2>3, <3>1, <3>2 DEF SettleOK
        <3> QED BY <2>1, <3>3 DEF CountOK, Level, Settling, AfterLoop, Copied, Extended
    <2> QED BY <1>1, <1>2, <1>3, <2>1, <2>2, <2>3, QuietBudget
<1>7. CASE Turns(new, r, "failing", r.todo)
    <2>1. new.at = "failing"
        BY <1>7 DEF Turns
    <2> QED BY <1>2, <1>3, <2>1, FreeQuiet
<1>8. CASE Turns(new, r, "dispatch", r.todo) /\ ~Cancelled(w)
    <2>1. /\ new.at = "dispatch" /\ new.pos = r.pos /\ new.q = r.q
          /\ CanStartQuery(r.usage) /\ new.usage = RecordSplunkQuery(r.usage)
        BY <1>3, <1>8 DEF Turns
    <2>2. hunt.state = "running"
        BY <1>1, <1>8 DEF Cancelled
    <2>3. new.usage.searches = r.usage.searches + 1 /\ new.usage.rows = r.usage.rows
        BY <1>1, <2>1 DEF RecordSplunkQuery, Usage
    <2>4. DraftOK(new) /\ FailOK(new, hunt)
        BY <2>1 DEF DraftOK, FailOK, Drafting
    <2>5. CountOK(new, doc, clock)
        BY <1>1, <1>5, <2>1, <2>2, <2>3 DEF CountOK, Level, Settling, AfterLoop, Copied, Extended
    <2>6. SendOK(new, search, Net)
        <3>1. CASE Net <= doc.usage.searches
            BY <1>4, <1>5, <2>1, <2>2, <3>1 DEF CanStartQuery, SendOK
        <3>2. CASE Lag(doc.ledger, search)
            <4>1. doc.ledger \in Seq(Entry) /\ InLoop(r, doc.ledger) /\ OnQuery(r, doc.ledger)
                BY <1>1, <2>2, RowTyped DEF RunningOK, LoopAt
            <4>2. search[r.q] \in {"running", "done"}
                BY <3>2, <4>1, LagHere
            <4>3. r.pos \in DOMAIN doc.ledger /\ doc.ledger[r.pos].id = r.q
                BY <4>1 DEF InLoop, OnQuery
            <4>4. doc.ledger[r.pos] \in Entry
                BY <4>1, <4>3
            <4> QED BY <2>1, <4>2, <4>3, <4>4 DEF SendOK, Entry
        <3>3. ~NoneSent(run)
            BY <1>1 DEF NoneSent
        <3> QED BY <1>1, <2>2, <3>1, <3>2, <3>3 DEF AccountOK
    <2> QED BY <1>1, <1>2, <1>3, <2>1, <2>4, <2>5, <2>6, QuietBudget
<1> QED BY <1>3, <1>6, <1>7, <1>8

LEMMA PollBudget ==
    ASSUME LimitInv, NEW w \in Workers, PollError(w) \/ PollTimeout(w) \/ Retrieve(w)
    PROVE  BudgetInv'
<1> DEFINE r == run[w]
<1> DEFINE doc == hunt.results
<1>1. /\ TypeOK /\ r.at = "poll" /\ r.at \in LoopAt /\ r.usage \in Usage
      /\ hunt.state = "running" => CountOK(r, doc, clock)
    BY BudgetFacts, WorkerTyped DEF LoopAt, PollError, PollTimeout, Retrieve
<1>2. UNCHANGED <<hunt, splunk, clock>> /\ Working(w)
    BY DEF PollError, PollTimeout, Retrieve, Working, local
<1>3. hunt.state = "running" => /\ r.usage.searches = doc.usage.searches /\ r.usage.rows = doc.usage.rows
                                /\ doc.ledger[r.pos].status # "planned"
    BY <1>1 DEF CountOK, Level, SameCounts
<1>4. CASE PollError(w) \/ PollTimeout(w)
    <2>1. PICK new \in Run :
            /\ run' = [run EXCEPT ![w] = new] /\ new.usage = r.usage /\ new.at = "abort" /\ new.pos = r.pos
        <3>1. ~Dispatch(w) /\ ~DispatchError(w)
            BY <1>1 DEF Dispatch, DispatchError
        <3> QED BY <1>1, <1>4, <3>1, SearchEffect DEF Turns
    <2>2. DraftOK(new) /\ SendOK(new, search, Net) /\ FailOK(new, hunt)
        BY <2>1 DEF DraftOK, SendOK, FailOK, Drafting
    <2>3. ASSUME hunt.state = "running" PROVE CountOK(new, doc, clock)
        BY <1>3, <2>1, <2>3 DEF CountOK, Level, Settling, SameCounts, AfterLoop, Copied, Extended
    <2> QED BY <1>1, <1>2, <2>1, <2>2, <2>3, QuietBudget
<1>5. CASE Retrieve(w)
    <2>1. PICK new \in Run, n \in 0 .. MaxQueryRows :
             /\ run' = [run EXCEPT ![w] = new] /\ Turns(new, r, "checkpoint", "completed")
             /\ new.rows = n /\ new.usage = RecordResult(r.usage, n) /\ r.usage.rows + n <= MaxRows
        BY <1>1, <1>5, RetrieveEffect
    <2>2. new.at = "checkpoint" /\ new.todo = "completed" /\ new.pos = r.pos
        BY <2>1 DEF Turns
    <2>3. new.usage.searches = r.usage.searches /\ new.usage.rows = r.usage.rows + n
        BY <1>1, <2>1 DEF RecordResult, Usage
    <2>4. DraftOK(new) /\ SendOK(new, search, Net) /\ FailOK(new, hunt)
        BY <2>2 DEF DraftOK, SendOK, FailOK, Drafting
    <2>5. ASSUME hunt.state = "running" PROVE CountOK(new, doc, clock)
        <3>1. SettleOK(new, doc, clock)
            BY <1>3, <2>1, <2>2, <2>3, <2>5 DEF SettleOK
        <3> QED BY <2>2, <3>1 DEF CountOK, Level, Settling, AfterLoop, Copied, Extended
    <2> QED BY <1>1, <1>2, <2>1, <2>2, <2>4, <2>5, QuietBudget
<1> QED BY <1>4, <1>5

\* A checkpoint keeps the rows within what it counts.
LEMMA CheckpointRows ==
    ASSUME NEW doc \in Results, NEW q, NEW status \in Statuses, NEW rows \in Nat, NEW u \in Usage,
           doc.usage \in Usage, RowsKept(doc) <= doc.usage.rows,
           status = "completed" => u.rows = doc.usage.rows + rows,
           status # "completed" => u.rows = doc.usage.rows
    PROVE  RowsKept(Checkpointed(doc, q, status, rows, u)) <= u.rows
<1> DEFINE new == Checkpointed(doc, q, status, rows, u)
<1>1. new \in Results /\ new.queries = (IF status = "completed" THEN Record(doc.queries, q, rows) ELSE doc.queries)
    BY CheckpointTyped
<1>2. doc.queries \in Records /\ new.queries \in Records /\ u.rows \in Nat /\ doc.usage.rows \in Nat
    BY <1>1 DEF Results, Usage
<1> HIDE DEF new
<1>3. CASE status = "completed"
    <2>0. \A p \in Queries : new.queries[p] = IF p = q THEN [records |-> 1, rows |-> rows] ELSE doc.queries[p]
        BY <1>1, <1>2, <1>3, RecordTyped
    <2>1. /\ \A p \in Queries : p = q => new.queries[p].rows = rows
          /\ \A p \in Queries : p # q => new.queries[p].rows = doc.queries[p].rows
        BY <2>0
    <2>2. RowsKept(doc) \in Nat /\ RowsKept(new) \in Nat /\ RowsKept(new) <= RowsKept(doc) + rows
        BY <1>2, <2>1, KeptGrows
    <2>3. RowsKept(new) <= u.rows
        BY <1>2, <1>3, <2>2
    <2> QED BY <2>3 DEF new
<1>4. CASE status # "completed"
    <2>1. RowsKept(new) = RowsKept(doc)
        BY <1>1, <1>2, <1>4, KeptSame
    <2> QED BY <1>4, <2>1 DEF new
<1> QED BY <1>3, <1>4

LEMMA ApplyBudget ==
    ASSUME LimitInv, NEW w \in Workers, Apply(w)
    PROVE  BudgetInv'
<1> DEFINE r == run[w]
<1> DEFINE row == hunt.results
<1> DEFINE doc == Checkpointed(row, r.q, r.todo, r.rows, r.usage)
<1>1. /\ TypeOK /\ r.at = "apply" /\ r.at \in LoopAt
      /\ r.usage \in Usage /\ r.todo \in Statuses /\ r.rows \in Nat
      /\ row \in Results /\ row.usage \in Usage /\ row.ledger \in Seq(Entry)
      /\ hunt.state = "running" => /\ CountOK(r, row, clock) /\ RowsKept(row) <= row.usage.rows
                                   /\ RunningOK(r, row.ledger, issued)
    BY BudgetFacts, WorkerTyped, RowTyped DEF LoopAt, Apply
<1>2. UNCHANGED <<hunt, splunk, clock>> /\ Working(w)
    BY DEF Apply, Working, local
<1>3. hunt.state = "running" => SettleOK(r, row, clock)
    BY <1>1 DEF CountOK, Settling
<1>4. PICK new \in Run :
        /\ run' = [run EXCEPT ![w] = new] /\ new.usage = r.usage
        /\ \/ Applicable(row.ledger, r.q, r.todo) /\ Edits(new, r, "save", doc)
           \/ Leaves(new, r, "failing")
           \/ r.todo = "submitted" /\ Stays(new, r, "abort") /\ ~Applicable(row.ledger, r.q, r.todo)
    BY <1>1, ApplyEffect
<1>5. /\ doc.usage = r.usage
      /\ \A q \in Queries : q # r.q => doc.queries[q] = row.queries[q]
    <2>1. row.queries \in Records
        BY <1>1 DEF Results
    <2>2. /\ doc.usage = r.usage
          /\ doc.queries = IF r.todo = "completed" THEN Record(row.queries, r.q, r.rows) ELSE row.queries
        BY <1>1, CheckpointTyped
    <2> HIDE DEF doc
    <2>3. \A q \in Queries : q # r.q => Record(row.queries, r.q, r.rows)[q] = row.queries[q]
        BY <2>1 DEF Record, Records
    <2> QED BY <2>2, <2>3
<1>6. hunt.state = "running" => RowsKept(doc) <= r.usage.rows
    BY <1>1, <1>3, CheckpointRows DEF SettleOK
<1> HIDE DEF doc
<1>7. CASE Edits(new, r, "save", doc)
    <2>1. /\ new.at = "save" /\ new.todo = r.todo /\ new.pos = r.pos /\ new.rows = r.rows /\ new.mem = doc
        BY <1>7 DEF Edits
    <2>2. DraftOK(new) /\ SendOK(new, search, Net) /\ FailOK(new, hunt)
        BY <2>1 DEF DraftOK, SendOK, FailOK, Drafting
    <2>3. ASSUME hunt.state = "running" PROVE CountOK(new, row, clock)
        <3>1. SettleOK(new, row, clock)
            BY <1>3, <1>4, <2>1, <2>3 DEF SettleOK
        <3>2. new.q = r.q
            BY <1>7 DEF Edits
        <3> QED BY <1>4, <1>5, <1>6, <2>1, <2>3, <3>1, <3>2 DEF CountOK, Level, Settling, AfterLoop, Copied, Extended
    <2> QED BY <1>1, <1>2, <1>4, <2>1, <2>2, <2>3, QuietBudget
<1>8. CASE Leaves(new, r, "failing")
    <2>1. new.at = "failing"
        BY <1>8 DEF Leaves
    <2> QED BY <1>2, <1>4, <2>1, FreeQuiet
<1>9. CASE r.todo = "submitted" /\ Stays(new, r, "abort") /\ ~Applicable(row.ledger, r.q, r.todo)
    <2>1. new.at = "abort"
        BY <1>9 DEF Stays
    <2>2. DraftOK(new) /\ SendOK(new, search, Net) /\ FailOK(new, hunt)
        BY <2>1 DEF DraftOK, SendOK, FailOK, Drafting
    <2>3. hunt.state # "running"
        <3> SUFFICES ASSUME hunt.state = "running" PROVE FALSE
            OBVIOUS
        <3>1. InLoop(r, row.ledger) /\ OnQuery(r, row.ledger)
            BY <1>1 DEF RunningOK, LoopAt
        <3>2. r.pos \in DOMAIN row.ledger /\ row.ledger[r.pos].id = r.q
            BY <1>1, <3>1 DEF InLoop, OnQuery
        <3>3. row.ledger[r.pos].status = "planned"
            BY <1>3, <1>9 DEF SettleOK
        <3> QED BY <1>9, <3>2, <3>3 DEF Applicable, Entries
    <2> QED BY <1>1, <1>2, <1>4, <2>1, <2>2, <2>3, QuietBudget
<1> QED BY <1>4, <1>7, <1>8, <1>9

\* The rounds and the synthesis neither search nor keep rows.
LEMMA RoundBudget ==
    ASSUME LimitInv, NEW w \in Workers,
           \/ AssessRead(w) \/ SynthRead(w) \/ ReserveRead(w)
           \/ NoRound(w) \/ AssessResults(w) \/ DecideNothing(w) \/ Answer(w) \/ StopRounds(w)
           \/ CoverSources(w) \/ DecideFollowUp(w)
    PROVE  BudgetInv'
<1> DEFINE r == run[w]
<1> DEFINE doc == hunt.results
<1>1. TypeOK /\ (hunt.state = "running" => CountOK(r, doc, clock))
    BY BudgetFacts
<1>2. UNCHANGED <<hunt, splunk, clock>> /\ Working(w)
    BY DEF AssessRead, SynthRead, ReserveRead, NoRound, AssessResults, DecideNothing, Answer, StopRounds,
           CoverSources, DecideFollowUp, Working, local
<1>3. ASSUME NEW new \in Run, run' = [run EXCEPT ![w] = new], new.at \in AfterLoop,
             hunt.state = "running" =>
                /\ SameCounts(new.usage, doc.usage) /\ SameCounts(new.mem.usage, doc.usage)
                /\ new.mem.queries = doc.queries
      PROVE  BudgetInv'
    <2>1. /\ DraftOK(new) /\ SendOK(new, search, Net) /\ FailOK(new, hunt)
          /\ new.at \notin LoopAt /\ new.at \notin {"submit", "dispatch"}
        BY <1>3 DEF DraftOK, SendOK, FailOK, Drafting, LoopAt, AfterLoop, Copied, Extended
    <2>2. ASSUME hunt.state = "running" PROVE CountOK(new, doc, clock)
        BY <1>3, <2>1, <2>2 DEF CountOK, Settling, LoopAt
    <2> QED BY <1>2, <1>3, <2>1, <2>2, QuietBudget
<1>4. CASE AssessRead(w) \/ SynthRead(w) \/ ReserveRead(w)
    <2>1. r.at \in AfterLoop
        BY <1>4 DEF AssessRead, SynthRead, ReserveRead, AfterLoop
    <2>2. PICK new \in Run, mem \in Results,
               at \in {"reserve", "synth", "round", "advance", "answering", "reserve_save"} :
             /\ run' = [run EXCEPT ![w] = new] /\ new.usage = r.usage
             /\ Edits(new, r, at, mem) /\ Copies(mem, doc)
             /\ mem.usage = doc.usage \/ mem.usage = r.usage
        BY <1>1, <1>4, ReadEffect
    <2>3. new.at = at /\ new.mem = mem /\ mem.queries = doc.queries /\ new.at \in AfterLoop
        BY <2>2 DEF Edits, Copies, AfterLoop, Copied
    <2>4. hunt.state = "running" => /\ SameCounts(new.usage, doc.usage) /\ SameCounts(mem.usage, doc.usage)
        BY <1>1, <2>1, <2>2 DEF CountOK, Level, SameCounts
    <2> QED BY <1>3, <2>2, <2>3, <2>4
<1>5. CASE NoRound(w) \/ AssessResults(w) \/ DecideNothing(w) \/ Answer(w) \/ StopRounds(w)
    <2>1. r.at \in AfterLoop /\ r.at \in Copied
        BY <1>5 DEF NoRound, AssessResults, DecideNothing, Answer, StopRounds, AfterLoop, Copied
    <2>2. PICK new \in Run, mem \in Results, at \in {"round_save", "interim_save", "answer", "reserve"} :
             /\ run' = [run EXCEPT ![w] = new] /\ Edits(new, r, at, mem)
             /\ Copies(mem, r.mem) /\ SameCounts(new.usage, r.usage)
             /\ mem.usage = r.mem.usage \/ mem.usage = r.usage
        BY <1>1, <1>5, KeepEffect
    <2>3. new.at = at /\ new.mem = mem /\ mem.queries = r.mem.queries /\ new.at \in AfterLoop
        BY <2>2 DEF Edits, Copies, AfterLoop, Copied, Extended
    <2>4. hunt.state = "running" => /\ SameCounts(r.usage, doc.usage) /\ SameCounts(r.mem.usage, doc.usage)
                                    /\ r.mem.queries = doc.queries
        BY <1>1, <2>1 DEF CountOK, Level
    <2>5. hunt.state = "running" => SameCounts(new.usage, doc.usage) /\ SameCounts(mem.usage, doc.usage)
        BY <2>2, <2>4 DEF SameCounts
    <2> QED BY <1>3, <2>2, <2>3, <2>4, <2>5
<1>6. CASE CoverSources(w) \/ DecideFollowUp(w)
    <2>1. r.at \in AfterLoop /\ r.at \in Copied
        BY <1>6 DEF CoverSources, DecideFollowUp, AfterLoop, Copied
    <2>2. PICK new \in Run, mem \in Results :
             /\ run' = [run EXCEPT ![w] = new] /\ new.usage = r.usage /\ mem.usage = r.usage
             /\ Edits(new, r, "cover", mem) \/ Edits(new, r, "round_save", mem)
             /\ mem.queries = r.mem.queries \/ mem.queries = doc.queries
        BY <1>1, <1>6, PlanEffect DEF Copies
    <2>3. new.at \in AfterLoop /\ new.mem = mem
        BY <2>2 DEF Edits, AfterLoop, Extended
    <2>4. hunt.state = "running" => SameCounts(r.usage, doc.usage) /\ r.mem.queries = doc.queries
        BY <1>1, <2>1 DEF CountOK, Level
    <2> QED BY <1>3, <2>2, <2>3, <2>4
<1> QED BY <1>4, <1>5, <1>6

LEMMA FailBudget ==
    ASSUME LimitInv, NEW w \in Workers, FailRead(w) \/ Raise(w)
    PROVE  BudgetInv'
<1>1. TypeOK
    BY BudgetFacts
<1>2. UNCHANGED <<hunt, splunk, clock>> /\ Working(w)
    BY DEF FailRead, Raise, Working, local
<1>3. CASE FailRead(w)
    <2>1. PICK new \in Run :
             /\ run' = [run EXCEPT ![w] = new]
             /\ \/ new.at = "fail_save" /\ Copies(new.mem, hunt.results)
                \/ Leaves(new, run[w], "error")
        BY <1>1, <1>3, FailReadEffect
    <2>2. CASE new.at = "fail_save" /\ Copies(new.mem, hunt.results)
        <3>1. /\ DraftOK(new) /\ SendOK(new, search, Net) /\ FailOK(new, hunt)
              /\ CountOK(new, hunt.results, clock) /\ new.at \notin LoopAt /\ new.at \notin {"submit", "dispatch"}
            BY <2>2 DEF DraftOK, SendOK, FailOK, Copies, CountOK, Drafting, Settling, Level, LoopAt,
                        AfterLoop, Copied, Extended
        <3> QED BY <1>2, <2>1, <3>1, QuietBudget
    <2>3. CASE Leaves(new, run[w], "error")
        <3>1. new.at = "error"
            BY <2>3 DEF Leaves
        <3> QED BY <1>2, <2>1, <3>1, FreeQuiet
    <2> QED BY <2>1, <2>2, <2>3
<1>4. CASE Raise(w)
    <2>1. Goto(w, "failing") /\ "failing" \in Points /\ "failing" \in Exits
        BY <1>4, PointNames DEF Raise, Exits
    <2>2. PICK new \in Run : run' = [run EXCEPT ![w] = new] /\ Leaves(new, run[w], "failing")
        BY <1>1, <2>1, GotoEffect
    <2>3. new.at = "failing"
        BY <2>2 DEF Leaves
    <2> QED BY <1>2, <2>2, <2>3, FreeQuiet
<1> QED BY <1>3, <1>4

LEMMA SendBudget ==
    ASSUME LimitInv, NEW w \in Workers, Dispatch(w) \/ DispatchError(w)
    PROVE  BudgetInv'
<1> DEFINE r == run[w]
<1> DEFINE doc == hunt.results
<1>1. /\ TypeOK /\ BudgetInv /\ r.at = "dispatch" /\ r.at \in LoopAt /\ SendOK(r, search, Net)
      /\ hunt.state = "running" => /\ CountOK(r, doc, clock) /\ AccountOK /\ doc.usage.rows <= MaxRows
                                   /\ RunningOK(r, doc.ledger, issued)
      /\ hunt.state # "cancelled" => hunt.state = "running"
    BY BudgetFacts DEF LoopAt, Dispatch, DispatchError
<1>2. UNCHANGED <<hunt, clock>> /\ Working(w) /\ (Create(r.q) \/ UNCHANGED splunk)
    BY DEF Dispatch, DispatchError, Working
<1>3. PICK new \in Run :
         /\ run' = [run EXCEPT ![w] = new] /\ new.usage = r.usage
         /\ \/ new.at = "failing"
            \/ new.at = "checkpoint" /\ new.todo \in {"submitted", "timed_out"} /\ new.pos = r.pos
    <2>1. ~PollError(w) /\ ~PollTimeout(w)
        BY <1>1 DEF PollError, PollTimeout
    <2> QED BY <1>1, <2>1, SearchEffect DEF Turns, Leaves
<1>4. doc.usage.searches \in Nat /\ MaxSearches \in Nat /\ Net \in Int
    BY <1>1, BudgetTypes
<1>5. \/ /\ search[r.q] \in {"none", "gone"} /\ search' = [search EXCEPT ![r.q] = "running"]
         /\ Net' = Net + 1
      \/ search' = search /\ Net' = Net
    BY <1>1, <1>2 DEF Create, splunk, Net, TypeOK
<1>6. Net' <= MaxSearches
    <2>1. Net <= MaxSearches
        BY <1>1 DEF BudgetInv
    <2>2. search[r.q] \in {"none", "gone"} => Net < MaxSearches
        BY <1>1 DEF SendOK
    <2> QED BY <1>4, <1>5, <2>1, <2>2
<1>7. SendOK(new, search', Net') /\ DraftOK(new) /\ \A row : FailOK(new, row)
    BY <1>3 DEF SendOK, DraftOK, FailOK, Drafting
<1>8. ASSUME hunt.state = "running" PROVE AccountOK'
    <2>1. doc.ledger \in Seq(Entry) /\ InLoop(r, doc.ledger) /\ OnQuery(r, doc.ledger)
        BY <1>1, <1>8, RowTyped DEF RunningOK, LoopAt
    <2>2. doc.ledger[r.pos].status = "planned"
        BY <1>1, <1>8 DEF CountOK
    <2>3. ~NoneSent(run)
        BY <1>1 DEF NoneSent
    <2>4. CASE search' = search /\ Net' = Net
        BY <1>1, <1>2, <1>8, <2>3, <2>4 DEF AccountOK
    <2>5. CASE /\ search[r.q] \in {"none", "gone"} /\ search' = [search EXCEPT ![r.q] = "running"]
               /\ Net' = Net + 1
        <3>1. ~Lag(doc.ledger, search)
            <4> SUFFICES ASSUME Lag(doc.ledger, search) PROVE FALSE
                OBVIOUS
            <4>1. search[r.q] \in {"running", "done"}
                BY <2>1, LagHere
            <4> QED BY <2>5, <4>1
        <3>2. Net <= doc.usage.searches
            BY <1>1, <1>8, <2>3, <3>1 DEF AccountOK
        <3>3. Net' <= doc.usage.searches + 1
            BY <1>4, <2>5, <3>2
        <3>4. r.pos \in DOMAIN doc.ledger /\ doc.ledger[r.pos].id = r.q
            BY <2>1 DEF InLoop, OnQuery
        <3>5. doc.ledger[r.pos] \in Entry
            BY <2>1, <3>4
        <3>6. search'[r.q] = "running"
            BY <1>1, <2>5, <3>4, <3>5 DEF TypeOK, Entry
        <3>7. Lag(doc.ledger, search')
            BY <2>1, <2>2, <3>4, <3>6 DEF Lag, InLoop
        <3> QED BY <1>2, <3>3, <3>7 DEF AccountOK
    <2> QED BY <1>5, <2>4, <2>5
<1>9. ASSUME hunt.state = "running" PROVE CountOK(new, doc, clock)
    <2>1. new.at = "checkpoint" => SettleOK(new, doc, clock)
        BY <1>1, <1>3, <1>9 DEF CountOK, SettleOK
    <2> QED BY <1>3, <2>1 DEF CountOK, Level, Settling, AfterLoop, Copied, Extended
<1>10. RowsOK(hunt') /\ hunt' = hunt /\ clock' = clock
    BY <1>1, <1>2 DEF BudgetInv
<1> QED BY <1>1, <1>2, <1>3, <1>6, <1>7, <1>8, <1>9, <1>10, BudgetStep

LEMMA AbortBudget ==
    ASSUME LimitInv, NEW w \in Workers, Abort(w)
    PROVE  BudgetInv'
<1> DEFINE r == run[w]
<1> DEFINE doc == hunt.results
<1>1. /\ TypeOK /\ BudgetInv /\ r.at = "abort" /\ r.at \in LoopAt
      /\ hunt.state = "running" => /\ CountOK(r, doc, clock) /\ AccountOK /\ doc.usage.rows <= MaxRows
                                   /\ RunningOK(r, doc.ledger, issued)
      /\ hunt.state # "cancelled" => hunt.state = "running"
    BY BudgetFacts DEF LoopAt, Abort
<1>2. /\ UNCHANGED <<hunt, clock>> /\ Working(w) /\ doc.usage.searches \in Nat /\ MaxSearches \in Nat
      /\ Net \in Int
    BY <1>1, BudgetTypes DEF Abort, Working
<1>3. PICK new \in Run :
         /\ run' = [run EXCEPT ![w] = new] /\ new.usage = r.usage
         /\ \/ new.at = "failing"
            \/ new.at = "checkpoint" /\ r.todo = "timed_out" /\ new.todo = "timed_out" /\ new.pos = r.pos
    BY <1>1, AbortEffect DEF Stays, Leaves
<1>4. SendOK(new, search', Net') /\ DraftOK(new) /\ \A row : FailOK(new, row)
    BY <1>3 DEF SendOK, DraftOK, FailOK, Drafting
<1>5. \/ Net' = Net /\ search' = search
      \/ Net' = Net /\ r.todo # "submitted"
      \/ Net' = Net - 1 /\ r.todo = "submitted"
    BY <1>1 DEF Abort, Net, TypeOK
<1>6. NoneSent(run) => NoneSent(run')
    <2>1. run'[w].at \notin {"submit", "dispatch"} /\ \A v \in Workers : v # w => run'[v] = run[v]
        BY <1>1, <1>3, Turned
    <2> QED BY <2>1 DEF NoneSent
<1>7. ASSUME hunt.state = "running" PROVE AccountOK'
    <2>0. AccountOK
        BY <1>1, <1>7
    <2>1. CASE Net' = Net /\ search' = search
        BY <1>2, <1>6, <2>0, <2>1 DEF AccountOK
    <2>2. CASE Net' = Net /\ r.todo # "submitted"
        <3>1. doc.ledger \in Seq(Entry) /\ InLoop(r, doc.ledger) /\ OnQuery(r, doc.ledger)
            BY <1>1, <1>7, RowTyped DEF RunningOK, LoopAt
        <3>2. doc.ledger[r.pos].status # "planned"
            BY <1>1, <1>7, <2>2 DEF CountOK
        <3>3. ~Lag(doc.ledger, search)
            BY <3>1, <3>2, LagHere
        <3> QED BY <1>2, <1>6, <2>0, <2>2, <3>3 DEF AccountOK
    <2>3. CASE Net' = Net - 1
        <3>1. Net <= doc.usage.searches + 1
            BY <1>2, <2>0 DEF AccountOK
        <3>2. Net' <= doc.usage.searches
            BY <1>2, <2>3, <3>1
        <3> QED BY <1>2, <3>2 DEF AccountOK
    <2> QED BY <1>5, <2>1, <2>2, <2>3
<1>8. ASSUME hunt.state = "running" PROVE CountOK(new, doc, clock)
    <2>1. CASE new.at = "failing"
        BY <2>1, IdleBudget, FreeBudget
    <2>2. CASE new.at = "checkpoint" /\ r.todo = "timed_out" /\ new.todo = "timed_out" /\ new.pos = r.pos
        <3>1. /\ doc.ledger[r.pos].status # "planned"
              /\ r.usage.searches = doc.usage.searches /\ r.usage.rows = doc.usage.rows
            BY <1>1, <1>8, <2>2 DEF CountOK, SameCounts
        <3>2. SettleOK(new, doc, clock)
            BY <1>1, <1>3, <1>8, <2>2, <3>1 DEF SettleOK
        <3> QED BY <2>2, <3>2 DEF CountOK, Level, Settling, AfterLoop, Copied, Extended
    <2> QED BY <1>3, <2>1, <2>2
<1>9. RowsOK(hunt') /\ hunt' = hunt /\ clock' = clock /\ Net' <= MaxSearches
    <2>1. Net <= MaxSearches /\ RowsOK(hunt)
        BY <1>1 DEF BudgetInv
    <2> QED BY <1>2, <1>5, <2>1
<1> QED BY <1>1, <1>2, <1>3, <1>4, <1>7, <1>8, <1>9, BudgetStep

LEMMA ErrorBudget ==
    ASSUME LimitInv, NEW w \in Workers, DbError(w)
    PROVE  BudgetInv'
<1>1. TypeOK
    BY BudgetFacts
<1>2. UNCHANGED <<hunt, splunk, clock>> /\ Working(w)
    BY DEF DbError, Working
<1>3. PICK new \in Run :
         /\ run' = [run EXCEPT ![w] = new]
         /\ \/ \E at \in {"failing", "error"} : Leaves(new, run[w], at)
            \/ /\ run[w].at \in {"checkpoint", "apply", "save"} /\ run[w].todo = "submitted"
               /\ Stays(new, run[w], "abort")
    BY <1>1, ErrorEffect
<1>4. CASE \E at \in {"failing", "error"} : Leaves(new, run[w], at)
    <2>1. new.at \in {"failing", "error"}
        BY <1>4 DEF Leaves
    <2> QED BY <1>2, <1>3, <2>1, FreeQuiet
<1>5. CASE /\ run[w].at \in {"checkpoint", "apply", "save"} /\ run[w].todo = "submitted"
           /\ Stays(new, run[w], "abort")
    <2>1. new.at = "abort" /\ new.todo = "submitted" /\ run[w].at \in LoopAt
        BY <1>5 DEF Stays, LoopAt
    <2>2. /\ DraftOK(new) /\ SendOK(new, search, Net) /\ FailOK(new, hunt)
          /\ CountOK(new, hunt.results, clock)
        BY <2>1 DEF DraftOK, SendOK, FailOK, Drafting, CountOK, Level, Settling, AfterLoop, Copied, Extended
    <2> QED BY <1>2, <1>3, <2>1, <2>2, QuietBudget
<1> QED BY <1>3, <1>4, <1>5

LEMMA SaveBudget ==
    ASSUME LimitInv, NEW w \in Workers, Save(w)
    PROVE  BudgetInv'
<1> DEFINE r == run[w]
<1> DEFINE doc == hunt.results
<1>1. /\ TypeOK /\ BudgetInv /\ SafeInv /\ r.mem \in Results /\ r.mem.usage \in Usage /\ r.todo \in Statuses
      /\ doc.queries \in Records /\ doc.ledger \in Seq(Entry)
      /\ hunt.state = "running" => /\ CountOK(r, doc, clock) /\ AccountOK /\ doc.usage.rows <= MaxRows
                                   /\ RowsKept(doc) <= doc.usage.rows /\ RunningOK(r, doc.ledger, issued)
      /\ (r.at \in LoopAt /\ hunt.state # "cancelled") => hunt.state = "running"
    BY BudgetFacts, WorkerTyped, RowTyped DEF Results
<1>2. UNCHANGED <<splunk, clock>> /\ Working(w) /\ r.at \in SavePoints
    BY DEF Save, Working
<1>3. /\ doc.usage.searches \in Nat /\ doc.usage.rows \in Nat /\ r.usage.searches \in Nat /\ r.usage.rows \in Nat
      /\ MaxSearches \in Nat /\ MaxRows \in Nat /\ Net \in Int /\ r.rows \in Nat
    BY <1>1, BudgetTypes
<1>4. CASE hunt.state # "running"
    <2>1. PICK new \in Run :
            /\ run' = [run EXCEPT ![w] = new] /\ hunt' = hunt
            /\ new.at = "failing" \/ (new.at = "abort" /\ r.at = "save")
        BY <1>1, <1>4, SaveEffect DEF Leaves, Stays
    <2>2. CASE new.at = "failing"
        BY <1>2, <2>1, <2>2, FreeQuiet
    <2>3. CASE new.at = "abort" /\ r.at = "save"
        <3>1. /\ DraftOK(new) /\ SendOK(new, search, Net) /\ FailOK(new, hunt) /\ r.at \in LoopAt
            BY <2>3 DEF DraftOK, SendOK, FailOK, Drafting, LoopAt
        <3> QED BY <1>2, <1>4, <2>1, <2>3, <3>1, QuietBudget
    <2> QED BY <2>1, <2>2, <2>3
<1>5. CASE hunt.state = "running"
    <2>1. PICK new \in Run :
            /\ run' = [run EXCEPT ![w] = new] /\ hunt' = [hunt EXCEPT !.results = r.mem]
            /\ \/ /\ r.at = "save" /\ new.usage = r.usage
                  /\ \/ r.todo = "submitted" /\ new.at = "poll" /\ new.pos = r.pos
                     \/ new.at = "scan"
               \/ r.at # "save" /\ new.at = "load"
               \/ /\ r.at # "save" /\ new.at \in {"decide", "reserve", "synth", "advance"}
                  /\ new.usage = r.usage /\ new.mem = r.mem
        BY <1>1, <1>5, SaveEffect DEF Stays
    <2>2. hunt'.state = "running" /\ hunt'.results = r.mem
        BY <1>1, <1>5, <2>1, RowWritten, RowTyped
    <2>3. /\ SendOK(new, search', Net') /\ DraftOK(new) /\ FailOK(new, hunt')
          /\ new.at \notin {"submit", "dispatch"}
        BY <2>1 DEF SendOK, DraftOK, FailOK, Drafting
    <2>4. search' = search /\ Net' = Net /\ clock' = clock /\ Net <= MaxSearches
        BY <1>1, <1>2 DEF splunk, BudgetInv, Net
    <2>5. NoneSent(run) => NoneSent(run')
        <3>1. run'[w].at \notin {"submit", "dispatch"} /\ \A v \in Workers : v # w => run'[v] = run[v]
            BY <1>1, <2>1, <2>3, Turned
        <3> QED BY <3>1 DEF NoneSent
    <2>6. CASE r.at = "save"
        <3>1. /\ SettleOK(r, doc, clock) /\ r.mem.usage = r.usage /\ RowsKept(r.mem) <= r.usage.rows
            BY <1>1, <1>5, <2>6 DEF CountOK, Settling
        <3>2. /\ InLoop(r, doc.ledger) /\ OnQuery(r, doc.ledger) /\ r.mem.ledger = Marked(doc.ledger, r.q, r.todo)
            BY <1>1, <1>5, <2>6 DEF RunningOK, LoopAt
        <3>3. RowsOK(hunt')
            <4>1. RowsKept(r.mem) \in Nat
                BY <1>1, KeptSame DEF Results
            <4>2. r.usage.rows <= MaxRows
                BY <3>1 DEF SettleOK
            <4>3. RowsKept(r.mem) <= MaxRows
                BY <1>3, <3>1, <4>1, <4>2
            <4> QED BY <2>2, <3>1, <4>2, <4>3 DEF RowsOK
        <3>4. ASSUME Stopped(clock, doc.usage) PROVE Stopped(clock, r.usage)
            BY <1>3, <3>1, <3>4 DEF SettleOK, Stopped
        <3>5. AccountOK'
            <4>1. CASE r.usage.searches = doc.usage.searches + 1
                <5>1. Net <= doc.usage.searches + 1
                    BY <1>1, <1>3, <1>5 DEF AccountOK
                <5> QED BY <2>2, <2>4, <3>1, <4>1, <5>1 DEF AccountOK
            <4>2. CASE /\ r.usage.searches = doc.usage.searches
                       /\ Net <= doc.usage.searches
                BY <2>2, <2>4, <3>1, <4>2 DEF AccountOK
            <4>3. CASE /\ r.usage.searches = doc.usage.searches
                       /\ Net <= doc.usage.searches + 1 /\ Stopped(clock, doc.usage) /\ NoneSent(run')
                BY <2>2, <2>4, <3>1, <3>4, <4>3 DEF AccountOK
            <4>4. CASE /\ r.usage.searches = doc.usage.searches
                       /\ Net <= doc.usage.searches + 1 /\ Lag(doc.ledger, search)
                <5>1. doc.ledger[r.pos].status = "planned"
                    BY <1>1, <3>2, <4>4, LagHere
                <5>2. Stopped(clock, doc.usage) \/ doc.usage.searches >= MaxSearches
                    BY <1>3, <3>1, <4>4, <5>1 DEF SettleOK
                <5>3. NoneSent(run')
                    <6>1. \A v \in Workers \ {w} : run'[v].at = "idle"
                        BY <1>1, <1>2, <1>5, OthersFree
                    <6>2. run'[w] = new
                        BY <1>1, <2>1, Turned
                    <6> QED BY <2>3, <6>1, <6>2 DEF NoneSent
                <5>4. doc.usage.searches >= MaxSearches => Net <= doc.usage.searches
                    BY <1>3, <2>4
                <5> QED BY <4>2, <4>3, <4>4, <5>2, <5>3, <5>4
            <4> QED BY <1>1, <1>5, <2>5, <3>1, <4>1, <4>2, <4>3, <4>4 DEF SettleOK, AccountOK
        <3>6. CountOK(new, r.mem, clock)
            <4>1. CASE new.at = "scan"
                BY <2>1, <2>6, <3>1, <4>1 DEF CountOK, SameCounts, Level, Settling, AfterLoop, Copied, Extended
            <4>2. CASE new.at = "poll" /\ r.todo = "submitted" /\ new.pos = r.pos
                <5>1. r.pos \in DOMAIN doc.ledger /\ doc.ledger[r.pos].id = r.q
                    BY <1>1, <3>2 DEF InLoop, OnQuery
                <5>2. r.mem.ledger[r.pos].status = "submitted"
                    BY <1>1, <3>2, <4>2, <5>1, MarkedTyped
                <5> QED BY <2>1, <2>6, <3>1, <4>2, <5>2 DEF CountOK, SameCounts, Level, Settling, AfterLoop, Copied,
                                                            Extended
            <4> QED BY <2>1, <2>6, <4>1, <4>2
        <3> QED BY <1>2, <1>5, <2>1, <2>2, <2>3, <2>4, <2>6, <3>3, <3>5, <3>6, BudgetStep DEF LoopAt
    <2>7. CASE r.at # "save"
        <3>0. r.at \in (Copied \cup Extended) \cap AfterLoop /\ r.at \notin LoopAt
            BY <1>2, <2>7 DEF SavePoints, AfterLoop, Copied, Extended, LoopAt
        <3>1. /\ r.usage.searches = doc.usage.searches /\ r.usage.rows = doc.usage.rows
              /\ r.mem.usage.searches = doc.usage.searches /\ r.mem.usage.rows = doc.usage.rows
              /\ r.mem.queries = doc.queries
            BY <1>1, <1>5, <3>0 DEF CountOK, Level, SameCounts
        <3>2. AllFinished(doc.ledger)
            BY <1>1, <1>5, <3>0 DEF RunningOK
        <3>3. RowsKept(r.mem) = RowsKept(doc)
            BY <1>1, <3>1, KeptSame
        <3>4. RowsOK(hunt')
            BY <1>1, <1>3, <1>5, <2>2, <3>1, <3>3 DEF RowsOK, BudgetInv
        <3>5. ~Lag(doc.ledger, search)
            BY <3>2 DEF Lag, AllFinished, Finished
        <3>6. AccountOK'
            BY <1>1, <1>5, <2>2, <2>4, <2>5, <3>1, <3>5 DEF AccountOK, Stopped
        <3>7. CountOK(new, r.mem, clock)
            <4>1. CASE new.at = "load"
                BY <4>1, IdleBudget, FreeBudget
            <4>2. CASE /\ new.at \in {"decide", "reserve", "synth", "advance"}
                       /\ new.usage = r.usage /\ new.mem = r.mem
                BY <3>1, <4>2 DEF CountOK, SameCounts, Level, Settling, AfterLoop, Copied, Extended
            <4> QED BY <2>1, <2>7, <4>1, <4>2
        <3> QED BY <1>2, <1>5, <2>1, <2>2, <2>3, <2>4, <3>4, <3>6, <3>7, BudgetStep
    <2> QED BY <2>6, <2>7
<1> QED BY <1>4, <1>5

LEMMA FailingBudget ==
    ASSUME LimitInv, NEW w \in Workers, Working(w), Goto(w, "failing"), UNCHANGED <<hunt, splunk, clock>>
    PROVE  BudgetInv'
<1>1. TypeOK /\ "failing" \in Points /\ "failing" \in Exits
    BY PointNames, BudgetFacts DEF Exits
<1>2. PICK new \in Run : run' = [run EXCEPT ![w] = new] /\ new.at = "failing"
    BY <1>1, GotoEffect DEF Leaves
<1> QED BY <1>2, FreeQuiet

\* A step that ends the running of the hunt and leaves what is kept alone.
LEMMA EndBudget ==
    ASSUME LimitInv, NEW w \in Workers, Working(w), NEW new \in Run, run' = [run EXCEPT ![w] = new],
           UNCHANGED <<splunk, clock>>, run[w].at \notin LoopAt, new.at \in {"publish", "ok", "error"},
           hunt.state # "cancelled", hunt'.state \notin {"queued", "running"},
           hunt'.results.queries = hunt.results.queries
    PROVE  BudgetInv'
<1>1. TypeOK /\ BudgetInv /\ hunt.results.queries \in Records
    BY BudgetFacts, RowTyped DEF Results
<1>2. new.at \notin LoopAt \cup AfterLoop \cup Drafting \cup {"fail_save"}
    BY IdleBudget
<1>3. DraftOK(new) /\ FailOK(new, hunt') /\ SendOK(new, search', Net')
    BY <1>2, FreeBudget
<1>4. Net' <= MaxSearches
    BY <1>1 DEF splunk, BudgetInv, Net
<1>5. RowsKept(hunt'.results) = RowsKept(hunt.results)
    BY <1>1, KeptSame
<1>6. RowsOK(hunt')
    BY <1>1, <1>5 DEF RowsOK, BudgetInv
<1> QED BY <1>2, <1>3, <1>4, <1>6, BudgetStep

LEMMA WriteBudget ==
    ASSUME LimitInv, NEW w \in Workers, StartRunning(w) \/ StartSynthesis(w) \/ PublishReport(w) \/ FailSave(w)
    PROVE  BudgetInv'
<1> DEFINE r == run[w]
<1>1. /\ TypeOK /\ BudgetInv /\ r.mem \in Results /\ r.mem.queries \in Records /\ hunt.results \in Results
      /\ NoRecords \in Records
      /\ {"running", "synthesizing", "report_draft", "failed"} \subseteq HuntStates
      /\ DraftOK(r) /\ FailOK(r, hunt) /\ (hunt.state = "running" => CountOK(r, hunt.results, clock))
    BY BudgetFacts, RowTyped, WorkerTyped, Constants DEF HuntStates, Active
<1>2. Working(w) /\ UNCHANGED <<splunk, clock>> /\ r.at \notin LoopAt
    BY DEF Working, StartRunning, StartSynthesis, PublishReport, FailSave, LoopAt
<1>3. CASE StartRunning(w)
    <2>1. CASE hunt.state # "queued"
        BY <1>2, <1>3, <2>1, FailingBudget DEF StartRunning
    <2>2. CASE hunt.state = "queued"
        <3>1. PICK new \in Run :
                /\ run' = [run EXCEPT ![w] = new] /\ new.at = "scan" /\ new.usage = r.usage
                /\ hunt' = [hunt EXCEPT !.state = "running", !.results = r.mem]
            BY <1>1, <1>3, <2>2, StartEffect
        <3>2. hunt'.results = r.mem /\ hunt'.state = "running"
            BY <1>1, <3>1, RowWritten
        <3>3. r.usage = NoUsage /\ r.mem.usage = NoUsage /\ r.mem.queries = NoRecords
            BY <1>1, <1>3 DEF DraftOK, Drafting, StartRunning
        <3>4. NoUsage.searches = 0 /\ NoUsage.rows = 0 /\ MaxRows \in Nat /\ MaxSearches \in Nat
            BY LimitsAreNumbers DEF NoUsage
        <3>5. RowsKept(r.mem) = 0
            BY <3>3, KeptNone
        <3>6. RowsOK(hunt')
            BY <3>2, <3>3, <3>4, <3>5 DEF RowsOK
        <3>7. Net = 0 /\ Net' = 0 /\ search' = search
            BY <1>1, <1>2, <2>2 DEF BudgetInv, splunk, Net
        <3>8. AccountOK'
            BY <3>2, <3>3, <3>4, <3>7 DEF AccountOK
        <3>9. CountOK(new, hunt'.results, clock')
            BY <3>1, <3>2, <3>3 DEF CountOK, SameCounts, Level, Settling, AfterLoop, Copied, Extended
        <3>10. DraftOK(new) /\ SendOK(new, search', Net') /\ FailOK(new, hunt')
            BY <3>1 DEF DraftOK, SendOK, FailOK, Drafting
        <3>11. Net' <= MaxSearches
            BY <3>4, <3>7
        <3> QED BY <1>2, <2>2, <3>1, <3>2, <3>6, <3>7, <3>8, <3>9, <3>10, <3>11, BudgetStep
    <2> QED BY <2>1, <2>2
<1>4. CASE StartSynthesis(w)
    <2>1. CASE hunt.state # "running"
        BY <1>2, <1>4, <2>1, FailingBudget DEF StartSynthesis
    <2>2. CASE hunt.state = "running"
        <3>1. /\ hunt' = [hunt EXCEPT !.state = "synthesizing", !.results = r.mem] /\ r.at = "advance"
              /\ Goto(w, "publish") /\ "publish" \in Points /\ "publish" \notin Exits
            BY <1>4, <2>2, PointNames DEF StartSynthesis, Exits
        <3>2. hunt'.results = r.mem /\ hunt'.state = "synthesizing"
            BY <1>1, <3>1, RowWritten
        <3>3. PICK new \in Run : run' = [run EXCEPT ![w] = new] /\ new.at = "publish"
            BY <1>1, <3>1, GotoEffect DEF Stays
        <3>4. r.mem.queries = hunt.results.queries
            BY <1>1, <2>2, <3>1 DEF CountOK, Copied
        <3> QED BY <1>2, <2>2, <3>2, <3>3, <3>4, EndBudget
    <2> QED BY <2>1, <2>2
<1>5. CASE PublishReport(w)
    <2>1. CASE hunt.state # "synthesizing"
        BY <1>2, <1>5, <2>1, FailingBudget DEF PublishReport
    <2>2. CASE hunt.state = "synthesizing"
        <3>1. /\ hunt' = [hunt EXCEPT !.state = "report_draft", !.report = r.mem.queries]
              /\ Goto(w, "ok") /\ "ok" \in Points /\ "ok" \in Exits
            BY <1>5, <2>2, PointNames DEF PublishReport, Exits
        <3>2. hunt'.results = hunt.results /\ hunt'.state = "report_draft"
            BY <1>1, <3>1, RowWritten
        <3>3. PICK new \in Run : run' = [run EXCEPT ![w] = new] /\ new.at = "ok"
            BY <1>1, <3>1, GotoEffect DEF Leaves
        <3> QED BY <1>2, <2>2, <3>2, <3>3, EndBudget
    <2> QED BY <2>1, <2>2
<1>6. CASE FailSave(w)
    <2>1. r.at = "fail_save" /\ Goto(w, "error") /\ "error" \in Points /\ "error" \in Exits
        BY <1>6, PointNames DEF FailSave, Exits
    <2>2. PICK new \in Run : run' = [run EXCEPT ![w] = new] /\ new.at = "error"
        BY <1>1, <2>1, GotoEffect DEF Leaves
    <2>3. CASE hunt' = hunt
        BY <1>2, <2>2, <2>3, FreeQuiet
    <2>4. CASE hunt' = [hunt EXCEPT !.state = "failed", !.results = r.mem] /\ hunt.state = r.seen
        <3>1. hunt.state # "cancelled"
            BY <1>1, <2>4, WorkerTyped DEF Active
        <3>2. r.mem.queries = hunt.results.queries
            BY <1>1, <2>1, <3>1 DEF FailOK
        <3>3. hunt'.results = r.mem /\ hunt'.state = "failed"
            BY <1>1, <2>4, RowWritten
        <3> QED BY <1>2, <2>2, <3>1, <3>2, <3>3, EndBudget
    <2> QED BY <1>6, <2>3, <2>4 DEF FailSave
<1> QED BY <1>3, <1>4, <1>5, <1>6

\* Time passes, or Splunk goes on: what bound a worker binds it still.
LEMMA TimePasses ==
    ASSUME TypeOK, BudgetInv, clock \in Nat, clock' \in Nat, clock' >= clock,
           UNCHANGED <<hunt, run, dispatched, dropped>>,
           \A q \in Queries : search[q] \in {"running", "done"} => search'[q] \in {"running", "done"}
    PROVE  BudgetInv'
<1>0. Net' = Net
    BY DEF Net
<1>1. \A u : Stopped(clock, u) => Stopped(clock', u)
    BY DEF Stopped
<1>2. \A r, doc : CountOK(r, doc, clock) => CountOK(r, doc, clock')
    <2> TAKE r, doc
    <2>1. SettleOK(r, doc, clock) => SettleOK(r, doc, clock')
        BY <1>1 DEF SettleOK
    <2> QED BY <2>1 DEF CountOK
<1>3. Lag(hunt.results.ledger, search) => Lag(hunt.results.ledger, search')
    <2>1. \A p \in DOMAIN hunt.results.ledger : hunt.results.ledger[p].id \in Queries
        <3>1. \A p \in DOMAIN hunt.results.ledger : hunt.results.ledger[p] \in Entry
            BY RowTyped
        <3> QED BY <3>1 DEF Entry
    <2> QED BY <2>1 DEF Lag
<1>4. AccountOK => AccountOK'
    BY <1>0, <1>1, <1>3 DEF AccountOK
<1>5. \A w \in Workers : SendOK(run[w], search, Net) => SendOK(run[w], search', Net)
    BY DEF SendOK
<1> QED BY <1>0, <1>2, <1>4, <1>5 DEF BudgetInv

LEMMA LimitStep ==
    ASSUME MaxGlitches = 0, LimitInv, [Next]_vars
    PROVE  LimitInv'
<1>1. TypeOK /\ SafeInv /\ BudgetInv
    BY DEF LimitInv, SafeInv, BaseInv
<1>2. SafeInv'
    BY <1>1, SafeStep
<1>3. ASSUME NEW w \in Workers, Working(w) PROVE BudgetInv'
    <2>1. CASE \/ RequireLease(w) \/ LoadHunt(w) \/ Draft(w) \/ Scan(w) \/ Apply(w)
               \/ Submit(w) \/ Dispatch(w) \/ DispatchError(w) \/ PollError(w) \/ PollTimeout(w)
               \/ Retrieve(w) \/ Abort(w)
        BY <2>1, LeaseBudget, LoadBudget, ScanBudget, ApplyBudget, SubmitBudget, SendBudget, PollBudget, AbortBudget
    <2>2. CASE \/ AssessRead(w) \/ SynthRead(w) \/ ReserveRead(w)
               \/ NoRound(w) \/ AssessResults(w) \/ DecideNothing(w) \/ Answer(w) \/ StopRounds(w)
               \/ CoverSources(w) \/ DecideFollowUp(w) \/ FailRead(w) \/ Raise(w)
        BY <2>2, RoundBudget, FailBudget
    <2>3. CASE StartRunning(w) \/ Save(w) \/ StartSynthesis(w) \/ PublishReport(w) \/ FailSave(w) \/ DbError(w)
        BY <2>3, WriteBudget, SaveBudget, ErrorBudget
    <2> QED BY <1>3, <2>1, <2>2, <2>3 DEF Working
<1>4. ASSUME UNCHANGED <<hunt, splunk, clock>>,
             \A v \in Workers : run'[v] = run[v] \/ run'[v].at \in {"idle", "load"}
      PROVE  BudgetInv'
    <2>0. search' = search /\ Net' = Net /\ hunt' = hunt /\ clock' = clock
        BY <1>4 DEF splunk, Net
    <2>1. ASSUME NEW v \in Workers
          PROVE  /\ run'[v].at \in LoopAt => run[v].at \in LoopAt
                 /\ run'[v].at \in {"submit", "dispatch"} => run[v].at \in {"submit", "dispatch"}
                 /\ SendOK(run'[v], search', Net') /\ DraftOK(run'[v]) /\ FailOK(run'[v], hunt')
                 /\ hunt'.state = "running" => CountOK(run'[v], hunt'.results, clock')
        <3>1. CASE run'[v] = run[v]
            BY <1>1, <2>0, <3>1 DEF BudgetInv
        <3>2. CASE run'[v].at \in {"idle", "load"}
            BY <3>2, IdleBudget, FreeBudget
        <3> QED BY <1>4, <3>1, <3>2
    <2>2. NoneSent(run) => NoneSent(run')
        BY <2>1 DEF NoneSent
    <2>3. AccountOK => AccountOK'
        BY <2>0, <2>2 DEF AccountOK
    <2>4. LoopAlone(run')
        BY <1>1, <2>1 DEF BudgetInv, LoopAlone
    <2> QED BY <1>1, <2>0, <2>1, <2>3, <2>4 DEF BudgetInv
<1>5. ASSUME NEW w \in Workers, Claim(w) \/ Finish(w) \/ WorkerCrash(w) \/ LeaseLost(w) PROVE BudgetInv'
    <2>0. UNCHANGED <<hunt, splunk, clock>>
        BY <1>5 DEF Claim, Finish, WorkerCrash, LeaseLost, splunk
    <2>1. CASE Claim(w)
        <3>1. Goto(w, "load") /\ "load" \in Points /\ "load" \notin Exits
            BY <2>1, PointNames DEF Claim, Exits
        <3>2. PICK new \in Run : run' = [run EXCEPT ![w] = new] /\ Stays(new, run[w], "load")
            BY <1>1, <3>1, GotoEffect
        <3>3. run'[w].at = "load" /\ \A v \in Workers : v # w => run'[v] = run[v]
            BY <1>1, <3>2, Turned DEF Stays
        <3> QED BY <1>4, <2>0, <3>3
    <2>2. CASE Finish(w) \/ WorkerCrash(w) \/ LeaseLost(w)
        <3>1. run' = [run EXCEPT ![w] = Idle] \/ run' = run
            BY <2>2 DEF Finish, WorkerCrash, LeaseLost
        <3>2. \A v \in Workers : run'[v] = run[v] \/ run'[v].at = "idle"
            BY <1>1, <3>1 DEF TypeOK, Idle
        <3> QED BY <1>4, <2>0, <3>2
    <2> QED BY <1>5, <2>1, <2>2
<1>6. ASSUME CancelJob \/ RecoverJob \/ UNCHANGED vars PROVE BudgetInv'
    <2>1. UNCHANGED <<hunt, splunk, clock>> /\ run' = run
        BY <1>6 DEF CancelJob, RecoverJob, vars, splunk
    <2> QED BY <1>4, <2>1
<1>7. ASSUME (\E q \in Queries : SearchDone(q)) \/ Tick PROVE BudgetInv'
    <2>1. clock \in Nat /\ clock' \in Nat /\ clock' >= clock /\ UNCHANGED <<hunt, run, dispatched, dropped>>
        BY <1>1, <1>7 DEF TypeOK, SearchDone, Tick, splunk
    <2>2. \A q \in Queries : search[q] \in {"running", "done"} => search'[q] \in {"running", "done"}
        BY <1>1, <1>7 DEF TypeOK, SearchDone, Tick, splunk
    <2> QED BY <1>1, <2>1, <2>2, TimePasses
<1>8. ASSUME CancelHunt PROVE BudgetInv'
    <2>1. /\ hunt'.state = "cancelled" /\ hunt'.results = hunt.results
          /\ UNCHANGED <<run, splunk, clock>>
        BY <1>1, <1>8 DEF CancelHunt, TypeOK, splunk
    <2>2. RowsOK(hunt')
        BY <1>1, <2>1 DEF BudgetInv, RowsOK
    <2>3. \A v \in Workers : FailOK(run'[v], hunt')
        BY <2>1 DEF FailOK
    <2>4. search' = search /\ Net' = Net /\ clock' = clock
        BY <2>1 DEF splunk, Net
    <2> QED BY <1>1, <2>1, <2>2, <2>3, <2>4 DEF BudgetInv
<1>9. BudgetInv'
    BY <1>3, <1>5, <1>6, <1>7, <1>8 DEF Next, WorkerStep, Working
<1> QED BY <1>2, <1>9 DEF LimitInv

LEMMA LimitStart == Init => LimitInv
<1> SUFFICES ASSUME Init PROVE LimitInv
    OBVIOUS
<1>1. /\ hunt.results = NoResults /\ hunt.state = "queued" /\ Net = 0
      /\ \A w \in Workers : run[w].at = "idle"
    BY Constants DEF Init, Idle, Net
<1>2. MaxSearches \in Nat /\ MaxRows \in Nat /\ NoResults.queries = NoRecords
    BY LimitsAreNumbers DEF NoResults
<1>3. RowsOK(hunt)
    BY <1>1, <1>2, KeptNone DEF RowsOK
<1>4. \A w \in Workers : run[w].at \notin LoopAt \cup AfterLoop \cup Drafting \cup {"fail_save"}
    BY <1>1, IdleBudget
<1>5. \A w \in Workers : SendOK(run[w], search, Net) /\ DraftOK(run[w]) /\ FailOK(run[w], hunt)
    BY <1>4, FreeBudget
<1>6. LoopAlone(run)
    BY <1>4 DEF LoopAlone
<1> QED BY <1>1, <1>2, <1>3, <1>4, <1>5, <1>6, SafeStart DEF LimitInv, BudgetInv

\* What is recorded for a completed search stays.
LEMMA ResultsStay ==
    ASSUME LimitInv, [Next]_vars, NEW i \in DOMAIN hunt.results.ledger, hunt.results.ledger[i].status = "completed"
    PROVE  hunt'.results.queries[hunt.results.ledger[i].id] = hunt.results.queries[hunt.results.ledger[i].id]
<1> DEFINE L == hunt.results.ledger
<1> DEFINE Same == hunt'.results.queries[L[i].id] = hunt.results.queries[L[i].id]
<1>0. /\ TypeOK /\ L \in Seq(Entry) /\ LedgerOK(hunt, issued) /\ hunt.results \in Results /\ L[i].id \in Queries
      /\ {"running", "synthesizing", "report_draft", "failed", "cancelled"} \subseteq HuntStates
      /\ NoRecords \in Records
    <2>1. TypeOK /\ LedgerOK(hunt, issued)
        BY DEF LimitInv, SafeInv, BaseInv
    <2>2. L \in Seq(Entry) /\ hunt.results \in Results
        BY <2>1, RowTyped
    <2>3. L[i] \in Entry
        BY <2>2
    <2> QED BY <2>1, <2>2, <2>3, Constants DEF HuntStates, Active, Entry
<1>1. CASE hunt'.results = hunt.results
    BY <1>1
<1>2. ASSUME NEW w \in Workers,
             StartRunning(w) \/ Save(w) \/ StartSynthesis(w) \/ FailSave(w), hunt' # hunt
      PROVE  Same
    <2>0. /\ run[w].mem \in Results /\ run[w].seen # "cancelled" /\ FailOK(run[w], hunt)
          /\ hunt.state = "running" =>
               CountOK(run[w], hunt.results, clock) /\ RunningOK(run[w], L, issued)
        BY <1>0, BudgetFacts, WorkerTyped DEF Active
    <2>1. CASE StartRunning(w)
        <3>1. hunt.state = "queued"
            BY <1>2, <2>1 DEF StartRunning
        <3>2. DOMAIN L = {}
            BY <1>0, <3>1 DEF LedgerOK
        <3> QED BY <3>2
    <2>2. CASE Save(w)
        <3>1. /\ hunt.state = "running" /\ run[w].at \in SavePoints
              /\ hunt' = [hunt EXCEPT !.results = run[w].mem]
            BY <1>2, <2>2 DEF Save
        <3>2. hunt'.results = run[w].mem
            BY <1>0, <2>0, <3>1, RowWritten
        <3>3. CASE run[w].at = "save"
            <4>1. run[w].pos \in DOMAIN L /\ L[run[w].pos].id = run[w].q /\ L[run[w].pos].status \notin Finished
                BY <1>0, <2>0, <3>1, <3>3 DEF RunningOK, LoopAt, InLoop, OnQuery
            <4>2. L[i].id # run[w].q
                BY <1>0, <4>1 DEF LedgerOK, Distinct, Finished
            <4> QED BY <1>0, <2>0, <3>1, <3>2, <3>3, <4>2 DEF CountOK
        <3>4. CASE run[w].at # "save"
            <4>1. run[w].at \in Copied \cup Extended
                BY <3>1, <3>4 DEF SavePoints, Copied, Extended
            <4> QED BY <2>0, <3>1, <3>2, <4>1 DEF CountOK
        <3> QED BY <3>3, <3>4
    <2>3. CASE StartSynthesis(w)
        <3>1. /\ hunt.state = "running" /\ run[w].at = "advance"
              /\ hunt' = [hunt EXCEPT !.state = "synthesizing", !.results = run[w].mem]
            BY <1>2, <2>3 DEF StartSynthesis
        <3>2. run[w].mem.queries = hunt.results.queries
            BY <2>0, <3>1 DEF CountOK, Copied
        <3>3. hunt'.results = run[w].mem
            BY <1>0, <2>0, <3>1, RowWritten
        <3> QED BY <3>2, <3>3
    <2>4. CASE FailSave(w)
        <3>1. /\ hunt.state = run[w].seen /\ run[w].at = "fail_save"
              /\ hunt' = [hunt EXCEPT !.state = "failed", !.results = run[w].mem]
            BY <1>2, <2>4 DEF FailSave
        <3>2. run[w].mem.queries = hunt.results.queries
            BY <2>0, <3>1 DEF FailOK
        <3>3. hunt'.results = run[w].mem
            BY <1>0, <2>0, <3>1, RowWritten
        <3> QED BY <3>2, <3>3
    <2> QED BY <1>2, <2>1, <2>2, <2>3, <2>4
<1>3. \/ hunt'.results = hunt.results
      \/ \E w \in Workers : (StartRunning(w) \/ Save(w) \/ StartSynthesis(w) \/ FailSave(w)) /\ hunt' # hunt
    BY <1>0, RowsWriters
<1> QED BY <1>1, <1>2, <1>3

\* As long as live workers keep their leases, and wherever they crash or their
\* transactions fail, a query keeps its place in the ledger, its status only
\* advances, what is finished is never touched again and a completed search
\* keeps its result record: no recovery, follow-up or failure writes an older
\* document over a newer one.
THEOREM LedgerOnlyAdvances ==
    ASSUME MaxGlitches = 0
    PROVE  Spec => CheckpointsAdvance
<1>1. LimitInv /\ [Next]_vars => LimitInv'
    BY LimitStep
<1> DEFINE Step ==
      LET old == hunt.results.ledger
          new == hunt'.results.ledger
      IN \A i \in DOMAIN old :
            /\ i \in DOMAIN new /\ new[i].id = old[i].id
            /\ Rank(old[i].status) <= Rank(new[i].status)
            /\ old[i].status \in Finished => new[i] = old[i]
            /\ old[i].status = "completed" =>
                 hunt'.results.queries[old[i].id] = hunt.results.queries[old[i].id]
<1>2. LimitInv /\ [Next]_vars => [Step]_vars
    BY LedgerAdvances, ResultsStay DEF LimitInv, Advances
<1> QED BY <1>1, <1>2, LimitStart, PTL DEF Spec, CheckpointsAdvance

\* As long as live workers keep their leases, and wherever they crash or their
\* transactions fail, Splunk runs no more searches for a hunt than
\* max_splunk_queries and those it had to drop because their submission could
\* not be recorded, and the results hold no more rows than
\* max_cached_rows_per_hunt: execute_query counts a search in memory before it
\* sends it, so a crash before the checkpoint loses the count of that one
\* search, whose query the next worker takes up under the same name or, past
\* the cutoff or the row limit, never sends.
THEOREM LimitsHold ==
    ASSUME MaxGlitches = 0
    PROVE  Spec => []WithinLimits
<1>1. LimitInv /\ [Next]_vars => LimitInv'
    BY LimitStep
<1>2. LimitInv => WithinLimits
    <2> SUFFICES ASSUME LimitInv PROVE WithinLimits
        OBVIOUS
    <2>1. dispatched \in Nat /\ dropped \in Nat /\ MaxSearches \in Nat
        BY LimitsAreNumbers DEF LimitInv, SafeInv, BaseInv, TypeOK
    <2>2. dispatched - dropped <= MaxSearches /\ RowsKept(hunt.results) <= MaxRows
        BY DEF LimitInv, BudgetInv, RowsOK, Net
    <2> QED BY <2>1, <2>2 DEF WithinLimits
<1> QED BY <1>1, <1>2, LimitStart, PTL DEF Spec
=============================================================================
