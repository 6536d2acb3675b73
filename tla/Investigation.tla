---------------------------- MODULE Investigation ---------------------------
(***************************************************************************)
(* The application's side of an investigation round and of synthesis:      *)
(* services/investigation.py.  Which retained rows the model is shown,     *)
(* which questions are still open, what a follow-up may search, and what   *)
(* of the model's answers is kept.                                         *)
(***************************************************************************)
EXTENDS RetainedEvidence

CONSTANTS
    MaxFollowUps,   \* MAX_FOLLOW_UP_QUESTIONS
    MaxSessions     \* the 64 branches of lead_session_spl_disjunction

Nothing == "nothing"

ASSUME InvestigationAssumption == MaxFollowUps \in Nat /\ MaxSessions \in Nat

----------------------------------------------------------------------------
(* The sample of rows supplied to the model.                               *)

Middle(interval) == (interval[1] + interval[2]) \div 2

\* One turn of the loop over the deque of intervals.
Taken(intervals) ==
    IF intervals = <<>> THEN <<>>
    ELSE LET left == Head(intervals)[1]
             right == Head(intervals)[2]
             middle == Middle(Head(intervals))
         IN  IF left >= right THEN Tail(intervals)
             ELSE Tail(intervals) \o <<<<left, middle>>, <<middle + 1, right>>>>

\* The deque after each turn, for n timed rows; it is empty after 2n - 3.
Deque(n) ==
    LET after[k \in 0..(2 * n)] ==
            IF k = 0 THEN <<<<1, n - 1>>>> ELSE Taken(after[k - 1])
    IN  after

\* The middles of the intervals taken, breadth first.
Middles(n) ==
    LET deque == Deque(n)
        turns == Ordered({k \in DOMAIN deque : deque[k] # <<>> /\ Head(deque[k])[1] < Head(deque[k])[2]}, <)
    IN  [k \in DOMAIN turns |-> Middle(Head(deque[turns[k]]))]

\* First, last, then interior times, alternating with the untimed rows.
SpreadEvidenceInTime(evidence, rows) ==
    LET timed == InTimeOrder(evidence, Timed(evidence, Range(rows)))
        unknown == Filtered(rows, LAMBDA i : RawEventTime(evidence[i]) = UnknownTime)
        n == Len(timed)
        at == <<0, n - 1>> \o Middles(n)
        ordered == [k \in DOMAIN at |-> timed[at[k] + 1]]
        slots == {<<k, 1>> : k \in DOMAIN ordered} \union {<<k, 2>> : k \in DOMAIN unknown}
        order == Ordered(slots, LAMBDA a, b : a[1] < b[1] \/ (a[1] = b[1] /\ a[2] < b[2]))
    IN  IF n < 2 THEN rows
        ELSE [k \in DOMAIN order |->
                IF order[k][2] = 1 THEN ordered[order[k][1]] ELSE unknown[order[k][1]]]

\* Rows by turns over their groups: each group's first, then each second...
\* Groups take turns in the order of their first row; group[k] is that of the
\* k-th row.
RoundRobin(rows, group) ==
    LET Rank(k) == Cardinality({j \in 1..k : group[j] = group[k]})
        First(k) == CHOOSE j \in 1..k : /\ group[j] = group[k]
                                        /\ \A x \in 1..(j - 1) : group[x] # group[k]
        order == Ordered(DOMAIN rows, LAMBDA a, b :
                    Rank(a) < Rank(b) \/ (Rank(a) = Rank(b) /\ First(a) < First(b)))
    IN  [k \in DOMAIN order |-> rows[order[k]]]

\* A stable sort that moves the preferred rows to the front.
PreferredFirst(rows, preferred) ==
    Filtered(rows, LAMBDA i : i \in preferred) \o Filtered(rows, LAMBDA i : i \notin preferred)

\* The sources of a search of several take turns.
BySource(evidence, rows, pairs) ==
    IF Cardinality(pairs) > 1
    THEN RoundRobin(rows, [k \in DOMAIN rows |-> ResultSource(evidence[rows[k]].event, pairs)])
    ELSE rows

\* One search's rows in the order they are offered.
OfferedRows(evidence, q, preferred) ==
    BySource(evidence,
             PreferredFirst(SpreadEvidenceInTime(evidence, Ordered(RowsOf(evidence, q.id), <)), preferred),
             q.pairs)

\* The pass that takes a row: the first requested page it is on, or the last.
Pass(i, requested) ==
    CHOOSE g \in 1..(Len(requested) + 1) :
        /\ g <= Len(requested) => i \in requested[g]
        /\ \A h \in 1..(g - 1) : i \notin requested[h]

\* The searches take turns within a pass.
BySearch(evidence, rows) == RoundRobin(rows, [k \in DOMAIN rows |-> evidence[rows[k]].query])

InPasses(evidence, offered, requested) ==
    FlattenSeq([g \in 1..(Len(requested) + 1) |->
        BySearch(evidence, Filtered(offered, LAMBDA i : Pass(i, requested) = g))])

\* Mutant: the searches' rows one search after the other.
SampleInSearchOrder(queries, evidence, ids, limit, preferred, requested) ==
    LET qs == Filtered(queries, LAMBDA q : q.id \in ids)
    IN  Cut(FlattenSeq([k \in DOMAIN qs |-> OfferedRows(evidence, qs[k], preferred)]), limit)

\* Rows of the requested pages first, newest page first, then the others;
\* within a pass one row per search by turns; cut at the limit.
BalancedEvidenceSample(queries, evidence, ids, limit, preferred, requested) ==
    LET qs == Filtered(queries, LAMBDA q : q.id \in ids)
        offered == FlattenSeq([k \in DOMAIN qs |-> OfferedRows(evidence, qs[k], preferred)])
    IN  Cut(InPasses(evidence, offered, requested), limit)

\* What the context says of each search beside its sample.
CoverageStatus(evidence, q, sample) ==
    LET retained == RowsOf(evidence, q.id)
    IN  IF retained = {} /\ q.truncated THEN "retrieval_incomplete"
        ELSE IF retained = {} /\ q.retained = 0 THEN "no_results"
        ELSE IF Cardinality(retained) < q.retained THEN "retention_gap"
        ELSE IF retained \subseteq Range(sample) THEN "complete" ELSE "sampled"

----------------------------------------------------------------------------
(* Questions.  A question is [id, source, grounds, leads]: the search and  *)
(* the rows a follow-up grew from, and whether it asks for every lead.     *)

\* An assessment is [query, refs, next]: the rows it cites and whether it
\* proposes a question; it may cite only rows of its query that were shown.
AssessmentsGrounded(assessments, sample, evidence, ids) ==
    /\ Len(assessments) = Cardinality(ids)
    /\ {a.query : a \in Range(assessments)} = ids
    /\ \A a \in Range(assessments) :
          \A i \in a.refs : i \in Range(sample) /\ evidence[i].query = a.query

\* The question's text names every lead, or related authentication or network
\* activity; the text itself is left out.
RequiresAllLeadCoverage(text) == text = "every lead"

FollowUpQuestions(assessments, firstId) ==
    LET proposing == Filtered(assessments, LAMBDA a : a.next # Nothing)
    IN  [k \in 1..IF Len(proposing) < MaxFollowUps THEN Len(proposing) ELSE MaxFollowUps |->
            [id |-> firstId + k - 1, source |-> proposing[k].query, grounds |-> proposing[k].refs,
             leads |-> RequiresAllLeadCoverage(proposing[k].next)]]

\* Mutant: a skip stands whatever was searched since.
SkipStandsForGood(decision, queries) == decision.skip

\* A skip stands while no search completed since it was decided.
SkipStands(decision, queries) ==
    /\ decision.skip
    /\ \/ decision.duplicate
       \/ decision.considered = {q.id : q \in Range(queries)}

LatestDecision(decisions, id) ==
    CHOOSE d \in DOMAIN decisions :
        /\ decisions[d].question = id
        /\ \A e \in DOMAIN decisions : decisions[e].question = id => e <= d

Skipped(decisions, queries, id) ==
    /\ \E d \in DOMAIN decisions : decisions[d].question = id
    /\ SkipStands(decisions[LatestDecision(decisions, id)], queries)

PendingInvestigationQuestions(questions, queries, decisions) ==
    Filtered(questions, LAMBDA x : /\ QuestionCompletedQueryIds(queries, x.id) = {}
                                    /\ ~Skipped(decisions, queries, x.id))

----------------------------------------------------------------------------
(* Decisions.  A decision is [question, spl]; spl is <<>> for a skip.      *)

FollowUpDecisionContract(decisions, questions) ==
    /\ Len(decisions) = Len(questions)
    /\ {d.question : d \in Range(decisions)} = {x.id : x \in Range(questions)}

\* A proposal for a question about every lead is widened to every session of
\* the leads among the rows it is given.
Widened(decision, question, sessions) ==
    IF /\ Cardinality(sessions) >= 2 /\ decision.spl # <<>> /\ question.leads
       /\ ~SplCoversAllLeadSessions(decision.spl[1], sessions)
    THEN [decision EXCEPT !.spl = <<WidenSplForLeadSessions(@[1], sessions)>>]
    ELSE decision

TooManySessions(decision, question, sessions) ==
    Widened(decision, question, sessions) # decision /\ Cardinality(sessions) > MaxSessions

Literals(spl) == UNION {UNION {x[2] : x \in b} : b \in spl.branches}

RowValues(event) == UNION {event[f] : f \in IdentityFields}

\* A grounded follow-up uses a value of the rows it grew from.
PivotUsed(spl, question, evidence) ==
    LET values == UNION {RowValues(evidence[i].event) : i \in question.grounds}
    IN  values # {} => Literals(spl) \intersect values # {}

----------------------------------------------------------------------------
(* Answers.  A finding is [negative, rows, queries].                       *)

\* A finding cites records; that something was not found cites searches.
Grounded(f) == IF f.negative THEN f.queries # {} ELSE f.rows # {}

FindingAllowed(f, queries, evidence) ==
    /\ Grounded(f)
    /\ f.rows \subseteq DOMAIN evidence
    /\ f.queries \subseteq {q.id : q \in Range(queries)}
    /\ f.negative => \A q \in Range(queries) : q.id \in f.queries => ~QueryResultsIncomplete(q)

\* Dispositions are [row, findings]: each names a lead by any of its rows,
\* and the answer's findings (by position) that are about it.
DispositionsAllowed(dispositions, found, leads) ==
    /\ \A d \in Range(dispositions) : \E l \in Range(leads) :
          /\ d.row \in l.ids
          /\ \A n \in d.findings :
                /\ n \in DOMAIN found
                /\ found[n].negative \/ found[n].rows \intersect l.ids # {}
    /\ \A d, e \in DOMAIN dispositions : \A l \in Range(leads) :
          dispositions[d].row \in l.ids /\ dispositions[e].row \in l.ids => d = e

\* Mutant: only the leads the model named.
LeadCoverageNamed(dispositions, leads, firstFinding) ==
    LET LeadOf(d) == CHOOSE l \in Range(leads) : d.row \in l.ids
    IN  [k \in DOMAIN dispositions |->
            [ids |-> LeadOf(dispositions[k]).ids,
             identity |-> LeadOf(dispositions[k]).identity,
             lead |-> LeadOf(dispositions[k]).lead,
             findings |-> {firstFinding + n - 1 : n \in dispositions[k].findings}]]

\* The leads the model accounted for, then every other one with a limitation.
LeadCoverage(dispositions, leads, firstFinding) ==
    LET LeadOf(d) == CHOOSE l \in Range(leads) : d.row \in l.ids
        named == [k \in DOMAIN dispositions |->
                    [ids |-> LeadOf(dispositions[k]).ids,
                     identity |-> LeadOf(dispositions[k]).identity,
                     lead |-> LeadOf(dispositions[k]).lead,
                     findings |-> {firstFinding + n - 1 : n \in dispositions[k].findings}]]
        others == Filtered(leads, LAMBDA l : \A k \in DOMAIN named : named[k].lead # l.lead)
    IN  named \o [k \in DOMAIN others |->
                    [ids |-> others[k].ids, identity |-> others[k].identity,
                     lead |-> others[k].lead, findings |-> {}]]

\* Newest requested pages first, as the synthesis context orders them.
RequestedGroups(pages) ==
    LET rounds == {p.round : p \in Range(pages)}
        order == Ordered(rounds, >)
    IN  [k \in DOMAIN order |-> UNION {p.ids : p \in {x \in Range(pages) : x.round = order[k]}}]
=============================================================================
