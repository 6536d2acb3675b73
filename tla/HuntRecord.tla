----------------------------- MODULE HuntRecord -----------------------------
(***************************************************************************)
(* One hunt's results from its first search to its final report, as the    *)
(* worker builds them: paged retrieval (ProductionHuntExecutor), source    *)
(* checks and follow-up rounds (HuntWorkflow._assess_execution_round),     *)
(* synthesis with local pages (HuntWorkflow.execute_job), and the report.  *)
(* Crashes, leases and cancellation are HuntExecution's subject; here one  *)
(* worker runs undisturbed, while Splunk, the clock and the model do what  *)
(* they like.  What the model answers is a choice; what is kept of it is   *)
(* the code's.  `store' is what Splunk holds for the hunt's fixed window,  *)
(* a value only Splunk and the properties know.                            *)
(***************************************************************************)
EXTENDS ReportContent, ModelOutput

CONSTANTS
    Events,        \* what Splunk may hold, in the order it returns it
    Plan,          \* the approved plan's searches, a sequence of [question, spl]
    Questions,     \* the approved plan's questions
    Proposals,     \* searches a follow-up may propose
    NextQuestions, \* what an assessment may propose
    PageMax,       \* 500, the rows of a result page
    RowLimit, HuntRowLimit,           \* retained rows of a search, of the hunt
    MaxSearches, MaxCycles, MaxCalls, \* BudgetLimits
    AssessLimit, SampleLimit,         \* max_representative_events, max_targeted_events
    LookupLimit                       \* rows of a requested page

IsSpl(s) == s = [pairs |-> s.pairs, branches |-> s.branches, raw |-> s.raw] /\ IsFiniteSet(s.pairs)

\* A planned question's id is its place in the plan.
ASSUME HuntAssumption ==
    /\ Events \in Seq(Range(Events)) /\ Plan \in Seq(Range(Plan)) /\ Questions \in Seq(Range(Questions))
    /\ \A e \in Range(Events) : e.time \in Nat /\ e.raw \in BOOLEAN /\ e.ioc \in BOOLEAN
    /\ \A s \in {p.spl : p \in Range(Plan)} \union Proposals : IsSpl(s)
    /\ \A k \in DOMAIN Questions : Questions[k].id = k
    /\ {PageMax, RowLimit, HuntRowLimit, LookupLimit} \subseteq Nat \ {0}
    /\ {MaxSearches, MaxCycles, MaxCalls, AssessLimit, SampleLimit} \subseteq Nat

VARIABLES
    store, phase, late, ledger, fetch, searches, queries, evidence,
    assessed, followUps, decisions, pending, status, round,
    cycles, calls, pages, retrieval, answers, findings, report

searchVars == <<store, ledger, fetch, searches, queries, evidence>>
roundVars == <<assessed, followUps, decisions, pending, status, round, cycles>>
answerVars == <<pages, retrieval, answers, findings>>
vars == <<phase, late, searchVars, roundVars, calls, answerVars, report>>

Idle == [entry |-> 0, reported |-> NotReported, limit |-> 0,
         rows |-> <<>>, pages |-> 0, stop |-> "none", ended |-> FALSE]
NoRound == [questions |-> <<>>, sample |-> <<>>, followUps |-> <<>>]
NoReport == [findings |-> <<>>]

Planned(question, spl, kind, of, source) ==
    [question |-> question, spl |-> spl, status |-> "planned", phase |-> kind,
     of |-> of, source |-> source]

Init ==
    /\ store \in SUBSET DOMAIN Events
    /\ phase = "search" /\ late = FALSE
    /\ ledger = [k \in DOMAIN Plan |-> Planned(Plan[k].question, Plan[k].spl, "initial", 0, Nothing)]
    /\ fetch = Idle /\ searches = 0 /\ queries = <<>> /\ evidence = <<>>
    /\ assessed = {} /\ followUps = <<>> /\ decisions = <<>> /\ pending = {}
    /\ status = "none" /\ round = NoRound /\ cycles = 0 /\ calls = 0
    /\ pages = <<>> /\ retrieval = "none" /\ answers = <<>> /\ findings = <<>>
    /\ report = NoReport

Results == [queries |-> queries, evidence |-> evidence, ledger |-> ledger,
            followUps |-> followUps, pending |-> pending, assessed |-> assessed,
            status |-> status, answers |-> answers, findings |-> findings]

QueryIds == {q.id : q \in Range(queries)}

\* query_start_deadline passes.
TimePasses ==
    /\ ~late /\ phase \in {"search", "assess", "decide"}
    /\ late' = TRUE
    /\ UNCHANGED <<phase, searchVars, roundVars, calls, answerVars, report>>

----------------------------------------------------------------------------
(* Searches, in ledger order. *)

Open == {e \in DOMAIN ledger : ledger[e].status = "planned"}
NextEntry == CHOOSE e \in Open : \A x \in Open : e <= x

CloseEntry(e, how) ==
    /\ ledger' = [ledger EXCEPT ![e].status = how]
    /\ fetch' = Idle

\* What a search finds: the events of its sources that pass its filters.
InScope(event, spl) ==
    /\ event.pairs \intersect spl.pairs # {}
    /\ event.raw = spl.raw
    /\ spl.branches = {} \/ \E b \in spl.branches : MatchesFilter(event, b)

Found(spl) ==
    LET order == Ordered({e \in store : InScope(Events[e], spl)}, <)
    IN  [k \in DOMAIN order |-> Events[order[k]]]

SkipSearch ==
    /\ phase = "search" /\ fetch = Idle /\ Open # {}
    /\ \/ late /\ CloseEntry(NextEntry, "skipped_time_cutoff")
       \/ /\ ~late
          /\ Len(evidence) >= HuntRowLimit \/ searches >= MaxSearches
          /\ CloseEntry(NextEntry, "skipped_budget")
    /\ UNCHANGED <<store, phase, late, searches, queries, evidence, roundVars, calls, answerVars, report>>

StartSearch ==
    /\ phase = "search" /\ fetch = Idle /\ Open # {} /\ ~late
    /\ Len(evidence) < HuntRowLimit /\ searches < MaxSearches
    /\ searches' = searches + 1
    /\ \E reported \in {NotReported, Len(Found(ledger[NextEntry].spl))} :
          fetch' = [Idle EXCEPT !.entry = NextEntry, !.reported = reported,
                                !.limit = Shortest(RowLimit, HuntRowLimit - Len(evidence))]
    /\ UNCHANGED <<store, phase, late, ledger, queries, evidence, roundVars, calls, answerVars, report>>

\* The retrieval loop asks for another page.
WantsPage ==
    /\ ~fetch.ended
    /\ Len(fetch.rows) < fetch.limit
    /\ fetch.reported # NotReported => Len(fetch.rows) < fetch.reported

\* A page has `size' rows, fewer than asked for only at the end or, when the
\* count was reported, at any time; of these `kept' fit the byte limit.
PageRows(size) ==
    LET from == fetch.pages * Shortest(PageMax, fetch.limit)
    IN  Cut(Slice(Found(ledger[fetch.entry].spl), from, size), fetch.limit - Len(fetch.rows))

FetchPage ==
    LET asked == Shortest(PageMax, fetch.limit)
        left == Len(Found(ledger[fetch.entry].spl)) - fetch.pages * asked
    IN  /\ fetch # Idle /\ WantsPage
        /\ \E size \in 0..Shortest(asked, left) :
              /\ size < Shortest(asked, left) => fetch.reported # NotReported
              /\ \E kept \in 0..Len(PageRows(size)) :
                    LET rows == fetch.rows \o Cut(PageRows(size), kept)
                        stop == IF kept < Len(PageRows(size)) THEN "byte_limit"
                                ELSE IF size < asked /\ fetch.reported # NotReported /\ Len(rows) < fetch.reported
                                THEN "incomplete_page" ELSE "none"
                    IN  fetch' = [fetch EXCEPT !.rows = rows, !.pages = @ + 1, !.stop = stop,
                                               !.ended = stop # "none" \/ size < asked]
        /\ UNCHANGED <<store, phase, late, ledger, searches, queries, evidence, roundVars, calls, answerVars, report>>

FetchTimeout ==
    /\ fetch # Idle /\ WantsPage
    /\ IF fetch.rows # <<>>
       THEN /\ fetch' = [fetch EXCEPT !.stop = "query_timeout", !.ended = TRUE]
            /\ UNCHANGED ledger
       ELSE CloseEntry(fetch.entry, "timed_out")
    /\ UNCHANGED <<store, phase, late, searches, queries, evidence, roundVars, calls, answerVars, report>>

\* Mutant: a search cut at the row limit is truncated only if Splunk said so.
StopReasonIfReported ==
    IF /\ fetch.stop = "none" /\ Len(fetch.rows) >= fetch.limit
       /\ fetch.reported # NotReported /\ Len(fetch.rows) < fetch.reported
    THEN "row_limit" ELSE fetch.stop

StopReason ==
    IF /\ fetch.stop = "none" /\ Len(fetch.rows) >= fetch.limit
       /\ fetch.reported = NotReported \/ Len(fetch.rows) < fetch.reported
    THEN "row_limit" ELSE fetch.stop

\* The retained rows as evidence records.
EvidenceForQuery(query, rows) == [k \in DOMAIN rows |-> [query |-> query, event |-> rows[k]]]

\* The loop is over: the rows become evidence, the search is completed.
RecordSearch ==
    /\ fetch # Idle /\ ~WantsPage
    /\ LET e == ledger[fetch.entry]
       IN  /\ queries' = Append(queries,
                [id |-> fetch.entry, question |-> e.question, pairs |-> e.spl.pairs, raw |-> e.spl.raw,
                 branches |-> e.spl.branches, retained |-> Len(fetch.rows),
                 truncated |-> StopReason # "none", available |-> fetch.reported])
           /\ evidence' = evidence \o EvidenceForQuery(fetch.entry, fetch.rows)
           /\ ledger' = [ledger EXCEPT ![fetch.entry].status = "completed"]
    /\ fetch' = Idle
    /\ UNCHANGED <<store, phase, late, searches, roundVars, calls, answerVars, report>>

SearchesDone ==
    /\ phase = "search" /\ fetch = Idle /\ Open = {}
    /\ phase' = "assess"
    /\ UNCHANGED <<late, searchVars, roundVars, calls, answerVars, report>>

----------------------------------------------------------------------------
(* An investigation round. *)

\* A source no retained row of a truncated search is from gets its own search.
SourceChecksWanted ==
    LET Wanted(q) == SetToSeq({p \in q.pairs : /\ NeedsSourceCheck(ledger, evidence, q, p)
                                               /\ SourceChecks(ledger, q, p) = {}})
        Check(q, p) == Planned(q.question, [ledger[q.id].spl EXCEPT !.pairs = {p}], "source_coverage", q.id, p)
    IN  Cut(FlattenSeq([k \in DOMAIN queries |->
                LET ps == Wanted(queries[k]) IN [j \in DOMAIN ps |-> Check(queries[k], ps[j])]]),
            MaxSearches - searches)

ChecksAffordable ==
    searches < MaxSearches /\ calls + 1 < MaxCalls /\ cycles < MaxCycles

CoverSources ==
    /\ phase = "assess" /\ ~late
    /\ ChecksAffordable /\ SourceChecksWanted # <<>>
    /\ ledger' = ledger \o SourceChecksWanted
    /\ status' = "source_coverage_planned"
    /\ phase' = "search"
    /\ UNCHANGED <<store, late, fetch, searches, queries, evidence, assessed, followUps, decisions, pending,
                   round, cycles, calls, answerVars, report>>

Unassessed == QueryIds \ assessed
AllQuestions == Questions \o followUps
Outstanding == PendingInvestigationQuestions(AllQuestions, queries, decisions)

RoundAffordable ==
    /\ Unassessed # {} \/ Outstanding # <<>>
    /\ cycles < MaxCycles /\ searches < MaxSearches
    /\ calls + (IF Unassessed # {} THEN 2 ELSE 1) < MaxCalls

\* The round's last write: what is known now, and whether to go on.
FinishRound(newLedger, newDecisions, newFollowUps, nowAssessed, how) ==
    LET left == PendingInvestigationQuestions(Questions \o newFollowUps, queries, newDecisions)
        final == IF how = "no_follow_up_query" /\ left # <<>> THEN "questions_pending" ELSE how
    IN  /\ ledger' = newLedger
        /\ decisions' = newDecisions
        /\ followUps' = newFollowUps
        /\ assessed' = nowAssessed
        /\ pending' = {x.id : x \in Range(left)}
        /\ status' = final
        /\ phase' = IF final \in {"follow_up_planned", "questions_pending"} THEN "search" ELSE "synthesis"

\* The model assesses the new searches from their sample; its questions join
\* the open ones, as many as searches are left.
AssessSample ==
    BalancedEvidenceSample(queries, evidence, Unassessed, AssessLimit, {}, <<>>)

\* One assessment per search, citing a record, perhaps one it was not given.
Assessments(labels) ==
    LET ids == Ordered(Unassessed, <)
        Some(q) == [query : {q}, next : NextQuestions,
                    refs : {{}} \union {{k} : k \in 1..(Len(labels) + 1)}]
    IN  {a \in [DOMAIN ids -> UNION {Some(q) : q \in Unassessed}] :
            \A k \in DOMAIN ids : a[k] \in Some(ids[k])}

DecodedAssessments(labels) ==
    {[k \in DOMAIN a |-> [a[k] EXCEPT !.refs = Decode(labels, @)]] :
        a \in {x \in Assessments(labels) : \A k \in DOMAIN x : x[k].refs \subseteq DOMAIN labels}}

Assess ==
    /\ phase = "assess" /\ ~late
    /\ ~(ChecksAffordable /\ SourceChecksWanted # <<>>)
    /\ RoundAffordable
    /\ \E a \in DecodedAssessments(FromContext(queries, evidence, AssessSample)) :
          LET new == FollowUpQuestions(a, Len(AllQuestions) + 1)
              open == Cut(PendingInvestigationQuestions(AllQuestions \o new, queries, decisions),
                          MaxSearches - searches)
          IN  /\ AssessmentsGrounded(a, AssessSample, evidence, Unassessed)
              /\ cycles' = cycles + 1
              /\ calls' = calls + (IF Unassessed # {} THEN 1 ELSE 0)
              /\ IF open = <<>>
                 THEN /\ FinishRound(ledger, decisions, followUps \o new, QueryIds, "assessed")
                      /\ UNCHANGED round
                 ELSE /\ round' = [questions |-> open, sample |-> AssessSample, followUps |-> new]
                      /\ phase' = "decide"
                      /\ UNCHANGED <<ledger, assessed, followUps, decisions, pending, status>>
    /\ UNCHANGED <<store, late, fetch, searches, queries, evidence, answerVars, report>>

\* No round: nothing is left to assess, or the budget is kept for synthesis.
NoMoreRounds ==
    /\ phase = "assess" /\ ~late
    /\ ~(ChecksAffordable /\ SourceChecksWanted # <<>>)
    /\ ~RoundAffordable
    /\ FinishRound(ledger, decisions, followUps, assessed,
                   IF Unassessed # {} \/ Outstanding # <<>>
                   THEN "budget_reserved_for_synthesis" ELSE "no_unassessed_queries")
    /\ UNCHANGED <<store, late, fetch, searches, queries, evidence, round, cycles, calls, answerVars, report>>

\* The model decides every open question; proposals are widened from the
\* rows this round was shown, checked, and planned unless already searched.
LeadSessions(rows) == RetainedLeadSessionFilters(AdvisoryLeadGroups(evidence, rows))

Decided ==
    LET qs == round.questions
    IN  {[k \in DOMAIN qs |-> [question |-> qs[k].id, spl |-> s[k]]] :
            s \in [DOMAIN qs -> {<<>>} \union {<<p>> : p \in Proposals}]}

WidenedDecisions(d) ==
    [k \in DOMAIN d |-> Widened(d[k], round.questions[k], LeadSessions(Range(round.sample)))]

DecisionsAllowed(d) ==
    \A k \in DOMAIN d :
        /\ ~TooManySessions(d[k], round.questions[k], LeadSessions(Range(round.sample)))
        /\ WidenedDecisions(d)[k].spl # <<>> =>
              PivotUsed(WidenedDecisions(d)[k].spl[1], round.questions[k], evidence)

Duplicate(d, k) ==
    \/ \E q \in QueryIds : ledger[q].spl = d[k].spl[1]
    \/ \E j \in 1..(k - 1) : d[j].spl = d[k].spl

Decide ==
    /\ phase = "decide"
    /\ \E proposed \in Decided :
          LET d == WidenedDecisions(proposed)
              Repeats(k) == d[k].spl # <<>> /\ Duplicate(d, k)
              fresh == Ordered({k \in DOMAIN d : d[k].spl # <<>> /\ ~Duplicate(d, k)}, <)
              planned == [k \in DOMAIN fresh |->
                            Planned(d[fresh[k]].question, d[fresh[k]].spl[1], "adaptive_follow_up", 0, Nothing)]
              kept == [k \in DOMAIN d |->
                        [question |-> d[k].question, skip |-> d[k].spl = <<>> \/ Repeats(k),
                         duplicate |-> Repeats(k), considered |-> IF Repeats(k) THEN {} ELSE QueryIds]]
          IN  /\ DecisionsAllowed(proposed)
              /\ FinishRound(ledger \o planned, decisions \o kept, followUps \o round.followUps, QueryIds,
                             IF planned # <<>> THEN "follow_up_planned" ELSE "no_follow_up_query")
    /\ calls' = calls + 1
    /\ round' = NoRound
    /\ UNCHANGED <<store, late, fetch, searches, queries, evidence, cycles, answerVars, report>>

\* A round that ends in a time-out or an exhausted token budget leaves only
\* what earlier rounds wrote.
EndRounds(how) ==
    /\ status' = how
    /\ phase' = "synthesis"
    /\ round' = NoRound
    /\ UNCHANGED <<late, searchVars, assessed, followUps, decisions, pending, cycles, calls, answerVars, report>>

StopRounds == phase \in {"assess", "decide"} /\ late /\ EndRounds("time_reserved_for_synthesis")

RoundExhausted ==
    /\ ~late
    /\ phase = "decide" \/ (phase = "assess" /\ RoundAffordable)
    /\ EndRounds("budget_reserved_for_synthesis")

----------------------------------------------------------------------------
(* Synthesis: final answers, or requests for local pages first. *)

Unanswered == Filtered(Questions, LAMBDA x : \A a \in Range(answers) : a.question # x.id)

Leads == AdvisoryLeadGroups(evidence, DOMAIN evidence)

SynthesisSample ==
    LET asked == RequestedGroups(Filtered(pages, LAMBDA p :
                    \E x \in Range(Unanswered) : x.id = p.question))
    IN  BalancedEvidenceSample(queries, evidence, QueryIds, SampleLimit,
            (UNION Range(asked)) \union {i \in DOMAIN evidence : evidence[i].event.ioc}, asked)

AllowRetrieval ==
    MaxCalls - calls >= 3 /\ retrieval \notin {"no_new_pages", "final_only"}

Requests ==
    [queries : {QueryIds} \ {{}}, filter : {{}} \union RetainedLeadSessionFilters(Leads),
     earliest : {UnknownTime}, latest : {UnknownTime},
     offset : ({0} \union {p.next : p \in Range(pages)}) \ {NotReported}, limit : {LookupLimit}]

\* A page as it is kept; its round is the call that asked for it.
Page(r, question) ==
    LET found == LookupRetainedEvidence(queries, evidence, r)
    IN  [request |-> r, question |-> question, ids |-> UNION Range(found.records),
         next |-> found.next, total |-> found.total, round |-> calls + 1]

SynthesisLabels == FromContext(queries, evidence, SynthesisSample)

\* What the model may put in a question's slot, in labels: a request, no
\* finding, a negative finding on a search, or a finding on a record, perhaps
\* one it was not given; and for each supplied lead the findings about it.
Slots(labels) ==
    LET Slot(request, found, dispositions) ==
            [request |-> request, found |-> found, dispositions |-> dispositions]
        Negative(S) == [negative |-> TRUE, lead |-> FALSE, rows |-> {}, queries |-> S]
        Positive(k, lead) == [negative |-> FALSE, lead |-> lead, rows |-> {k}, queries |-> {}]
        leads == AdvisoryLeadGroups(evidence, Range(labels))
        Label(i) == CHOOSE k \in DOMAIN labels : labels[k] = i
        Accounts(found) == {<<>>} \union
            {[k \in DOMAIN leads |-> [row |-> Label(leads[k].lead), findings |-> about[k]]] :
                about \in [DOMAIN leads -> SUBSET DOMAIN found]}
        Answer(found) == {Slot(<<>>, found, d) : d \in Accounts(found)}
    IN  Answer(<<>>)
        \union (UNION {Answer(<<Negative({q})>>) : q \in QueryIds})
        \union (UNION {Answer(<<Positive(k, TRUE)>>) \union Answer(<<Positive(k, FALSE)>>) :
                            k \in 1..(Len(labels) + 1)})
        \union {Slot(<<r>>, <<>>, <<>>) : r \in IF AllowRetrieval THEN Requests ELSE {}}

\* The answer's labels resolve, and what they resolve to is accepted.
SlotAllowed(s, labels) ==
    /\ SlotDecodes(s, labels, queries, evidence)
    /\ LET d == DecodeSlot(s, labels, evidence)
       IN  /\ \A f \in Range(d.found) : FindingAllowed(f, queries, evidence)
           /\ DispositionsAllowed(d.dispositions, d.found, Leads)
    /\ \A r \in Range(s.request) : LookupAllowed(queries, r)

\* An answer without a finding, or with a lead no finding is about, says what
\* is missing.
Limited(found, coverage) == found = <<>> \/ \E k \in DOMAIN coverage : coverage[k].findings = {}

StoredAnswer(question, first, found, dispositions) ==
    LET coverage == LeadCoverage(dispositions, Leads, first)
    IN  [question |-> question, findings |-> [k \in DOMAIN found |-> first + k - 1],
         leads |-> coverage,
         limited |-> Limited(found, coverage)]

\* Answers of the slots that ask for no page, findings numbered as stored.
MaterializeQuestionAnswers(slots) ==
    LET final == Ordered({k \in DOMAIN slots : slots[k].request = <<>>}, <)
        Before(k) == FlattenSeq([j \in 1..(k - 1) |-> slots[final[j]].found])
    IN  [k \in DOMAIN final |->
            StoredAnswer(Unanswered[final[k]].id, Len(findings) + Len(Before(k)) + 1,
                         slots[final[k]].found, slots[final[k]].dispositions)]

RetainedSynthesisPages(slots) ==
    {Page(slots[k].request[1], Unanswered[k].id) : k \in {j \in DOMAIN slots : slots[j].request # <<>>}}

\* A page asked for again is only moved to the newest round.
AddPages(new) ==
    LET Is(p, page) == [p EXCEPT !.round = calls + 1] = page
        fresh == SetToSeq({page \in new : \A k \in DOMAIN pages : ~Is(pages[k], page)})
    IN  /\ pages' = [k \in DOMAIN pages |->
                        IF \E page \in new : Is(pages[k], page)
                        THEN [pages[k] EXCEPT !.round = calls + 1] ELSE pages[k]] \o fresh
        /\ retrieval' = IF new # {} /\ fresh = <<>> THEN "no_new_pages" ELSE retrieval

\* One synthesis call fills the slot of every open question; to bound the
\* choices, at most one with more than an unanswered slot.
SlotChoices(labels) ==
    LET allowed == {DecodeSlot(s, labels, evidence) : s \in {x \in Slots(labels) : SlotAllowed(x, labels)}}
        empty == {s \in allowed : s.request = <<>> /\ s.found = <<>>}
    IN  {[j \in DOMAIN Unanswered |-> IF j = k THEN s ELSE other] :
            k \in DOMAIN Unanswered, s \in allowed, other \in empty}

Synthesize ==
    /\ phase = "synthesis" /\ Unanswered # <<>> /\ calls < MaxCalls
    /\ LET labels == SynthesisLabels
       IN \E slots \in SlotChoices(labels) :
            /\ answers' = answers \o MaterializeQuestionAnswers(slots)
            /\ findings' = findings \o FlattenSeq([k \in DOMAIN slots |-> slots[k].found])
            /\ AddPages(RetainedSynthesisPages(slots))
    /\ calls' = calls + 1
    /\ UNCHANGED <<phase, late, searchVars, roundVars, report>>

\* The budget or the synthesis time runs out in a step that allowed requests.
FinalOnly ==
    /\ phase = "synthesis" /\ Unanswered # <<>> /\ AllowRetrieval
    /\ retrieval' = "final_only"
    /\ UNCHANGED <<phase, late, searchVars, roundVars, calls, pages, answers, findings, report>>

\* The budget runs out in a final step, taken without requests when none may
\* be made or no row is omitted: the open questions get limited answers.
BudgetLimited ==
    /\ phase = "synthesis" /\ Unanswered # <<>>
    /\ ~AllowRetrieval \/ DOMAIN evidence \subseteq Range(SynthesisSample)
    /\ answers' = answers \o [k \in DOMAIN Unanswered |->
                                StoredAnswer(Unanswered[k].id, Len(findings) + 1, <<>>, <<>>)]
    /\ retrieval' = "budget_limited"
    /\ UNCHANGED <<phase, late, searchVars, roundVars, calls, pages, findings, report>>

\* The answers take the order of the plan's questions.
InPlanOrder(as) ==
    LET order == Ordered(DOMAIN as, LAMBDA a, b : as[a].question < as[b].question)
    IN  [k \in DOMAIN order |-> as[order[k]]]

PublishReport ==
    /\ phase = "synthesis" /\ Unanswered = <<>>
    /\ answers' = InPlanOrder(answers)
    /\ report' = ExecutionReportContent([Results EXCEPT !.answers = InPlanOrder(answers)])
    /\ phase' = "draft"
    /\ UNCHANGED <<late, searchVars, roundVars, calls, pages, retrieval, findings>>

----------------------------------------------------------------------------
(* The analyst edits and finalizes. *)

Edits ==
    {[report EXCEPT !.activity = {}], [report EXCEPT !.answers = Tail(@)],
     [report EXCEPT !.answers[1].findings = <<>>], [report EXCEPT !.answers[1].leads = <<>>],
     [report EXCEPT !.answers[1].limited = ~@]}

SaveReport ==
    /\ phase = "draft"
    /\ \E content \in Edits :
          /\ report.activity # {} => content.activity # {}
          /\ ValidateReportContent(content, Results)
          /\ report' = content
    /\ UNCHANGED <<phase, late, searchVars, roundVars, calls, answerVars>>

FinalizeReport ==
    /\ phase = "draft"
    /\ ValidateReportContent(report, Results)
    /\ phase' = "final"
    /\ UNCHANGED <<late, searchVars, roundVars, calls, answerVars, report>>

\* The publication did not check the draft; finalizing it is refused.
FinalizeRefused ==
    /\ phase = "draft"
    /\ ~ValidateReportContent(report, Results)
    /\ UNCHANGED vars

Finished == phase = "final" /\ UNCHANGED vars

InvestigationNext ==
    \/ TimePasses \/ SkipSearch \/ StartSearch \/ FetchPage \/ FetchTimeout \/ RecordSearch \/ SearchesDone
    \/ CoverSources \/ Assess \/ NoMoreRounds \/ Decide \/ StopRounds \/ RoundExhausted

Next ==
    \/ InvestigationNext
    \/ Synthesize \/ FinalOnly \/ BudgetLimited \/ PublishReport
    \/ SaveReport \/ FinalizeReport \/ FinalizeRefused \/ Finished

Spec == Init /\ [][Next]_vars

\* The investigation alone, which stops where synthesis would begin.
InvestigationSpec == Init /\ [][InvestigationNext]_vars

----------------------------------------------------------------------------
(* Properties. *)

\* A finding that says a search found nothing to support a claim rests on
\* searches that retained every event Splunk found for them: no page, limit
\* or time-out lost one unnoticed (_materialize_findings rejects negative
\* findings on incomplete searches).
NegativeFindingsSound ==
    \A f \in Range(findings) : f.negative =>
        \A q \in f.queries :
            Range(Found(ledger[q].spl)) \subseteq {evidence[i].event : i \in RowsOf(evidence, q)}

\* When the investigation ends by itself, every question was searched, found
\* to repeat a search, or skipped by a decision that had seen every search
\* completed since (_pending_investigation_questions).
Concluded ==
    /\ phase \in {"synthesis", "draft", "final"}
    /\ status \in {"assessed", "no_follow_up_query", "no_unassessed_queries"}

SkipsAreCurrent ==
    Concluded => \A x \in Range(AllQuestions) :
        \/ \E q \in Range(queries) : q.question = x.id
        \/ \E d \in Range(decisions) : /\ d.question = x.id /\ d.skip
                                       /\ d.duplicate \/ d.considered = QueryIds

\* Every answer accounts for every retained advisory match once: its lead
\* groups are disjoint and hold all of them (_materialize_question_answers).
LeadsAccounted ==
    \A a \in Range(answers) :
        /\ UNION {l.ids : l \in Range(a.leads)} = Matches(evidence, DOMAIN evidence)
        /\ \A j, k \in DOMAIN a.leads : a.leads[j].ids \intersect a.leads[k].ids # {} => j = k

\* The activity shown around a lead is on its right side: the rows of the scope
\* counted before it are those earlier than each timed row of the lead, the rows
\* after it those later than one, the rows at it those of the lead's first time,
\* and the rest have no time; around a lead without a time all count as unknown.
\* The lead's own rows are in the scope (retained_lead_activity sorts the times and
\* bisects them at the lead's).
ActivityAddsUp ==
    \A l \in Range(AnsweredLeads(Results)) : \A f \in ActivityFilters(evidence, l) :
        LET p == Periods(evidence, l, f)
            rows == ScopeRows(evidence, f)
            T(i) == RawEventTime(evidence[i])
            lead == {j \in l.ids : T(j) # UnknownTime}
            timed == {i \in rows : T(i) # UnknownTime}
            before == {i \in timed : \A j \in lead : T(i) < T(j)}
            after == {i \in timed : \E j \in lead : T(j) < T(i)}
        IN  /\ l.ids \subseteq rows
            /\ lead = {} => p.unknown = Cardinality(rows) /\ p.before = 0 /\ p.at = 0 /\ p.after = 0
            /\ lead # {} =>
                  /\ p.before = Cardinality(before) /\ p.after = Cardinality(after)
                  /\ p.at = Cardinality(timed \ (before \union after))
                  /\ p.unknown = Cardinality(rows \ timed)

\* The rows supplied to the model are balanced: rows of the newest requested
\* page are omitted only for rows of that page, and without a page a search
\* has a row omitted only when no other search has two more supplied
\* (_balanced_evidence_sample).
SampleBalanced ==
    LET sample == SynthesisSample
        open == {p \in Range(pages) : \E x \in Range(Unanswered) : x.id = p.question}
        newest == UNION {p.ids : p \in {x \in open : \A y \in open : y.round <= x.round}}
        Supplied(q) == Range(sample) \intersect RowsOf(evidence, q)
    IN  phase = "synthesis" =>
        /\ Cardinality(Range(sample)) = Len(sample)
        /\ Len(sample) = Shortest(SampleLimit, Len(evidence))
        /\ newest \subseteq Range(sample) \/ Range(sample) \subseteq newest
        /\ open = {} => \A p, q \in QueryIds :
              ~(RowsOf(evidence, q) \subseteq Range(sample)) => Cardinality(Supplied(p)) <= Cardinality(Supplied(q)) + 1

\* Following next_offset from the first page of a lookup shows every matching
\* row, none twice (lookup_retained_evidence).
PagesCoverMatches ==
    phase = "assess" => \A r \in Requests : LookupAllowed(queries, r) /\ r.offset = 0 =>
        LET Found_(o) == LookupRetainedEvidence(queries, evidence, [r EXCEPT !.offset = o])
            starts == {o \in 0..Len(evidence) : o % LookupLimit = 0 /\ (o = 0 \/ Found_(o - LookupLimit).next = o)}
        IN  /\ UNION {UNION Range(Found_(o).records) : o \in starts} = Matching(evidence, r)
            /\ \A o, p \in starts : o # p =>
                  (UNION Range(Found_(o).records)) \intersect (UNION Range(Found_(p).records)) = {}

\* A draft can be finalized unless it is too large: what the worker publishes is
\* not checked (workflow.py:1932), but with the size within the limit it passes
\* every test against the results it was drawn from, and what an analyst saves
\* passes them all.
DraftValidates ==
    phase = "draft" /\ ReportSize(report) <= MaxReportSize => ValidateReportContent(report, Results)

\* The report's timeline shows no row twice, is as long as the limit allows,
\* and keeps the first and last known time (_concise_report_content).
ExcerptSpansTimeline ==
    LET shown == TimelineExcerpt(evidence)
        known == Timed(evidence, RawRows(evidence))
        ends == {Head(InTimeOrder(evidence, known)), Last(InTimeOrder(evidence, known))}
    IN  phase = "assess" =>
        /\ Cardinality(Range(shown)) = Len(shown)
        /\ Len(shown) = Shortest(TimelineLimit, Cardinality(RawRows(evidence)))
        /\ known # {} => ends \subseteq Range(shown)

=============================================================================
