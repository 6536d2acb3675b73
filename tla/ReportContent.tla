---------------------------- MODULE ReportContent ---------------------------
(***************************************************************************)
(* The report draft a finished investigation gets, and the test every      *)
(* saved or finalized report must pass: services/reports.py (the functions *)
(* services/workflow.py calls).  R is the hunt's results: the fields       *)
(* queries, evidence, ledger, followUps, pending, assessed, status,        *)
(* answers and findings.  Text is left out; a limitation is a tag.         *)
(***************************************************************************)
EXTENDS Investigation

CONSTANTS
    TimelineLimit,    \* REPORT_LIST_LIMITS["timeline"]
    EvidenceLimit,    \* REPORT_LIST_LIMITS["selected_evidence"]
    AppendixLimit,    \* REPORT_LIST_LIMITS["query_appendix"]
    FindingTarget,    \* REPORT_FINDING_DETAIL_TARGET
    MaxLimitations,   \* the 8 limitations _derive_report_limitations keeps
    MaxReportSize     \* the 1 MiB of a report, in row ids listed by its answers

\* An excerpt of the timeline has room for its two ends.
ASSUME ReportAssumption ==
    /\ {EvidenceLimit, AppendixLimit, FindingTarget, MaxLimitations} \subseteq Nat \ {0}
    /\ TimelineLimit \in Nat /\ TimelineLimit >= 2
    /\ MaxReportSize \in Nat

Longest(a, b) == IF a < b THEN b ELSE a

----------------------------------------------------------------------------
(* Observed activity: facts around each lead of the stored answers. *)

\* The leads in the order the answers first name them.
AnsweredLeads(R) ==
    LET all == FlattenSeq([a \in DOMAIN R.answers |-> R.answers[a].leads])
        firsts == Ordered({k \in DOMAIN all : \A j \in 1..(k - 1) : all[j].lead # all[k].lead}, <)
    IN  [k \in DOMAIN firsts |-> all[firsts[k]]]

LeadActivity(evidence, l) ==
    {[lead |-> l.lead, filter |-> f, periods |-> Periods(evidence, l, f)] :
        f \in ActivityFilters(evidence, l)}

RetainedLeadActivity(R) == UNION {LeadActivity(R.evidence, l) : l \in Range(AnsweredLeads(R))}

ObservedActivityReport(R) ==
    [activity |-> UNION {LeadActivity(R.evidence, l) : l \in Range(Cut(AnsweredLeads(R), FindingTarget))},
     leads |-> Len(AnsweredLeads(R))]

----------------------------------------------------------------------------
(* Limitations, in the order they are derived; only the first are kept. *)

SourceLimitations(R, q) ==
    (IF \E p \in q.pairs : NeedsSourceCheck(R.ledger, R.evidence, q, p)
     THEN <<<<"source unresolved", q.id>>>> ELSE <<>>)
    \o (IF UnidentifiedCount(R.evidence, q) > 0
        THEN <<<<"source unidentified", q.id>>>> ELSE <<>>)

StatusLimitation(status) ==
    IF status \in {"time_reserved_for_synthesis", "budget_reserved_for_synthesis", "no_follow_up_query"}
    THEN <<<<status>>>> ELSE <<>>

AllLimitations(R) ==
    LET If(holds, tag) == IF holds THEN <<<<tag>>>> ELSE <<>>
        HasEntry(status) == \E e \in Range(R.ledger) : e.status = status
    IN  If(R.evidence # <<>>, "time bounds")
        \o If(\E a \in Range(R.answers) : a.limited, "answers limited")
        \o FlattenSeq([k \in DOMAIN R.queries |-> SourceLimitations(R, R.queries[k])])
        \o If(\E q \in Range(R.queries) : q.id \notin R.assessed, "not assessed")
        \o If(\E x \in Range(R.followUps) : QuestionCompletedQueryIds(R.queries, x.id) = {}, "follow-ups not executed")
        \o If(R.pending # {}, "questions pending")
        \o If(\E q \in Range(R.queries) : q.truncated, "truncated")
        \o StatusLimitation(R.status)
        \o If(HasEntry("timed_out"), "timed out")
        \o If(HasEntry("skipped_time_cutoff"), "not started: time")
        \o If(HasEntry("skipped_budget"), "not started: budget")

DeriveReportLimitations(R) == Cut(AllLimitations(R), MaxLimitations)

----------------------------------------------------------------------------
(* The generated draft. *)

\* One finding of each answer by turns, an answer's hunt leads before its others.
DetailedFindings(R) ==
    LET groups == [a \in DOMAIN R.answers |->
                    PreferredFirst(R.answers[a].findings, {f \in DOMAIN R.findings : R.findings[f].lead})]
        places == UNION {{<<n, a>> : n \in DOMAIN groups[a]} : a \in DOMAIN groups}
        order == Ordered(places, LAMBDA x, y : x[1] < y[1] \/ (x[1] = y[1] /\ x[2] < y[2]))
    IN  Cut([k \in DOMAIN order |-> groups[order[k][2]][order[k][1]]], FindingTarget)

\* Timed raw rows, the ones the detailed findings cite first.
SelectedEvidence(R) ==
    LET cited == UNION {R.findings[f].rows : f \in Range(DetailedFindings(R))}
        timed == Timed(R.evidence, RawRows(R.evidence))
    IN  Cut(InTimeOrder(R.evidence, timed \intersect cited)
              \o InTimeOrder(R.evidence, timed \ cited), EvidenceLimit)

\* Mutant: steps of whole length, so the last row is missed.
SpreadSteps(part, count) ==
    [k \in 1..count |-> part[(k - 1) * (Len(part) \div Longest(count, 1)) + 1]]

\* `count' rows of a sequence, evenly spread, its ends included.
Spread(part, count) ==
    [k \in 1..count |-> part[((k - 1) * (Len(part) - 1)) \div Longest(count - 1, 1) + 1]]

\* The whole timeline when it fits, else an excerpt of its timed and untimed rows.
TimelineExcerpt(evidence) ==
    LET refs == RetainedTimeline(evidence)
        known == Filtered(refs, LAMBDA i : RawEventTime(evidence[i]) # UnknownTime)
        unknown == Filtered(refs, LAMBDA i : RawEventTime(evidence[i]) = UnknownTime)
        knownLimit == Shortest(Len(known), Longest(2, (TimelineLimit * Len(known)) \div Len(refs)))
    IN  IF Len(refs) <= TimelineLimit THEN refs
        ELSE Spread(known, knownLimit) \o Spread(unknown, TimelineLimit - knownLimit)

\* Mutant: the draft summarises every lead, the check only the first few.
DraftAllActivity(R) ==
    [findings |-> DetailedFindings(R),
     selected |-> SelectedEvidence(R),
     timeline |-> TimelineExcerpt(R.evidence),
     appendix |-> Cut(R.queries, AppendixLimit),
     limitations |-> DeriveReportLimitations(R),
     answers |-> R.answers,
     activity |-> IF AnsweredLeads(R) = <<>> THEN {}
                  ELSE {[activity |-> RetainedLeadActivity(R), leads |-> Len(AnsweredLeads(R))]}]

ExecutionReportContent(R) ==
    [findings |-> DetailedFindings(R),
     selected |-> SelectedEvidence(R),
     timeline |-> TimelineExcerpt(R.evidence),
     appendix |-> Cut(R.queries, AppendixLimit),
     limitations |-> DeriveReportLimitations(R),
     answers |-> R.answers,
     activity |-> IF AnsweredLeads(R) = <<>> THEN {} ELSE {ObservedActivityReport(R)}]

----------------------------------------------------------------------------
(* Saving and finalizing accept only a report that agrees with the results. *)

AnswerAccepted(answer, R) ==
    \E stored \in Range(R.answers) :
        /\ answer.question = stored.question
        /\ Range(answer.findings) = Range(stored.findings)
        /\ Len(answer.findings) = Cardinality(Range(answer.findings))
        /\ answer.findings # <<>> \/ answer.limited
        /\ answer.leads = stored.leads

\* The row ids its answers list for their leads: the one part of a report that no
\* limit on lists bounds and no analyst may shorten.
ReportSize(content) ==
    Cardinality(UNION {UNION {{<<a, k, i>> : i \in content.answers[a].leads[k].ids} :
                                k \in DOMAIN content.answers[a].leads} : a \in DOMAIN content.answers})

ValidateReportContent(content, R) ==
    /\ ReportSize(content) <= MaxReportSize
    /\ Len(content.selected) <= EvidenceLimit
    /\ Len(content.timeline) <= TimelineLimit
    /\ Len(content.appendix) <= AppendixLimit
    /\ content.activity \subseteq {ObservedActivityReport(R)}
    /\ \A a \in Range(content.answers) : AnswerAccepted(a, R)
    /\ \A a, b \in DOMAIN content.answers :
          content.answers[a].question = content.answers[b].question => a = b
    /\ {a.question : a \in Range(content.answers)} = {a.question : a \in Range(R.answers)}
    /\ Range(content.selected) \subseteq DOMAIN R.evidence
=============================================================================
