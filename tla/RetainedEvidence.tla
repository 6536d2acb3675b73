-------------------------- MODULE RetainedEvidence --------------------------
(***************************************************************************)
(* What the application computes from the rows a hunt retained, without    *)
(* asking the model: services/evidence.py.                                 *)
(*                                                                         *)
(* `queries' is the sequence of completed searches, [id, question, pairs,  *)
(* raw, branches, retained, truncated, available]; `evidence' is the       *)
(* sequence of rows in the order they were retained, [query, event]; a     *)
(* row's evidence_id is its position.  An event is                         *)
(*   [pairs   : the (index, sourcetype) pairs its projected fields allow,  *)
(*    host, user, session_id, process_guid : its values for the field,     *)
(*              {} when absent, several when multivalue,                   *)
(*    cd      : its _cd / event_id, or NoEventId,                           *)
(*    time    : a natural, or UnknownTime,                                 *)
(*    raw     : FALSE for a row of an aggregating search,                  *)
(*    ioc     : it matches a file, domain or hash of the advisory].        *)
(* The advisory match is the one threat_intel.compare_advisory_iocs makes. *)
(***************************************************************************)
EXTENDS Integers, Sequences, FiniteSets, SequencesExt

UnknownTime == 0
NotReported == -1
NoEventId == 0
UnknownSource == "unknown"
UnknownValue == "unknown"

SessionFields == {"host", "user", "session_id"}
IdentityFields == SessionFields \union {"process_guid"}

\* The elements of S by a strict total order (SetToSortSeq without its
\* search for an enumeration of S).
Ordered(S, Before(_, _)) ==
    [k \in 1..Cardinality(S) |->
        CHOOSE x \in S : Cardinality({y \in S : Before(y, x)}) = k - 1]

\* The elements of s that pass, in their order.
Filtered(s, Passes(_)) ==
    LET places == Ordered({k \in DOMAIN s : Passes(s[k])}, <)
    IN  [k \in DOMAIN places |-> s[places[k]]]

Shortest(a, b) == IF a < b THEN a ELSE b

\* Python's s[offset:offset + n].
Slice(s, offset, n) == SubSeq(s, offset + 1, Shortest(offset + n, Len(s)))
Cut(s, n) == Slice(s, 0, n)

----------------------------------------------------------------------------
(* Coverage of a search and of its sources. *)

QueryResultsIncomplete(q) ==
    \/ q.truncated
    \/ q.available # NotReported /\ q.available > q.retained

\* A projection identifies a source when only one pair of the search fits it.
ResultSource(event, pairs) ==
    IF Cardinality(event.pairs \intersect pairs) = 1
    THEN CHOOSE p \in event.pairs \intersect pairs : TRUE
    ELSE UnknownSource

RowsOf(evidence, id) == {i \in DOMAIN evidence : evidence[i].query = id}

SourceChecks(ledger, q, pair) ==
    {e \in DOMAIN ledger : /\ ledger[e].phase = "source_coverage"
                           /\ ledger[e].of = q.id
                           /\ ledger[e].source = pair}

Missing(evidence, q, pair) ==
    /\ q.truncated /\ q.raw /\ Cardinality(q.pairs) > 1
    /\ \A i \in RowsOf(evidence, q.id) : ResultSource(evidence[i].event, q.pairs) # pair

NeedsSourceCheck(ledger, evidence, q, pair) ==
    /\ Missing(evidence, q, pair)
    /\ \A e \in SourceChecks(ledger, q, pair) : ledger[e].status # "completed"

UnidentifiedCount(evidence, q) ==
    Cardinality({i \in RowsOf(evidence, q.id) :
                    ResultSource(evidence[i].event, q.pairs) = UnknownSource})

----------------------------------------------------------------------------
(* Time: only raw events have one; rows without come last, in row order. *)

RawEventTime(row) == IF row.event.raw THEN row.event.time ELSE UnknownTime

Earlier(evidence, i, j) ==
    LET s == RawEventTime(evidence[i])
        t == RawEventTime(evidence[j])
    IN  IF s = t THEN i < j ELSE t = UnknownTime \/ (s # UnknownTime /\ s < t)

InTimeOrder(evidence, ids) ==
    Ordered(ids, LAMBDA i, j : Earlier(evidence, i, j))

RawRows(evidence) == {i \in DOMAIN evidence : evidence[i].event.raw}

RetainedTimeline(evidence) == InTimeOrder(evidence, RawRows(evidence))

\* What the timeline says of the search behind a row.
QueryCoverage(queries, row) ==
    IF \E q \in Range(queries) : q.id = row.query /\ QueryResultsIncomplete(q)
    THEN "incomplete" ELSE "complete"

Timed(evidence, ids) == {i \in ids : RawEventTime(evidence[i]) # UnknownTime}

EvidenceTimeBounds(evidence, ids) ==
    LET order == InTimeOrder(evidence, Timed(evidence, ids))
    IN  [first |-> IF order = <<>> THEN UnknownTime ELSE RawEventTime(evidence[Head(order)]),
         last |-> IF order = <<>> THEN UnknownTime ELSE RawEventTime(evidence[Last(order)]),
         timed |-> Len(order),
         unknown |-> Cardinality((ids \intersect RawRows(evidence)) \ Timed(evidence, ids)),
         aggregate |-> Cardinality(ids \ RawRows(evidence))]

----------------------------------------------------------------------------
(* Identical representations of one event are shown once. *)

Namespace(queries, row) ==
    LET q == CHOOSE x \in Range(queries) : x.id = row.query
        s == ResultSource(row.event, q.pairs)
    IN  IF s # UnknownSource THEN <<s>> ELSE <<"query", row.query>>

SameRepresentation(queries, a, b) ==
    /\ a.event = b.event
    /\ a.event.raw /\ a.event.cd # NoEventId
    /\ Namespace(queries, a) = Namespace(queries, b)

\* Groups of row ids: a first occurrence with its later identical rows.
CompactEvidenceRecords(queries, evidence, ids) ==
    LET Same(i, j) == i = j \/ SameRepresentation(queries, evidence[ids[i]], evidence[ids[j]])
        firsts == {i \in DOMAIN ids : \A j \in 1..(i - 1) : ~Same(j, i)}
        order == Ordered(firsts, <)
    IN  [k \in DOMAIN order |-> {ids[j] : j \in {x \in DOMAIN ids : Same(order[k], x)}}]

----------------------------------------------------------------------------
(* Advisory leads: matching rows that share their native identity. *)

Identified(event) ==
    {f \in IdentityFields : Cardinality(event[f]) = 1 /\ event[f] # {UnknownValue}}

Ambiguous(event) == \E f \in IdentityFields \ Identified(event) : event[f] # {}

Identity(event) == {<<f, event[f]>> : f \in Identified(event)}

Groupable(event) == ~Ambiguous(event) /\ {"host", "process_guid"} \subseteq Identified(event)

SameLead(evidence, i, j) ==
    \/ i = j
    \/ /\ Groupable(evidence[i].event) /\ Groupable(evidence[j].event)
       /\ Identity(evidence[i].event) = Identity(evidence[j].event)

Matches(evidence, ids) == {i \in DOMAIN evidence : i \in ids /\ evidence[i].event.raw /\ evidence[i].event.ioc}

\* Each lead is the earliest row of its group.
AdvisoryLeadGroups(evidence, ids) ==
    LET matches == Matches(evidence, ids)
        leads == {i \in matches :
                    \A j \in matches : SameLead(evidence, i, j) => j = i \/ Earlier(evidence, i, j)}
        order == InTimeOrder(evidence, leads)
    IN  [k \in DOMAIN order |->
            [lead |-> order[k],
             identity |-> Identity(evidence[order[k]].event),
             ids |-> {j \in matches : SameLead(evidence, order[k], j)}]]

\* The distinct host/user/session filters of the leads that name a session.
RetainedLeadSessionFilters(leads) ==
    {{x \in l.identity : x[1] \in SessionFields} :
        l \in {k \in Range(leads) : \E x \in k.identity : x[1] = "session_id"}}

\* A search is [pairs, branches, raw]; `branches' are the AND-ed identity
\* filters it is restricted to, {} when it has none.
SplCoversAllLeadSessions(spl, sessions) == sessions \subseteq spl.branches

WidenSplForLeadSessions(spl, sessions) == [spl EXCEPT !.branches = sessions]

MatchesFilter(event, filter) == \A x \in filter : x[2] \subseteq event[x[1]]

QuestionCompletedQueryIds(queries, question) ==
    {q.id : q \in {x \in Range(queries) : x.question = question}}

----------------------------------------------------------------------------
(* Counts and pages of retained rows. *)

RetainedFieldCounts(evidence, ids, field) ==
    [distinct |-> Cardinality(UNION {evidence[i].event[field] : i \in ids}),
     unambiguous |-> Cardinality(UNION {evidence[i].event[field] :
                        i \in {x \in ids : Cardinality(evidence[x].event[field]) = 1}}),
     missing |-> Cardinality({i \in ids : evidence[i].event[field] = {}}),
     multiple |-> Cardinality({i \in ids : Cardinality(evidence[i].event[field]) > 1})]

\* A request is [queries, filter, earliest, latest, offset, limit]; either
\* time bound may be UnknownTime, the window is half open.
InWindow(evidence, i, r) ==
    \/ r.earliest = UnknownTime /\ r.latest = UnknownTime
    \/ /\ RawEventTime(evidence[i]) # UnknownTime
       /\ r.earliest # UnknownTime => RawEventTime(evidence[i]) >= r.earliest
       /\ r.latest # UnknownTime => RawEventTime(evidence[i]) < r.latest

Matching(evidence, r) ==
    {i \in RawRows(evidence) : /\ evidence[i].query \in r.queries
                               /\ MatchesFilter(evidence[i].event, r.filter)
                               /\ InWindow(evidence, i, r)}

UnknownTimeExcluded(evidence, r) ==
    {i \in RawRows(evidence) : /\ evidence[i].query \in r.queries
                               /\ MatchesFilter(evidence[i].event, r.filter)
                               /\ RawEventTime(evidence[i]) = UnknownTime
                               /\ ~InWindow(evidence, i, r)}

LookupAllowed(queries, r) ==
    /\ r.queries # {} /\ r.queries \subseteq {q.id : q \in Range(queries)}
    /\ r.offset >= 0 /\ r.limit > 0
    /\ r.earliest # UnknownTime /\ r.latest # UnknownTime => r.earliest < r.latest

\* Mutant: a page is cut from the rows, but counted in groups.
LookupBeforeGrouping(queries, evidence, r) ==
    LET rows == InTimeOrder(evidence, Matching(evidence, r))
        groups == CompactEvidenceRecords(queries, evidence, rows)
        page == CompactEvidenceRecords(queries, evidence, Slice(rows, r.offset, r.limit))
        next == r.offset + Len(page)
    IN  [records |-> page,
         total |-> Len(groups),
         next |-> IF next < Len(groups) THEN next ELSE NotReported]

LookupRetainedEvidence(queries, evidence, r) ==
    LET groups == CompactEvidenceRecords(queries, evidence,
                        InTimeOrder(evidence, Matching(evidence, r)))
        page == Slice(groups, r.offset, r.limit)
        next == r.offset + Len(page)
    IN  [records |-> page,
         total |-> Len(groups),
         next |-> IF next < Len(groups) THEN next ELSE NotReported]

----------------------------------------------------------------------------
(* Activity around each lead an answer names: the rows that share an exact *)
(* process or session with it, before, at and after it.                    *)

\* Nothing is selected for a lead whose own row has an ambiguous identity.
ActivityFilters(evidence, l) ==
    LET event == evidence[l.lead].event
        names == {x[1] : x \in l.identity}
    IN  IF \E f \in IdentityFields : event[f] # {} /\ <<f, event[f]>> \notin l.identity THEN {}
        ELSE {g \in {l.identity} : {"host", "process_guid"} \subseteq names}
             \union {g \in {{x \in l.identity : x[1] \in SessionFields}} : SessionFields \subseteq names}

\* Only single, scalar values select a row for a scope.
ScopeRows(evidence, filter) ==
    {i \in RawRows(evidence) : \A x \in filter : evidence[i].event[x[1]] = x[2]}

Anchor(evidence, l) ==
    LET timed == Timed(evidence, l.ids)
    IN  IF timed = {} THEN UnknownTime
        ELSE RawEventTime(evidence[Head(InTimeOrder(evidence, timed))])

\* Mutant: the times at the anchor count as before it too.
BisectLeftInclusive(times, t) == Cardinality({k \in DOMAIN times : times[k] <= t})

\* times[left+1..right] are the ones at the anchor, found by bisection.
BisectLeft(times, t) == Cardinality({k \in DOMAIN times : times[k] < t})
BisectRight(times, t) == Cardinality({k \in DOMAIN times : times[k] <= t})

Periods(evidence, l, filter) ==
    LET rows == Filtered(RetainedTimeline(evidence),
                          LAMBDA i : i \in ScopeRows(evidence, filter))
        known == Filtered(rows, LAMBDA i : RawEventTime(evidence[i]) # UnknownTime)
        times == [k \in DOMAIN known |-> RawEventTime(evidence[known[k]])]
        anchor == Anchor(evidence, l)
        left == BisectLeft(times, anchor)
        right == BisectRight(times, anchor)
    IN  IF anchor = UnknownTime
        THEN [before |-> 0, at |-> 0, after |-> 0, unknown |-> Len(rows)]
        ELSE [before |-> left, at |-> right - left, after |-> Len(times) - right,
              unknown |-> Len(rows) - Len(times)]
=============================================================================
