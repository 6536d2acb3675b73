---------------------------- MODULE ModelOutput ----------------------------
(***************************************************************************)
(* Request-local reference labels (services/model_output.py).  A model     *)
(* cites the records it was given by their labels E1, E2, ...; decode      *)
(* turns labels back into records or rejects the answer.  A label is its   *)
(* number.                                                                 *)
(***************************************************************************)
EXTENDS Investigation

\* The supplied records: one of each representation, then its duplicates.
FromContext(queries, evidence, sample) ==
    LET groups == CompactEvidenceRecords(queries, evidence, sample)
        Place(i) == CHOOSE k \in DOMAIN sample : sample[k] = i
        First(g) == CHOOSE i \in g : \A j \in g : Place(i) <= Place(j)
        Others(g) == Ordered(g \ {First(g)}, LAMBDA i, j : Place(i) < Place(j))
    IN  [k \in DOMAIN groups |-> First(groups[k])]
        \o FlattenSeq([k \in DOMAIN groups |-> Others(groups[k])])

Decode(labels, cited) == {labels[k] : k \in cited}

\* A finding on records is about the searches that returned them.
DecodeFinding(f, labels, evidence) ==
    LET rows == Decode(labels, f.rows)
    IN  [f EXCEPT !.rows = rows,
                  !.queries = IF rows = {} THEN @ ELSE {evidence[i].query : i \in rows}]

DecodeSlot(s, labels, evidence) ==
    [request |-> s.request,
     found |-> [k \in DOMAIN s.found |-> DecodeFinding(s.found[k], labels, evidence)],
     dispositions |-> [k \in DOMAIN s.dispositions |->
                        [row |-> labels[s.dispositions[k].row], findings |-> s.dispositions[k].findings]]]

\* Only supplied labels; a negative finding names complete searches only.
FindingDecodes(f, labels, queries, evidence) ==
    /\ f.rows \subseteq DOMAIN labels
    /\ f.queries \subseteq {q.id : q \in Range(queries)}
    /\ f.negative => \A q \in Range(queries) : q.id \in f.queries => ~QueryResultsIncomplete(q)
    /\ f.rows # {} => f.queries \subseteq DecodeFinding(f, labels, evidence).queries

\* An answer that asks for no page accounts for every supplied lead once, with
\* findings that are negative or cite a supplied record of the lead.
SlotDecodes(s, labels, queries, evidence) ==
    LET leads == AdvisoryLeadGroups(evidence, Range(labels))
        LeadOf(d) == CHOOSE l \in Range(leads) : l.lead = labels[d.row]
    IN  /\ \A f \in Range(s.found) : FindingDecodes(f, labels, queries, evidence)
        /\ s.request = <<>> =>
            /\ Len(s.dispositions) = Len(leads)
            /\ \A d \in Range(s.dispositions) : d.row \in DOMAIN labels
            /\ {labels[d.row] : d \in Range(s.dispositions)} = {l.lead : l \in Range(leads)}
            /\ \A d \in Range(s.dispositions) : \A n \in d.findings :
                  /\ n \in DOMAIN s.found
                  /\ \/ s.found[n].negative
                     \/ Decode(labels, s.found[n].rows) \intersect LeadOf(d).ids # {}
=============================================================================
