----------------------------- MODULE Discovery -----------------------------
(***************************************************************************)
(* SplunkConnector.discover (integrations/splunk.py): the catalog is read, *)
(* cut to the indexes the account may search, completed by a tstats search *)
(* for source names, and sources are sampled by short searches.  Every     *)
(* read may fail and leaves a partial result; a token may cancel at any    *)
(* point.  Field names and the wording of limitations are left out.        *)
(***************************************************************************)
EXTENDS Integers, FiniteSets, FiniteSetsExt, Sequences

CONSTANTS
    Requests,     \* the arguments of discover
    Sites,        \* what Splunk holds and what the account may search
    Internal,     \* indexes whose name starts with an underscore
    MaxItems,     \* max_discovery_items
    MaxSamples,   \* max_representative_searches
    NoPairs

ASSUME DiscoveryAssumption ==
    /\ MaxItems \in Nat \ {0} /\ MaxSamples \in Nat \ {0}
    /\ \A r \in Requests : IsFiniteSet(r.indexes) /\ IsFiniteSet(r.sourcetypes)
    /\ \A s \in Sites : IsFiniteSet(s.indexes) /\ IsFiniteSet(s.configured) /\ IsFiniteSet(s.indexed)

VARIABLES
    request, site,
    pc,          \* validate, read, roles, indexed, choose, sample, finish, done
    unread,      \* endpoints still to read
    results,     \* endpoints that were read
    failed,      \* errors: what could not be read
    catalog,     \* indexes, sourcetypes, and sourcetypes with fields
    limited,     \* sampling_limited
    todo,        \* sources still to sample: indexes or pairs
    job,         \* the search being made: operation, target, stage
    tried,       \* indexes and pairs whose sample was begun
    sampled,     \* indexes and pairs whose sample was read
    left, lost,  \* searches nobody looks after; those a failed call lost
    token,       \* whether the caller cancelled
    outcome, complete

env == <<request, site>>
found == <<results, failed, catalog, limited>>
searches == <<todo, job, tried, sampled, left, lost>>
end == <<outcome, complete>>
vars == <<env, pc, unread, found, searches, token, end>>

Endpoints == <<"indexes", "sourcetypes", "fields", "data_models">>
Firsts(S, n) == {T \in SUBSET S : Cardinality(T) = Min({n, Cardinality(S)})}

NoJob == [op |-> "none", target |-> <<>>, stage |-> "none"]
Search(op, target) == [op |-> op, target |-> target]

Init ==
    /\ request \in Requests /\ site \in Sites
    /\ pc = "validate" /\ unread = Endpoints
    /\ results = {} /\ failed = {} /\ limited = FALSE
    /\ catalog = [indexes |-> {}, sourcetypes |-> {}, described |-> {}]
    /\ todo = {} /\ job = NoJob /\ tried = {} /\ sampled = {}
    /\ left = {} /\ lost = {}
    /\ token = FALSE
    /\ outcome = "none" /\ complete = FALSE

----------------------------------------------------------------------------
(* The request and the catalog. *)

\* What the orchestrator asks for: the catalog before a plan exists, then the
\* exact pairs of a proposed plan within the last seven days of its dates.
CatalogRequest ==
    [representative |-> FALSE, indexed |-> TRUE, indexes |-> {}, sourcetypes |-> {},
     pairs |-> NoPairs, dates |-> "none"]
PlanRequest(indexes, sourcetypes, pairs) ==
    [CatalogRequest EXCEPT !.indexes = indexes, !.sourcetypes = sourcetypes,
                           !.pairs = pairs, !.dates = "ordered"]

\* Exact names, no more than the limit.
ApprovedScopeValues(names) == Cardinality(names) <= MaxItems

\* Absent, or two zoned times ("one", "naive", "reversed", "long": refused).
AbsoluteUtc(dates) == dates \in {"none", "ordered"}

\* Exact pairs lie within the scope, are no more than the limit and come with dates.
RequestAccepted(r) ==
    /\ ApprovedScopeValues(r.indexes) /\ ApprovedScopeValues(r.sourcetypes)
    /\ r.pairs # NoPairs =>
          /\ r.pairs # {} /\ r.pairs \subseteq r.indexes \X r.sourcetypes
          /\ Cardinality(r.pairs) <= MaxItems /\ r.dates = "ordered"
    /\ AbsoluteUtc(r.dates)

End(how) ==
    /\ pc' = "done" /\ outcome' = how
    /\ UNCHANGED complete

Validate ==
    /\ pc = "validate"
    /\ IF token THEN End("cancelled")
       ELSE IF ~RequestAccepted(request) THEN End("invalid")
       ELSE pc' = "read" /\ UNCHANGED end
    /\ UNCHANGED <<env, unread, found, searches, token>>

\* The next endpoint; a failure is recorded and the next one is read.
ReadEndpoint(ok) ==
    /\ pc = "read" /\ unread # <<>> /\ ~token
    /\ unread' = Tail(unread)
    /\ results' = IF ok THEN results \union {Head(unread)} ELSE results
    /\ failed' = IF ok THEN failed ELSE failed \union {Search(Head(unread), <<>>)}
    /\ pc' = IF Tail(unread) = <<>> THEN "roles" ELSE "read"
    /\ UNCHANGED <<env, catalog, limited, searches, token, end>>

\* Splunk's * leaves internal indexes out; _* names them.
MatchesIndex(i, patterns) ==
    \/ i \in patterns
    \/ "*" \in patterns /\ i \notin Internal
    \/ "_*" \in patterns /\ i \in Internal

\* What the account's roles, with those they import, allow and deny.
SearchableIndexes ==
    [allowed |-> UNION {role.allowed : role \in site.roles},
     denied  |-> UNION {role.denied : role \in site.roles}]

Permitted(i) ==
    /\ MatchesIndex(i, SearchableIndexes.allowed)
    /\ ~MatchesIndex(i, SearchableIndexes.denied)

\* The account's permissions, then the catalog from what was read, each list cut at
\* the limit; without the account's permissions no index is admitted.
ReadRoles(ok) ==
    /\ pc = "roles" /\ ~token
    /\ failed' = IF ok THEN failed ELSE failed \union {Search("index_scope", <<>>)}
    /\ \E listed \in Firsts(site.indexes, MaxItems), names \in Firsts(site.configured, MaxItems) :
         LET known == IF "sourcetypes" \in results THEN names ELSE {}
         IN catalog' =
              [indexes |-> IF ok /\ "indexes" \in results THEN {i \in listed : Permitted(i)} ELSE {},
               sourcetypes |-> known,
               described |-> known \intersect site.described]
    /\ pc' = IF request.indexed THEN "indexed" ELSE "choose"
    /\ UNCHANGED <<env, unread, results, limited, searches, token, end>>

\* A set token is seen before and after every metadata call, and at the end.
RaiseCancelled ==
    /\ token
    /\ pc \in {"read", "roles"} \/ (pc = "finish" /\ results # {})
    /\ End("cancelled")
    /\ UNCHANGED <<env, unread, found, searches, token>>

----------------------------------------------------------------------------
(* Searches: submitted, waited for, fetched. *)

ProbeIndexes == IF request.indexes # {} THEN request.indexes ELSE catalog.indexes

\* No index to probe: no search.
SkipProbe ==
    /\ pc = "indexed" /\ job = NoJob /\ ProbeIndexes = {}
    /\ pc' = "choose"
    /\ UNCHANGED <<env, unread, found, searches, token, end>>

Unscoped == request.indexes = {} /\ request.sourcetypes = {} /\ request.dates = "none"
Scoped == request.indexes # {} /\ request.sourcetypes # {} /\ request.dates = "ordered"

\* What is sampled next: a pair, before another index is asked for an event.
NextSample(t) ==
    /\ pc = "sample" /\ job = NoJob /\ t \in todo
    /\ Len(t) = 1 => \A u \in todo : Len(u) = 1

\* A sample of an approved scope is skipped when its source has fields.
Described(t) == Scoped /\ request.pairs = NoPairs /\ t[2] \in catalog.described

SkipDescribed(t) ==
    /\ NextSample(t) /\ Described(t)
    /\ todo' = todo \ {t}
    /\ UNCHANGED <<env, pc, unread, found, job, tried, sampled, left, lost, token, end>>

\* The token is looked at before an event search and before the sample of an
\* approved pair, not before the others.
Submit(op, target) ==
    /\ CASE op = "tstats" -> pc = "indexed" /\ job = NoJob /\ ProbeIndexes # {}
         [] op = "event"  -> NextSample(target) /\ Len(target) = 1 /\ ~token
         [] op = "schema" -> NextSample(target) /\ Len(target) = 2 /\ (Scoped => ~Described(target) /\ ~token)
    /\ job' = [op |-> op, target |-> target, stage |-> "submitting"]
    /\ tried' = tried \union {target}
    /\ UNCHANGED <<env, pc, unread, found, todo, sampled, left, lost, token, end>>

Submitted ==
    /\ job.stage = "submitting"
    /\ job' = [job EXCEPT !.stage = "running"]
    /\ UNCHANGED <<env, pc, unread, found, todo, tried, sampled, left, lost, token, end>>

\* Mutant: a failed search is not an error of the result.
FailUnnoticed ==
    /\ job' = NoJob
    /\ todo' = CASE job.op = "tstats" -> todo
                 [] Scoped            -> todo \ {job.target}
                 [] OTHER             -> {t \in todo : t[1] # job.target[1]}
    /\ pc' = IF pc = "indexed" THEN "choose" ELSE pc
    /\ UNCHANGED <<results, failed, catalog, limited, end>>

\* The search could not be made, waited for or read: it is an error, and the
\* other sources of an index asked for an event are given up with it.
Fail ==
    /\ failed' = failed \union {Search(job.op, job.target)}
    /\ job' = NoJob
    /\ todo' = CASE job.op = "tstats" -> todo
                 [] Scoped            -> todo \ {job.target}
                 [] OTHER             -> {t \in todo : t[1] # job.target[1]}
    /\ pc' = IF pc = "indexed" THEN "choose" ELSE pc
    /\ UNCHANGED <<results, catalog, limited, end>>

\* Nobody looks after the search any more: a call about it failed.
Lose(really) ==
    LET jobs == IF really THEN {Search(job.op, job.target)} ELSE {}
    IN left' = left \union jobs /\ lost' = lost \union jobs

\* The submission fails, or only its answer is lost and Splunk runs the search.
SubmitFails(created) ==
    /\ job.stage = "submitting"
    /\ Lose(created)
    /\ Fail
    /\ UNCHANGED <<env, unread, tried, sampled, token>>

\* Before a sample and while one is waited for, a set token ends discovery; a
\* running search is cancelled, which may fail.
CancelSeen(cancelled) ==
    /\ token
    /\ \/ job = NoJob /\ cancelled /\ \E t \in todo : NextSample(t) /\ (Scoped \/ Len(t) = 1)
       \/ job.stage \in {"running", "done"}
    /\ Lose(job.stage = "running" /\ ~cancelled)
    /\ job' = NoJob
    /\ End("cancelled")
    /\ UNCHANGED <<env, unread, found, todo, tried, sampled, token>>

\* The token is set while a call about the search is under way: only the
\* event search is not cancelled then.
CancelDuringCall ==
    /\ token /\ job.stage = "running" /\ job.op = "event"
    /\ left' = left \union {Search(job.op, job.target)}
    /\ job' = NoJob
    /\ End("cancelled")
    /\ UNCHANGED <<env, unread, found, todo, tried, sampled, lost, token>>

SearchDone ==
    /\ job.stage = "running"
    /\ job' = [job EXCEPT !.stage = "done"]
    /\ UNCHANGED <<env, pc, unread, found, todo, tried, sampled, left, lost, token, end>>

\* Mutant: a search that takes too long is left.
WaitTimeoutLeaves(cancelled) ==
    /\ job.stage = "running" /\ ~token
    /\ left' = left \union {Search(job.op, job.target)}
    /\ Fail
    /\ UNCHANGED <<env, unread, tried, sampled, lost, token>>

\* The transport timeout: the search is cancelled, which may fail.
WaitTimeout(cancelled) ==
    /\ job.stage = "running" /\ ~token
    /\ Lose(~cancelled)
    /\ Fail
    /\ UNCHANGED <<env, unread, tried, sampled, token>>

\* A status call fails: its search goes on, unless discovery was cancelled too.
StatusFails ==
    /\ job.stage = "running"
    /\ Lose(~token \/ job.op = "event")
    /\ Fail
    /\ UNCHANGED <<env, unread, tried, sampled, token>>

ResultsFail ==
    /\ job.stage = "done"
    /\ Fail
    /\ UNCHANGED <<env, unread, tried, sampled, left, lost, token>>

\* The names found in the indexes; as many as the limit may be more.
IndexedResults ==
    /\ job.stage = "done" /\ job.op = "tstats" /\ ~token
    /\ \E rows \in Firsts(site.indexed, MaxItems) :
         /\ catalog' = [catalog EXCEPT !.sourcetypes = @ \union rows]
         /\ limited' = (limited \/ Cardinality(rows) >= MaxItems)
    /\ job' = NoJob /\ pc' = "choose"
    /\ UNCHANGED <<env, unread, results, failed, todo, tried, sampled, left, lost, token, end>>

\* The events' sources are sampled next; rows without a usable name are passed
\* over.
EventResults ==
    /\ job.stage = "done" /\ job.op = "event" /\ ~token
    /\ \E names \in SUBSET site.indexed :
         /\ catalog' = [catalog EXCEPT !.sourcetypes = @ \union names]
         /\ todo' = (todo \ {job.target}) \union {<<job.target[1], s>> : s \in names}
    /\ job' = NoJob /\ sampled' = sampled \union {job.target}
    /\ UNCHANGED <<env, pc, unread, results, failed, limited, tried, left, lost, token, end>>

SchemaResults(fields) ==
    /\ job.stage = "done" /\ job.op = "schema" /\ ~token
    /\ catalog' = IF fields THEN [catalog EXCEPT !.described = @ \union {job.target[2]}] ELSE catalog
    /\ job' = NoJob /\ todo' = todo \ {job.target} /\ sampled' = sampled \union {job.target}
    /\ UNCHANGED <<env, pc, unread, results, failed, limited, tried, left, lost, token, end>>

----------------------------------------------------------------------------
(* What to sample, and the result. *)

MetadataComplete == catalog.sourcetypes # {} /\ catalog.sourcetypes \subseteq catalog.described

Covered == {i \in catalog.indexes : site.coverage[i] # "none"}
Bounded == {<<i>> : i \in {j \in Covered : site.coverage[j] # "half"}}
Wanted == IF request.pairs # NoPairs THEN request.pairs ELSE request.indexes \X request.sourcetypes
InCatalog == {p \in Wanted : p[1] \in catalog.indexes /\ p[2] \in catalog.sourcetypes}

\* Not every candidate is sampled, or not every requested pair is one.
CutShort(picked) ==
    \/ Cardinality(picked) < Cardinality(InCatalog)
    \/ request.pairs # NoPairs /\ InCatalog # Wanted

\* An index whose coverage ends before it begins is passed over silently; one whose
\* coverage is not two zoned times is an error.
Choose ==
    /\ pc = "choose"
    /\ pc' = "sample"
    /\ CASE request.representative /\ ~MetadataComplete /\ Unscoped ->
              \E picked \in Firsts(Bounded, MaxSamples) :
                 /\ todo' = {t \in picked : site.coverage[t[1]] = "both"}
                 /\ failed' = failed \union
                      {Search("event", t) : t \in {u \in picked : site.coverage[u[1]] = "malformed"}}
                 /\ limited' = (limited \/ Cardinality(picked) < Cardinality(Covered))
         [] Scoped ->
              /\ \E picked \in Firsts(InCatalog, MaxSamples) :
                   todo' = picked /\ limited' = (limited \/ CutShort(picked))
              /\ UNCHANGED failed
         [] OTHER -> UNCHANGED <<todo, failed, limited>>
    /\ UNCHANGED <<env, unread, results, catalog, job, tried, sampled, left, lost, token, end>>

AllSampled ==
    /\ pc = "sample" /\ job = NoJob /\ todo = {}
    /\ pc' = "finish"
    /\ UNCHANGED <<env, unread, found, searches, token, end>>

Finish ==
    /\ pc = "finish"
    /\ IF results = {} THEN End("unavailable")
       ELSE /\ ~token
            /\ pc' = "done" /\ outcome' = "result"
            /\ complete' = /\ failed = {} /\ ~limited
                           /\ catalog.indexes \union catalog.sourcetypes # {}
    /\ UNCHANGED <<env, unread, found, searches, token>>

\* The caller's token.
Cancel ==
    /\ pc # "done" /\ ~token /\ token' = TRUE
    /\ UNCHANGED <<env, pc, unread, found, searches, end>>

\* discover has returned or raised.
Returned == pc = "done" /\ UNCHANGED vars

Next ==
    \/ Validate \/ RaiseCancelled \/ SkipProbe \/ Choose \/ AllSampled \/ Finish \/ Cancel
    \/ \E ok \in BOOLEAN :
         \/ ReadEndpoint(ok) \/ ReadRoles(ok) \/ SubmitFails(ok)
         \/ CancelSeen(ok) \/ WaitTimeout(ok) \/ SchemaResults(ok)
    \/ \E t \in todo : SkipDescribed(t) \/ Submit("event", t) \/ Submit("schema", t)
    \/ Submit("tstats", <<>>)
    \/ Submitted \/ CancelDuringCall \/ SearchDone \/ StatusFails \/ ResultsFail
    \/ IndexedResults \/ EventResults \/ Returned

Spec == Init /\ [][Next]_vars

----------------------------------------------------------------------------
(* Properties. *)

\* A result names and asks only indexes the account may search, and its mark
\* "complete" means what the code can mean by it.  No endpoint failed: its indexes
\* are all those of the site the account may search, and it has every configured
\* source name, where those lists fit the limit (one that does not is cut without a
\* word).  It has every source name the probed indexes hold.  The sample of each
\* exact pair was read.  A bootstrap without full field metadata read a sample of
\* every index whose coverage is an interval (one that ends before it begins is
\* passed over).  Of a scope without exact pairs the mark says nothing.
ResultIsHonest ==
    outcome = "result" =>
      /\ \A i \in catalog.indexes \union {t[1] : t \in tried \ {<<>>}} : Permitted(i)
      /\ complete =>
           /\ Cardinality(site.indexes) <= MaxItems => catalog.indexes = {i \in site.indexes : Permitted(i)}
           /\ Cardinality(site.configured) <= MaxItems => site.configured \subseteq catalog.sourcetypes
           /\ request.indexed /\ ProbeIndexes # {} => site.indexed \subseteq catalog.sourcetypes
           /\ request.pairs # NoPairs => request.pairs \subseteq sampled
           /\ request.representative /\ Unscoped /\ ~MetadataComplete =>
                \A i \in catalog.indexes : site.coverage[i] = "both" => <<i>> \in sampled

\* Discovery looks after its searches: one that is still running when discovery
\* has moved on is one whose own call failed, or the event search of a discovery
\* that was cancelled (_representative_event has no handler for that).
NoSearchLeftRunning ==
    \A search \in left : search \in lost \/ (search.op = "event" /\ outcome = "cancelled")
=============================================================================
