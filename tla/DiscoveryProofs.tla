-------------------------- MODULE DiscoveryProofs ---------------------------
(***************************************************************************)
(* Proofs about Discovery, for any requests, any Splunk sites and any      *)
(* limits on what is read and sampled.                                     *)
(***************************************************************************)
EXTENDS Discovery, FiniteSetTheorems, TLAPS

-----------------------------------------------------------------------------
(* The shape of the state.                                                 *)

\* The catalog and the search under way are records; what was asked and where
\* never changes.
ShapeInv ==
    /\ request \in Requests /\ site \in Sites
    /\ \E i, s, d : catalog = [indexes |-> i, sourcetypes |-> s, described |-> d]
    /\ \E op, t, stage : job = [op |-> op, target |-> t, stage |-> stage]
    /\ IsFiniteSet(catalog.indexes)

LEMMA EnvStep == [Next]_vars => UNCHANGED env
BY DEF Next, vars, Validate, RaiseCancelled, SkipProbe, Choose, AllSampled, Finish, Cancel, ReadEndpoint,
    ReadRoles, SubmitFails, CancelSeen, WaitTimeout, SchemaResults, SkipDescribed, Submit, Submitted,
    CancelDuringCall, SearchDone, StatusFails, ResultsFail, IndexedResults, EventResults, Returned

\* How the fields of a record change.
LEMMA CatalogFields ==
    ASSUME ShapeInv, NEW new
    PROVE  /\ LET c == [catalog EXCEPT !.sourcetypes = new]
              IN /\ \E i, s, d : c = [indexes |-> i, sourcetypes |-> s, described |-> d]
                 /\ c.indexes = catalog.indexes /\ c.sourcetypes = new
           /\ LET c == [catalog EXCEPT !.described = new]
              IN /\ \E i, s, d : c = [indexes |-> i, sourcetypes |-> s, described |-> d]
                 /\ c.indexes = catalog.indexes /\ c.sourcetypes = catalog.sourcetypes
<1>1. PICK i, s, d : catalog = [indexes |-> i, sourcetypes |-> s, described |-> d]
    BY DEF ShapeInv
<1>2. /\ [catalog EXCEPT !.sourcetypes = new] = [indexes |-> i, sourcetypes |-> new, described |-> d]
      /\ [catalog EXCEPT !.described = new] = [indexes |-> i, sourcetypes |-> s, described |-> new]
    BY <1>1
<1> QED BY <1>1, <1>2

LEMMA JobFields ==
    ASSUME ShapeInv, NEW stage \in {"running", "done"}
    PROVE  LET j == [job EXCEPT !.stage = stage]
           IN /\ j.op = job.op /\ j.target = job.target /\ j.stage = stage
              /\ \E op, t : j = [op |-> op, target |-> t, stage |-> stage]
<1>2. PICK op, t, st : job = [op |-> op, target |-> t, stage |-> st]
    BY DEF ShapeInv
<1>3. [job EXCEPT !.stage = stage] = [op |-> op, target |-> t, stage |-> stage]
    BY <1>2
<1> QED BY <1>2, <1>3

\* What a subset taken by Firsts is.
LEMMA FirstsSubset == ASSUME NEW S, NEW n, NEW T \in Firsts(S, n) PROVE T \subseteq S
BY DEF Firsts

LEMMA CatalogStep ==
    ASSUME ShapeInv, [Next]_vars
    PROVE  /\ \E i, s, d : catalog' = [indexes |-> i, sourcetypes |-> s, described |-> d]
           /\ IsFiniteSet(catalog'.indexes)
           /\ \/ /\ catalog'.indexes = catalog.indexes
                 /\ catalog.sourcetypes \subseteq catalog'.sourcetypes
              \/ \E ok \in BOOLEAN : ReadRoles(ok)
<1>1. CASE \E ok \in BOOLEAN : ReadRoles(ok)
    <2>1. PICK ok \in BOOLEAN, listed \in Firsts(site.indexes, MaxItems), names \in Firsts(site.configured, MaxItems) :
            LET known == IF "sourcetypes" \in results THEN names ELSE {}
            IN catalog' =
                [indexes |-> IF ok /\ "indexes" \in results THEN {i \in listed : Permitted(i)} ELSE {},
                 sourcetypes |-> known,
                 described |-> known \intersect site.described]
        BY <1>1 DEF ReadRoles
    <2>2. catalog'.indexes \subseteq site.indexes
        BY <2>1, FirstsSubset
    <2>3. IsFiniteSet(site.indexes)
        BY DiscoveryAssumption DEF ShapeInv
    <2> QED BY <1>1, <2>1, <2>2, <2>3, FS_Subset
<1>2. CASE IndexedResults \/ EventResults
    <2>1. \E new : catalog' = [catalog EXCEPT !.sourcetypes = new] /\ catalog.sourcetypes \subseteq new
        BY <1>2 DEF IndexedResults, EventResults
    <2> QED BY <2>1, CatalogFields DEF ShapeInv
<1>3. CASE \E fields \in BOOLEAN : SchemaResults(fields)
    <2>1. catalog' = catalog \/ \E new : catalog' = [catalog EXCEPT !.described = new]
        BY <1>3 DEF SchemaResults
    <2> QED BY <2>1, CatalogFields DEF ShapeInv
<1>4. CASE UNCHANGED catalog
    BY <1>4 DEF ShapeInv
<1> QED BY <1>1, <1>2, <1>3, <1>4 DEF Next, vars, found, Validate, RaiseCancelled, SkipProbe, Choose, AllSampled,
    Finish, Cancel, ReadEndpoint, SubmitFails, CancelSeen, WaitTimeout, SkipDescribed, Submit, Submitted,
    CancelDuringCall, SearchDone, StatusFails, ResultsFail, Returned, Fail

LEMMA JobStep ==
    ASSUME ShapeInv, [Next]_vars
    PROVE  \E op, t, stage : job' = [op |-> op, target |-> t, stage |-> stage]
<1>1. CASE Submitted \/ SearchDone
    <2>1. PICK stage \in {"running", "done"} : job' = [job EXCEPT !.stage = stage]
        BY <1>1 DEF Submitted, SearchDone
    <2> QED BY <2>1, JobFields
<1>2. CASE \E op, t : Submit(op, t)
    BY <1>2 DEF Submit
<1>3. CASE job' = NoJob
    BY <1>3 DEF NoJob
<1>4. CASE UNCHANGED job
    BY <1>4 DEF ShapeInv
<1> QED BY <1>1, <1>2, <1>3, <1>4 DEF Next, vars, searches, Validate, RaiseCancelled, SkipProbe, Choose, AllSampled,
    Finish, Cancel, ReadEndpoint, ReadRoles, SubmitFails, CancelSeen, WaitTimeout, SkipDescribed, SchemaResults,
    CancelDuringCall, StatusFails, ResultsFail, Returned, Fail, IndexedResults, EventResults

LEMMA ShapeStep == ASSUME ShapeInv, [Next]_vars PROVE ShapeInv'
<1>1. request' \in Requests /\ site' \in Sites
    BY EnvStep DEF env, ShapeInv
<1> QED BY <1>1, CatalogStep, JobStep DEF ShapeInv

-----------------------------------------------------------------------------
(* Where discovery stands.                                                 *)

Early == {"validate", "read", "roles"}

\* A search is made only where it may be, for a source that is marked as tried;
\* nothing is left to sample but while sampling; what is returned was accepted.
ControlInv ==
    /\ pc \in Early => tried = {}
    /\ (pc # "sample" /\ pc # "done") \/ outcome = "result" => todo = {}
    /\ outcome # "none" => pc = "done"
    /\ complete => outcome = "result" /\ failed = {} /\ ~limited
    /\ pc \notin {"validate", "done"} \/ outcome = "result" => RequestAccepted(request)
    /\ job # NoJob => /\ job.target \in tried
                      /\ \/ job.op = "tstats" /\ pc = "indexed"
                         \/ job.op \in {"event", "schema"} /\ pc = "sample" /\ job.target[1] \in catalog.indexes

\* Only what the account may search is named or tried.
ScopeInv ==
    /\ \A i \in catalog.indexes : Permitted(i)
    /\ \A t \in todo \union (tried \ {<<>>}) : t[1] \in catalog.indexes

LEMMA StageOfJob == ASSUME job.stage # "none" PROVE job # NoJob
BY DEF NoJob

\* Reading, choosing and finishing: no search is under way.
LEMMA ReadingControl ==
    ASSUME ShapeInv, ControlInv, ScopeInv,
           \/ Validate \/ RaiseCancelled \/ SkipProbe \/ AllSampled \/ Finish \/ Cancel \/ Returned
           \/ \E ok \in BOOLEAN : ReadEndpoint(ok) \/ ReadRoles(ok)
           \/ UNCHANGED vars
    PROVE  ControlInv'
<1>0. UNCHANGED env
    BY EnvStep DEF Next
<1>1. CASE Validate
    BY <1>0, <1>1 DEF Validate, End, end, env, found, searches, ControlInv, Early
<1>2. CASE RaiseCancelled
    BY <1>0, <1>2 DEF RaiseCancelled, End, env, found, searches, ControlInv, Early
<1>3. CASE SkipProbe \/ AllSampled
    BY <1>0, <1>3 DEF SkipProbe, AllSampled, end, env, found, searches, ControlInv, Early
<1>4. CASE Finish
    BY <1>0, <1>4 DEF Finish, End, env, found, searches, ControlInv, Early
<1>5. CASE Cancel \/ Returned \/ UNCHANGED vars
    BY <1>0, <1>5 DEF Cancel, Returned, vars, end, env, found, searches, ControlInv, Early
<1>6. CASE \E ok \in BOOLEAN : ReadEndpoint(ok)
    BY <1>0, <1>6 DEF ReadEndpoint, end, env, searches, ControlInv, Early
<1>7. CASE \E ok \in BOOLEAN : ReadRoles(ok)
    BY <1>0, <1>7 DEF ReadRoles, end, env, searches, ControlInv, Early
<1> QED BY <1>1, <1>2, <1>3, <1>4, <1>5, <1>6, <1>7

LEMMA SearchControl ==
    ASSUME ShapeInv, ControlInv, ScopeInv,
           \/ \E t \in todo : SkipDescribed(t) \/ Submit("event", t) \/ Submit("schema", t)
           \/ Submit("tstats", <<>>) \/ Submitted \/ SearchDone \/ CancelDuringCall
           \/ \E ok \in BOOLEAN : SubmitFails(ok) \/ CancelSeen(ok) \/ WaitTimeout(ok)
           \/ StatusFails \/ ResultsFail
    PROVE  ControlInv'
<1>0. UNCHANGED env
    BY EnvStep DEF Next
<1>1. CASE \E t \in todo : SkipDescribed(t)
    BY <1>0, <1>1 DEF SkipDescribed, NextSample, env, end, found, ControlInv, Early
<1>2. ASSUME NEW t \in todo, Submit("event", t) \/ Submit("schema", t) PROVE ControlInv'
    <2>1. /\ pc = "sample" /\ job'.target = t /\ job'.op \in {"event", "schema"} /\ tried' = tried \union {t}
          /\ t[1] \in catalog.indexes /\ UNCHANGED <<pc, found, todo, end>>
        BY <1>2 DEF Submit, NextSample, ScopeInv
    <2> QED BY <1>0, <2>1 DEF found, end, env, ControlInv, Early
<1>3. CASE Submit("tstats", <<>>)
    <2>1. /\ pc = "indexed" /\ job'.target = <<>> /\ job'.op = "tstats" /\ tried' = tried \union {<<>>}
          /\ UNCHANGED <<pc, found, todo, end>>
        BY <1>3 DEF Submit
    <2> QED BY <1>0, <2>1 DEF found, end, env, ControlInv, Early
<1>4. CASE Submitted \/ SearchDone
    <2>1. /\ job # NoJob /\ job'.op = job.op /\ job'.target = job.target
          /\ UNCHANGED <<pc, found, todo, tried, end>>
        BY <1>4, JobFields, StageOfJob DEF Submitted, SearchDone
    <2> QED BY <1>0, <2>1 DEF found, end, env, ControlInv, Early
<1>5. CASE CancelDuringCall \/ \E ok \in BOOLEAN : CancelSeen(ok)
    BY <1>0, <1>5, StageOfJob DEF CancelDuringCall, CancelSeen, NextSample, End, env, found, ControlInv, Early
<1>6. CASE StatusFails \/ ResultsFail \/ \E ok \in BOOLEAN : SubmitFails(ok) \/ WaitTimeout(ok)
    <2>1. job # NoJob /\ Fail /\ UNCHANGED tried
        BY <1>6, StageOfJob DEF StatusFails, ResultsFail, SubmitFails, WaitTimeout
    <2>2. /\ pc \in {"indexed", "sample"} /\ pc' = (IF pc = "indexed" THEN "choose" ELSE pc)
          /\ job.op = "tstats" \/ pc = "sample"
          /\ job' = NoJob /\ UNCHANGED end
        BY <2>1 DEF Fail, ControlInv
    <2>3. pc = "indexed" => todo' = {}
        BY <2>1, <2>2 DEF Fail, ControlInv
    <2>4. outcome = "none" /\ ~complete
        BY <2>2 DEF ControlInv
    <2> QED BY <1>0, <2>1, <2>2, <2>3, <2>4 DEF end, env, ControlInv, Early
<1> QED BY <1>1, <1>2, <1>3, <1>4, <1>5, <1>6

\* Choosing forgets no error.
LEMMA ChooseKeepsErrors == ASSUME Choose PROVE failed \subseteq failed'
BY DEF Choose, Unscoped, Scoped

LEMMA ResultsControl ==
    ASSUME ShapeInv, ControlInv, ScopeInv,
           Choose \/ IndexedResults \/ EventResults \/ \E ok \in BOOLEAN : SchemaResults(ok)
    PROVE  ControlInv'
<1>0. UNCHANGED env
    BY EnvStep DEF Next
<1>1. CASE Choose
    BY <1>0, <1>1, ChooseKeepsErrors DEF Choose, end, env, ControlInv, Early
<1>2. CASE IndexedResults
    BY <1>0, <1>2, StageOfJob DEF IndexedResults, end, env, ControlInv, Early
<1>3. CASE EventResults \/ \E ok \in BOOLEAN : SchemaResults(ok)
    <2>1. pc = "sample" /\ job' = NoJob /\ UNCHANGED <<pc, tried, failed, limited, end>>
        BY <1>3, StageOfJob DEF EventResults, SchemaResults, ControlInv
    <2> QED BY <1>0, <2>1 DEF end, env, ControlInv, Early
<1> QED BY <1>1, <1>2, <1>3

-----------------------------------------------------------------------------
(* What is named and tried is permitted.                                   *)

LEMMA ChosenInCatalog ==
    ASSUME ControlInv, Choose
    PROVE  \A t \in todo' : t[1] \in catalog.indexes
<1>1. \A t \in Bounded : t[1] \in catalog.indexes
    BY DEF Bounded, Covered
<1>2. \A t \in InCatalog : t[1] \in catalog.indexes
    BY DEF InCatalog
<1>3. CASE \E picked \in Firsts(Bounded, MaxSamples) : todo' \subseteq picked
    BY <1>1, <1>3, FirstsSubset
<1>4. CASE \E picked \in Firsts(InCatalog, MaxSamples) : todo' = picked
    BY <1>2, <1>4, FirstsSubset
<1>5. CASE UNCHANGED todo
    <2>1. todo = {}
        BY DEF Choose, ControlInv
    <2> QED BY <1>5, <2>1
<1> DEFINE boot == request.representative /\ ~MetadataComplete /\ Unscoped
<1>6. CASE boot
    <2>1. ~Scoped
        BY <1>6 DEF Unscoped, Scoped
    <2> QED BY <1>3, <1>6, <2>1 DEF Choose
<1>7. CASE ~boot
    BY <1>4, <1>5, <1>7 DEF Choose
<1> QED BY <1>6, <1>7

LEMMA ScopeStep == ASSUME ShapeInv, ControlInv, ScopeInv, [Next]_vars PROVE ScopeInv'
<1>0. UNCHANGED env
    BY EnvStep
<1>1. CASE \E ok \in BOOLEAN : ReadRoles(ok)
    <2>1. todo' = {} /\ tried' = {}
        BY <1>1 DEF ReadRoles, searches, ControlInv, Early
    <2>2. \A i \in catalog'.indexes : Permitted(i)
        <3>1. PICK ok, listed, known, described :
                catalog' =
                  [indexes |-> IF ok /\ "indexes" \in results THEN {i \in listed : Permitted(i)} ELSE {},
                   sourcetypes |-> known, described |-> described]
            BY <1>1 DEF ReadRoles
        <3>2. catalog'.indexes = IF ok /\ "indexes" \in results THEN {i \in listed : Permitted(i)} ELSE {}
            BY <3>1
        <3> QED BY <3>2
    <2> QED BY <1>0, <2>1, <2>2 DEF ScopeInv, Permitted, SearchableIndexes, env
<1>2. CASE ~\E ok \in BOOLEAN : ReadRoles(ok)
    <2>1. catalog'.indexes = catalog.indexes
        BY <1>2, CatalogStep
    <2>2. (\A i \in catalog.indexes : Permitted(i))'
        BY <1>0, <2>1 DEF ScopeInv, Permitted, SearchableIndexes, env
    <2>3. SUFFICES \A t \in todo' \union (tried' \ {<<>>}) : t[1] \in catalog.indexes
        BY <2>1, <2>2, <2>3 DEF ScopeInv
    <2>4. CASE Choose
        BY <2>4, ChosenInCatalog DEF Choose, ScopeInv
    <2>5. CASE EventResults
        <3>1. job.target[1] \in catalog.indexes /\ tried' = tried
            BY <2>5, StageOfJob DEF EventResults, ControlInv
        <3>2. PICK names : todo' = (todo \ {job.target}) \union {<<job.target[1], n>> : n \in names}
            BY <2>5 DEF EventResults
        <3> QED BY <3>1, <3>2 DEF ScopeInv
    <2>6. CASE \E t \in todo : Submit("event", t) \/ Submit("schema", t)
        BY <2>6 DEF Submit, ScopeInv
    <2>7. CASE Submit("tstats", <<>>)
        BY <2>7 DEF Submit, ScopeInv
    <2>8. CASE todo' \subseteq todo /\ tried' = tried
        BY <2>8 DEF ScopeInv
    <2> QED BY <1>2, <2>4, <2>5, <2>6, <2>7, <2>8 DEF Next, vars, searches, Validate, RaiseCancelled, SkipProbe,
            AllSampled, Finish, Cancel, ReadEndpoint, SubmitFails, CancelSeen, WaitTimeout, SchemaResults,
            SkipDescribed, Submitted, CancelDuringCall, SearchDone, StatusFails, ResultsFail, IndexedResults,
            Returned, Fail
<1> QED BY <1>1, <1>2

-----------------------------------------------------------------------------
(* What a complete result has sampled.                                     *)

After == pc \in {"sample", "finish"} \/ outcome = "result"

\* Without an error and without a cut, what was asked for was sampled or is still
\* to be, unless the catalog needed no samples.
CoverageInv ==
    After /\ failed = {} /\ ~limited =>
        /\ request.pairs # NoPairs => request.pairs \subseteq sampled \union todo
        /\ request.representative /\ Unscoped =>
              \/ todo = {} /\ job = NoJob /\ MetadataComplete
              \/ \A i \in catalog.indexes : site.coverage[i] = "both" => <<i>> \in sampled \union todo

\* A choice that takes as many as there are takes them all.
LEMMA TakesAll ==
    ASSUME NEW S, IsFiniteSet(S), NEW T \in SUBSET S, ~(Cardinality(T) < Cardinality(S))
    PROVE  T = S
<1>1. Cardinality(S) \in Nat /\ IsFiniteSet(T) /\ Cardinality(T) \in Nat /\ Cardinality(T) <= Cardinality(S)
    BY FS_Subset, FS_CardinalityType
<1>2. Cardinality(T) = Cardinality(S)
    BY <1>1
<1> QED BY <1>2, FS_Subset

LEMMA PairsChosen ==
    ASSUME ShapeInv, ControlInv, Choose, request.pairs # NoPairs, ~limited'
    PROVE  request.pairs \subseteq todo'
<1>1. RequestAccepted(request)
    BY DEF Choose, ControlInv
<1>2. /\ request.pairs # {} /\ request.pairs \subseteq request.indexes \X request.sourcetypes
      /\ request.dates = "ordered"
    BY <1>1 DEF RequestAccepted
<1>3. Scoped /\ ~Unscoped
    BY <1>2 DEF Scoped, Unscoped
<1>4. PICK picked \in Firsts(InCatalog, MaxSamples) : todo' = picked /\ limited' = (limited \/ CutShort(picked))
    BY <1>3 DEF Choose
<1>5. ~(Cardinality(picked) < Cardinality(InCatalog)) /\ InCatalog = Wanted
    BY <1>4 DEF CutShort
<1>6. Wanted = request.pairs
    BY DEF Wanted
<1>7. IsFiniteSet(request.indexes \X request.sourcetypes)
    BY DiscoveryAssumption, FS_Product DEF ShapeInv
<1>8. IsFiniteSet(InCatalog)
    BY <1>2, <1>5, <1>6, <1>7, FS_Subset
<1>9. picked = InCatalog
    BY <1>5, <1>8, FirstsSubset, TakesAll
<1> QED BY <1>4, <1>5, <1>6, <1>9

LEMMA IndexesChosen ==
    ASSUME ShapeInv, ControlInv, Choose, request.representative, Unscoped, ~MetadataComplete, ~limited'
    PROVE  \A i \in catalog.indexes : site.coverage[i] = "both" => <<i>> \in todo'
<1>1. PICK picked \in Firsts(Bounded, MaxSamples) :
        /\ todo' = {t \in picked : site.coverage[t[1]] = "both"}
        /\ limited' = (limited \/ Cardinality(picked) < Cardinality(Covered))
    <2>1. ~Scoped
        BY DEF Scoped, Unscoped
    <2> QED BY <2>1 DEF Choose
<1> DEFINE whole == {j \in Covered : site.coverage[j] # "half"}
<1>2. IsFiniteSet(catalog.indexes) /\ Covered \subseteq catalog.indexes /\ whole \subseteq Covered
    BY DEF ShapeInv, Covered
<1>3. /\ IsFiniteSet(whole) /\ IsFiniteSet(Covered)
      /\ Cardinality(whole) <= Cardinality(Covered) /\ Cardinality(Covered) \in Nat /\ Cardinality(whole) \in Nat
    BY <1>2, FS_Subset, FS_CardinalityType
<1>4. Bounded = {<<i>> : i \in whole}
    BY DEF Bounded
<1>5. IsFiniteSet(Bounded) /\ Cardinality(Bounded) <= Cardinality(whole)
    <2> DEFINE f == [i \in whole |-> <<i>>]
    <2>1. f \in [whole -> Bounded] /\ \A t \in Bounded : \E i \in whole : f[i] = t
        BY <1>4
    <2>2. f \in Surjection(whole, Bounded)
        BY <2>1 DEF Surjection
    <2> HIDE DEF f, whole
    <2> QED BY <1>3, <2>2, FS_Surjection
<1>6. Cardinality(Bounded) \in Nat /\ Cardinality(picked) \in Nat
    BY <1>1, <1>5, FirstsSubset, FS_Subset, FS_CardinalityType
<1>7. ~(Cardinality(picked) < Cardinality(Bounded))
    <2>1. ~(Cardinality(picked) < Cardinality(Covered))
        BY <1>1
    <2> HIDE DEF whole
    <2> QED BY <1>3, <1>5, <1>6, <2>1
<1>8. picked = Bounded
    BY <1>1, <1>5, <1>7, FirstsSubset, TakesAll
<1>9. ASSUME NEW i \in catalog.indexes, site.coverage[i] = "both" PROVE <<i>> \in todo'
    <2>1. <<i>> \in Bounded /\ <<i>>[1] = i
        BY <1>9 DEF Bounded, Covered
    <2> QED BY <1>1, <1>8, <1>9, <2>1
<1> QED BY <1>9

\* While a source is still to be sampled, coverage lasts if nothing that was sampled
\* or is to be is dropped.
LEMMA CoverageKept ==
    ASSUME CoverageInv, UNCHANGED env, After, job # NoJob \/ todo # {},
           failed' = {} => failed = {}, ~limited' => ~limited,
           catalog'.indexes = catalog.indexes,
           sampled \union todo \subseteq sampled' \union todo'
    PROVE  CoverageInv'
<1>1. SUFFICES ASSUME failed = {}, ~limited
               PROVE  /\ request.pairs # NoPairs => request.pairs \subseteq sampled' \union todo'
                      /\ request.representative /\ Unscoped =>
                           \A i \in catalog.indexes : site.coverage[i] = "both" => <<i>> \in sampled' \union todo'
    BY DEF CoverageInv, env, Unscoped
<1>2. request.pairs # NoPairs => request.pairs \subseteq sampled \union todo
    BY <1>1 DEF CoverageInv
<1>3. request.representative /\ Unscoped =>
        \A i \in catalog.indexes : site.coverage[i] = "both" => <<i>> \in sampled \union todo
    BY <1>1 DEF CoverageInv
<1> QED BY <1>2, <1>3

LEMMA ChooseCovers == ASSUME ShapeInv, ControlInv, Choose PROVE CoverageInv'
<1>0. UNCHANGED env /\ UNCHANGED catalog /\ job' = NoJob
    BY DEF Choose, ControlInv
<1>1. SUFFICES ASSUME ~limited'
               PROVE  /\ request.pairs # NoPairs => request.pairs \subseteq sampled' \union todo'
                      /\ request.representative /\ Unscoped =>
                           \/ todo' = {} /\ MetadataComplete
                           \/ \A i \in catalog.indexes : site.coverage[i] = "both" => <<i>> \in sampled' \union todo'
    BY <1>0 DEF CoverageInv, env, Unscoped, MetadataComplete
<1>2. request.pairs # NoPairs => request.pairs \subseteq sampled' \union todo'
    BY <1>1, PairsChosen
<1>3. ASSUME request.representative, Unscoped, ~MetadataComplete
      PROVE  \A i \in catalog.indexes : site.coverage[i] = "both" => <<i>> \in sampled' \union todo'
    BY <1>1, <1>3, IndexesChosen
<1>4. ASSUME Unscoped, MetadataComplete PROVE todo' = {}
    <2>1. ~Scoped
        BY <1>4 DEF Scoped, Unscoped
    <2> QED BY <1>4, <2>1 DEF Choose, ControlInv
<1> QED BY <1>2, <1>3, <1>4

LEMMA CoverageStep == ASSUME ShapeInv, ControlInv, CoverageInv, [Next]_vars PROVE CoverageInv'
<1>0. UNCHANGED env
    BY EnvStep
<1>1. CASE Choose
    BY <1>1, ChooseCovers
<1>2. CASE \/ Validate \/ RaiseCancelled \/ SkipProbe \/ IndexedResults \/ CancelDuringCall \/ Submit("tstats", <<>>)
           \/ \E ok \in BOOLEAN : ReadEndpoint(ok) \/ ReadRoles(ok) \/ CancelSeen(ok)
    <2>1. ~After'
        BY <1>2, StageOfJob DEF Validate, RaiseCancelled, SkipProbe, IndexedResults, CancelDuringCall, Submit, End, end,
           ReadEndpoint, ReadRoles, CancelSeen, After, ControlInv
    <2> QED BY <2>1 DEF CoverageInv
<1>3. CASE \/ AllSampled \/ Finish \/ Cancel \/ Returned \/ UNCHANGED vars
    <2>1. UNCHANGED <<found, sampled, todo, job>> /\ (After' => After)
        BY <1>3 DEF AllSampled, Finish, Cancel, Returned, vars, end, searches, End, After
    <2> QED BY <1>0, <2>1 DEF CoverageInv, found, env, Unscoped, MetadataComplete
<1>4. CASE \E t \in todo : SkipDescribed(t)
    <2>1. request.pairs = NoPairs /\ ~Unscoped
        BY <1>4 DEF SkipDescribed, Described, Scoped, Unscoped
    <2> QED BY <1>0, <2>1 DEF CoverageInv, env, Unscoped
<1>5. CASE \E t \in todo : Submit("event", t) \/ Submit("schema", t)
    <2>1. /\ todo # {} /\ UNCHANGED <<pc, found, todo, sampled, end>>
          /\ After
        BY <1>5 DEF Submit, NextSample, After
    <2> QED BY <1>0, <2>1, CoverageKept DEF found
<1>6. CASE Submitted \/ SearchDone
    <2>1. /\ job # NoJob /\ UNCHANGED <<pc, found, todo, sampled, end>>
        BY <1>6, StageOfJob DEF Submitted, SearchDone
    <2>2. CASE After
        BY <1>0, <2>1, <2>2, CoverageKept DEF found
    <2>3. CASE ~After
        BY <2>1, <2>3 DEF CoverageInv, After, end
    <2> QED BY <2>2, <2>3
<1>7. CASE StatusFails \/ ResultsFail \/ \E ok \in BOOLEAN : SubmitFails(ok) \/ WaitTimeout(ok)
    <2>1. failed' # {}
        BY <1>7 DEF StatusFails, ResultsFail, SubmitFails, WaitTimeout, Fail
    <2> QED BY <2>1 DEF CoverageInv
<1>8. CASE EventResults \/ \E fields \in BOOLEAN : SchemaResults(fields)
    <2>1. /\ job # NoJob /\ pc = "sample" /\ UNCHANGED <<failed, limited>>
          /\ sampled' = sampled \union {job.target}
          /\ todo \ {job.target} \subseteq todo'
        BY <1>8, StageOfJob DEF EventResults, SchemaResults, ControlInv
    <2>2. catalog'.indexes = catalog.indexes
        <3>1. ~\E ok \in BOOLEAN : ReadRoles(ok)
            BY <2>1 DEF ReadRoles
        <3> QED BY <3>1, CatalogStep
    <2>3. After /\ sampled \union todo \subseteq sampled' \union todo'
        BY <2>1 DEF After
    <2> QED BY <1>0, <2>1, <2>2, <2>3, CoverageKept
<1> QED BY <1>1, <1>2, <1>3, <1>4, <1>5, <1>6, <1>7, <1>8 DEF Next

-----------------------------------------------------------------------------
(* What a complete result has read.                                        *)

\* Endpoints are read in order, and without an error those already past were read.
ReadInv ==
    /\ pc = "validate" => unread = Endpoints
    /\ pc \in {"read", "roles"} /\ failed = {} =>
          /\ "indexes" \in results \/ unread = Endpoints
          /\ "sourcetypes" \in results \/ unread \in {Endpoints, Tail(Endpoints)}
    /\ pc = "roles" => unread = <<>>

Catalogued == pc \in {"indexed", "choose", "sample", "finish"} \/ outcome = "result"
Probed == pc \in {"choose", "sample", "finish"} \/ outcome = "result"

\* Without an error, the catalog has all the endpoints gave where that fits the limit;
\* without a cut too, all source names of the indexes that were probed.
CatalogInv ==
    /\ Catalogued /\ failed = {} =>
          /\ Cardinality(site.indexes) <= MaxItems => catalog.indexes = {i \in site.indexes : Permitted(i)}
          /\ Cardinality(site.configured) <= MaxItems => site.configured \subseteq catalog.sourcetypes
    /\ Probed /\ failed = {} /\ ~limited /\ request.indexed /\ ProbeIndexes # {} =>
          site.indexed \subseteq catalog.sourcetypes

LEMMA SmallerOfTwo ==
    ASSUME NEW n \in Nat, NEW m \in Nat
    PROVE  Min({n, m}) \in {n, m} /\ Min({n, m}) <= n /\ Min({n, m}) <= m
<1>1. \E x \in {n, m} : \A y \in {n, m} : x <= y
    BY DEF Nat
<1> QED BY <1>1 DEF Min

\* The first n of a set with no more than n members, or fewer than n of any set, are
\* all of it.
LEMMA FirstsAll ==
    ASSUME NEW S, IsFiniteSet(S), NEW n \in Nat, NEW T \in Firsts(S, n),
           Cardinality(S) <= n \/ ~(Cardinality(T) >= n)
    PROVE  T = S
<1>1. T \subseteq S /\ Cardinality(T) = Min({n, Cardinality(S)})
    BY DEF Firsts
<1>2. Cardinality(S) \in Nat
    BY FS_CardinalityType
<1>3. ~(Cardinality(T) < Cardinality(S))
    BY <1>1, <1>2, SmallerOfTwo
<1> QED BY <1>1, <1>3, TakesAll

LEMMA EndpointTails ==
    /\ Endpoints # <<>> /\ Tail(Endpoints) # <<>> /\ Tail(Endpoints) # Endpoints
    /\ Head(Endpoints) = "indexes" /\ Head(Tail(Endpoints)) = "sourcetypes"
BY DEF Endpoints

LEMMA ReadStep == ASSUME ControlInv, ReadInv, [Next]_vars PROVE ReadInv'
<1>1. CASE Validate
    BY <1>1 DEF Validate, End, found, ReadInv
<1>2. CASE \E ok \in BOOLEAN : ReadEndpoint(ok)
    <2>1. PICK ok \in BOOLEAN : ReadEndpoint(ok)
        BY <1>2
    <2>2. /\ pc = "read" /\ unread # <<>> /\ unread' = Tail(unread) /\ pc' \in {"read", "roles"}
          /\ pc' = "roles" => unread' = <<>>
          /\ failed' = {} => failed = {} /\ results' = results \union {Head(unread)}
        BY <2>1 DEF ReadEndpoint
    <2>3. ASSUME failed' = {}
          PROVE  /\ "indexes" \in results' \/ unread' = Endpoints
                 /\ "sourcetypes" \in results' \/ unread' \in {Endpoints, Tail(Endpoints)}
        BY <2>2, <2>3, EndpointTails DEF ReadInv
    <2> QED BY <2>2, <2>3 DEF ReadInv
<1>3. CASE UNCHANGED <<pc, unread, results>> /\ (failed' = {} => failed = {})
    BY <1>3 DEF ReadInv
<1>4. CASE pc' \notin {"validate", "read", "roles"}
    BY <1>4 DEF ReadInv
<1>5. CASE \/ \E ok \in BOOLEAN : ReadRoles(ok) \/ SubmitFails(ok) \/ CancelSeen(ok) \/ WaitTimeout(ok) \/ SchemaResults(ok)
           \/ \E t \in todo : SkipDescribed(t) \/ Submit("event", t) \/ Submit("schema", t)
           \/ Submit("tstats", <<>>) \/ Submitted \/ CancelDuringCall \/ SearchDone \/ StatusFails \/ ResultsFail
           \/ IndexedResults \/ EventResults
    <2>1. pc' \notin {"validate", "read", "roles"}
        BY <1>5, StageOfJob DEF ReadRoles, SubmitFails, CancelSeen, WaitTimeout, SchemaResults, SkipDescribed, NextSample,
           Submit, Submitted, CancelDuringCall, SearchDone, StatusFails, ResultsFail, IndexedResults, EventResults, Fail,
           End, ControlInv
    <2> QED BY <1>4, <2>1
<1> QED BY <1>1, <1>2, <1>3, <1>4, <1>5 DEF Next, vars, found, end, RaiseCancelled, End, SkipProbe, Choose, AllSampled,
        Finish, Cancel, Returned

\* What was read stays.
LEMMA CatalogKept ==
    ASSUME CatalogInv, UNCHANGED env, failed' = {} => failed = {}, ~limited' => ~limited,
           catalog'.indexes = catalog.indexes, catalog.sourcetypes \subseteq catalog'.sourcetypes,
           Catalogued' => Catalogued, Probed' => Probed
    PROVE  CatalogInv'
<1>1. UNCHANGED <<request, site>>
    BY DEF env
<1>2. \A i : Permitted(i)' <=> Permitted(i)
    BY <1>1 DEF Permitted, MatchesIndex, SearchableIndexes
<1>3. ProbeIndexes' = ProbeIndexes
    BY <1>1 DEF ProbeIndexes
<1>4. {i \in site.indexes : Permitted(i)}' = {i \in site.indexes : Permitted(i)}
    BY <1>1, <1>2
<1> QED BY <1>1, <1>3, <1>4 DEF CatalogInv

LEMMA RolesRead == ASSUME ShapeInv, ControlInv, ReadInv, NEW ok \in BOOLEAN, ReadRoles(ok) PROVE CatalogInv'
<1>0. UNCHANGED <<request, site>>
    BY EnvStep DEF Next, env
<1>1. SUFFICES ASSUME failed' = {} PROVE CatalogInv'
    BY DEF CatalogInv
<1>2. ok /\ "indexes" \in results /\ "sourcetypes" \in results
    <2>1. ok /\ failed = {} /\ pc = "roles"
        BY <1>1 DEF ReadRoles
    <2> QED BY <2>1, EndpointTails DEF ReadInv
<1>3. PICK listed \in Firsts(site.indexes, MaxItems), names \in Firsts(site.configured, MaxItems) :
        catalog' = [indexes |-> {i \in listed : Permitted(i)}, sourcetypes |-> names,
                    described |-> names \intersect site.described]
    BY <1>2 DEF ReadRoles
<1>4. IsFiniteSet(site.indexes) /\ IsFiniteSet(site.configured) /\ MaxItems \in Nat
    BY DiscoveryAssumption DEF ShapeInv
<1>5. Cardinality(site.indexes) <= MaxItems => catalog'.indexes = {i \in site.indexes : Permitted(i)}
    BY <1>3, <1>4, FirstsAll
<1>6. Cardinality(site.configured) <= MaxItems => site.configured \subseteq catalog'.sourcetypes
    BY <1>3, <1>4, FirstsAll
<1>7. {i \in site.indexes : Permitted(i)}' = {i \in site.indexes : Permitted(i)}
    BY <1>0 DEF Permitted, MatchesIndex, SearchableIndexes
<1>8. request.indexed => ~Probed'
    BY DEF ReadRoles, end, Probed, ControlInv
<1> QED BY <1>0, <1>5, <1>6, <1>7, <1>8 DEF CatalogInv

LEMMA SourcesRead == ASSUME ShapeInv, ControlInv, CatalogInv, IndexedResults PROVE CatalogInv'
<1>0. UNCHANGED env
    BY EnvStep DEF Next
<1>1. ~\E ok \in BOOLEAN : ReadRoles(ok)
    BY StageOfJob DEF ReadRoles, IndexedResults, ControlInv
<1>2. catalog'.indexes = catalog.indexes /\ catalog.sourcetypes \subseteq catalog'.sourcetypes
    BY <1>1, CatalogStep DEF Next
<1>3. PICK rows \in Firsts(site.indexed, MaxItems) :
        /\ catalog' = [catalog EXCEPT !.sourcetypes = @ \union rows]
        /\ limited' = (limited \/ Cardinality(rows) >= MaxItems)
    BY DEF IndexedResults
<1>4. rows \subseteq catalog'.sourcetypes
    BY <1>3, CatalogFields
<1>5. ~limited' => rows = site.indexed
    <2>1. IsFiniteSet(site.indexed) /\ MaxItems \in Nat
        BY DiscoveryAssumption DEF ShapeInv
    <2> QED BY <1>3, <2>1, FirstsAll
<1>6. Catalogued
    BY StageOfJob DEF IndexedResults, ControlInv, Catalogued
<1>7. {i \in site.indexes : Permitted(i)}' = {i \in site.indexes : Permitted(i)}
    BY <1>0 DEF Permitted, MatchesIndex, SearchableIndexes, env
<1>8. failed' = failed
    BY DEF IndexedResults
<1> QED BY <1>0, <1>2, <1>4, <1>5, <1>6, <1>7, <1>8 DEF CatalogInv, env

LEMMA CatalogInvStep ==
    ASSUME ShapeInv, ControlInv, ReadInv, CatalogInv, [Next]_vars
    PROVE  CatalogInv'
<1>0. UNCHANGED env
    BY EnvStep
<1>1. CASE \E ok \in BOOLEAN : ReadRoles(ok)
    BY <1>1, RolesRead
<1>2. CASE IndexedResults
    BY <1>2, SourcesRead
<1>3. CASE ~IndexedResults /\ ~\E ok \in BOOLEAN : ReadRoles(ok)
    <2>1. catalog'.indexes = catalog.indexes /\ catalog.sourcetypes \subseteq catalog'.sourcetypes
        BY <1>3, CatalogStep
    <2>2. CASE SkipProbe
        <3>1. ProbeIndexes' = {} /\ Catalogued /\ UNCHANGED <<failed, limited, catalog>>
            BY <1>0, <2>2 DEF SkipProbe, ProbeIndexes, env, found, Catalogued
        <3>2. {i \in site.indexes : Permitted(i)}' = {i \in site.indexes : Permitted(i)}
            BY <1>0 DEF Permitted, MatchesIndex, SearchableIndexes, env
        <3> QED BY <1>0, <3>1, <3>2 DEF CatalogInv, env
    <2>3. CASE failed' # {}
        BY <2>3 DEF CatalogInv
    <2>4. CASE Choose
        <3>1. /\ failed' = {} => failed = {}
              /\ ~limited' => ~limited
              /\ Catalogued /\ Probed
            BY <2>4, ChooseKeepsErrors DEF Choose, Catalogued, Probed, Unscoped, Scoped
        <3> QED BY <1>0, <2>1, <3>1, CatalogKept
    <2>5. CASE \/ Validate \/ RaiseCancelled \/ AllSampled \/ Finish \/ Cancel \/ Returned \/ UNCHANGED vars
               \/ CancelDuringCall \/ Submitted \/ SearchDone \/ EventResults \/ Submit("tstats", <<>>)
               \/ \E t \in todo : SkipDescribed(t) \/ Submit("event", t) \/ Submit("schema", t)
               \/ \E ok \in BOOLEAN : CancelSeen(ok) \/ SchemaResults(ok) \/ ReadEndpoint(ok)
        <3>1. /\ UNCHANGED limited
              /\ failed' = {} => failed = {}
              /\ Catalogued' => Catalogued
              /\ Probed' => Probed
            BY <2>5, StageOfJob DEF Validate, RaiseCancelled, AllSampled, Finish, Cancel, Returned, vars, found, end, End,
               CancelDuringCall, Submitted, SearchDone, EventResults, Submit, SkipDescribed, CancelSeen, SchemaResults,
               ReadEndpoint, ControlInv, Catalogued, Probed
        <3> QED BY <1>0, <2>1, <3>1, CatalogKept
    <2>6. CASE StatusFails \/ ResultsFail \/ \E ok \in BOOLEAN : SubmitFails(ok) \/ WaitTimeout(ok)
        <3>1. failed' # {}
            BY <2>6 DEF StatusFails, ResultsFail, SubmitFails, WaitTimeout, Fail
        <3> QED BY <2>3, <3>1
    <2> QED BY <1>3, <2>2, <2>4, <2>5, <2>6 DEF Next
<1> QED BY <1>1, <1>2, <1>3

-----------------------------------------------------------------------------
(* Searches that are left.                                                 *)

LEMMA LeftStep ==
    ASSUME ControlInv, NoSearchLeftRunning, [Next]_vars
    PROVE  NoSearchLeftRunning'
<1>1. CASE CancelDuringCall
    <2>1. /\ left' = left \union {Search(job.op, job.target)} /\ lost' = lost /\ outcome' = "cancelled"
          /\ job.op = "event"
        BY <1>1 DEF CancelDuringCall, End
    <2>2. Search(job.op, job.target).op = "event"
        BY <2>1 DEF Search
    <2> QED BY <2>1, <2>2 DEF NoSearchLeftRunning
<1>2. CASE \/ \E ok \in BOOLEAN : SubmitFails(ok) \/ WaitTimeout(ok) \/ CancelSeen(ok)
           \/ StatusFails
    <2>1. PICK really \in BOOLEAN : Lose(really)
        BY <1>2 DEF SubmitFails, WaitTimeout, CancelSeen, StatusFails
    <2>2. PICK jobs : left' = left \union jobs /\ lost' = lost \union jobs
        BY <2>1 DEF Lose
    <2>3. outcome' = outcome \/ outcome' = "cancelled"
        BY <1>2 DEF SubmitFails, WaitTimeout, CancelSeen, StatusFails, Fail, End, end
    <2> QED BY <2>2, <2>3 DEF NoSearchLeftRunning
<1>3. CASE UNCHANGED <<left, lost>> /\ (outcome = "cancelled" => outcome' = "cancelled")
    BY <1>3 DEF NoSearchLeftRunning
<1>4. pc # "done" => outcome = "none"
    BY DEF ControlInv
<1>5. CASE \/ Validate \/ RaiseCancelled \/ SkipProbe \/ Choose \/ AllSampled \/ Finish \/ Cancel \/ Returned
           \/ UNCHANGED vars \/ Submitted \/ SearchDone \/ ResultsFail \/ IndexedResults \/ EventResults
           \/ Submit("tstats", <<>>)
           \/ \E t \in todo : SkipDescribed(t) \/ Submit("event", t) \/ Submit("schema", t)
           \/ \E ok \in BOOLEAN : ReadEndpoint(ok) \/ ReadRoles(ok) \/ SchemaResults(ok)
    BY <1>3, <1>4, <1>5 DEF Validate, RaiseCancelled, SkipProbe, Choose, AllSampled, Finish, Cancel, Returned,
       vars, end, searches, Submitted, SearchDone, ResultsFail, IndexedResults, EventResults, Submit,
       SkipDescribed, ReadEndpoint, ReadRoles, SchemaResults, End, Fail
<1> QED BY <1>1, <1>2, <1>5 DEF Next

-----------------------------------------------------------------------------
(* The theorems.                                                           *)

DiscoveryInv ==
    /\ ShapeInv /\ ControlInv /\ ScopeInv
    /\ CoverageInv /\ ReadInv /\ CatalogInv
    /\ NoSearchLeftRunning

LEMMA ControlStep == ASSUME ShapeInv, ControlInv, ScopeInv, [Next]_vars PROVE ControlInv'
BY ReadingControl, SearchControl, ResultsControl DEF Next

LEMMA DiscoveryInitial == ASSUME Init PROVE DiscoveryInv
<1>1. ShapeInv
    BY FS_EmptySet DEF Init, ShapeInv, NoJob
<1>2. ControlInv /\ NoSearchLeftRunning
    BY DEF Init, ControlInv, NoSearchLeftRunning, Early
<1>3. ScopeInv /\ CoverageInv /\ ReadInv /\ CatalogInv
    BY DEF Init, ScopeInv, CoverageInv, After, ReadInv, CatalogInv, Catalogued, Probed
<1> QED BY <1>1, <1>2, <1>3 DEF DiscoveryInv

LEMMA DiscoveryStep == ASSUME DiscoveryInv, [Next]_vars PROVE DiscoveryInv'
BY ShapeStep, ControlStep, ScopeStep, CoverageStep, ReadStep, CatalogInvStep, LeftStep DEF DiscoveryInv

LEMMA DiscoveryInvariant == Spec => []DiscoveryInv
BY DiscoveryInitial, DiscoveryStep, PTL DEF Spec

LEMMA HonestByInv == ASSUME DiscoveryInv PROVE ResultIsHonest
<1>1. ASSUME outcome = "result"
      PROVE  \A i \in catalog.indexes \union {t[1] : t \in tried \ {<<>>}} : Permitted(i)
    BY DEF DiscoveryInv, ScopeInv
<1>2. ASSUME outcome = "result", complete
      PROVE  failed = {} /\ ~limited /\ todo = {} /\ After /\ Catalogued /\ Probed
    BY <1>2 DEF DiscoveryInv, ControlInv, After, Catalogued, Probed
<1>3. ASSUME outcome = "result", complete
      PROVE  /\ request.pairs # NoPairs => request.pairs \subseteq sampled
             /\ request.representative /\ Unscoped /\ ~MetadataComplete =>
                  \A i \in catalog.indexes : site.coverage[i] = "both" => <<i>> \in sampled
    BY <1>2, <1>3 DEF DiscoveryInv, CoverageInv
<1>4. ASSUME outcome = "result", complete
      PROVE  /\ Cardinality(site.indexes) <= MaxItems => catalog.indexes = {i \in site.indexes : Permitted(i)}
             /\ Cardinality(site.configured) <= MaxItems => site.configured \subseteq catalog.sourcetypes
             /\ request.indexed /\ ProbeIndexes # {} => site.indexed \subseteq catalog.sourcetypes
    BY <1>2, <1>4 DEF DiscoveryInv, CatalogInv
<1> QED BY <1>1, <1>3, <1>4 DEF ResultIsHonest

\* A result of discover names and asks only indexes the account may search.  One
\* marked complete lists all indexes and configured source names that fit the limit,
\* every source name the probed indexes hold, and read the sample of each exact pair
\* and, in a bootstrap, of each index with an interval, whatever fails on the way.
THEOREM ResultsAreHonest == Spec => []ResultIsHonest
BY DiscoveryInvariant, HonestByInv, PTL

\* A search is left running only when its own call failed, or when a cancelled
\* discovery was asking an index for an event.
THEOREM SearchesAreWatched == Spec => []NoSearchLeftRunning
<1>1. DiscoveryInv => NoSearchLeftRunning
    BY DEF DiscoveryInv
<1> QED BY <1>1, DiscoveryInvariant, PTL
=============================================================================
