---------------------------- MODULE MCDiscovery ----------------------------
(***************************************************************************)
(* Discovery of up to three indexes (one internal) and three source names, *)
(* two of each within the limit: the catalog read, the refresh of a        *)
(* proposed plan with exact pairs, an approved scope without pairs, the    *)
(* bootstrap, and refused requests.  The sites: lists that fit, lists that *)
(* are cut, an index the account may not search, and coverage with both    *)
(* ends, one, none, ends that are reversed and ends that are no times.     *)
(***************************************************************************)
EXTENDS Discovery

CONSTANTS i1, i2, i3, s1, s2, s3

Bootstrap == [CatalogRequest EXCEPT !.representative = TRUE, !.indexed = FALSE]
ScopeOnly(indexes, sourcetypes) == [PlanRequest(indexes, sourcetypes, NoPairs) EXCEPT !.indexed = FALSE]

MCRequests ==
    {CatalogRequest,
     Bootstrap,
     PlanRequest({i1, i2}, {s1, s2}, {<<i1, s1>>, <<i2, s2>>}),
     PlanRequest({i1, i2}, {s1, s2}, {<<i1, s1>>, <<i1, s2>>, <<i2, s1>>}),
     ScopeOnly({i1, i2}, {s1, s2}),
     PlanRequest({i1}, {s1}, {<<i2, s1>>}),
     [ScopeOnly({i1}, {s1}) EXCEPT !.dates = "reversed"]}

Role(allowed, denied) == [allowed |-> allowed, denied |-> denied]

Holding(coverage, roles, configured, described, indexed) ==
    [indexes |-> DOMAIN coverage, coverage |-> coverage, roles |-> roles,
     configured |-> configured, described |-> described, indexed |-> indexed]

Two(c, d) == [i \in {i1, i2} |-> IF i = i1 THEN c ELSE d]
Three(c, d, e) == [i \in {i1, i2, i3} |-> IF i = i1 THEN c ELSE IF i = i2 THEN d ELSE e]

MCSites ==
    {Holding(Two("both", "both"), {Role({"*"}, {}), Role({"_*"}, {})}, {s1, s2}, {}, {s3}),
     Holding(Three("both", "half", "both"), {Role({"*"}, {})}, {s1, s2}, {s1}, {s1}),
     Holding(Two("none", "both"), {Role({"*", i2}, {}), Role({}, {i2})}, {}, {}, {s1, s2, s3}),
     Holding(Two("both", "malformed"), {Role({"*", "_*"}, {})}, {s1, s2, s3}, {s1, s2}, {s2}),
     Holding(Two("reversed", "both"), {Role({i1, "_*"}, {})}, {s1, s2}, {s1, s2}, {s2})}
=============================================================================
