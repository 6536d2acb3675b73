---------------------------- MODULE McpAuthorization ----------------------------
(***************************************************************************)
(* The server side of the optional MCP path, mcp/authorization.py:         *)
(* authorize_mcp_tool_request compares what a request asserts with the     *)
(* rows of the database, and reserve_mcp_request writes one audit record   *)
(* and one ledger row per idempotency key in a transaction, before the     *)
(* search goes to Splunk.                                                  *)
(*                                                                         *)
(* A request is a function from assertion names to "same" (the persisted   *)
(* value), "other" or "absent"; which values they are does not matter to   *)
(* any check.  There is one idempotency key of one subject: requests with  *)
(* different keys share no row.  The image's entry point refuses to serve  *)
(* (mcp/main.py), so the handler that calls these two functions and then   *)
(* Splunk is taken from the module's documentation and marked external.    *)
(***************************************************************************)
EXTENDS Naturals, FiniteSets

CONSTANTS Deliveries,    \* the copies of requests the network delivers
          Digests        \* action digests: what the request asks for

VARIABLES lapsed,   \* whether the hunt's authority has ended in the rows
          ledger,   \* digest of the committed mcp_tool_requests row, or NoRow
          audits,   \* committed pre-submit audit records
          srv       \* per delivery: stage, digest, and whether the hunt's
                    \* authority had already lapsed when it arrived

NoRow == "no row"

serverVars == <<lapsed, ledger, audits, srv>>

(***************************************************************************)
(* The assertions.  Identifiers locate rows; a Required one must be        *)
(* present and equal; an Optional one must be equal when it is present.    *)
(***************************************************************************)
Identifiers == {"hunt", "execution", "approval", "plan", "config",
                "discovery", "query"}

Required == {"deploymentScope", "question", "purpose", "informationGain",
             "policyVersion", "policyHash", "timeScope", "telemetryScope",
             "limits"}

Optional == {"planVersion", "planHash", "configHash", "queryHash",
             "requestedFields", "skill"}

Sender == {"subject", "worker"}

Assertions == Identifiers \cup Required \cup Optional \cup Sender

\* Requests that differ from the approved one in up to one assertion and
\* name a generic search, or a semantic tool with none, one or two usable
\* capability bindings.
Requests ==
    [asserts : {[a \in Assertions |-> IF a = b THEN v ELSE "same"] :
                    b \in Assertions, v \in {"same", "other", "absent"}},
     semantic : BOOLEAN,
     usable : 0..2]

\* _request_value / _required_request: identifiers that must be there.
RequiredRequest(q) == \A a \in Identifiers : q.asserts[a] # "absent"

\* The subject is the configured one and the request says nothing else.
SubjectAccepted(q) == q.asserts["subject"] = "same"

\* _lookup: one row per identifier, or the request is denied.
RowsFound(q) == \A a \in Identifiers : q.asserts[a] = "same"

\* _deny_if_not_equal and the None-tolerant comparisons of _check_scope
\* (requested_fields) and of the skill identity.
EqualIfPresent(q, a) == q.asserts[a] # "other"

\* _check_hash: an asserted hash binds every persisted one; an absent
\* assertion takes the persisted hash.
HashBound(q, a) == q.asserts[a] # "other"

\* _check_policy: version required; the hash is required because the
\* persisted policy has one.
PolicyBound(q) ==
    /\ q.asserts["policyVersion"] = "same"
    /\ q.asserts["policyHash"] = "same"

\* _check_scope: both time bounds, both telemetry lists, optional fields.
ScopeBound(q) ==
    /\ q.asserts["timeScope"] = "same"
    /\ q.asserts["telemetryScope"] = "same"
    /\ EqualIfPresent(q, "requestedFields")

\* _check_limits: rows, bytes and timeout as persisted and positive.
LimitsBound(q) == q.asserts["limits"] = "same"

\* The row bindings and query assertions authorize compares one by one.
AssertionsBound(q) ==
    /\ q.asserts["deploymentScope"] = "same"
    /\ EqualIfPresent(q, "planVersion")
    /\ \A a \in {"planHash", "configHash", "queryHash"} : HashBound(q, a)
    /\ \A a \in {"question", "purpose", "informationGain"} :
           q.asserts[a] = "same"

\* _check_lease: the sender is the unexpired lease's owner and the job runs.
LeaseHeld(q, end) == q.asserts["worker"] = "same" /\ end # "expired"

\* Mutant: the state of the hunt is not looked at.
InvestigatingUnchecked(end) == TRUE

\* _check_execution_state: neither cancelled nor terminal, and running.
Investigating(end) == end # "cancelled"

\* _check_revocation: no matching revocation in force.
NotRevoked(end) == end # "revoked"

\* _semantic_capabilities: a pinned skill and exactly one usable binding.
CapabilityResolved(q) ==
    q.semantic => EqualIfPresent(q, "skill") /\ q.usable = 1

\* authorize_mcp_tool_request, in one transaction, given how the hunt's
\* authority ended, if it did.
Authorized(q, end) ==
    /\ SubjectAccepted(q)
    /\ RequiredRequest(q)
    /\ RowsFound(q)
    /\ LeaseHeld(q, end)
    /\ Investigating(end)
    /\ AssertionsBound(q)
    /\ PolicyBound(q)
    /\ ScopeBound(q)
    /\ LimitsBound(q)
    /\ NotRevoked(end)
    /\ CapabilityResolved(q)

(***************************************************************************)
(* The handler's steps for a delivery d.                                   *)
(***************************************************************************)
Stages == {"none", "arrived", "denied", "authorized", "checked", "inserted",
           "reserved", "replay", "submitted"}

NoRequestHere == [stage |-> "none", digest |-> NoRow, late |-> FALSE]

\* AuthorizationDenied: the delivery is answered and forgotten.
Denied(d) == srv' = [srv EXCEPT ![d].stage = "denied", ![d].late = FALSE]

To(d, stage) == srv' = [srv EXCEPT ![d].stage = stage]

InitServer ==
    /\ lapsed = FALSE
    /\ ledger = NoRow
    /\ audits = 0
    /\ srv = [d \in Deliveries |-> NoRequestHere]

\* How the authority has ended: only the checks care, so it is chosen there.
Ends == IF lapsed THEN {"expired", "cancelled", "revoked"} ELSE {"in force"}

\* The verdicts on the enumerated requests.
Verdicts == [end \in {"expired", "cancelled", "revoked", "in force"} |->
                {Authorized(q, end) : q \in Requests}]

\* A delivery is authorized or refused; refusals change nothing else.
Authorize(d) ==
    /\ srv[d].stage = "arrived"
    /\ \E end \in Ends : \E granted \in Verdicts[end] :
           IF granted THEN To(d, "authorized") ELSE Denied(d)
    /\ UNCHANGED <<lapsed, ledger, audits>>

\* reserve_mcp_request opens its transaction and looks for the key
\* (check_mcp_request_replay): nothing, the same action or another one.
ReserveCheck(d) ==
    /\ srv[d].stage = "authorized"
    /\ CASE ledger = NoRow -> To(d, "checked")
         [] ledger = srv[d].digest -> To(d, "replay")
         [] OTHER -> Denied(d)
    /\ UNCHANGED <<lapsed, ledger, audits>>

\* Mutant: no unique key on the ledger.
ReserveInsertAnyway(d) ==
    /\ srv[d].stage = "checked"
    /\ To(d, "inserted")
    /\ UNCHANGED <<lapsed, ledger, audits>>

\* The audit record and the ledger row are inserted.  The unique key makes
\* an insert wait for the other transaction's outcome; a committed row is an
\* IntegrityError, after which PostgreSQL refuses the transaction's second
\* replay check and everything is rolled back.
ReserveInsert(d) ==
    /\ srv[d].stage = "checked"
    /\ \A e \in Deliveries : srv[e].stage # "inserted"
    /\ IF ledger = NoRow THEN To(d, "inserted") ELSE Denied(d)
    /\ UNCHANGED <<lapsed, ledger, audits>>

\* The transaction commits: row and audit record appear together.
ReserveCommit(d) ==
    /\ srv[d].stage = "inserted"
    /\ ledger' = srv[d].digest
    /\ audits' = audits + 1
    /\ To(d, "reserved")
    /\ UNCHANGED lapsed

\* The audit or the ledger write fails, or the server dies before commit.
ReserveFails(d) ==
    /\ srv[d].stage = "inserted"
    /\ Denied(d)
    /\ UNCHANGED <<lapsed, ledger, audits>>

\* The network delivers a request, or a copy of one (external).
Arrive(d, digest) ==
    /\ srv[d].stage = "none"
    /\ srv' = [srv EXCEPT ![d] =
                  [stage |-> "arrived", digest |-> digest, late |-> lapsed]]
    /\ UNCHANGED <<lapsed, ledger, audits>>

\* The lease expires, the hunt is cancelled or the approval is revoked.
Lapse ==
    /\ ~lapsed
    /\ lapsed' = TRUE
    /\ UNCHANGED <<ledger, audits, srv>>
==================================================================================
