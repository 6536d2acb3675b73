------------------------------- MODULE McpGateway -------------------------------
(***************************************************************************)
(* The MCP path end to end: callers of McpConnector, a network that loses  *)
(* and duplicates requests and replies, the service's authorization and    *)
(* reservation (McpAuthorization), and Splunk behind it.                   *)
(*                                                                         *)
(* The service handler and Splunk are not in the repository.  They are     *)
(* assumed to submit once per new reservation, to name the search by an id *)
(* of their own or by the deterministic one, to name it in replies and to  *)
(* know it by either id; a job Splunk does not know is an error.           *)
(*                                                                         *)
(* Connector and service both keep their row in mcp_tool_requests of the   *)
(* database they are given; here each has a database of its own.  In a     *)
(* shared one the service would find the connector's row in place of its   *)
(* own and take every request for a replay.                                *)
(***************************************************************************)
EXTENDS McpConnector, McpAuthorization

VARIABLE splunk

vars == <<clientVars, serverVars, splunk>>

Copies == {1, 2}

ASSUME DeliveriesAssumption == Deliveries = Calls \X Copies /\ Digests = Actions
ASSUME NullsDistinct == NoJob \notin Actions /\ NoRow \notin Actions
ASSUME FaultsAssumption == MaxDbFaults \in Nat

Init ==
    /\ InitClient
    /\ InitServer
    /\ splunk = [runs |-> 0, action |-> NoJob, name |-> NoJob,
                 state |-> NoJob]

\* The client posts the request; it arrives or is lost.
Send(c) ==
    /\ call[c].at = "send"
    /\ \A i \in Copies, e \in Calls : srv[<<e, i>>].stage # "none" => i = 1 /\ e # c
    /\ Goto(c, "sent")
    /\ \/ Arrive(<<c, 1>>, call[c].action)
       \/ UNCHANGED serverVars
    /\ UNCHANGED <<request, dbFaults, splunk>>

\* The network delivers a second copy of the only request (more than two
\* deliveries race no differently).
Duplicate(c) ==
    /\ srv[<<c, 1>>].stage # "none"
    /\ \A d \in Deliveries \ {<<c, 1>>} : srv[d].stage = "none"
    /\ Arrive(<<c, 2>>, srv[<<c, 1>>].digest)
    /\ UNCHANGED <<clientVars, splunk>>

\* The handler submits what it newly reserved.
SplunkSubmit(d) ==
    /\ srv[d].stage = "reserved"
    /\ To(d, "submitted")
    /\ \E n \in {"own", "pending"} :
           splunk' = [runs |-> splunk.runs + 1, action |-> srv[d].digest,
                      name |-> n, state |-> "running"]
    /\ UNCHANGED <<clientVars, lapsed, ledger, audits>>

SplunkFinish ==
    /\ splunk.state = "running"
    /\ splunk' = [splunk EXCEPT !.state = "completed"]
    /\ UNCHANGED <<clientVars, serverVars>>

\* A reply reaches the caller while it still waits.
Reply(c) ==
    /\ splunk.runs > 0
    /\ \E i \in Copies : srv[<<c, i>>].stage \in {"submitted", "replay"}
    /\ Answered(c, splunk.name)
    /\ UNCHANGED <<serverVars, splunk>>

\* The row's request is the one Splunk runs: the deterministic id of another
\* action's request is unknown to it.
RowNamesSearch == splunk.runs > 0 /\ request.action = splunk.action

ReconcileCall(c) ==
    /\ RowNamesSearch
    /\ Reconciled(c, splunk.name)
    /\ UNCHANGED <<serverVars, splunk>>

StatusCall(c) ==
    /\ splunk.runs > 0
    /\ Status(c, RowNamesSearch, splunk.state)
    /\ UNCHANGED <<serverVars, splunk>>

CancelCall(c) ==
    /\ splunk.runs > 0
    /\ Cancel(c, RowNamesSearch, splunk.state = "running")
    /\ splunk' = [splunk EXCEPT !.state =
                      IF @ = "running" THEN "cancelled" ELSE @]
    /\ UNCHANGED serverVars

ClientStep(c) ==
    /\ \/ \E a \in Actions, durable \in BOOLEAN : Submit(c, a, durable)
       \/ Reserve(c)
       \/ ReserveError(c)
       \/ RefuseToSend(c)
       \/ NotAnswered(c)
       \/ Record(c)
       \/ RecordError(c)
       \/ Unresolved(c)
       \/ RecordFound(c)
       \/ UpdateStatus(c)
       \/ EndOrDie(c)
    /\ UNCHANGED <<serverVars, splunk>>

ServerStep(d) ==
    /\ \/ Authorize(d)
       \/ ReserveCheck(d)
       \/ ReserveInsert(d)
       \/ ReserveCommit(d)
       \/ ReserveFails(d)
    /\ UNCHANGED <<clientVars, splunk>>

Next ==
    \/ \E c \in Calls :
           \/ ClientStep(c)
           \/ Send(c)
           \/ Duplicate(c)
           \/ Reply(c)
           \/ ReconcileCall(c)
           \/ StatusCall(c)
           \/ CancelCall(c)
    \/ \E d \in Deliveries : ServerStep(d) \/ SplunkSubmit(d)
    \/ SplunkFinish
    \/ Lapse /\ UNCHANGED <<clientVars, splunk>>

Spec == Init /\ [][Next]_vars

JobIds == {NoJob, "own", "pending"}

States == {NoJob, "running", "completed", "cancelled"}
Outcomes == States \cup {"submitted", "unknown", "failed"}

RequestRecords ==
    [action : Actions \cup {NoJob}, status : Outcomes \cup {"reserved"}, sid : JobIds]

DeliveryRecords == [stage : Stages, digest : Digests \cup {NoRow}, late : BOOLEAN]

SearchRecords == [runs : Nat, action : Actions \cup {NoJob}, name : JobIds, state : States]

CallRecords ==
    [at : {"idle", "reserve", "send", "sent", "record", "reconcile", "found", "update", "returned"},
     action : Actions \cup {NoJob}, job : JobIds, saw : Outcomes, durable : BOOLEAN]

\* Types of the ledgers, the calls, the deliveries and the search.
TypeOK ==
    /\ request \in RequestRecords
    /\ call \in [Calls -> CallRecords]
    /\ dbFaults \in 0..MaxDbFaults
    /\ lapsed \in BOOLEAN
    /\ ledger \in Digests \cup {NoRow}
    /\ audits \in Nat
    /\ srv \in [Deliveries -> DeliveryRecords]
    /\ splunk \in SearchRecords

\* Whatever is lost, duplicated, retried or dies, and with a connector that
\* keeps no ledger, Splunk runs at most one search for an idempotency key, and
\* only for a committed reservation with its one audit record.
\* (docs/agentic-threat-hunting-refactor-plan.md:288.)
SubmittedAtMostOnce ==
    /\ audits = IF ledger = NoRow THEN 0 ELSE 1
    /\ splunk.runs <= audits

\* Every caller that gets a job id, and the client's row, name the one search
\* that runs, however late a writer is, and a row that says completed or
\* cancelled says how that search ended.  Its other statuses are no such
\* evidence: submit writes failed or unknown while the search may run, and
\* status what it saw before, over whatever was written since.
RowNamesTheSearch ==
    /\ request.sid # NoJob => RowNamesSearch /\ request.sid = splunk.name
    /\ \A c \in Calls : call[c].job # NoJob => call[c].job = splunk.name
    /\ request.status \in {"completed", "cancelled"} => splunk.state = request.status

\* A request that arrives after the lease expired, the hunt was cancelled or
\* the approval revoked never reaches Splunk.
LateRequestsRefused ==
    \A d \in Deliveries : srv[d].late => srv[d].stage \notin {"reserved", "submitted"}
=============================================================================
