------------------------------ MODULE McpConnector ------------------------------
(***************************************************************************)
(* The worker's MCP client, integrations/mcp.py: submit reserves a row of  *)
(* its request ledger, calls the service once and records the job; a       *)
(* repeated submit answers from the row or asks the service what became of *)
(* it.  status, and cancel look the job up, call the service and write the *)
(* row.  Each database access and each call is a step.       *)
(*                                                                         *)
(* All calls use one idempotency key.  A connector may be configured       *)
(* without a database and then keeps no ledger.  Job ids are               *)
(* "pending" (the deterministic id of the request) or "own" (the           *)
(* provider's); the row's status is the last one written.                  *)
(***************************************************************************)
EXTENDS Naturals

CONSTANTS Calls,         \* concurrent users of the connector
          Connectors,    \* per call: its actions, each with a ledger or not
          Actions,       \* the action digests they submit
          MaxDbFaults    \* database errors and lost commit replies

VARIABLES request,    \* the client's ledger row, or NoRequest
          call,       \* per call: step, action, job id, what it read
          dbFaults

clientVars == <<request, call, dbFaults>>

NoJob == "no job"
NoRequest == [action |-> NoJob, status |-> NoJob, sid |-> NoJob]

Idle == [at |-> "idle", action |-> NoJob, job |-> NoJob, saw |-> NoJob,
         durable |-> TRUE]

HasLedger(c) == call[c].durable

InitClient ==
    /\ request = NoRequest
    /\ call = [c \in Calls |-> Idle]
    /\ dbFaults = 0

Goto(c, step) == call' = [call EXCEPT ![c].at = step]

\* submit returns a job id.
Return(c, job) ==
    call' = [call EXCEPT ![c] = [Idle EXCEPT !.at = "returned", !.job = job]]

\* An error is raised, or a call without a job id to remember returns.
End(c) == call' = [call EXCEPT ![c] = Idle]

DbFault == dbFaults < MaxDbFaults /\ dbFaults' = dbFaults + 1

\* _write: an UPDATE by request id alone; nothing without a ledger or row.
WriteRow(c, r) ==
    request' = IF HasLedger(c) /\ request # NoRequest THEN r ELSE request

\* Mutant: a row without a job answers with the pending id.
ReplayPending(c, a) ==
    IF request.action # a THEN End(c)
    ELSE Return(c, IF request.sid # NoJob THEN request.sid ELSE "pending")

\* What submit does with an earlier row of the key: refuse a
\* conflicting action, return the recorded job, or reconcile.
Replay(c, a) ==
    IF request.action # a THEN End(c)
    ELSE IF request.sid # NoJob THEN Return(c, request.sid)
    ELSE call' = [call EXCEPT ![c] = [Idle EXCEPT !.at = "reconcile"]]

\* submit derives the action's digest and request id (_prepare_submit) and
\* reads the ledger (_load_replay).
Submit(c, a, durable) ==
    /\ call[c].at = "idle"
    /\ <<a, durable>> \in Connectors[c]
    /\ IF durable /\ request # NoRequest THEN Replay(c, a)
       ELSE call' = [call EXCEPT ![c] = [Idle EXCEPT !.at = "reserve",
                                          !.action = a, !.durable = durable]]
    /\ UNCHANGED <<request, dbFaults>>

ReservedRow(a) ==
    [action |-> a, status |-> "reserved", sid |-> NoJob]

\* The INSERT.  A row of another call is an IntegrityError: the ledger is
\* read again and decides.
Reserve(c) ==
    /\ call[c].at = "reserve"
    /\ UNCHANGED dbFaults
    /\ IF ~HasLedger(c) \/ request = NoRequest
       THEN /\ request' = IF HasLedger(c) THEN ReservedRow(call[c].action)
                          ELSE request
            /\ Goto(c, "send")
       ELSE Replay(c, call[c].action) /\ UNCHANGED request

\* The INSERT fails, or commits and its reply is lost: with no row the
\* error is raised, with one the call goes on as a replay of itself.
ReserveError(c) ==
    /\ call[c].at = "reserve" /\ HasLedger(c) /\ request = NoRequest
    /\ DbFault
    /\ \/ End(c) /\ UNCHANGED request
       \/ /\ request' = ReservedRow(call[c].action)
          /\ call' = [call EXCEPT ![c] = [Idle EXCEPT !.at = "reconcile"]]

\* _call_transport refuses before sending: cancelled token, bad TLS files.
RefuseToSend(c) ==
    /\ call[c].at = "send"
    /\ call' = [call EXCEPT ![c].at = "record", ![c].saw = "failed"]
    /\ UNCHANGED <<request, dbFaults>>

\* The call ends with a job id (_first_job_id, or the pending id when the
\* reply names none), with an error that leaves the outcome open (timeout,
\* network, 429, 5xx: "unknown") or with any other one ("failed": refused,
\* oversized or malformed reply, or the token cancelled meanwhile).
Answered(c, job) ==
    /\ call[c].at = "sent"
    /\ call' = [call EXCEPT ![c].at = "record", ![c].saw = "submitted",
                            ![c].job = job]
    /\ UNCHANGED <<request, dbFaults>>

NotAnswered(c) ==
    /\ call[c].at = "sent"
    /\ \E s \in {"unknown", "failed"} :
           call' = [call EXCEPT ![c].at = "record", ![c].saw = s]
    /\ UNCHANGED <<request, dbFaults>>

\* The outcome is written; after an error it is raised again.
Record(c) ==
    /\ call[c].at = "record"
    /\ IF call[c].saw = "submitted"
       THEN /\ WriteRow(c, [request EXCEPT !.status = "submitted",
                                           !.sid = call[c].job])
            /\ Return(c, call[c].job)
       ELSE /\ WriteRow(c, [request EXCEPT !.status = call[c].saw])
            /\ End(c)
    /\ UNCHANGED dbFaults

\* That write fails: the row stays as it was.
RecordError(c) ==
    /\ call[c].at \in {"record", "found", "update"} /\ HasLedger(c)
    /\ DbFault
    /\ End(c)
    /\ UNCHANGED request

\* _reconcile_reserved: a status call by the pending or recorded id.
Reconciled(c, job) ==
    /\ call[c].at = "reconcile"
    /\ call' = [call EXCEPT ![c].at = "found", ![c].job = job]
    /\ UNCHANGED <<request, dbFaults>>

\* No job is named, or the call fails: the outcome stays unresolved.
Unresolved(c) ==
    /\ call[c].at = "reconcile"
    /\ End(c)
    /\ UNCHANGED <<request, dbFaults>>

RecordFound(c) ==
    /\ call[c].at = "found"
    /\ WriteRow(c, [request EXCEPT !.status = "submitted",
                                   !.sid = call[c].job])
    /\ Return(c, call[c].job)
    /\ UNCHANGED dbFaults

\* status and cancel find the row by the job's id (_resolve_job) and call
\* the provider; a job that no row of this ledger names is only called.
\* What status saw is written whatever the row says by then; cancel marks
\* the row only when the provider says it cancelled.
CallJob(c, found, saw) ==
    /\ call[c].at = "idle"
    /\ call' = [call EXCEPT ![c] =
                   IF found THEN [Idle EXCEPT !.at = "update", !.saw = saw]
                   ELSE Idle]
    /\ UNCHANGED <<request, dbFaults>>

Status(c, found, state) == CallJob(c, found, state)

Cancel(c, found, cancelled) == CallJob(c, found /\ cancelled, "cancelled")

\* The write of status and cancel.
UpdateStatus(c) ==
    /\ call[c].at = "update"
    /\ WriteRow(c, [request EXCEPT !.status = call[c].saw])
    /\ End(c)
    /\ UNCHANGED dbFaults

\* The caller is done, or its process dies wherever it is.
EndOrDie(c) ==
    /\ call[c].at # "idle"
    /\ End(c)
    /\ UNCHANGED <<request, dbFaults>>
==================================================================================
