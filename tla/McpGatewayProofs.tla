-------------------------- MODULE McpGatewayProofs --------------------------
(***************************************************************************)
(* Proofs about McpGateway, for any number of callers and actions and any  *)
(* number of database faults.                                              *)
(***************************************************************************)
EXTENDS McpGateway, TLAPS

\* What the callers do by themselves, what the server does by itself, and
\* the steps they share.
LEMMA NextCases ==
    ASSUME Next
    PROVE  \/ \E c \in Calls : \/ ClientStep(c) \/ Send(c) \/ Duplicate(c) \/ Reply(c)
                               \/ ReconcileCall(c) \/ StatusCall(c) \/ CancelCall(c)
           \/ \E d \in Deliveries : ServerStep(d) \/ SplunkSubmit(d)
           \/ SplunkFinish
           \/ Lapse /\ UNCHANGED <<clientVars, splunk>>
BY DEF Next

LEMMA DeliveryOf == ASSUME NEW c \in Calls, NEW i \in Copies PROVE <<c, i>> \in Deliveries
BY DeliveriesAssumption

-----------------------------------------------------------------------------
(* Types.                                                                  *)


LEMMA IdleType ==
    /\ Idle \in CallRecords
    /\ \A j \in JobIds : [Idle EXCEPT !.at = "returned", !.job = j] \in CallRecords
    /\ [Idle EXCEPT !.at = "reconcile"] \in CallRecords
    /\ \A a \in Actions, b \in BOOLEAN :
          [Idle EXCEPT !.at = "reserve", !.action = a, !.durable = b] \in CallRecords
    /\ \A s \in Outcomes : [Idle EXCEPT !.at = "update", !.saw = s] \in CallRecords
BY DEF Idle, CallRecords, JobIds, Outcomes, States

LEMMA TypeInit == Init => TypeOK
<1> SUFFICES ASSUME Init PROVE TypeOK
    OBVIOUS
<1>1. request \in RequestRecords
    BY DEF Init, InitClient, NoRequest, RequestRecords, JobIds, Outcomes, States
<1>2. call \in [Calls -> CallRecords]
    BY IdleType DEF Init, InitClient
<1>3. srv \in [Deliveries -> DeliveryRecords]
    BY DEF Init, InitServer, NoRequestHere, Stages, DeliveryRecords
<1>4. splunk \in SearchRecords
    BY DEF Init, JobIds, States, SearchRecords
<1>5. dbFaults \in 0..MaxDbFaults /\ audits \in Nat
    BY FaultsAssumption DEF Init, InitClient, InitServer
<1>6. lapsed \in BOOLEAN /\ ledger \in Digests \cup {NoRow}
    BY DEF Init, InitServer
<1> QED BY <1>1, <1>2, <1>3, <1>4, <1>5, <1>6 DEF TypeOK

\* The callers' own steps change the row and one call.
LEMMA ClientTypes ==
    ASSUME TypeOK, NEW c \in Calls, ClientStep(c)
    PROVE  /\ request' \in RequestRecords
           /\ call' \in [Calls -> CallRecords]
           /\ dbFaults' \in 0..MaxDbFaults
<1> USE FaultsAssumption DEF TypeOK
<1>c. call[c] \in CallRecords
    OBVIOUS
<1>f. call[c].job \in JobIds /\ call[c].saw \in Outcomes /\ call[c].action \in Actions \cup {NoJob}
    BY <1>c DEF CallRecords
<1>e. ASSUME NEW r \in CallRecords, call' = [call EXCEPT ![c] = r]
      PROVE  call' \in [Calls -> CallRecords]
    BY <1>e
<1>d. ASSUME DbFault PROVE dbFaults' \in 0..MaxDbFaults
    BY <1>d DEF DbFault
<1>r. ASSUME NEW a \in Actions, Replay(c, a) PROVE call' \in [Calls -> CallRecords]
    <2>1. request.sid \in JobIds
        BY DEF RequestRecords
    <2> QED BY <1>e, <1>r, <2>1, IdleType DEF Replay, End, Return
<1>1. ASSUME NEW a \in Actions, NEW b \in BOOLEAN, Submit(c, a, b)
      PROVE  call' \in [Calls -> CallRecords] /\ UNCHANGED <<request, dbFaults>>
    BY <1>1, <1>e, <1>r, IdleType DEF Submit
<1>q. request.sid \in JobIds
    BY DEF RequestRecords
<1>w. ASSUME NEW s \in Outcomes, NEW j \in JobIds
      PROVE  /\ [request EXCEPT !.status = s]
                   \in RequestRecords
             /\ [request EXCEPT !.status = s, !.sid = j]
                   \in RequestRecords
    BY DEF RequestRecords
<1>v. ReservedRow(call[c].action)
         \in RequestRecords
    BY <1>f DEF ReservedRow, JobIds, RequestRecords
<1>g. ASSUME NEW s \in {"send", "sent"} PROVE [call[c] EXCEPT !.at = s] \in CallRecords
    BY <1>c DEF CallRecords
<1>h. ASSUME NEW s \in Outcomes PROVE [call[c] EXCEPT !.at = "record", !.saw = s] \in CallRecords
    BY <1>c DEF CallRecords
<1>2. ASSUME Reserve(c) \/ ReserveError(c)
      PROVE  /\ request' \in RequestRecords
             /\ call' \in [Calls -> CallRecords]
             /\ dbFaults' \in 0..MaxDbFaults
    <2>1. CASE Reserve(c)
        <3>1. CASE ~HasLedger(c) \/ request = NoRequest
            <4>1. call' = [call EXCEPT ![c] = [call[c] EXCEPT !.at = "send"]]
                BY <2>1, <3>1 DEF Reserve, Goto
            <4> QED BY <1>e, <1>g, <1>v, <2>1, <3>1, <4>1 DEF Reserve
        <3>2. CASE ~(~HasLedger(c) \/ request = NoRequest)
            <4>1. Replay(c, call[c].action) /\ UNCHANGED <<request, dbFaults>>
                BY <2>1, <3>2 DEF Reserve
            <4>2. call' \in [Calls -> CallRecords]
                BY <1>e, <1>q, <4>1, IdleType DEF Replay, End, Return
            <4> QED BY <4>1, <4>2
        <3> QED BY <3>1, <3>2
    <2>2. CASE ReserveError(c)
        <3>1. dbFaults' \in 0..MaxDbFaults
            BY <1>d, <2>2 DEF ReserveError
        <3>2. UNCHANGED request \/ request' = ReservedRow(call[c].action)
            BY <2>2 DEF ReserveError
        <3>3. \E r \in CallRecords : call' = [call EXCEPT ![c] = r]
            BY <2>2, IdleType DEF ReserveError, End
        <3> QED BY <1>e, <1>v, <3>1, <3>2, <3>3
    <2> QED BY <1>2, <2>1, <2>2
<1>3. ASSUME RefuseToSend(c) \/ NotAnswered(c)
      PROVE  call' \in [Calls -> CallRecords] /\ UNCHANGED <<request, dbFaults>>
    <2>1. PICK s \in Outcomes : call' = [call EXCEPT ![c] = [call[c] EXCEPT !.at = "record", !.saw = s]]
        BY <1>3 DEF RefuseToSend, NotAnswered, Outcomes
    <2> QED BY <1>3, <1>e, <1>h, <2>1 DEF RefuseToSend, NotAnswered
<1>4. ASSUME Record(c) \/ RecordFound(c) \/ UpdateStatus(c)
      PROVE  /\ request' \in RequestRecords
             /\ call' \in [Calls -> CallRecords]
             /\ UNCHANGED dbFaults
    <2>1. "submitted" \in Outcomes
        BY DEF Outcomes
    <2>2. \/ UNCHANGED request
          \/ \E s \in Outcomes : request' = [request EXCEPT !.status = s]
          \/ \E s \in Outcomes, j \in JobIds : request' = [request EXCEPT !.status = s, !.sid = j]
        BY <1>4, <1>f, <2>1 DEF Record, RecordFound, UpdateStatus, WriteRow
    <2>3. End(c) \/ Return(c, call[c].job)
        BY <1>4 DEF Record, RecordFound, UpdateStatus
    <2>4. request' \in RequestRecords
        <3>1. NoJob \in JobIds
            BY DEF JobIds
        <3>2. CASE \E s \in Outcomes : request' = [request EXCEPT !.status = s]
            BY <1>w, <3>1, <3>2
        <3>3. CASE \E s \in Outcomes, j \in JobIds : request' = [request EXCEPT !.status = s, !.sid = j]
            BY <1>w, <3>3
        <3> QED BY <2>2, <3>2, <3>3
    <2>5. call' \in [Calls -> CallRecords]
        BY <1>e, <1>f, <2>3, IdleType DEF End, Return
    <2> QED BY <1>4, <2>4, <2>5 DEF Record, RecordFound, UpdateStatus
<1>5. ASSUME RecordError(c) \/ Unresolved(c) \/ EndOrDie(c)
      PROVE  /\ call' \in [Calls -> CallRecords] /\ UNCHANGED request
             /\ dbFaults' \in 0..MaxDbFaults
    <2>1. End(c) /\ UNCHANGED request /\ dbFaults' \in 0..MaxDbFaults
        BY <1>5, <1>d DEF RecordError, Unresolved, EndOrDie
    <2> QED BY <1>e, <2>1, IdleType DEF End
<1> QED BY <1>1, <1>2, <1>3, <1>4, <1>5 DEF ClientStep

\* The server's steps move one delivery and, at the commit, the ledger.
LEMMA ServerTypes ==
    ASSUME TypeOK, NEW d \in Deliveries, ServerStep(d)
    PROVE  /\ ledger' \in Digests \cup {NoRow}
           /\ audits' \in Nat
           /\ lapsed' = lapsed
           /\ srv' \in [Deliveries -> DeliveryRecords]
<1> USE DEF TypeOK
<1>1. srv[d] \in DeliveryRecords
    BY DEF DeliveryRecords
<1>2. \A s \in Stages : [srv[d] EXCEPT !.stage = s] \in DeliveryRecords
    BY <1>1 DEF DeliveryRecords
<1>3. [srv[d] EXCEPT !.stage = "denied", !.late = FALSE] \in DeliveryRecords
    BY <1>1 DEF DeliveryRecords, Stages
<1>4. \E r \in DeliveryRecords : srv' = [srv EXCEPT ![d] = r]
    <2>1. \A s \in Stages : To(d, s) => \E r \in DeliveryRecords : srv' = [srv EXCEPT ![d] = r]
        BY <1>2 DEF To
    <2>2. Denied(d) => \E r \in DeliveryRecords : srv' = [srv EXCEPT ![d] = r]
        BY <1>3 DEF Denied
    <2>3. (\E s \in Stages : To(d, s)) \/ Denied(d)
        BY DEF ServerStep, Authorize, ReserveCheck, ReserveInsert, ReserveCommit, ReserveFails, Stages
    <2> QED BY <2>1, <2>2, <2>3
<1>5. srv' \in [Deliveries -> DeliveryRecords]
    BY <1>4 DEF DeliveryRecords
<1>6. srv[d].digest \in Digests \cup {NoRow}
    BY <1>1 DEF DeliveryRecords
<1>7. ledger' \in {ledger, srv[d].digest} /\ audits' \in {audits, audits + 1} /\ lapsed' = lapsed
    BY DEF ServerStep, Authorize, ReserveCheck, ReserveInsert, ReserveCommit, ReserveFails
<1> QED BY <1>5, <1>6, <1>7

\* Whoever asks the service for something asks for an action.
Asked ==
    /\ \A c \in Calls : call[c].at \in {"reserve", "send", "sent", "record"} => call[c].action \in Actions
    /\ \A d \in Deliveries : srv[d].stage # "none" => srv[d].digest \in Digests

LEMMA TypeStep == TypeOK /\ Asked /\ [Next]_vars => TypeOK'
<1> SUFFICES ASSUME TypeOK, Asked, [Next]_vars PROVE TypeOK'
    OBVIOUS
<1> USE DEF TypeOK
<1>0. CASE UNCHANGED vars
    BY <1>0 DEF vars, clientVars, serverVars
<1>1. ASSUME NEW c \in Calls, ClientStep(c) PROVE TypeOK'
    BY <1>1, ClientTypes DEF ClientStep, serverVars
<1>2. ASSUME NEW d \in Deliveries, ServerStep(d) PROVE TypeOK'
    BY <1>2, ServerTypes DEF ServerStep, clientVars, DeliveryRecords
<1>3. ASSUME NEW d \in Deliveries, NEW g \in Digests \cup {NoRow}, Arrive(d, g)
      PROVE  /\ srv' \in [Deliveries -> DeliveryRecords]
             /\ UNCHANGED <<lapsed, ledger, audits>>
    BY <1>3 DEF Arrive, DeliveryRecords, Stages
<1>c. \A c \in Calls : call[c] \in CallRecords
    OBVIOUS
<1>4. ASSUME NEW c \in Calls, Send(c) PROVE TypeOK'
    <2>1. call[c].action \in Digests /\ [call[c] EXCEPT !.at = "sent"] \in CallRecords
        BY <1>4, <1>c, DeliveriesAssumption DEF CallRecords, Asked, Send
    <2>2. call' \in [Calls -> CallRecords]
        BY <1>4, <2>1 DEF Send, Goto
    <2>3. <<c, 1>> \in Deliveries
        BY DeliveryOf DEF Copies
    <2>4. srv' \in [Deliveries -> DeliveryRecords] /\ UNCHANGED <<lapsed, ledger, audits>>
        BY <1>3, <1>4, <2>1, <2>3 DEF Send, serverVars
    <2> QED BY <1>4, <2>2, <2>4 DEF Send, DeliveryRecords
<1>5. ASSUME NEW c \in Calls, Duplicate(c) PROVE TypeOK'
    <2>1. <<c, 1>> \in Deliveries /\ <<c, 2>> \in Deliveries
        BY DeliveryOf DEF Copies
    <2>2. srv[<<c, 1>>].digest \in Digests \cup {NoRow}
        BY <2>1 DEF DeliveryRecords
    <2>3. srv' \in [Deliveries -> DeliveryRecords] /\ UNCHANGED <<lapsed, ledger, audits>>
        BY <1>3, <1>5, <2>1, <2>2 DEF Duplicate
    <2> QED BY <1>5, <2>3 DEF Duplicate, clientVars, DeliveryRecords
<1>6. ASSUME NEW c \in Calls, Reply(c) \/ ReconcileCall(c) PROVE TypeOK'
    <2>1. PICK r \in CallRecords : call' = [call EXCEPT ![c] = r]
        BY <1>6, <1>c DEF Reply, ReconcileCall, Answered, Reconciled, CallRecords, Outcomes
    <2> QED BY <1>6, <2>1 DEF Reply, ReconcileCall, Answered, Reconciled, serverVars
<1>7. ASSUME NEW c \in Calls, StatusCall(c) \/ CancelCall(c) PROVE TypeOK'
    <2>1. splunk.state \in Outcomes /\ "cancelled" \in Outcomes
        BY DEF Outcomes, States, SearchRecords
    <2>2. PICK r \in CallRecords : call' = [call EXCEPT ![c] = r]
        BY <1>7, <2>1, IdleType DEF StatusCall, CancelCall, Status, Cancel, CallJob
    <2>3. splunk' \in SearchRecords
        BY <1>7 DEF StatusCall, CancelCall, States, SearchRecords
    <2> QED BY <1>7, <2>2, <2>3 DEF StatusCall, CancelCall, Status, Cancel, CallJob, serverVars
<1>8. ASSUME NEW d \in Deliveries, SplunkSubmit(d) PROVE TypeOK'
    <2>1. srv' \in [Deliveries -> DeliveryRecords]
        BY <1>8 DEF SplunkSubmit, To, DeliveryRecords, Stages
    <2>2. srv[d].digest \in Actions
        BY <1>8, DeliveriesAssumption DEF SplunkSubmit, Asked
    <2>3. splunk' \in SearchRecords
        BY <1>8, <2>2 DEF SplunkSubmit, JobIds, States, SearchRecords
    <2> QED BY <1>8, <2>1, <2>3 DEF SplunkSubmit, clientVars, DeliveryRecords
<1>9. CASE SplunkFinish
    BY <1>9 DEF SplunkFinish, States, SearchRecords, clientVars, serverVars
<1>10. CASE Lapse /\ UNCHANGED <<clientVars, splunk>>
    BY <1>10 DEF Lapse, clientVars
<1> QED BY <1>0, <1>1, <1>2, <1>4, <1>5, <1>6, <1>7, <1>8, <1>9, <1>10, NextCases

-----------------------------------------------------------------------------
(* The service: one reservation, one search.                               *)

\* A delivery that wrote the ledger row, or is about to.
Owners == {"inserted", "reserved", "submitted"}

DeliveryInv(d) ==
    /\ srv[d].stage = "inserted" => ledger = NoRow
    /\ srv[d].stage \in {"reserved", "submitted", "replay"} => ledger = srv[d].digest
    /\ srv[d].stage = "reserved" => splunk.runs = 0
    /\ srv[d].late => lapsed /\ srv[d].stage = "arrived"

\* One delivery owns the key; the row, its audit record and the search Splunk
\* runs come from it; a late delivery gets no further than its arrival.
LedgerInv ==
    /\ audits = IF ledger = NoRow THEN 0 ELSE 1
    /\ \A d, e \in Deliveries : srv[d].stage \in Owners /\ srv[e].stage \in Owners => d = e
    /\ \A d \in Deliveries : DeliveryInv(d)
    /\ splunk.runs \in {0, 1}
    /\ splunk.runs = 1 => ledger # NoRow /\ splunk.action = ledger

\* The authority has ended: nothing is granted.
LEMMA LateDenied ==
    ASSUME lapsed, NEW end \in Ends, NEW granted \in Verdicts[end]
    PROVE  granted = FALSE
<1>1. end \in {"expired", "cancelled", "revoked"}
    BY DEF Ends
<1>2. Verdicts[end] = {Authorized(q, end) : q \in Requests}
    BY <1>1 DEF Verdicts
<1>3. PICK q \in Requests : granted = Authorized(q, end)
    BY <1>2
<1>4. ~Authorized(q, end)
    BY <1>1 DEF Authorized, LeaseHeld, Investigating, NotRevoked
<1> QED BY <1>3, <1>4 DEF Authorized

LEMMA ToFacts ==
    ASSUME TypeOK, NEW d \in Deliveries, NEW s, To(d, s)
    PROVE  /\ srv'[d].stage = s /\ srv'[d].digest = srv[d].digest /\ srv'[d].late = srv[d].late
           /\ \A e \in Deliveries \ {d} : srv'[e] = srv[e]
BY DEF To, TypeOK, DeliveryRecords

LEMMA DeniedFacts ==
    ASSUME TypeOK, NEW d \in Deliveries, Denied(d)
    PROVE  /\ srv'[d].stage = "denied" /\ srv'[d].digest = srv[d].digest /\ srv'[d].late = FALSE
           /\ \A e \in Deliveries \ {d} : srv'[e] = srv[e]
BY DEF Denied, TypeOK, DeliveryRecords

LEMMA LedgerStep == TypeOK /\ Asked /\ LedgerInv /\ [Next]_vars => LedgerInv'
<1> SUFFICES ASSUME TypeOK, Asked, LedgerInv, [Next]_vars PROVE LedgerInv'
    OBVIOUS
<1>0. ASSUME UNCHANGED <<ledger, audits, srv>>, lapsed => lapsed', splunk'.runs = splunk.runs,
             splunk'.action = splunk.action
      PROVE  LedgerInv'
    BY <1>0 DEF LedgerInv, DeliveryInv
\* A delivery that owns nothing moves to a stage that owns nothing.
<1>1. ASSUME NEW d \in Deliveries, UNCHANGED <<lapsed, ledger, audits, splunk>>,
             \A e \in Deliveries \ {d} : srv'[e] = srv[e],
             srv'[d].stage \notin Owners,
             srv'[d].stage = "replay" => ledger = srv'[d].digest,
             srv'[d].late => lapsed /\ srv'[d].stage = "arrived"
      PROVE  LedgerInv'
    BY <1>1 DEF LedgerInv, DeliveryInv, Owners
<1>2. ASSUME NEW d \in Deliveries, Denied(d), UNCHANGED <<lapsed, ledger, audits, splunk>>
      PROVE  LedgerInv'
    BY <1>1, <1>2, DeniedFacts DEF Owners
<1>l. \A d \in Deliveries : srv[d].stage # "arrived" => ~srv[d].late
    BY DEF LedgerInv, DeliveryInv
<1>3. ASSUME NEW d \in Deliveries, Authorize(d), UNCHANGED splunk PROVE LedgerInv'
    <2>1. PICK end \in Ends : \E granted \in Verdicts[end] :
             IF granted THEN To(d, "authorized") ELSE Denied(d)
        BY <1>3 DEF Authorize
    <2>2. CASE Denied(d)
        BY <1>2, <1>3, <2>2 DEF Authorize
    <2>3. CASE ~Denied(d)
        <3>1. TRUE \in Verdicts[end] /\ To(d, "authorized")
            BY <2>1, <2>3
        <3>2. ~lapsed
            BY <3>1, LateDenied
        <3>3. ~srv[d].late
            BY <3>2 DEF LedgerInv, DeliveryInv
        <3> QED BY <1>1, <1>3, <3>1, <3>3, ToFacts DEF Authorize, Owners
    <2> QED BY <2>2, <2>3
<1>4. ASSUME NEW d \in Deliveries, ReserveCheck(d), UNCHANGED splunk PROVE LedgerInv'
    <2>1. CASE Denied(d)
        BY <1>2, <1>4, <2>1 DEF ReserveCheck
    <2>2. CASE ~Denied(d)
        <3>1. To(d, "checked") \/ (ledger = srv[d].digest /\ To(d, "replay"))
            BY <1>4, <2>2 DEF ReserveCheck
        <3>2. ~srv[d].late
            BY <1>4, <1>l DEF ReserveCheck
        <3> QED BY <1>1, <1>4, <3>1, <3>2, ToFacts DEF ReserveCheck, Owners
    <2> QED BY <2>1, <2>2
<1>5. ASSUME NEW d \in Deliveries, ReserveInsert(d), UNCHANGED splunk PROVE LedgerInv'
    <2>1. CASE ledger # NoRow
        BY <1>2, <1>5, <2>1 DEF ReserveInsert
    <2>2. CASE ledger = NoRow
        <3>1. /\ To(d, "inserted") /\ UNCHANGED <<lapsed, ledger, audits>>
              /\ srv[d].stage = "checked" /\ \A e \in Deliveries : srv[e].stage # "inserted"
            BY <1>5, <2>2 DEF ReserveInsert
        \* Nothing is committed, so nobody has reserved or submitted.
        <3>2. \A e \in Deliveries : srv[e].stage \notin Owners
            BY <2>2, <3>1, DeliveriesAssumption, NullsDistinct DEF Owners, LedgerInv, DeliveryInv, Asked
        <3> QED BY <1>5, <1>l, <2>2, <3>1, <3>2, ToFacts DEF LedgerInv, DeliveryInv, Owners
    <2> QED BY <2>1, <2>2
<1>6. ASSUME NEW d \in Deliveries, ReserveCommit(d), UNCHANGED splunk PROVE LedgerInv'
    <2>1. /\ srv[d].stage = "inserted" /\ ledger' = srv[d].digest /\ audits' = audits + 1
          /\ To(d, "reserved") /\ UNCHANGED <<lapsed, splunk>>
        BY <1>6 DEF ReserveCommit
    <2>2. ledger = NoRow /\ audits = 0 /\ splunk.runs = 0
        BY <2>1 DEF LedgerInv, DeliveryInv
    <2>3. ledger' # NoRow
        BY <2>1, DeliveriesAssumption, NullsDistinct DEF Asked
    <2>4. \A e \in Deliveries \ {d} : srv[e].stage \notin Owners \cup {"replay"}
        BY <2>1, <2>2, DeliveriesAssumption, NullsDistinct DEF LedgerInv, DeliveryInv, Owners, Asked
    <2> QED BY <1>l, <2>1, <2>2, <2>3, <2>4, ToFacts DEF LedgerInv, DeliveryInv, Owners
<1>7. ASSUME NEW d \in Deliveries, ServerStep(d) PROVE LedgerInv'
    BY <1>2, <1>3, <1>4, <1>5, <1>6, <1>7 DEF ServerStep, ReserveFails
<1>8. ASSUME NEW d \in Deliveries, SplunkSubmit(d) PROVE LedgerInv'
    <2>1. /\ srv[d].stage = "reserved" /\ To(d, "submitted") /\ UNCHANGED <<lapsed, ledger, audits>>
          /\ splunk'.runs = splunk.runs + 1 /\ splunk'.action = srv[d].digest
        BY <1>8 DEF SplunkSubmit
    <2>2. splunk.runs = 0 /\ ledger = srv[d].digest /\ ledger # NoRow
        BY <2>1, DeliveriesAssumption, NullsDistinct DEF LedgerInv, DeliveryInv, Asked
    <2>3. \A e \in Deliveries \ {d} : srv[e].stage # "reserved"
        BY <2>1 DEF LedgerInv, Owners
    <2> QED BY <1>l, <2>1, <2>2, <2>3, ToFacts DEF LedgerInv, DeliveryInv, Owners
<1>9. ASSUME NEW d \in Deliveries, NEW g, Arrive(d, g), UNCHANGED splunk PROVE LedgerInv'
    <2>1. /\ srv'[d].stage = "arrived" /\ srv'[d].late = lapsed
          /\ \A e \in Deliveries \ {d} : srv'[e] = srv[e]
        BY <1>9 DEF Arrive, TypeOK
    <2> QED BY <1>1, <1>9, <2>1 DEF Arrive, Owners
<1>10. ASSUME NEW c \in Calls, Send(c) \/ Duplicate(c) PROVE LedgerInv'
    <2>1. <<c, 1>> \in Deliveries /\ <<c, 2>> \in Deliveries
        BY DeliveryOf DEF Copies
    <2> QED BY <1>0, <1>9, <1>10, <2>1 DEF Send, Duplicate, serverVars
<1>11. ASSUME NEW c \in Calls, ClientStep(c) \/ Reply(c) \/ ReconcileCall(c) \/ StatusCall(c)
       PROVE  LedgerInv'
    BY <1>0, <1>11 DEF ClientStep, Reply, ReconcileCall, StatusCall, serverVars
<1>12. ASSUME NEW c \in Calls, CancelCall(c) PROVE LedgerInv'
    BY <1>0, <1>12 DEF CancelCall, serverVars, TypeOK, SearchRecords
<1>13. CASE SplunkFinish
    BY <1>0, <1>13 DEF SplunkFinish, serverVars, TypeOK, SearchRecords
<1>14. CASE Lapse /\ UNCHANGED <<clientVars, splunk>>
    BY <1>0, <1>14 DEF Lapse
<1>15. CASE UNCHANGED vars
    BY <1>0, <1>15 DEF vars, serverVars
<1> QED BY <1>7, <1>8, <1>10, <1>11, <1>12, <1>13, <1>14, <1>15, NextCases

-----------------------------------------------------------------------------
(* The callers: their ids and the row.                                     *)

Ended == {"completed", "cancelled"}

CallInv(c) ==
    /\ call[c].job # NoJob => splunk.runs = 1 /\ call[c].job = splunk.name
    /\ call[c].saw \in Ended => splunk.runs = 1 /\ splunk.state = call[c].saw
    /\ call[c].at \in {"send", "sent", "record"} /\ HasLedger(c) => request.action = call[c].action
    /\ call[c].at = "sent" =>
          \A i \in Copies : srv[<<c, i>>].stage # "none" => srv[<<c, i>>].digest = call[c].action
    /\ call[c].at = "record" /\ call[c].saw = "submitted" =>
          splunk.runs = 1 /\ call[c].action = splunk.action
    /\ call[c].at = "found" => splunk.runs = 1 /\ request.action = splunk.action

RowInv ==
    /\ request.sid # NoJob =>
          splunk.runs = 1 /\ request.action = splunk.action /\ request.sid = splunk.name
    /\ request.status \in Ended => splunk.runs = 1 /\ splunk.state = request.status

\* What no step undoes: the search, its id and its end, the row's action, and
\* what a delivery asks for.
SearchKept ==
    splunk.runs = 1 => /\ splunk'.runs = 1 /\ splunk'.name = splunk.name
                       /\ splunk'.action = splunk.action
                       /\ splunk.state \in Ended => splunk'.state = splunk.state
RowKept == request.action # NoJob => request'.action = request.action
DigestsKept(c) ==
    \A i \in Copies : srv'[<<c, i>>].stage # "none" =>
        srv[<<c, i>>].stage # "none" /\ srv'[<<c, i>>].digest = srv[<<c, i>>].digest

LEMMA CallKept ==
    ASSUME TypeOK, Asked, LedgerInv, NEW c \in Calls, CallInv(c), call'[c] = call[c],
           SearchKept, RowKept, call[c].at = "sent" => DigestsKept(c)
    PROVE  CallInv(c)'
<1>1. splunk.runs = 1 => splunk.action # NoJob
    BY DeliveriesAssumption, NullsDistinct DEF LedgerInv, TypeOK
<1>2. call[c].at \in {"send", "sent", "record"} => call[c].action # NoJob
    BY NullsDistinct DEF Asked
<1> QED BY <1>1, <1>2 DEF CallInv, HasLedger, SearchKept, RowKept, DigestsKept

\* A call that forgot everything, or remembers only the row's id.
LEMMA CallFresh ==
    ASSUME TypeOK, NEW c \in Calls, NEW r, call' = [call EXCEPT ![c] = r],
           r.at \in {"idle", "reserve", "reconcile", "returned", "update"},
           r.job # NoJob => splunk'.runs = 1 /\ r.job = splunk'.name,
           r.saw \in Ended => splunk'.runs = 1 /\ splunk'.state = r.saw
    PROVE  CallInv(c)'
<1>1. call'[c] = r
    BY DEF TypeOK
<1> QED BY <1>1 DEF CallInv

LEMMA OthersKept ==
    ASSUME TypeOK, NEW c \in Calls, NEW r, call' = [call EXCEPT ![c] = r]
    PROVE  call'[c] = r /\ \A e \in Calls \ {c} : call'[e] = call[e]
BY DEF TypeOK

CallersInv == RowInv /\ \A c \in Calls : CallInv(c)

\* The row never loses its action and gets only the id and the end of the
\* search: what the callers' own steps do to it.
LEMMA ClientRow ==
    ASSUME TypeOK, Asked, LedgerInv, CallersInv, NEW c \in Calls, ClientStep(c)
    PROVE  RowKept /\ RowInv' /\ SearchKept /\ UNCHANGED <<splunk, srv>>
<1>0. UNCHANGED <<splunk, srv>> /\ SearchKept
    BY DEF ClientStep, SearchKept, serverVars
<1> SUFFICES RowKept /\ RowInv'
    BY <1>0
<1>1. ASSUME UNCHANGED request PROVE RowKept /\ RowInv'
    BY <1>0, <1>1 DEF RowKept, RowInv, CallersInv
<1>2. ASSUME request = NoRequest, request' = ReservedRow(call[c].action) PROVE RowKept /\ RowInv'
    BY <1>2 DEF NoRequest, ReservedRow, RowKept, RowInv, NoJob, Ended
<1>3. ASSUME NEW s, request' = [request EXCEPT !.status = s],
             s \in Ended => splunk.runs = 1 /\ splunk.state = s
      PROVE  RowKept /\ RowInv'
    <2>1. request'.action = request.action /\ request'.sid = request.sid /\ request'.status = s
        BY <1>3 DEF TypeOK, RequestRecords
    <2> QED BY <1>0, <1>3, <2>1 DEF RowKept, RowInv, CallersInv
<1>4. ASSUME request' = [request EXCEPT !.status = "submitted", !.sid = call[c].job],
             request.action = splunk.action, splunk.runs = 1
      PROVE  RowKept /\ RowInv'
    <2>1. /\ request'.action = request.action /\ request'.sid = call[c].job
          /\ request'.status = "submitted"
        BY <1>4 DEF TypeOK, RequestRecords
    <2>2. call[c].job # NoJob => call[c].job = splunk.name
        BY DEF CallersInv, CallInv
    <2> QED BY <1>0, <1>4, <2>1, <2>2 DEF RowKept, RowInv, Ended
<1>5. CASE Record(c)
    <2>1. CASE call[c].saw = "submitted"
        <3>1. splunk.runs = 1 /\ call[c].action = splunk.action
            BY <1>5, <2>1 DEF Record, CallersInv, CallInv
        <3>2. HasLedger(c) => request.action = call[c].action
            BY <1>5 DEF Record, CallersInv, CallInv
        <3> QED BY <1>1, <1>4, <1>5, <2>1, <3>1, <3>2 DEF Record, WriteRow
    <2>2. CASE call[c].saw # "submitted"
        <3>1. call[c].saw \in Ended => splunk.runs = 1 /\ splunk.state = call[c].saw
            BY DEF CallersInv, CallInv
        <3> QED BY <1>1, <1>3, <1>5, <2>2, <3>1 DEF Record, WriteRow
    <2> QED BY <2>1, <2>2
<1>6. CASE RecordFound(c)
    <2>1. splunk.runs = 1 /\ request.action = splunk.action
        BY <1>6 DEF RecordFound, CallersInv, CallInv
    <2> QED BY <1>1, <1>4, <1>6, <2>1 DEF RecordFound, WriteRow
<1>7. CASE UpdateStatus(c)
    <2>1. call[c].saw \in Ended => splunk.runs = 1 /\ splunk.state = call[c].saw
        BY DEF CallersInv, CallInv
    <2> QED BY <1>1, <1>3, <1>7, <2>1 DEF UpdateStatus, WriteRow
<1>8. CASE Reserve(c) \/ ReserveError(c)
    BY <1>1, <1>2, <1>8 DEF Reserve, ReserveError
<1>9. CASE ~(\/ Record(c) \/ RecordFound(c) \/ UpdateStatus(c) \/ Reserve(c) \/ ReserveError(c))
    <2>1. UNCHANGED request
        BY <1>9 DEF ClientStep, Submit, RefuseToSend, NotAnswered, RecordError, Unresolved, EndOrDie
    <2> QED BY <1>1, <2>1
<1> QED BY <1>5, <1>6, <1>7, <1>8, <1>9

\* What the callers' own steps do to the call that takes them.
LEMMA ClientCall ==
    ASSUME TypeOK, Asked, LedgerInv, CallersInv, NEW c \in Calls, ClientStep(c)
    PROVE  /\ CallInv(c)'
           /\ \A e \in Calls \ {c} : call'[e] = call[e]
           /\ call'[c].at \in {"reserve", "send", "sent", "record"} => call'[c].action \in Actions
<1> DEFINE Good == /\ CallInv(c)'
                   /\ \A e \in Calls \ {c} : call'[e] = call[e]
                   /\ call'[c].at \in {"reserve", "send", "sent", "record"} => call'[c].action \in Actions
<1> SUFFICES Good
    OBVIOUS
<1>0. UNCHANGED <<splunk, srv>>
    BY ClientRow
<1>i. CallInv(c) /\ call[c] \in CallRecords
    BY DEF CallersInv, TypeOK
\* The call starts afresh; an id it keeps is the search's.
<1>1. ASSUME NEW r, call' = [call EXCEPT ![c] = r], r.saw = NoJob, r.at \in {"idle", "reconcile", "returned"},
             r.job # NoJob => splunk.runs = 1 /\ r.job = splunk.name
      PROVE  Good
    <2>1. CallInv(c)'
        BY <1>0, <1>1, CallFresh DEF Ended, NoJob
    <2> QED BY <1>1, <2>1, OthersKept
<1>2. ASSUME End(c) PROVE Good
    <2>1. Idle.at = "idle" /\ Idle.job = NoJob /\ Idle.saw = NoJob
        BY DEF Idle
    <2>2. call' = [call EXCEPT ![c] = Idle]
        BY <1>2 DEF End
    <2> QED BY <1>1, <2>1, <2>2
<1>3. ASSUME call' = [call EXCEPT ![c] = [Idle EXCEPT !.at = "reconcile"]] PROVE Good
    <2> DEFINE r == [Idle EXCEPT !.at = "reconcile"]
    <2>1. r.at = "reconcile" /\ r.job = NoJob /\ r.saw = NoJob
        BY DEF Idle
    <2> HIDE DEF r
    <2>2. call' = [call EXCEPT ![c] = r]
        BY <1>3 DEF r
    <2> QED BY <1>1, <2>1, <2>2
<1>4. ASSUME NEW j, Return(c, j), j # NoJob => splunk.runs = 1 /\ j = splunk.name PROVE Good
    <2> DEFINE r == [Idle EXCEPT !.at = "returned", !.job = j]
    <2>1. r.at = "returned" /\ r.job = j /\ r.saw = NoJob
        BY DEF Idle
    <2> HIDE DEF r
    <2>2. call' = [call EXCEPT ![c] = r]
        BY <1>4 DEF r, Return
    <2> QED BY <1>1, <1>4, <2>1, <2>2
<1>5. ASSUME NEW a, Replay(c, a) PROVE Good
    <2>1. request.sid # NoJob => splunk.runs = 1 /\ request.sid = splunk.name
        BY DEF CallersInv, RowInv
    <2> QED BY <1>2, <1>3, <1>4, <1>5, <2>1 DEF Replay
<1>6. ASSUME NEW a \in Actions, NEW b \in BOOLEAN, Submit(c, a, b) PROVE Good
    <2>1. CASE b /\ request # NoRequest
        BY <1>5, <1>6, <2>1 DEF Submit
    <2>2. CASE ~(b /\ request # NoRequest)
        <3> DEFINE r == [Idle EXCEPT !.at = "reserve", !.action = a, !.durable = b]
        <3>1. call' = [call EXCEPT ![c] = r]
            BY <1>6, <2>2 DEF Submit
        <3>2. r.at = "reserve" /\ r.action = a /\ r.job = NoJob /\ r.saw = NoJob
            BY DEF Idle
        <3> HIDE DEF r
        <3>3. CallInv(c)'
            BY <3>1, <3>2, CallFresh DEF Ended, NoJob
        <3> QED BY <3>1, <3>2, <3>3, OthersKept
    <2> QED BY <2>1, <2>2
<1>7. CASE Reserve(c)
    <2>1. CASE ~HasLedger(c) \/ request = NoRequest
        <3>1. call' = [call EXCEPT ![c] = [call[c] EXCEPT !.at = "send"]]
            BY <1>7, <2>1 DEF Reserve, Goto
        <3>2. call'[c] = [call[c] EXCEPT !.at = "send"] /\ \A e \in Calls \ {c} : call'[e] = call[e]
            BY <3>1, OthersKept
        <3>3. /\ call'[c].at = "send" /\ call'[c].action = call[c].action /\ call'[c].job = call[c].job
              /\ call'[c].saw = call[c].saw /\ call'[c].durable = call[c].durable
            BY <1>i, <3>2 DEF CallRecords
        <3>4. HasLedger(c) => request'.action = call[c].action
            BY <1>7, <2>1 DEF Reserve, ReservedRow
        <3>5. CallInv(c)'
            BY <1>0, <1>i, <3>3, <3>4 DEF CallInv, HasLedger
        <3> QED BY <1>7, <3>2, <3>3, <3>5 DEF Reserve, Asked
    <2>2. CASE ~(~HasLedger(c) \/ request = NoRequest)
        BY <1>5, <1>7, <2>2 DEF Reserve
    <2> QED BY <2>1, <2>2
<1>8. CASE ReserveError(c)
    BY <1>2, <1>3, <1>8 DEF ReserveError
<1>9. CASE RefuseToSend(c) \/ NotAnswered(c)
    <2>1. PICK s \in {"unknown", "failed"} :
             call' = [call EXCEPT ![c] = [call[c] EXCEPT !.at = "record", !.saw = s]]
        BY <1>9 DEF RefuseToSend, NotAnswered
    <2>2. /\ call'[c] = [call[c] EXCEPT !.at = "record", !.saw = s]
          /\ \A e \in Calls \ {c} : call'[e] = call[e]
        BY <2>1, OthersKept
    <2>3. /\ call'[c].at = "record" /\ call'[c].action = call[c].action /\ call'[c].job = call[c].job
          /\ call'[c].saw = s /\ call'[c].durable = call[c].durable
        BY <1>i, <2>2 DEF CallRecords
    <2>4. UNCHANGED request /\ call[c].at \in {"send", "sent"}
        BY <1>9 DEF RefuseToSend, NotAnswered
    <2>5. CallInv(c)'
        BY <1>0, <1>i, <2>3, <2>4 DEF CallInv, HasLedger, Ended
    <2> QED BY <2>2, <2>3, <2>4, <2>5 DEF Asked
<1>10. CASE Record(c) \/ RecordFound(c)
    <2>1. call[c].job # NoJob => splunk.runs = 1 /\ call[c].job = splunk.name
        BY <1>i DEF CallInv
    <2> QED BY <1>2, <1>4, <1>10, <2>1 DEF Record, RecordFound
<1>11. CASE RecordError(c) \/ Unresolved(c) \/ UpdateStatus(c) \/ EndOrDie(c)
    BY <1>2, <1>11 DEF RecordError, Unresolved, UpdateStatus, EndOrDie
<1> QED BY <1>6, <1>7, <1>8, <1>9, <1>10, <1>11 DEF ClientStep

LEMMA AskedAndCallersStep ==
    TypeOK /\ Asked /\ LedgerInv /\ CallersInv /\ [Next]_vars => Asked' /\ CallersInv'
<1> SUFFICES ASSUME TypeOK, Asked, LedgerInv, CallersInv, [Next]_vars PROVE Asked' /\ CallersInv'
    OBVIOUS
\* Enough to look at the call that changes.
<1>1. ASSUME SearchKept, RowKept, RowInv', NEW c \in Calls, CallInv(c)',
             \A e \in Calls \ {c} : call'[e] = call[e] /\ DigestsKept(e)
      PROVE  CallersInv'
    BY <1>1, CallKept DEF CallersInv
<1>2. ASSUME SearchKept, UNCHANGED <<call, request>>, \A e \in Calls : DigestsKept(e) PROVE CallersInv'
    <2>1. RowKept /\ RowInv'
        BY <1>2 DEF RowKept, SearchKept, RowInv, CallersInv
    <2> QED BY <1>2, <2>1, CallKept DEF CallersInv
<1>3. ASSUME UNCHANGED splunk PROVE SearchKept
    BY <1>3 DEF SearchKept
<1>4. ASSUME UNCHANGED srv PROVE \A e \in Calls : DigestsKept(e)
    BY <1>4 DEF DigestsKept
<1>5. ASSUME NEW c \in Calls, ClientStep(c) PROVE Asked' /\ CallersInv'
    <2>1. RowKept /\ RowInv' /\ SearchKept /\ UNCHANGED srv
        BY <1>5, ClientRow
    <2>2. /\ CallInv(c)' /\ \A e \in Calls \ {c} : call'[e] = call[e]
          /\ call'[c].at \in {"reserve", "send", "sent", "record"} => call'[c].action \in Actions
        BY <1>5, ClientCall
    <2>3. CallersInv'
        BY <1>1, <1>4, <2>1, <2>2
    <2>4. Asked'
        BY <2>1, <2>2 DEF Asked
    <2> QED BY <2>3, <2>4
\* Deliveries never change what they ask for.
<1>6. ASSUME NEW d \in Deliveries, srv[d].stage # "none",
             To(d, "authorized") \/ To(d, "checked") \/ To(d, "replay") \/ To(d, "inserted")
             \/ To(d, "reserved") \/ To(d, "submitted") \/ Denied(d)
      PROVE  /\ \A e \in Calls : DigestsKept(e)
             /\ \A e \in Deliveries : srv'[e].stage # "none" => srv'[e].digest \in Digests
    <2>1. /\ srv'[d].digest = srv[d].digest
          /\ \A e \in Deliveries \ {d} : srv'[e] = srv[e]
        BY <1>6, ToFacts, DeniedFacts
    <2>2. \A e \in Calls : DigestsKept(e)
        BY <1>6, <2>1, DeliveryOf DEF DigestsKept
    <2> QED BY <1>6, <2>1, <2>2 DEF Asked
<1>7. ASSUME NEW d \in Deliveries, ServerStep(d) PROVE Asked' /\ CallersInv'
    <2>1. /\ srv[d].stage # "none" /\ UNCHANGED <<call, request, splunk>>
          /\ \/ To(d, "authorized") \/ To(d, "checked") \/ To(d, "replay") \/ To(d, "inserted")
             \/ To(d, "reserved") \/ Denied(d)
        BY <1>7 DEF ServerStep, Authorize, ReserveCheck, ReserveInsert, ReserveCommit, ReserveFails, clientVars
    <2> QED BY <1>2, <1>3, <1>6, <2>1 DEF Asked
<1>8. ASSUME NEW d \in Deliveries, SplunkSubmit(d) PROVE Asked' /\ CallersInv'
    <2>1. srv[d].stage # "none" /\ UNCHANGED <<call, request>> /\ To(d, "submitted")
        BY <1>8 DEF SplunkSubmit, clientVars
    <2>2. splunk.runs = 0
        BY <1>8 DEF SplunkSubmit, LedgerInv, DeliveryInv
    <2>3. SearchKept
        BY <2>2 DEF SearchKept
    <2> QED BY <1>2, <1>6, <2>1, <2>3 DEF Asked
<1>9. ASSUME NEW c \in Calls, Send(c) PROVE Asked' /\ CallersInv'
    <2>0. call[c] \in CallRecords /\ <<c, 1>> \in Deliveries
        BY DeliveryOf DEF TypeOK, Copies
    <2>1. /\ call[c].at = "send" /\ call' = [call EXCEPT ![c] = [call[c] EXCEPT !.at = "sent"]]
          /\ UNCHANGED <<request, splunk>> /\ \A i \in Copies : srv[<<c, i>>].stage = "none"
        BY <1>9 DEF Send, Goto
    <2>2. /\ call'[c] = [call[c] EXCEPT !.at = "sent"] /\ \A e \in Calls \ {c} : call'[e] = call[e]
        BY <2>1, OthersKept
    <2>3. /\ call'[c].at = "sent" /\ call'[c].action = call[c].action /\ call'[c].job = call[c].job
          /\ call'[c].saw = call[c].saw /\ call'[c].durable = call[c].durable
        BY <2>0, <2>2 DEF CallRecords
    <2>4. /\ \A d \in Deliveries \ {<<c, 1>>} : srv'[d] = srv[d]
          /\ srv'[<<c, 1>>].stage # "none" => srv'[<<c, 1>>].digest = call[c].action
        <3>1. CASE Arrive(<<c, 1>>, call[c].action)
            BY <2>0, <3>1 DEF Arrive, TypeOK
        <3>2. CASE UNCHANGED srv
            BY <2>1, <3>2 DEF Copies
        <3> QED BY <1>9, <3>1, <3>2 DEF Send, serverVars
    <2>5. \A i \in Copies : srv'[<<c, i>>].stage # "none" => srv'[<<c, i>>].digest = call[c].action
        BY <2>1, <2>4, DeliveryOf DEF Copies
    <2>6. CallInv(c)'
        BY <2>1, <2>3, <2>5 DEF CallersInv, CallInv, HasLedger
    <2>7. \A e \in Calls \ {c} : DigestsKept(e)
        BY <2>4, DeliveryOf DEF DigestsKept
    <2>8. RowKept /\ RowInv'
        BY <2>1 DEF RowKept, RowInv, CallersInv
    <2>9. CallersInv'
        BY <1>1, <1>3, <2>1, <2>2, <2>6, <2>7, <2>8
    <2>10. Asked'
        BY <2>0, <2>1, <2>2, <2>3, <2>4, DeliveriesAssumption DEF Asked
    <2> QED BY <2>9, <2>10
<1>10. ASSUME NEW c \in Calls, Duplicate(c) PROVE Asked' /\ CallersInv'
    <2>0. <<c, 1>> \in Deliveries /\ <<c, 2>> \in Deliveries
        BY DeliveryOf DEF Copies
    <2>1. /\ UNCHANGED <<call, request, splunk>> /\ srv[<<c, 1>>].stage # "none"
          /\ \A d \in Deliveries \ {<<c, 2>>} : srv'[d] = srv[d]
          /\ srv'[<<c, 2>>].digest = srv[<<c, 1>>].digest
        BY <1>10, <2>0 DEF Duplicate, Arrive, clientVars, TypeOK
    <2>2. \A e \in Calls \ {c} : CallInv(e)'
        <3>1. \A e \in Calls \ {c} : DigestsKept(e)
            BY <2>1, DeliveryOf DEF DigestsKept
        <3>2. RowKept
            BY <2>1 DEF RowKept
        <3> QED BY <1>3, <2>1, <3>1, <3>2, CallKept DEF CallersInv
    <2>3. CallInv(c)'
        <3>1. call[c].at = "sent" => \A i \in Copies : srv'[<<c, i>>].digest = call[c].action
            BY <2>0, <2>1 DEF Copies, CallersInv, CallInv
        <3> QED BY <2>1, <3>1 DEF CallersInv, CallInv, HasLedger
    <2>4. RowInv'
        BY <2>1 DEF RowInv, CallersInv
    <2>5. Asked'
        BY <2>0, <2>1 DEF Asked
    <2> QED BY <2>2, <2>3, <2>4, <2>5 DEF CallersInv
<1>11. ASSUME NEW c \in Calls, NEW r, call' = [call EXCEPT ![c] = r], CallInv(c)', SearchKept,
              UNCHANGED <<request, srv>>,
              r.at \in {"reserve", "send", "sent", "record"} => r.action \in Actions
       PROVE  Asked' /\ CallersInv'
    <2>1. call'[c] = r /\ \A e \in Calls \ {c} : call'[e] = call[e]
        BY <1>11, OthersKept
    <2>2. RowKept /\ RowInv'
        BY <1>11 DEF RowKept, RowInv, CallersInv, SearchKept
    <2>3. CallersInv'
        BY <1>1, <1>4, <1>11, <2>1, <2>2
    <2> QED BY <1>11, <2>1, <2>3 DEF Asked
<1>12. ASSUME NEW c \in Calls, Reply(c) PROVE Asked' /\ CallersInv'
    <2> DEFINE r == [call[c] EXCEPT !.at = "record", !.saw = "submitted", !.job = splunk.name]
    <2>1. /\ call[c].at = "sent" /\ call' = [call EXCEPT ![c] = r]
          /\ UNCHANGED <<request, splunk, srv>> /\ splunk.runs > 0
        BY <1>12 DEF Reply, Answered, serverVars
    <2>2. PICK i \in Copies : srv[<<c, i>>].stage \in {"submitted", "replay"}
        BY <1>12 DEF Reply
    <2>3. splunk.runs = 1 /\ splunk.action = srv[<<c, i>>].digest
        BY <2>1, <2>2, DeliveryOf DEF LedgerInv, DeliveryInv
    <2>4. call[c].action = splunk.action /\ call[c].action \in Actions
        BY <2>1, <2>2, <2>3 DEF CallersInv, CallInv, Asked
    <2>5. /\ r.at = "record" /\ r.action = call[c].action /\ r.job = splunk.name
          /\ r.saw = "submitted" /\ r.durable = call[c].durable
        BY DEF TypeOK, CallRecords
    <2> HIDE DEF r
    <2>6. call'[c] = r
        BY <2>1, OthersKept
    <2>7. CallInv(c)'
        BY <2>1, <2>3, <2>4, <2>5, <2>6 DEF CallersInv, CallInv, HasLedger, Ended
    <2> QED BY <1>3, <1>11, <2>1, <2>4, <2>5, <2>7
<1>13. ASSUME NEW c \in Calls, ReconcileCall(c) PROVE Asked' /\ CallersInv'
    <2> DEFINE r == [call[c] EXCEPT !.at = "found", !.job = splunk.name]
    <2>1. /\ call[c].at = "reconcile" /\ call' = [call EXCEPT ![c] = r]
          /\ UNCHANGED <<request, splunk, srv>> /\ splunk.runs > 0 /\ request.action = splunk.action
        BY <1>13 DEF ReconcileCall, Reconciled, RowNamesSearch, serverVars
    <2>2. splunk.runs = 1
        BY <2>1 DEF LedgerInv
    <2>3. r.at = "found" /\ r.job = splunk.name /\ r.saw = call[c].saw
        BY DEF TypeOK, CallRecords
    <2> HIDE DEF r
    <2>4. call'[c] = r
        BY <2>1, OthersKept
    <2>5. CallInv(c)'
        BY <2>1, <2>2, <2>3, <2>4 DEF CallersInv, CallInv
    <2> QED BY <1>3, <1>11, <2>1, <2>3, <2>5
<1>14. ASSUME NEW c \in Calls, NEW found, NEW s, CallJob(c, found, s), SearchKept, UNCHANGED srv,
              found /\ s \in Ended => splunk'.runs = 1 /\ splunk'.state = s
       PROVE  Asked' /\ CallersInv'
    <2> DEFINE u == [Idle EXCEPT !.at = "update", !.saw = s]
    <2>1. PICK r \in {Idle, u} : call' = [call EXCEPT ![c] = r] /\ (r = Idle \/ found)
        BY <1>14 DEF CallJob
    <2>2. /\ Idle.at = "idle" /\ Idle.job = NoJob /\ Idle.saw = NoJob
          /\ u.at = "update" /\ u.job = NoJob /\ u.saw = s
        BY DEF Idle
    <2> HIDE DEF u
    <2>3. CallInv(c)'
        BY <1>14, <2>1, <2>2, CallFresh DEF Ended, NoJob
    <2> QED BY <1>11, <1>14, <2>1, <2>2, <2>3 DEF CallJob
<1>15. ASSUME NEW c \in Calls, StatusCall(c) PROVE Asked' /\ CallersInv'
    <2>1. splunk.runs = 1 /\ UNCHANGED <<splunk, srv>> /\ CallJob(c, RowNamesSearch, splunk.state)
        BY <1>15 DEF StatusCall, Status, LedgerInv, serverVars
    <2> QED BY <1>3, <1>14, <2>1 DEF Ended
<1>16. ASSUME NEW c \in Calls, CancelCall(c) PROVE Asked' /\ CallersInv'
    <2>1. /\ splunk.runs = 1 /\ UNCHANGED srv
          /\ CallJob(c, RowNamesSearch /\ splunk.state = "running", "cancelled")
        BY <1>16 DEF CancelCall, Cancel, LedgerInv, serverVars
    <2>2. /\ splunk'.runs = splunk.runs /\ splunk'.name = splunk.name /\ splunk'.action = splunk.action
          /\ splunk'.state = IF splunk.state = "running" THEN "cancelled" ELSE splunk.state
        BY <1>16 DEF CancelCall, TypeOK, SearchRecords
    <2>3. SearchKept
        BY <2>2 DEF SearchKept, Ended
    <2> QED BY <1>14, <2>1, <2>2, <2>3
<1>17. CASE SplunkFinish
    <2>1. /\ splunk'.runs = splunk.runs /\ splunk'.name = splunk.name /\ splunk'.action = splunk.action
          /\ splunk.state = "running" /\ UNCHANGED <<call, request, srv>>
        BY <1>17 DEF SplunkFinish, TypeOK, SearchRecords, clientVars, serverVars
    <2>2. SearchKept
        BY <2>1 DEF SearchKept, Ended
    <2> QED BY <1>2, <1>4, <2>1, <2>2 DEF Asked
<1>18. CASE (Lapse /\ UNCHANGED <<clientVars, splunk>>) \/ UNCHANGED vars
    <2>1. UNCHANGED <<call, request, srv, splunk>>
        BY <1>18 DEF Lapse, vars, clientVars, serverVars
    <2> QED BY <1>2, <1>3, <1>4, <2>1 DEF Asked
<1> QED BY <1>5, <1>7, <1>8, <1>9, <1>10, <1>12, <1>13, <1>15, <1>16, <1>17, <1>18, NextCases

-----------------------------------------------------------------------------
GatewayInv == TypeOK /\ Asked /\ LedgerInv /\ CallersInv

LEMMA GatewayInvHolds == Spec => []GatewayInv
<1>1. Init => GatewayInv
    <2> SUFFICES ASSUME Init PROVE Asked /\ LedgerInv /\ CallersInv
        BY TypeInit DEF GatewayInv
    <2>1. /\ \A c \in Calls : call[c].at = "idle" /\ call[c].job = NoJob /\ call[c].saw = NoJob
          /\ request.sid = NoJob /\ request.status = NoJob
        BY DEF Init, InitClient, Idle, NoRequest
    <2>2. /\ \A d \in Deliveries : srv[d].stage = "none" /\ ~srv[d].late
          /\ ledger = NoRow /\ audits = 0 /\ splunk.runs = 0
        BY DEF Init, InitServer, NoRequestHere
    <2>3. Asked
        BY <2>1, <2>2 DEF Asked
    <2>4. LedgerInv
        BY <2>2 DEF LedgerInv, DeliveryInv, Owners
    <2>5. CallersInv
        BY <2>1 DEF CallersInv, RowInv, CallInv, Ended, NoJob
    <2> QED BY <2>3, <2>4, <2>5
<1>2. GatewayInv /\ [Next]_vars => GatewayInv'
    BY TypeStep, LedgerStep, AskedAndCallersStep DEF GatewayInv
<1> QED BY <1>1, <1>2, PTL DEF Spec

\* Every reachable state of the callers, the service and Splunk is well typed.
THEOREM TypeCorrect == Spec => []TypeOK
<1>1. GatewayInv => TypeOK
    BY DEF GatewayInv
<1> QED BY <1>1, GatewayInvHolds, PTL

\* However many callers retry one idempotency key over a network that loses
\* and repeats requests, Splunk runs one search for it and the audit record
\* is there before it runs (reserve_mcp_request).
THEOREM OneSearchPerKey == Spec => []SubmittedAtMostOnce
<1>1. GatewayInv => SubmittedAtMostOnce
    BY DEF GatewayInv, LedgerInv, SubmittedAtMostOnce
<1> QED BY <1>1, GatewayInvHolds, PTL

\* Every id a caller gets and the row's id and action are those of the one search,
\* and a row that says completed or cancelled says how it ended; nothing is said
\* of the other statuses (McpConnector's submit, status, cancel).
THEOREM RowsAgree == Spec => []RowNamesTheSearch
<1>1. GatewayInv => RowNamesTheSearch
    BY DEF GatewayInv, CallersInv, RowInv, CallInv, RowNamesTheSearch, RowNamesSearch, Ended
<1> QED BY <1>1, GatewayInvHolds, PTL

\* No request that arrives after the hunt's authority ended is submitted
\* (authorize_mcp_tool_request).
THEOREM LateRequestsStop == Spec => []LateRequestsRefused
<1>1. GatewayInv => LateRequestsRefused
    BY DEF GatewayInv, LedgerInv, DeliveryInv, LateRequestsRefused
<1> QED BY <1>1, GatewayInvHolds, PTL

=============================================================================
