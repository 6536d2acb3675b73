------------------------- MODULE ModelGatewayProofs -------------------------
(***************************************************************************)
(* Proofs about ModelGateway, for any number of hunts, any budgets and any *)
(* sizes of requests.                                                      *)
(***************************************************************************)
EXTENDS ModelGateway, TLAPS

LEMMA NumbersAssumption ==
    /\ MaxCalls \in Nat \ {0} /\ MaxInput \in Nat \ {0} /\ MaxOutput \in Nat \ {0}
    /\ MaxOutputPerCall \in Nat \ {0} /\ MaxRows \in Nat \ {0} /\ RepairSize \in Nat /\ MaxContext \in Nat
BY GatewayAssumption

-----------------------------------------------------------------------------
(* The budget of one hunt.                                                 *)

StepRecords == [kind : Kinds, start : Counters]
RequestRecords == [size : Nat, rows : 0..MaxRows, attempt : 0..2]

\* What has been used stays within the limits of the step, and a request on
\* its way fits what is left, with output left for its answer.
HuntInv(h) ==
    /\ counters[h].calls <= Limits(h).calls
    /\ counters[h].input <= Limits(h).input
    /\ counters[h].output <= Limits(h).output
    /\ pc[h] \in {"ready", "waiting", "answered"} => OutputAllowance(h) > 0
    /\ pc[h] \in {"waiting", "answered"} => RequestFits(h, req[h].size)

LEMMA LimitTypes ==
    ASSUME TypeOK, NEW h \in Hunts
    PROVE  /\ Limits(h).calls \in 0..MaxCalls
           /\ Limits(h).input \in 0..MaxInput
           /\ Limits(h).output \in 0..MaxOutput
<1>1. step[h].start \in Counters
    BY DEF TypeOK
<1>2. step[h].start.input \in 0..MaxInput /\ step[h].start.output \in 0..MaxOutput
    BY <1>1 DEF Counters
<1> QED BY <1>2, NumbersAssumption DEF Limits

LEMMA CounterTypes ==
    ASSUME TypeOK, NEW h \in Hunts
    PROVE  /\ counters[h].calls \in 0..MaxCalls
           /\ counters[h].input \in 0..MaxInput
           /\ counters[h].output \in 0..MaxOutput
BY DEF TypeOK, Counters

\* The counters, the step and the request of the other hunts stay as they are,
\* and so does their budget.
Untouched(h) == /\ counters'[h] = counters[h] /\ step'[h] = step[h]
                /\ req'[h] = req[h] /\ pc'[h] = pc[h]

LEMMA UntouchedInv == ASSUME NEW h, HuntInv(h), Untouched(h) PROVE HuntInv(h)'
BY DEF HuntInv, Untouched, Limits, OutputAllowance, RequestFits

\* A hunt whose budget and step do not change keeps within them, whatever it
\* does to a request that is not on its way.
LEMMA IdleInv ==
    ASSUME NEW h, HuntInv(h), counters'[h] = counters[h], step'[h] = step[h],
           pc'[h] \in {"idle", "fitting", "ready"}, pc'[h] = "ready" => OutputAllowance(h) > 0
    PROVE  HuntInv(h)'
BY DEF HuntInv, Limits, OutputAllowance

\* What the steps of a hunt do to its counters, its step and its request.
BudgetTypes ==
    /\ counters \in [Hunts -> Counters]
    /\ step \in [Hunts -> StepRecords]
    /\ req \in [Hunts -> RequestRecords]
    /\ pc \in [Hunts -> {"idle", "fitting", "ready", "waiting", "answered"}]

LEMMA BudgetTyped == ASSUME TypeOK PROVE BudgetTypes
BY DEF TypeOK, BudgetTypes, StepRecords, RequestRecords

BudgetInv == BudgetTypes /\ \A h \in Hunts : HuntInv(h)

LEMMA RepairedRequest ==
    ASSUME NEW r \in RequestRecords, NEW size \in Nat, NEW n \in 0..2
    PROVE  [r EXCEPT !.size = size, !.attempt = n] \in RequestRecords
BY DEF RequestRecords

LEMMA ReturnFacts ==
    ASSUME TypeOK, NEW h \in Hunts, Return(h)
    PROVE  /\ req' \in [Hunts -> RequestRecords]
           /\ pc' \in [Hunts -> {"idle", "fitting", "ready", "waiting", "answered"}]
           /\ pc'[h] = "idle"
           /\ \A g \in Hunts \ {h} : req'[g] = req[g] /\ pc'[g] = pc[g]
BY NumbersAssumption DEF Return, TypeOK, NoRequest, RequestRecords

LEMMA BuildFacts ==
    ASSUME TypeOK, NEW h \in Hunts, NEW size \in Nat, NEW rows \in 0..MaxRows, NEW n \in 1..2,
           Build(h, size, rows, n)
    PROVE  /\ req' \in [Hunts -> RequestRecords]
           /\ pc' \in [Hunts -> {"idle", "fitting", "ready", "waiting", "answered"}]
           /\ pc'[h] \in {"idle", "ready"} /\ (pc'[h] = "ready" => OutputAllowance(h) > 0)
           /\ \A g \in Hunts \ {h} : req'[g] = req[g] /\ pc'[g] = pc[g]
<1>1. CASE OutputAllowance(h) <= 0
    BY <1>1, ReturnFacts DEF Build
<1>2. CASE ~(OutputAllowance(h) <= 0)
    <2>1. OutputAllowance(h) > 0
        BY <1>2, LimitTypes, CounterTypes, NumbersAssumption DEF OutputAllowance
    <2>2. [size |-> size, rows |-> rows, attempt |-> n] \in RequestRecords
        BY DEF RequestRecords
    <2> QED BY <1>2, <2>1, <2>2, BudgetTyped DEF Build, BudgetTypes
<1> QED BY <1>1, <1>2

LEMMA BeginStepInv ==
    ASSUME TypeOK, \A h \in Hunts : HuntInv(h), NEW h \in Hunts, NEW kind \in StepsOf[h], BeginStep(h, kind)
    PROVE  BudgetInv'
<1> DEFINE start == IF kind \in Reserving THEN counters[h] ELSE Zero
<1>0. kind \in Kinds
    BY GatewayAssumption DEF Kinds
<1>1. Zero \in Counters /\ counters[h] \in Counters
    BY NumbersAssumption DEF Zero, Counters, TypeOK
<1>2. /\ step' = [step EXCEPT ![h] = [kind |-> kind, start |-> start]]
      /\ req' = [req EXCEPT ![h] = NoRequest] /\ UNCHANGED <<counters, pc>> /\ pc[h] = "idle"
    BY DEF BeginStep
<1>3. BudgetTypes'
    BY <1>0, <1>1, <1>2, NumbersAssumption DEF BudgetTypes, TypeOK, StepRecords, RequestRecords, NoRequest
<1>4. \A g \in Hunts \ {h} : HuntInv(g)'
    BY <1>2, UntouchedInv DEF Untouched, TypeOK
<1>5. step'[h].kind = kind /\ step'[h].start = start
    BY <1>2 DEF TypeOK
<1>6. HuntInv(h)'
    <2>1. CASE kind \in Reserving
        <3>1. counters[h].calls <= MaxCalls - 1
            BY <2>1, CounterTypes, NumbersAssumption DEF BeginStep, RoundAllowed, RetrievalAllowed, Reserving
        <3>2. /\ Limits(h)'.calls = MaxCalls - 1
              /\ Limits(h)'.input = counters[h].input + (MaxInput - counters[h].input) \div 2
              /\ Limits(h)'.output = counters[h].output + (MaxOutput - counters[h].output) \div 2
            BY <1>5, <2>1 DEF Limits
        <3>3. /\ counters[h].input <= counters[h].input + (MaxInput - counters[h].input) \div 2
              /\ counters[h].output <= counters[h].output + (MaxOutput - counters[h].output) \div 2
            BY CounterTypes, NumbersAssumption
        <3> QED BY <1>2, <3>1, <3>2, <3>3 DEF HuntInv
    <2>2. CASE kind \notin Reserving
        <3>1. Limits(h)'.calls = MaxCalls /\ Limits(h)'.input = MaxInput /\ Limits(h)'.output = MaxOutput
            BY <1>5, <2>2 DEF Limits
        <3> QED BY <1>2, <3>1, CounterTypes DEF HuntInv
    <2> QED BY <2>1, <2>2
<1> QED BY <1>3, <1>4, <1>6 DEF BudgetInv

\* Building a request, or leaving one, changes no counter and no step.
LEMMA RequestInv ==
    ASSUME TypeOK, \A h \in Hunts : HuntInv(h), NEW h \in Hunts, UNCHANGED <<counters, step>>,
           req' \in [Hunts -> RequestRecords],
           pc' \in [Hunts -> {"idle", "fitting", "ready", "waiting", "answered"}],
           pc'[h] \in {"idle", "fitting", "ready"}, pc'[h] = "ready" => OutputAllowance(h) > 0,
           \A g \in Hunts \ {h} : req'[g] = req[g] /\ pc'[g] = pc[g]
    PROVE  BudgetInv'
<1>1. BudgetTypes'
    BY DEF BudgetTypes, TypeOK, StepRecords
<1>2. \A g \in Hunts \ {h} : HuntInv(g)'
    BY UntouchedInv DEF Untouched
<1>3. HuntInv(h)'
    BY IdleInv
<1> QED BY <1>1, <1>2, <1>3 DEF BudgetInv

LEMMA RunInv ==
    ASSUME TypeOK, \A h \in Hunts : HuntInv(h), NEW h \in Hunts, Run(h) \/ FitRows(h) \/ RepairOnce(h)
    PROVE  BudgetInv'
<1>1. CASE Run(h) /\ Synthesizing(h) /\ OutputAllowance(h) <= 0
    <2>1. Return(h) /\ UNCHANGED <<counters, step>>
        BY <1>1, LimitTypes, CounterTypes, NumbersAssumption DEF Run, OutputAllowance
    <2> QED BY <2>1, ReturnFacts, RequestInv
<1>2. CASE Run(h) /\ Synthesizing(h) /\ OutputAllowance(h) > 0
    <2>1. pc' = [pc EXCEPT ![h] = "fitting"] /\ UNCHANGED <<counters, step, req>>
        BY <1>2, LimitTypes, CounterTypes, NumbersAssumption DEF Run, OutputAllowance
    <2> QED BY <2>1, RequestInv DEF TypeOK, RequestRecords
<1>4. CASE Run(h) /\ ~Synthesizing(h)
    <2>1. PICK size \in FixedSizes : Build(h, size, 0, 1)
        BY <1>4 DEF Run
    <2>2. size \in Nat /\ 0 \in 0..MaxRows
        BY GatewayAssumption, NumbersAssumption
    <2> QED BY <1>4, <2>1, <2>2, BuildFacts, RequestInv DEF Run
<1>5. CASE FitRows(h)
    <2>1. /\ UNCHANGED <<counters, step>> /\ pc[h] = "fitting"
          /\ UNCHANGED <<pc, req>> \/ Build(h, search[h].sizes[search[h].row], search[h].row, 1)
        BY <1>5 DEF FitRows, Tried
    <2>2. search[h].sizes[search[h].row] \in Nat /\ search[h].row \in 0..MaxRows
        BY NumbersAssumption DEF TypeOK, Searches
    <2>3. CASE UNCHANGED <<pc, req>>
        BY <2>1, <2>3, RequestInv, BudgetTyped DEF BudgetTypes
    <2>4. CASE Build(h, search[h].sizes[search[h].row], search[h].row, 1)
        BY <2>1, <2>2, <2>4, BuildFacts, RequestInv
    <2> QED BY <2>1, <2>3, <2>4
<1>3. CASE RepairOnce(h)
    <2>1. PICK size \in FixedSizes : Build(h, size + RepairSize, 0, 2)
        BY <1>3 DEF RepairOnce
    <2>2. size + RepairSize \in Nat /\ 0 \in 0..MaxRows
        BY GatewayAssumption, NumbersAssumption
    <2> QED BY <1>3, <2>1, <2>2, BuildFacts, RequestInv DEF RepairOnce
<1>6. OutputAllowance(h) <= 0 \/ OutputAllowance(h) > 0
    BY LimitTypes, CounterTypes, NumbersAssumption DEF OutputAllowance
<1> QED BY <1>1, <1>2, <1>3, <1>4, <1>5, <1>6

LEMMA ReturnInv ==
    ASSUME TypeOK, \A h \in Hunts : HuntInv(h), NEW h \in Hunts, Return(h), UNCHANGED <<counters, step>>
    PROVE  BudgetInv'
BY ReturnFacts, RequestInv

\* A call that is let through is within the limit, counted, and fits.
LEMMA CallInv ==
    ASSUME TypeOK, \A h \in Hunts : HuntInv(h), NEW h \in Hunts, CallRefusedByAdapter(h) \/ Call(h)
    PROVE  BudgetInv'
<1>1. /\ counters' = [counters EXCEPT ![h].calls = @ + 1] /\ UNCHANGED step
      /\ ~Refused(h) /\ pc[h] = "ready"
    BY DEF CallRefusedByAdapter, Call, RecordModelCall
<1>2. /\ req' \in [Hunts -> RequestRecords]
      /\ pc' \in [Hunts -> {"idle", "fitting", "ready", "waiting", "answered"}]
      /\ pc'[h] = "idle" \/ (pc'[h] = "waiting" /\ req'[h] = req[h])
      /\ \A g \in Hunts \ {h} : req'[g] = req[g] /\ pc'[g] = pc[g]
    <2>1. CASE CallRefusedByAdapter(h)
        BY <2>1, ReturnFacts DEF CallRefusedByAdapter
    <2>2. CASE Call(h)
        BY <2>2 DEF Call, TypeOK, RequestRecords
    <2> QED BY <2>1, <2>2
<1>3. counters[h].calls + 1 <= Limits(h).calls /\ RequestFits(h, req[h].size)
    BY <1>1, LimitTypes, CounterTypes DEF Refused
<1> DEFINE n == counters[h].calls + 1
<1>4. n \in 0..MaxCalls
    BY <1>3, LimitTypes, CounterTypes, NumbersAssumption
<1>5. /\ counters' \in [Hunts -> Counters]
      /\ counters'[h].calls = n /\ counters'[h].input = counters[h].input
      /\ counters'[h].output = counters[h].output
      /\ \A g \in Hunts \ {h} : counters'[g] = counters[g]
    <2>1. counters' = [counters EXCEPT ![h] = [counters[h] EXCEPT !.calls = n]]
        BY <1>1 DEF TypeOK, Counters
    <2>2. [counters[h] EXCEPT !.calls = n] \in Counters
        <3>1. counters[h] \in Counters
            BY DEF TypeOK
        <3> HIDE DEF n
        <3> QED BY <1>4, <3>1 DEF Counters
    <2>3. counters'[h] = [counters[h] EXCEPT !.calls = n]
        BY <2>1 DEF TypeOK
    <2>4. counters[h] \in [calls : 0..MaxCalls, input : 0..MaxInput, output : 0..MaxOutput]
        BY DEF TypeOK, Counters
    <2>5. /\ counters'[h].calls = n /\ counters'[h].input = counters[h].input
          /\ counters'[h].output = counters[h].output
        BY <2>3, <2>4
    <2> HIDE DEF n
    <2> QED BY <2>1, <2>2, <2>5 DEF TypeOK
<1>6. BudgetTypes'
    BY <1>1, <1>2, <1>5 DEF BudgetTypes, TypeOK, StepRecords
<1>7. \A g \in Hunts \ {h} : HuntInv(g)'
    BY <1>1, <1>2, <1>5, UntouchedInv DEF Untouched
<1>8. HuntInv(h)'
    <2>1. Limits(h)' = Limits(h)
        BY <1>1 DEF Limits
    <2>2. OutputAllowance(h)' = OutputAllowance(h) /\ OutputAllowance(h) > 0
        BY <1>1, <1>5, <2>1 DEF OutputAllowance, HuntInv
    <2>3. pc'[h] = "waiting" => RequestFits(h, req[h].size)'
        BY <1>2, <1>3, <1>5, <2>1 DEF RequestFits
    <2> QED BY <1>2, <1>3, <1>5, <2>1, <2>2, <2>3 DEF HuntInv
<1> QED BY <1>6, <1>7, <1>8 DEF BudgetInv

\* An answer's usage is within what its request was given.
LEMMA AnswerInv ==
    ASSUME TypeOK, \A h \in Hunts : HuntInv(h), NEW h \in Hunts, Answer(h)
    PROVE  BudgetInv'
<1>1. PICK usage \in Usages(h) :
        /\ counters' = [counters EXCEPT ![h].input = @ + usage.input, ![h].output = @ + usage.output]
        /\ Return(h) \/ RepairContract(h, usage.output)
    BY DEF Answer
<1>2. UNCHANGED step /\ pc[h] = "answered"
    BY DEF Answer
<1> DEFINE in == counters[h].input + usage.input
           out == counters[h].output + usage.output
<1>3. req[h] \in RequestRecords /\ req[h].size \in Nat
    BY DEF TypeOK, RequestRecords
<1>4. /\ OutputAllowance(h) \in Nat
      /\ OutputAllowance(h) <= Limits(h).output - counters[h].output
    <2>1. OutputAllowance(h) > 0
        BY <1>2 DEF HuntInv
    <2> QED BY <2>1, LimitTypes, CounterTypes, NumbersAssumption DEF OutputAllowance
<1>5. /\ usage.input \in Nat /\ usage.input <= Limits(h).input - counters[h].input
      /\ usage.output \in Nat /\ usage.output <= Limits(h).output - counters[h].output
    <2>1. CASE usage = [input |-> 0, output |-> 0]
        BY <2>1, LimitTypes, CounterTypes DEF HuntInv
    <2>2. CASE usage = [input |-> req[h].size, output |-> OutputAllowance(h)]
        <3>1. usage.input = req[h].size /\ usage.output = OutputAllowance(h)
            BY <2>2
        <3>2. req[h].size <= Limits(h).input - counters[h].input
            BY <1>2 DEF HuntInv, RequestFits
        <3> QED BY <1>3, <1>4, <3>1, <3>2
    <2> QED BY <2>1, <2>2 DEF Usages
<1>6. in \in 0..MaxInput /\ in <= Limits(h).input /\ out \in 0..MaxOutput /\ out <= Limits(h).output
    BY <1>5, LimitTypes, CounterTypes, NumbersAssumption
<1>7. /\ counters' \in [Hunts -> Counters]
      /\ counters'[h].calls = counters[h].calls /\ counters'[h].input = in /\ counters'[h].output = out
      /\ \A g \in Hunts \ {h} : counters'[g] = counters[g]
    <2> DEFINE c == [counters[h] EXCEPT !.input = in, !.output = out]
    <2>1. counters' = [counters EXCEPT ![h] = c]
        BY <1>1 DEF TypeOK, Counters
    <2>2. c \in Counters
        <3>1. counters[h] \in Counters
            BY DEF TypeOK
        <3> HIDE DEF in, out
        <3> QED BY <1>6, <3>1 DEF Counters
    <2>3. c.calls = counters[h].calls /\ c.input = in /\ c.output = out
        BY DEF TypeOK, Counters
    <2> HIDE DEF c, in, out
    <2> QED BY <2>1, <2>2, <2>3 DEF TypeOK
<1>8. Limits(h)' = Limits(h)
    BY <1>2 DEF Limits
<1>9. /\ req' \in [Hunts -> RequestRecords]
      /\ pc' \in [Hunts -> {"idle", "fitting", "ready", "waiting", "answered"}]
      /\ pc'[h] = "idle" \/ (pc'[h] = "ready" /\ Limits(h).output - out > 0)
      /\ \A g \in Hunts \ {h} : req'[g] = req[g] /\ pc'[g] = pc[g]
    <2>1. CASE Return(h)
        BY <2>1, ReturnFacts
    <2>2. CASE RepairContract(h, usage.output) /\ ~Return(h)
        <3>1. /\ ~(Limits(h).output - counters[h].output - usage.output <= 0)
              /\ pc' = [pc EXCEPT ![h] = "ready"]
              /\ req' = [req EXCEPT ![h].size = @ + RepairSize, ![h].attempt = 2]
            BY <2>2 DEF RepairContract
        <3>2. Limits(h).output - out > 0
            BY <1>5, <3>1, LimitTypes, CounterTypes
        <3>3. req[h].size + RepairSize \in Nat
            BY <1>3, NumbersAssumption
        <3>4. req' \in [Hunts -> RequestRecords]
            <4> DEFINE r == [req[h] EXCEPT !.size = @ + RepairSize, !.attempt = 2]
            <4>1. req' = [req EXCEPT ![h] = r]
                BY <3>1 DEF TypeOK, RequestRecords
            <4>2. r \in RequestRecords
                <5>1. 2 \in 0..2
                    OBVIOUS
                <5> QED BY <1>3, <3>3, <5>1, RepairedRequest, Zenon
            <4> HIDE DEF r
            <4> QED BY <4>1, <4>2 DEF TypeOK, RequestRecords
        <3> QED BY <3>1, <3>2, <3>4 DEF TypeOK
    <2> QED BY <1>1, <2>1, <2>2
<1>10. BudgetTypes'
    BY <1>2, <1>7, <1>9 DEF BudgetTypes, TypeOK, StepRecords
<1>11. \A g \in Hunts \ {h} : HuntInv(g)'
    BY <1>2, <1>7, <1>9, UntouchedInv DEF Untouched
<1>12. HuntInv(h)'
    <2>1. counters'[h].calls <= Limits(h)'.calls
        BY <1>7, <1>8 DEF HuntInv
    <2>2. pc'[h] = "ready" => OutputAllowance(h)' > 0
        BY <1>6, <1>7, <1>8, <1>9, LimitTypes, NumbersAssumption DEF OutputAllowance
    <2> QED BY <1>6, <1>7, <1>8, <1>9, <2>1, <2>2 DEF HuntInv
<1> QED BY <1>10, <1>11, <1>12 DEF BudgetInv

\* Steps that only free hunts, or bring an answer to one that waits for it.
LEMMA QuietInv ==
    ASSUME TypeOK, \A h \in Hunts : HuntInv(h), UNCHANGED <<counters, step>>,
           req' \in [Hunts -> RequestRecords],
           pc' \in [Hunts -> {"idle", "fitting", "ready", "waiting", "answered"}],
           \A h \in Hunts : \/ pc'[h] = "idle"
                            \/ req'[h] = req[h] /\ pc'[h] = pc[h]
                            \/ req'[h] = req[h] /\ pc[h] = "waiting" /\ pc'[h] = "answered"
    PROVE  BudgetInv'
<1>1. BudgetTypes'
    BY DEF BudgetTypes, TypeOK, StepRecords
<1>2. ASSUME NEW h \in Hunts PROVE HuntInv(h)'
    <2>1. Limits(h)' = Limits(h) /\ OutputAllowance(h)' = OutputAllowance(h)
        BY DEF Limits, OutputAllowance
    <2>2. req'[h] = req[h] => RequestFits(h, req[h].size)' = RequestFits(h, req[h].size)
        BY <2>1 DEF RequestFits
    <2> QED BY <2>1, <2>2 DEF HuntInv
<1> QED BY <1>1, <1>2 DEF BudgetInv

-----------------------------------------------------------------------------
(* The adapter's thread and its client.                                    *)

\* One call at a time, counted, its caller waiting while it is live; a sent
\* one has its client, and only an adapter without calls has released it.
WorkInv ==
    /\ \A c, d \in work : c = d
    /\ \A c \in work : /\ c.counted
                       /\ c.live => pc[c.hunt] = "waiting"
                       /\ c.stage = "sent" => client
    /\ closed <=> release # "open"
    /\ release = "released" => work = {} /\ ~client

AdapterTypes ==
    /\ work \subseteq Calls
    /\ closed \in BOOLEAN /\ client \in BOOLEAN
    /\ release \in {"open", "check", "callback", "released"}

SignalTypes == cancelled \in [Hunts -> BOOLEAN] /\ expired \in [Hunts -> 0..2]

SearchTypes == search \in [Hunts -> Searches]

LEMMA TypeParts == TypeOK <=> BudgetTypes /\ AdapterTypes /\ SignalTypes /\ SearchTypes
BY DEF TypeOK, BudgetTypes, AdapterTypes, SignalTypes, SearchTypes, StepRecords, RequestRecords

\* A caller that does not wait leaves the adapter alone.
LEMMA OtherCallerInv ==
    ASSUME TypeOK, WorkInv, UNCHANGED adapter,
           \A h \in Hunts : pc[h] = "waiting" => pc'[h] = "waiting"
    PROVE  (AdapterTypes /\ WorkInv)'
<1>1. \A c \in work : c.hunt \in Hunts
    BY DEF TypeOK, Calls
<1> QED BY <1>1 DEF adapter, TypeOK, WorkInv, AdapterTypes

\* The call keeps its hunt, its caller and its count as it moves on.
LEMMA StageFacts ==
    ASSUME NEW c \in Calls, NEW stage \in {"pending", "connecting", "sent"}
    PROVE  LET d == [c EXCEPT !.stage = stage]
           IN /\ d \in Calls /\ d.hunt = c.hunt /\ d.live = c.live
              /\ d.counted = c.counted /\ d.stage = stage
BY DEF Calls

LEMMA StageInv ==
    ASSUME TypeOK, WorkInv, NEW c \in work, StartWork(c) \/ Send(c)
    PROVE  (AdapterTypes /\ WorkInv)'
<1>1. c \in Calls /\ work = {c}
    BY DEF TypeOK, WorkInv
<1>2. PICK stage \in {"connecting", "sent"} :
        /\ work' = {[c EXCEPT !.stage = stage]}
        /\ stage = "sent" => client'
    BY <1>1 DEF StartWork, Send, At
<1>3. UNCHANGED <<pc, closed, release>> /\ client' \in BOOLEAN /\ release # "released"
    BY DEF StartWork, Send, TypeOK, WorkInv
<1> DEFINE d == [c EXCEPT !.stage = stage]
<1>4. /\ d \in Calls /\ d.hunt = c.hunt /\ d.live = c.live
      /\ d.counted = c.counted /\ d.stage = stage
    <2>1. stage \in {"pending", "connecting", "sent"}
        OBVIOUS
    <2> QED BY <1>1, <2>1, StageFacts, Zenon
<1> HIDE DEF d
<1>5. work' = {d}
    BY <1>2 DEF d
<1> QED BY <1>2, <1>3, <1>4, <1>5 DEF AdapterTypes, WorkInv, TypeOK

LEMMA CallWork ==
    ASSUME TypeOK, WorkInv, NEW h \in Hunts, Call(h)
    PROVE  (AdapterTypes /\ WorkInv)'
<1> DEFINE d == [hunt |-> h, stage |-> "pending", live |-> TRUE,
                 counted |-> counters'[h].calls > counters[h].calls]
<1>1. work' = {d} /\ ~closed /\ UNCHANGED <<closed, release, client>>
    BY DEF Call, Occupied
<1>2. counters'[h].calls = counters[h].calls + 1
    BY DEF Call, RecordModelCall, TypeOK, Counters
<1>3. /\ d \in Calls /\ d.hunt = h /\ d.stage = "pending" /\ d.counted = TRUE
    <2>1. (counters'[h].calls > counters[h].calls) = TRUE
        BY <1>2, CounterTypes
    <2>2. d = [hunt |-> h, stage |-> "pending", live |-> TRUE, counted |-> TRUE]
        BY <2>1, Zenon
    <2> QED BY <2>2 DEF Calls
<1>4. pc'[h] = "waiting"
    BY DEF Call, TypeOK
<1> HIDE DEF d
<1> QED BY <1>1, <1>3, <1>4 DEF AdapterTypes, WorkInv, TypeOK

\* A caller that gives up takes its pending call with it; a running one goes
\* on without it.
LEMMA GiveUpWork ==
    ASSUME TypeOK, WorkInv, NEW h \in Hunts, GiveUp(h)
    PROVE  (AdapterTypes /\ WorkInv)'
<1> DEFINE mine == {c \in work : c.hunt = h /\ c.live}
           running == {c \in mine : c.stage # "pending"}
<1>1. /\ work' = (work \ mine) \cup {[c EXCEPT !.live = FALSE] : c \in running}
      /\ UNCHANGED <<closed, release, client>> /\ \A g \in Hunts \ {h} : pc'[g] = pc[g]
    BY DEF GiveUp, Return, TypeOK
<1>2. ASSUME NEW d \in work'
      PROVE  \E c \in work :
                /\ d \in Calls /\ d.stage = c.stage /\ d.counted = c.counted /\ d.hunt \in Hunts
                /\ \/ d = c /\ c \notin mine
                   \/ ~d.live /\ d = [c EXCEPT !.live = FALSE]
    <2>1. CASE d \in work /\ d \notin mine
        BY <2>1 DEF TypeOK, Calls
    <2>2. CASE \E c \in work : d = [c EXCEPT !.live = FALSE]
        BY <2>2 DEF TypeOK, Calls
    <2> QED BY <1>1, <2>1, <2>2
<1>3. \A d \in work' : d.live => d \in work /\ d.hunt # h
    BY <1>2
<1>4. \A d, e \in work' : d = e
    <2> SUFFICES ASSUME NEW d \in work', NEW e \in work' PROVE d = e
        OBVIOUS
    <2>1. PICK c \in work :
            \/ d = c /\ c \notin mine
            \/ d = [c EXCEPT !.live = FALSE] /\ c \in running
        BY <1>1
    <2>2. PICK b \in work :
            \/ e = b /\ b \notin mine
            \/ e = [b EXCEPT !.live = FALSE] /\ b \in running
        BY <1>1
    <2>3. b = c
        BY DEF WorkInv
    <2>4. c \in running => c \in mine
        OBVIOUS
    <2> HIDE DEF mine, running
    <2>5. CASE c \in mine
        <3>1. d = [c EXCEPT !.live = FALSE] /\ e = [b EXCEPT !.live = FALSE]
            BY <2>1, <2>2, <2>3, <2>5
        <3> QED BY <2>3, <3>1
    <2>6. CASE c \notin mine
        BY <2>1, <2>2, <2>3, <2>4, <2>6
    <2> QED BY <2>5, <2>6
<1>5. (closed \in BOOLEAN /\ client \in BOOLEAN /\ release \in {"open", "check", "callback", "released"})'
    BY <1>1 DEF TypeOK
<1> HIDE DEF mine, running
<1>6. AdapterTypes'
    BY <1>2, <1>5 DEF AdapterTypes
<1>7. (work' # {} => work # {}) /\ \A d \in work' : d.live => pc'[d.hunt] = pc[d.hunt]
    BY <1>1, <1>2, <1>3
<1>8. WorkInv'
    BY <1>1, <1>2, <1>3, <1>4, <1>7 DEF WorkInv
<1> QED BY <1>6, <1>8

\* The callers of the calls that fail are freed; the others are left alone.
LEMMA ReturnAllFacts ==
    ASSUME TypeOK, NEW hunts, ReturnAll(hunts)
    PROVE  /\ req' \in [Hunts -> RequestRecords]
           /\ pc' \in [Hunts -> {"idle", "fitting", "ready", "waiting", "answered"}]
           /\ \A h \in Hunts : IF h \in hunts THEN pc'[h] = "idle"
                               ELSE req'[h] = req[h] /\ pc'[h] = pc[h]
BY NumbersAssumption DEF ReturnAll, TypeOK, NoRequest, RequestRecords

LEMMA EndWorkInv ==
    ASSUME TypeOK, WorkInv, \A h \in Hunts : HuntInv(h), NEW c \in work,
           NEW outcome \in {"answer", "error"}, EndWork(c, outcome)
    PROVE  BudgetInv' /\ (AdapterTypes /\ WorkInv)'
<1>1. work' = {} /\ c.hunt \in Hunts
    BY DEF EndWork, WorkInv, TypeOK, Calls
<1>2. (AdapterTypes /\ WorkInv)'
    BY <1>1 DEF EndWork, AdapterTypes, WorkInv, TypeOK
<1>3. /\ req' \in [Hunts -> RequestRecords]
      /\ pc' \in [Hunts -> {"idle", "fitting", "ready", "waiting", "answered"}]
      /\ \A h \in Hunts : \/ pc'[h] = "idle"
                          \/ req'[h] = req[h] /\ pc'[h] = pc[h]
                          \/ req'[h] = req[h] /\ pc[h] = "waiting" /\ pc'[h] = "answered"
    <2>1. CASE UNCHANGED <<pc, req>>
        BY <2>1 DEF TypeOK, RequestRecords
    <2>2. CASE c.live /\ pc' = [pc EXCEPT ![c.hunt] = "answered"] /\ UNCHANGED req
        <3>1. pc[c.hunt] = "waiting"
            BY <2>2 DEF WorkInv
        <3> QED BY <1>1, <2>2, <3>1 DEF TypeOK, RequestRecords
    <2>3. CASE ReturnAll({c.hunt})
        BY <2>3, ReturnAllFacts
    <2> QED BY <2>1, <2>2, <2>3 DEF EndWork
<1>4. BudgetInv'
    BY <1>3, QuietInv DEF EndWork
<1> QED BY <1>2, <1>4

\* Closing takes the pending call with its caller; the client goes once no
\* call is left.
LEMMA CloseInv ==
    ASSUME TypeOK, WorkInv, \A h \in Hunts : HuntInv(h), Close \/ CloseClient
    PROVE  BudgetInv' /\ (AdapterTypes /\ WorkInv)'
<1>1. CASE Close
    <2> DEFINE pending == {c \in work : c.stage = "pending"}
    <2>1. /\ work' = work \ pending /\ ReturnAll({c.hunt : c \in pending})
          /\ closed' = TRUE /\ release' = "check" /\ UNCHANGED <<counters, step, client>>
        BY <1>1 DEF Close
    <2>2. BudgetInv'
        BY <2>1, ReturnAllFacts, QuietInv
    <2>3. \A c \in work' : c \in work /\ c \in Calls /\ c.hunt \in Hunts
        BY <2>1 DEF TypeOK, Calls
    <2>4. \A c \in work' : pc'[c.hunt] = pc[c.hunt]
        <3> SUFFICES ASSUME NEW c \in work' PROVE pc'[c.hunt] = pc[c.hunt]
            OBVIOUS
        <3>1. pending = {}
            BY <2>1 DEF WorkInv
        <3>2. c.hunt \notin {d.hunt : d \in pending}
            BY <3>1
        <3> QED BY <2>1, <2>3, <3>2, ReturnAllFacts
    <2>5. (AdapterTypes /\ WorkInv)'
        BY <2>1, <2>3, <2>4 DEF AdapterTypes, WorkInv, TypeOK
    <2> QED BY <2>2, <2>5
<1>2. CASE CloseClient
    <2>1. BudgetInv'
        BY <1>2, QuietInv DEF CloseClient, TypeOK, RequestRecords
    <2>2. (AdapterTypes /\ WorkInv)'
        BY <1>2 DEF CloseClient, AdapterTypes, WorkInv, TypeOK
    <2> QED BY <2>1, <2>2
<1> QED BY <1>1, <1>2

-----------------------------------------------------------------------------
(* The search for the row limit.                                           *)

\* Limits below the search's interval fit and limits above it do not; the best
\* one is the last below it, and it is built again when the search ends above.
Searching(h, s) ==
    /\ s.best = s.minimum - 1 /\ s.minimum <= s.maximum + 1
    /\ \A r \in 1..MaxRows : /\ r < s.minimum => RequestFits(h, s.sizes[r])
                             /\ r > s.maximum => ~RequestFits(h, s.sizes[r])
    /\ \A q, r \in 1..MaxRows : q <= r => s.sizes[q] <= s.sizes[r]
    /\ \/ s.minimum <= s.row /\ s.row <= s.maximum
       \/ s.minimum = s.maximum + 1 /\ s.row = s.best

SearchInv == SearchTypes /\ \A h \in Hunts : pc[h] = "fitting" => Searching(h, search[h])

\* A larger request fits no better.
LEMMA LargerFitsNoBetter ==
    ASSUME TypeOK, NEW h \in Hunts, NEW a \in Nat, NEW b \in Nat, a <= b, RequestFits(h, b)
    PROVE  RequestFits(h, a)
BY LimitTypes, CounterTypes, NumbersAssumption DEF RequestFits

LEMMA NewSearchFacts ==
    ASSUME NEW h, NEW sizes \in SampleSizes
    PROVE  NewSearch(sizes) \in Searches /\ Searching(h, NewSearch(sizes))
<1>1. sizes \in [1..MaxRows -> Nat] /\ \A q, r \in 1..MaxRows : q <= r => sizes[q] <= sizes[r]
    BY GatewayAssumption
<1>2. NewSearch(sizes) \in Searches
    BY <1>1, NumbersAssumption DEF NewSearch, Searches
<1>3. Searching(h, NewSearch(sizes))
    BY <1>1, NumbersAssumption DEF NewSearch, Searching
<1> QED BY <1>2, <1>3

LEMMA NoSearchType == NoSearch \in Searches
BY NumbersAssumption DEF NoSearch, NewSearch, Searches

LEMMA Middle ==
    ASSUME NEW a \in Int, NEW b \in Int, a <= b
    PROVE  (a + b) \div 2 \in Int /\ a <= (a + b) \div 2 /\ (a + b) \div 2 <= b
OBVIOUS

\* What is known of the limits once one more was tried.
Narrowed(h, t) ==
    /\ t.best = t.minimum - 1 /\ t.minimum <= t.maximum + 1
    /\ \A r \in 1..MaxRows : /\ r < t.minimum => RequestFits(h, t.sizes[r])
                             /\ r > t.maximum => ~RequestFits(h, t.sizes[r])
    /\ \A q, r \in 1..MaxRows : q <= r => t.sizes[q] <= t.sizes[r]

\* A limit that fits raises the interval, one that does not lowers it.
LEMMA TriedFacts ==
    ASSUME TypeOK, NEW h \in Hunts, NEW s \in Searches, Searching(h, s),
           NEW fits \in BOOLEAN, fits <=> RequestFits(h, s.sizes[s.row]),
           NEW t, t = Tried(s, fits)
    PROVE  /\ t \in Searches /\ t.sizes = s.sizes /\ t.row = s.row /\ Narrowed(h, t)
           /\ IF fits THEN t.best = s.row ELSE t.maximum = s.row - 1
<1>1. /\ s.sizes \in [1..MaxRows -> Nat] /\ s.row \in 1..MaxRows /\ s.best \in 0..MaxRows
      /\ s.minimum \in 1..(MaxRows + 1) /\ s.maximum \in 0..MaxRows
    BY DEF Searches
<1>2. ASSUME NEW q \in 1..MaxRows, NEW r \in 1..MaxRows, q <= r, RequestFits(h, s.sizes[r])
      PROVE  RequestFits(h, s.sizes[q])
    BY <1>1, <1>2, LargerFitsNoBetter DEF Searching
<1>3. CASE fits
    <2>1. t = [sizes |-> s.sizes, minimum |-> s.row + 1, maximum |-> s.maximum, best |-> s.row, row |-> s.row]
        BY <1>3 DEF Tried
    <2>2. t \in Searches
        BY <1>1, <2>1, NumbersAssumption DEF Searches
    <2>3. s.row + 1 <= s.maximum + 1
        BY <1>1, NumbersAssumption DEF Searching
    <2>4. ASSUME NEW r \in 1..MaxRows, r < s.row + 1 PROVE RequestFits(h, s.sizes[r])
        <3>1. r <= s.row
            BY <1>1, <2>4, NumbersAssumption
        <3> QED BY <1>1, <1>2, <1>3, <3>1
    <2>5. /\ t.sizes = s.sizes /\ t.row = s.row /\ t.best = s.row
          /\ t.minimum = s.row + 1 /\ t.maximum = s.maximum
        BY <2>1
    <2>6. Narrowed(h, t)
        BY <1>1, <2>3, <2>4, <2>5, NumbersAssumption DEF Narrowed, Searching
    <2> QED BY <1>3, <2>2, <2>5, <2>6
<1>4. CASE ~fits
    <2>1. t = [sizes |-> s.sizes, minimum |-> s.minimum, maximum |-> s.row - 1, best |-> s.best, row |-> s.row]
        BY <1>4 DEF Tried
    <2>2. s.minimum <= s.row /\ s.row <= s.maximum
        BY <1>1, <1>4, NumbersAssumption DEF Searching
    <2>3. t \in Searches
        BY <1>1, <2>1, <2>2, NumbersAssumption DEF Searches
    <2>4. ASSUME NEW r \in 1..MaxRows, r > s.row - 1 PROVE ~RequestFits(h, s.sizes[r])
        <3>1. s.row <= r
            BY <1>1, <2>4, NumbersAssumption
        <3> QED BY <1>1, <1>2, <1>4, <3>1
    <2>5. /\ t.sizes = s.sizes /\ t.row = s.row /\ t.best = s.best
          /\ t.minimum = s.minimum /\ t.maximum = s.row - 1
        BY <2>1
    <2>6. Narrowed(h, t)
        BY <1>1, <2>2, <2>4, <2>5, NumbersAssumption DEF Narrowed, Searching
    <2> QED BY <1>4, <2>3, <2>5, <2>6
<1> QED BY <1>3, <1>4

\* The search goes on from another limit.
LEMMA NextRow ==
    ASSUME NEW h, NEW t \in Searches, NEW row \in 1..MaxRows, Narrowed(h, t),
           \/ t.minimum <= row /\ row <= t.maximum
           \/ t.minimum = t.maximum + 1 /\ row = t.best
    PROVE  [t EXCEPT !.row = row] \in Searches /\ Searching(h, [t EXCEPT !.row = row])
<1> DEFINE n == [t EXCEPT !.row = row]
<1>1. /\ n \in Searches /\ n.row = row /\ n.sizes = t.sizes /\ n.best = t.best
      /\ n.minimum = t.minimum /\ n.maximum = t.maximum
    BY DEF Searches
<1> HIDE DEF n
<1>2. Searching(h, n)
    BY <1>1 DEF Searching, Narrowed
<1> QED BY <1>1, <1>2 DEF n

LargestOf(h, sizes, rows) ==
    LET fitting == {r \in 1..MaxRows : RequestFits(h, sizes[r])}
    IN IF fitting = {} THEN rows = 1 ELSE rows \in fitting /\ \A r \in fitting : r <= rows

\* A search that is over ended on the most rows that fit.
LEMMA SearchOver ==
    ASSUME NEW h, NEW t \in Searches, Narrowed(h, t), t.minimum > t.maximum,
           NEW fits \in BOOLEAN, fits <=> RequestFits(h, t.sizes[t.row]), Kept(t, fits),
           IF fits THEN t.best = t.row ELSE t.maximum = t.row - 1
    PROVE  LargestOf(h, t.sizes, t.row)
<1>1. /\ t.minimum \in 1..(MaxRows + 1) /\ t.maximum \in 0..MaxRows /\ t.best \in 0..MaxRows
      /\ t.row \in 1..MaxRows
    BY DEF Searches
<1>2. t.minimum = t.maximum + 1 /\ t.best = t.maximum
    BY <1>1, NumbersAssumption DEF Narrowed
<1>3. CASE fits
    <2>1. \A r \in 1..MaxRows : RequestFits(h, t.sizes[r]) => r <= t.row
        BY <1>1, <1>2, <1>3, NumbersAssumption DEF Narrowed
    <2> QED BY <1>1, <1>3, <2>1 DEF LargestOf
<1>4. CASE ~fits
    <2>1. t.maximum = 0 /\ t.row = 1
        BY <1>1, <1>2, <1>4, NumbersAssumption DEF Kept
    <2>2. \A r \in 1..MaxRows : ~RequestFits(h, t.sizes[r])
        BY <2>1, NumbersAssumption DEF Narrowed
    <2> QED BY <2>1, <2>2 DEF LargestOf
<1> QED BY <1>3, <1>4

\* A turn of the loop keeps the search as it must be, or ends it with the
\* most rows that fit.
LEMMA FitRowsFacts ==
    ASSUME TypeOK, NEW h \in Hunts, FitRows(h), Searching(h, search[h])
    PROVE  /\ SearchTypes'
           /\ \A g \in Hunts \ {h} : search'[g] = search[g] /\ pc'[g] = pc[g]
           /\ pc'[h] = "fitting" => Searching(h, search'[h])
           /\ pc'[h] = "ready" =>
                /\ req'[h].size = search[h].sizes[req'[h].rows]
                /\ LargestOf(h, search[h].sizes, req'[h].rows)
<1>1. PICK s, fits, t :
        /\ s \in Searches /\ fits \in BOOLEAN /\ s = search[h]
        /\ (fits <=> RequestFits(h, s.sizes[s.row])) /\ t = Tried(s, fits)
        /\ \/ /\ ~(t.minimum > t.maximum) /\ UNCHANGED <<pc, req>>
              /\ search' = [search EXCEPT ![h] = [t EXCEPT !.row = (t.minimum + t.maximum) \div 2]]
           \/ /\ t.minimum > t.maximum /\ ~Kept(t, fits) /\ UNCHANGED <<pc, req>>
              /\ search' = [search EXCEPT ![h] = [t EXCEPT !.row = t.best]]
           \/ /\ t.minimum > t.maximum /\ Kept(t, fits)
              /\ Build(h, t.sizes[t.row], t.row, 1) /\ search' = [search EXCEPT ![h] = NoSearch]
    <2> DEFINE s == search[h]
               fits == RequestFits(h, s.sizes[s.row])
               t == Tried(s, fits)
    <2>1. s \in Searches
        BY DEF TypeOK
    <2>2. fits \in BOOLEAN
        BY DEF RequestFits
    <2>3. \/ /\ ~(t.minimum > t.maximum) /\ UNCHANGED <<pc, req>>
             /\ search' = [search EXCEPT ![h] = [t EXCEPT !.row = (t.minimum + t.maximum) \div 2]]
          \/ /\ t.minimum > t.maximum /\ ~Kept(t, fits) /\ UNCHANGED <<pc, req>>
             /\ search' = [search EXCEPT ![h] = [t EXCEPT !.row = t.best]]
          \/ /\ t.minimum > t.maximum /\ Kept(t, fits)
             /\ Build(h, t.sizes[t.row], t.row, 1) /\ search' = [search EXCEPT ![h] = NoSearch]
        BY DEF FitRows
    <2>4. (fits <=> RequestFits(h, s.sizes[s.row])) /\ t = Tried(s, fits) /\ s = search[h]
        OBVIOUS
    <2> HIDE DEF s, fits, t
    <2> QED BY <2>1, <2>2, <2>3, <2>4
<1>2. pc[h] = "fitting"
    BY DEF FitRows
<1>3. /\ t \in Searches /\ t.sizes = s.sizes /\ t.row = s.row /\ Narrowed(h, t)
      /\ IF fits THEN t.best = s.row ELSE t.maximum = s.row - 1
    BY <1>1, TriedFacts
<1>4. /\ t.minimum \in 1..(MaxRows + 1) /\ t.maximum \in 0..MaxRows /\ t.best \in 0..MaxRows
      /\ t.row \in 1..MaxRows /\ t.sizes[t.row] \in Nat
    BY <1>3 DEF Searches
<1>5. ASSUME NEW row \in 1..MaxRows, search' = [search EXCEPT ![h] = [t EXCEPT !.row = row]],
             UNCHANGED <<pc, req>>,
             \/ t.minimum <= row /\ row <= t.maximum
             \/ t.minimum = t.maximum + 1 /\ row = t.best
      PROVE  /\ SearchTypes' /\ pc'[h] = "fitting" /\ Searching(h, search'[h])
             /\ \A g \in Hunts \ {h} : search'[g] = search[g] /\ pc'[g] = pc[g]
    <2> DEFINE n == [t EXCEPT !.row = row]
    <2>1. n \in Searches /\ Searching(h, n)
        BY <1>3, <1>5, NextRow
    <2>2. search' = [search EXCEPT ![h] = n]
        BY <1>5
    <2> HIDE DEF n
    <2>3. search' \in [Hunts -> Searches] /\ search'[h] = n
        BY <2>1, <2>2 DEF TypeOK
    <2> QED BY <1>2, <1>5, <2>1, <2>2, <2>3 DEF TypeOK, SearchTypes
<1>6. CASE /\ ~(t.minimum > t.maximum) /\ UNCHANGED <<pc, req>>
           /\ search' = [search EXCEPT ![h] = [t EXCEPT !.row = (t.minimum + t.maximum) \div 2]]
    <2> DEFINE row == (t.minimum + t.maximum) \div 2
    <2>1. t.minimum \in Int /\ t.maximum \in Int /\ t.minimum <= t.maximum
        BY <1>4, <1>6, NumbersAssumption
    <2>2. row \in Int /\ t.minimum <= row /\ row <= t.maximum
        BY <2>1, Middle
    <2> HIDE DEF row
    <2>3. row \in 1..MaxRows
        BY <1>4, <2>2, NumbersAssumption
    <2>4. search' = [search EXCEPT ![h] = [t EXCEPT !.row = row]]
        BY <1>6 DEF row
    <2> QED BY <1>5, <1>6, <2>2, <2>3, <2>4
<1>7. CASE /\ t.minimum > t.maximum /\ ~Kept(t, fits) /\ UNCHANGED <<pc, req>>
           /\ search' = [search EXCEPT ![h] = [t EXCEPT !.row = t.best]]
    <2>1. t.best \in 1..MaxRows /\ t.minimum = t.maximum + 1
        BY <1>3, <1>4, <1>7, NumbersAssumption DEF Narrowed, Kept
    <2> QED BY <1>5, <1>7, <2>1
<1>8. CASE /\ t.minimum > t.maximum /\ Kept(t, fits)
           /\ Build(h, t.sizes[t.row], t.row, 1) /\ search' = [search EXCEPT ![h] = NoSearch]
    <2>1. SearchTypes' /\ \A g \in Hunts \ {h} : search'[g] = search[g]
        BY <1>8, NoSearchType DEF TypeOK, SearchTypes
    <2>2. pc'[h] \in {"idle", "ready"} /\ \A g \in Hunts \ {h} : pc'[g] = pc[g]
        <3>1. t.row \in 0..MaxRows
            BY <1>4
        <3> QED BY <1>4, <1>8, <3>1, BuildFacts
    <2>3. pc'[h] = "ready" => req'[h].size = t.sizes[t.row] /\ req'[h].rows = t.row
        BY <1>8 DEF Build, Return, TypeOK
    <2>4. LargestOf(h, t.sizes, t.row)
        BY <1>1, <1>3, <1>8, SearchOver
    <2> QED BY <1>1, <1>3, <2>1, <2>2, <2>3, <2>4
<1> QED BY <1>1, <1>6, <1>7, <1>8

\* A hunt whose request is being fitted is left alone by all other steps.
LEMMA OtherSearches ==
    ASSUME SearchInv, UNCHANGED search,
           \A h \in Hunts : pc'[h] = "fitting" =>
               pc[h] = "fitting" /\ counters'[h] = counters[h] /\ step'[h] = step[h]
    PROVE  SearchInv'
<1>1. ASSUME NEW h \in Hunts, pc'[h] = "fitting" PROVE Searching(h, search[h])'
    <2>1. \A size : RequestFits(h, size)' = RequestFits(h, size)
        BY <1>1 DEF RequestFits, Limits
    <2> QED BY <1>1, <2>1 DEF SearchInv, Searching
<1> QED BY <1>1 DEF SearchInv, SearchTypes

LEMMA SearchStep ==
    ASSUME TypeOK, SearchInv, [Next]_vars
    PROVE  SearchInv'
<1>1. ASSUME NEW h \in Hunts,
             \/ \E kind \in StepsOf[h] : BeginStep(h, kind)
             \/ RepairOnce(h) \/ CallRefused(h) \/ CallRefusedByAdapter(h) \/ Call(h)
             \/ GiveUp(h) \/ AnswerDropped(h) \/ Answer(h)
      PROVE  SearchInv'
    <2>1. /\ UNCHANGED search /\ pc'[h] # "fitting"
          /\ \A g \in Hunts \ {h} : pc'[g] = pc[g] /\ counters'[g] = counters[g] /\ step'[g] = step[g]
        BY <1>1 DEF BeginStep, RepairOnce, CallRefused, CallRefusedByAdapter, Call, GiveUp, AnswerDropped,
            Answer, Build, Return, RepairContract, RecordModelCall, TypeOK
    <2> QED BY <2>1, OtherSearches
<1>2. ASSUME NEW h \in Hunts, Run(h) PROVE SearchInv'
    <2>1. UNCHANGED <<counters, step>> /\ \A g \in Hunts \ {h} : pc'[g] = pc[g]
        BY <1>2 DEF Run, Build, Return, TypeOK
    <2>2. CASE pc'[h] # "fitting" /\ UNCHANGED search
        BY <2>1, <2>2, OtherSearches
    <2>3. CASE \E sizes \in SampleSizes : search' = [search EXCEPT ![h] = NewSearch(sizes)]
        <3>1. PICK sizes \in SampleSizes : search' = [search EXCEPT ![h] = NewSearch(sizes)]
            BY <2>3
        <3>2. NewSearch(sizes) \in Searches /\ Searching(h, NewSearch(sizes))
            BY NewSearchFacts
        <3>3. SearchTypes' /\ search'[h] = NewSearch(sizes) /\ \A g \in Hunts \ {h} : search'[g] = search[g]
            BY <3>1, <3>2 DEF TypeOK, SearchTypes
        <3>4. ASSUME NEW g \in Hunts, pc'[g] = "fitting" PROVE Searching(g, search[g])'
            <4>1. \A size : RequestFits(g, size)' = RequestFits(g, size)
                BY <2>1 DEF RequestFits, Limits
            <4>2. Searching(g, search'[g])
                BY <2>1, <3>2, <3>3, <3>4 DEF SearchInv
            <4> QED BY <4>1, <4>2 DEF Searching
        <3> QED BY <3>3, <3>4 DEF SearchInv
    <2>4. \/ pc'[h] # "fitting" /\ UNCHANGED search
          \/ \E sizes \in SampleSizes : search' = [search EXCEPT ![h] = NewSearch(sizes)]
        BY <1>2 DEF Run, Build, Return, TypeOK
    <2> QED BY <2>2, <2>3, <2>4
<1>3. ASSUME NEW h \in Hunts, FitRows(h) PROVE SearchInv'
    <2>1. UNCHANGED <<counters, step>> /\ Searching(h, search[h])
        BY <1>3 DEF FitRows, SearchInv
    <2>2. /\ SearchTypes'
          /\ \A g \in Hunts \ {h} : search'[g] = search[g] /\ pc'[g] = pc[g]
          /\ pc'[h] = "fitting" => Searching(h, search'[h])
        BY <1>3, <2>1, FitRowsFacts
    <2>3. ASSUME NEW g \in Hunts, pc'[g] = "fitting" PROVE Searching(g, search[g])'
        <3>1. \A size : RequestFits(g, size)' = RequestFits(g, size)
            BY <2>1 DEF RequestFits, Limits
        <3>2. Searching(g, search'[g])
            BY <2>2, <2>3 DEF SearchInv
        <3> QED BY <3>1, <3>2 DEF Searching
    <2> QED BY <2>2, <2>3 DEF SearchInv
<1>4. CASE \/ \E h \in Hunts : CancelHunt(h) \/ Expire(h)
           \/ \E c \in work : StartWork(c) \/ Send(c)
           \/ UNCHANGED vars
    <2>1. UNCHANGED <<counters, step, pc, search>>
        BY <1>4 DEF CancelHunt, Expire, StartWork, Send, vars
    <2> QED BY <2>1, OtherSearches
<1>5. CASE \/ \E c \in work : \E outcome \in {"answer", "error"} : EndWork(c, outcome)
           \/ Close \/ CloseClient
    <2>1. UNCHANGED <<counters, step, search>>
        BY <1>5 DEF EndWork, Close, CloseClient
    <2>2. \A h \in Hunts : pc'[h] = "fitting" => pc[h] = "fitting"
        BY <1>5 DEF EndWork, Close, CloseClient, ReturnAll, TypeOK
    <2> QED BY <2>1, <2>2, OtherSearches
<1> QED BY <1>1, <1>2, <1>3, <1>4, <1>5 DEF Next

-----------------------------------------------------------------------------
(* The inductive invariant and what follows from it.                       *)

GatewayInv == TypeOK /\ (\A h \in Hunts : HuntInv(h)) /\ WorkInv /\ SearchInv

LEMMA InitGateway == Init => GatewayInv
<1> SUFFICES ASSUME Init PROVE GatewayInv
    OBVIOUS
<1>1. TypeOK
    <2>1. Zero \in Counters /\ NoRequest \in RequestRecords
        BY NumbersAssumption DEF Zero, Counters, NoRequest, RequestRecords
    <2>2. [kind |-> "none", start |-> Zero] \in StepRecords
        BY <2>1 DEF StepRecords, Kinds
    <2>3. BudgetTypes
        BY <2>1, <2>2 DEF Init, BudgetTypes
    <2>4. AdapterTypes /\ SignalTypes
        <3>1. AdapterTypes
            BY DEF Init, AdapterTypes
        <3>2. cancelled \in [Hunts -> BOOLEAN]
            BY DEF Init
        <3>3. expired \in [Hunts -> 0..2]
            BY DEF Init
        <3> QED BY <3>1, <3>2, <3>3 DEF SignalTypes
    <2>5. SearchTypes
        BY NoSearchType DEF Init, SearchTypes
    <2> QED BY <2>3, <2>4, <2>5, TypeParts
<1>2. ASSUME NEW h \in Hunts PROVE HuntInv(h)
    <2>1. pc[h] = "idle" /\ step[h].kind = "none" /\ counters[h] = Zero
        BY DEF Init
    <2>2. Limits(h).calls = MaxCalls /\ Limits(h).input = MaxInput /\ Limits(h).output = MaxOutput
        BY <2>1 DEF Limits, Reserving
    <2> QED BY <2>1, <2>2, NumbersAssumption DEF HuntInv, Zero
<1>3. WorkInv
    BY DEF Init, WorkInv
<1>4. SearchInv
    BY <1>1 DEF Init, SearchInv, SearchTypes, TypeOK
<1> QED BY <1>1, <1>2, <1>3, <1>4 DEF GatewayInv

LEMMA NextGateway == GatewayInv /\ [Next]_vars => GatewayInv'
<1> SUFFICES ASSUME GatewayInv, [Next]_vars PROVE GatewayInv'
    OBVIOUS
<1>0. TypeOK /\ (\A h \in Hunts : HuntInv(h)) /\ WorkInv /\ SearchInv /\ SignalTypes
    BY TypeParts DEF GatewayInv
<1>1. SUFFICES BudgetInv' /\ (AdapterTypes /\ WorkInv)' /\ SignalTypes'
    <2>1. TypeOK' <=> (BudgetTypes /\ AdapterTypes /\ SignalTypes /\ SearchTypes)'
        BY TypeParts, PTL
    <2>2. SearchInv' /\ SearchTypes'
        BY <1>0, SearchStep DEF SearchInv
    <2> QED BY <1>1, <2>1, <2>2 DEF BudgetInv, GatewayInv
<1>2. ASSUME NEW h \in Hunts,
             \/ \E kind \in StepsOf[h] : BeginStep(h, kind)
             \/ Run(h) \/ FitRows(h) \/ RepairOnce(h)
             \/ CallRefused(h) \/ CallRefusedByAdapter(h)
             \/ AnswerDropped(h) \/ Answer(h)
      PROVE  BudgetInv' /\ (AdapterTypes /\ WorkInv)' /\ SignalTypes'
    <2>1. BudgetInv'
        <3>1. CASE \E kind \in StepsOf[h] : BeginStep(h, kind)
            BY <1>0, <3>1, BeginStepInv
        <3>2. CASE Run(h) \/ FitRows(h) \/ RepairOnce(h)
            BY <1>0, <3>2, RunInv
        <3>3. CASE CallRefused(h) \/ AnswerDropped(h)
            BY <1>0, <3>3, ReturnInv DEF CallRefused, AnswerDropped
        <3>4. CASE CallRefusedByAdapter(h)
            BY <1>0, <3>4, CallInv
        <3>5. CASE Answer(h)
            BY <1>0, <3>5, AnswerInv
        <3> QED BY <1>2, <3>1, <3>2, <3>3, <3>4, <3>5
    <2>2. UNCHANGED adapter /\ UNCHANGED signals
        BY <1>2 DEF BeginStep, Run, FitRows, RepairOnce, CallRefused, CallRefusedByAdapter, AnswerDropped, Answer
    <2>3. pc[h] # "waiting" /\ \A g \in Hunts \ {h} : pc'[g] = pc[g]
        BY <1>0, <1>2 DEF BeginStep, Run, FitRows, RepairOnce, CallRefused, CallRefusedByAdapter,
            AnswerDropped, Answer, Build, Return, RepairContract, TypeOK
    <2>4. (AdapterTypes /\ WorkInv)'
        BY <1>0, <2>2, <2>3, OtherCallerInv
    <2>5. SignalTypes'
        BY <1>0, <2>2 DEF signals, SignalTypes
    <2> QED BY <2>1, <2>4, <2>5
<1>3. ASSUME NEW h \in Hunts, Call(h) \/ GiveUp(h)
      PROVE  BudgetInv' /\ (AdapterTypes /\ WorkInv)' /\ SignalTypes'
    <2>1. SignalTypes'
        BY <1>0, <1>3 DEF Call, GiveUp, signals, SignalTypes
    <2>2. CASE Call(h)
        BY <1>0, <2>1, <2>2, CallInv, CallWork
    <2>3. CASE GiveUp(h)
        <3>1. BudgetInv'
            BY <1>0, <2>3, ReturnInv DEF GiveUp
        <3> QED BY <1>0, <2>1, <2>3, <3>1, GiveUpWork
    <2> QED BY <1>3, <2>2, <2>3
<1>4. ASSUME NEW h \in Hunts, CancelHunt(h) \/ Expire(h)
      PROVE  BudgetInv' /\ (AdapterTypes /\ WorkInv)' /\ SignalTypes'
    <2>1. UNCHANGED <<counters, step, req, pc, adapter>>
        BY <1>4 DEF CancelHunt, Expire
    <2>2. BudgetInv'
        BY <1>0, <2>1, QuietInv DEF TypeOK, RequestRecords
    <2>3. (AdapterTypes /\ WorkInv)'
        BY <1>0, <2>1, OtherCallerInv
    <2>4. SignalTypes'
        <3>1. CASE CancelHunt(h)
            BY <1>0, <3>1 DEF CancelHunt, SignalTypes
        <3>2. CASE Expire(h)
            <4>1. expired[h] + 1 \in 0..2
                BY <1>0, <3>2 DEF Expire, SignalTypes
            <4> QED BY <1>0, <3>2, <4>1 DEF Expire, SignalTypes
        <3> QED BY <1>4, <3>1, <3>2
    <2> QED BY <2>2, <2>3, <2>4
<1>5. ASSUME NEW c \in work, StartWork(c) \/ Send(c)
      PROVE  BudgetInv' /\ (AdapterTypes /\ WorkInv)' /\ SignalTypes'
    <2>1. UNCHANGED <<counters, step, req, pc, signals>>
        BY <1>5 DEF StartWork, Send
    <2>2. BudgetInv'
        BY <1>0, <2>1, QuietInv DEF TypeOK, RequestRecords
    <2> QED BY <1>0, <1>5, <2>1, <2>2, StageInv DEF signals, SignalTypes
<1>6. ASSUME NEW c \in work, NEW outcome \in {"answer", "error"}, EndWork(c, outcome)
      PROVE  BudgetInv' /\ (AdapterTypes /\ WorkInv)' /\ SignalTypes'
    BY <1>0, <1>6, EndWorkInv DEF EndWork, signals, SignalTypes
<1>7. CASE Close \/ CloseClient
    BY <1>0, <1>7, CloseInv DEF Close, CloseClient, signals, SignalTypes
<1>8. CASE UNCHANGED vars
    <2>1. UNCHANGED <<counters, step, req, pc, signals, adapter>>
        BY <1>8 DEF vars
    <2>2. BudgetInv'
        BY <1>0, <2>1, QuietInv DEF TypeOK, RequestRecords
    <2>3. (AdapterTypes /\ WorkInv)'
        BY <1>0, <2>1, OtherCallerInv
    <2> QED BY <1>0, <2>1, <2>2, <2>3 DEF signals, SignalTypes
<1> QED BY <1>2, <1>3, <1>4, <1>5, <1>6, <1>7, <1>8 DEF Next

\* The specification keeps the inductive invariant.
LEMMA GatewayInvariant == Spec => []GatewayInv
BY InitGateway, NextGateway, PTL DEF Spec

\* Every state has its type: no counter passes its budget.
THEOREM TypeCorrect == Spec => []TypeOK
BY GatewayInvariant, PTL DEF GatewayInv

\* Every request sent was counted before, within the hunt's limit of calls, and
\* one is outstanding for all hunts, however many of them share the adapter.
THEOREM CallsAreCounted == Spec => []RequestsCounted
<1>1. GatewayInv => RequestsCounted
    BY CounterTypes DEF GatewayInv, WorkInv, RequestsCounted
<1> QED BY <1>1, GatewayInvariant, PTL

\* Whatever repairs and follow-up calls a reserving step makes, a call and half
\* of the tokens are left for the final answer.
THEOREM AnswerHasReserve == Spec => []SynthesisReserve
<1>1. GatewayInv => SynthesisReserve
    <2> SUFFICES ASSUME GatewayInv, NEW h \in Hunts, step[h].kind \in Reserving
                 PROVE  /\ counters[h].calls < MaxCalls
                        /\ 2 * (MaxInput - counters[h].input) >= MaxInput - step[h].start.input
                        /\ 2 * (MaxOutput - counters[h].output) >= MaxOutput - step[h].start.output
        BY DEF SynthesisReserve
    <2> DEFINE in == step[h].start.input  out == step[h].start.output
    <2>1. TypeOK /\ HuntInv(h)
        BY DEF GatewayInv
    <2>2. in \in 0..MaxInput /\ out \in 0..MaxOutput
        BY <2>1 DEF TypeOK, Counters
    <2>3. /\ Limits(h).calls = MaxCalls - 1
          /\ Limits(h).input = in + (MaxInput - in) \div 2
          /\ Limits(h).output = out + (MaxOutput - out) \div 2
        BY DEF Limits
    <2> HIDE DEF in, out
    <2>4. 2 * ((MaxInput - in) \div 2) <= MaxInput - in /\ 2 * ((MaxOutput - out) \div 2) <= MaxOutput - out
        BY <2>2, NumbersAssumption
    <2> QED BY <2>1, <2>2, <2>3, <2>4, CounterTypes, NumbersAssumption DEF HuntInv, in, out
<1> QED BY <1>1, GatewayInvariant, PTL

\* The SDK client outlives the call that uses it, and goes with the adapter.
THEOREM ClientLasts == Spec => []ClientOutlivesCalls
<1>1. GatewayInv => ClientOutlivesCalls
    BY DEF GatewayInv, WorkInv, ClientOutlivesCalls
<1> QED BY <1>1, GatewayInvariant, PTL

\* However earlier calls shrank the budget and however requests grow with their
\* rows, the request that run's loop ends with holds the most rows that fit.
THEOREM SearchKeepsLargest == Spec => LargestSampleSent
<1>1. GatewayInv /\ [Next]_vars =>
        [\A h \in Hunts : pc[h] = "fitting" /\ pc'[h] = "ready" =>
            /\ req'[h].size = search[h].sizes[req'[h].rows]
            /\ LargestOf(h, search[h].sizes, req'[h].rows)]_vars
    <2> SUFFICES ASSUME GatewayInv, Next, NEW h \in Hunts, pc[h] = "fitting", pc'[h] = "ready"
                 PROVE  /\ req'[h].size = search[h].sizes[req'[h].rows]
                        /\ LargestOf(h, search[h].sizes, req'[h].rows)
        OBVIOUS
    <2>1. TypeOK /\ WorkInv /\ Searching(h, search[h])
        BY DEF GatewayInv, SearchInv
    <2>2. FitRows(h)
        <3>1. CASE \E g \in Hunts : FitRows(g)
            <4>1. PICK g \in Hunts : FitRows(g)
                BY <3>1
            <4>2. pc[g] = "fitting" /\ (g # h => pc'[h] = pc[h])
                BY <2>1, <4>1 DEF FitRows, Build, Return, TypeOK
            <4> QED BY <4>1, <4>2
        <3>2. CASE \E g \in Hunts :
                     \/ \E kind \in StepsOf[g] : BeginStep(g, kind)
                     \/ Run(g) \/ RepairOnce(g) \/ CallRefused(g) \/ CallRefusedByAdapter(g) \/ Call(g)
                     \/ GiveUp(g) \/ AnswerDropped(g) \/ Answer(g) \/ CancelHunt(g) \/ Expire(g)
            <4>1. PICK g \in Hunts :
                     \/ \E kind \in StepsOf[g] : BeginStep(g, kind)
                     \/ Run(g) \/ RepairOnce(g) \/ CallRefused(g) \/ CallRefusedByAdapter(g) \/ Call(g)
                     \/ GiveUp(g) \/ AnswerDropped(g) \/ Answer(g) \/ CancelHunt(g) \/ Expire(g)
                BY <3>2
            <4>2. pc[g] # "fitting" \/ UNCHANGED pc
                BY <4>1 DEF BeginStep, Run, RepairOnce, CallRefused, CallRefusedByAdapter, Call, GiveUp,
                    AnswerDropped, Answer, CancelHunt, Expire
            <4>3. pc'[h] = pc[h]
                BY <2>1, <4>1, <4>2 DEF BeginStep, Run, RepairOnce, CallRefused, CallRefusedByAdapter, Call, GiveUp,
                    AnswerDropped, Answer, CancelHunt, Expire, Build, Return, RepairContract, TypeOK
            <4> QED BY <4>3
        <3>3. CASE \/ \E c \in work : \/ StartWork(c) \/ Send(c)
                                     \/ \E outcome \in {"answer", "error"} : EndWork(c, outcome)
                   \/ Close \/ CloseClient
            <4>1. pc'[h] \in {pc[h], "idle", "answered"}
                BY <2>1, <3>3 DEF StartWork, Send, EndWork, Close, CloseClient, ReturnAll, TypeOK
            <4> QED BY <4>1
        <3> QED BY <3>1, <3>2, <3>3 DEF Next
    <2> QED BY <2>1, <2>2, FitRowsFacts
<1>2. LargestSampleSent <=>
        [][\A h \in Hunts : pc[h] = "fitting" /\ pc'[h] = "ready" =>
            /\ req'[h].size = search[h].sizes[req'[h].rows]
            /\ LargestOf(h, search[h].sizes, req'[h].rows)]_vars
    BY DEF LargestSampleSent, LargestOf
<1> QED BY <1>1, <1>2, GatewayInvariant, PTL DEF Spec
=============================================================================
