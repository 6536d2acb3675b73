---------------------------- MODULE ModelGateway ----------------------------
(***************************************************************************)
(* Model calls: a hunt's StrictModelRunner (services/orchestration.py),    *)
(* its budgets (domain/budgets.py) and the provider adapter all hunts of a *)
(* process share (integrations/models).  A caller that times out or is     *)
(* cancelled leaves; a call that already runs goes on in the adapter's one *)
(* thread.  A process lives until its adapter is closed: counters lost in  *)
(* a crash are HuntExecution's.  Prompts, schemas and answers are left     *)
(* out: a request is its size, an answer its usage and its verdict.        *)
(***************************************************************************)
EXTENDS Integers

CONSTANTS
    Hunts,
    StepsOf,          \* the kinds of steps a hunt takes in this process
    MaxCalls, MaxInput, MaxOutput, MaxOutputPerCall,   \* of BudgetLimits
    MaxContext,       \* max_context_characters
    MaxRows,          \* max_targeted_events
    FixedSizes,       \* sizes of requests built without a row limit
    SampleSizes,      \* size of a request by its row limit
    RepairSize        \* what an answer to repair adds to its request

ASSUME GatewayAssumption ==
    /\ {MaxCalls, MaxInput, MaxOutput, MaxOutputPerCall, MaxRows, RepairSize} \subseteq Nat \ {0}
    /\ MaxContext \in Nat
    /\ StepsOf \in [Hunts -> SUBSET {"draft", "round", "complete", "retrieve", "final"}]
    /\ FixedSizes \subseteq Nat
    /\ \A s \in SampleSizes : /\ s \in [1..MaxRows -> Nat]
                              /\ \A q, r \in 1..MaxRows : q <= r => s[q] <= s[r]

VARIABLES
    counters,   \* BudgetCounters: calls, input and output tokens
    step,       \* the hunt's step: kind, and the counters a reserving one began with
    req,        \* the request being made: size, row limit (0: none), attempt
    pc,         \* idle, fitting, ready, waiting or answered (its future is done)
    search,     \* run's search for a row limit: the request's size by row limit, the
                \* limits not yet tried, the best that fits (0: none), the one at hand
    cancelled, expired,   \* the hunt's token; how many of its deadlines have passed
    work,       \* the executor's unfinished calls: hunt, stage, whether its caller waits
                \* and whether it was counted
    closed,     \* adapter._closed
    release,    \* of close(): "open", "check" (after the lock), "callback", "released"
    client      \* whether the SDK client exists

adapter == <<work, closed, release, client>>
signals == <<cancelled, expired>>
vars == <<counters, step, req, pc, search, signals, adapter>>

Kinds == {"none", "draft", "round", "complete", "retrieve", "final"}
Phase(kind) ==
    CASE kind = "none" -> 0 [] kind = "draft" -> 1 [] kind = "round" -> 2 [] OTHER -> 3

Zero == [calls |-> 0, input |-> 0, output |-> 0]
NoRequest == [size |-> 0, rows |-> 0, attempt |-> 0]
NewSearch(sizes) ==
    [sizes |-> sizes, minimum |-> 1, maximum |-> MaxRows, best |-> 0, row |-> MaxRows]
NoSearch == NewSearch([r \in 1..MaxRows |-> 0])

Init ==
    /\ counters = [h \in Hunts |-> Zero]
    /\ step = [h \in Hunts |-> [kind |-> "none", start |-> Zero]]
    /\ req = [h \in Hunts |-> NoRequest]
    /\ pc = [h \in Hunts |-> "idle"]
    /\ search = [h \in Hunts |-> NoSearch]
    /\ cancelled = [h \in Hunts |-> FALSE] /\ expired = [h \in Hunts |-> 0]
    /\ work = {}
    /\ closed = FALSE /\ release = "open" /\ client = FALSE

Counters == [calls : 0..MaxCalls, input : 0..MaxInput, output : 0..MaxOutput]
Calls == [hunt : Hunts, stage : {"pending", "connecting", "sent"}, live : BOOLEAN, counted : BOOLEAN]
Searches == [sizes : [1..MaxRows -> Nat], minimum : 1..(MaxRows + 1), maximum : 0..MaxRows,
             best : 0..MaxRows, row : 1..MaxRows]

TypeOK ==
    /\ counters \in [Hunts -> Counters]
    /\ step \in [Hunts -> [kind : Kinds, start : Counters]]
    /\ req \in [Hunts -> [size : Nat, rows : 0..MaxRows, attempt : 0..2]]
    /\ pc \in [Hunts -> {"idle", "fitting", "ready", "waiting", "answered"}]
    /\ search \in [Hunts -> Searches]
    /\ cancelled \in [Hunts -> BOOLEAN] /\ expired \in [Hunts -> 0..2]
    /\ work \subseteq Calls
    /\ closed \in BOOLEAN /\ client \in BOOLEAN
    /\ release \in {"open", "check", "callback", "released"}

----------------------------------------------------------------------------
(* Steps and their limits (workflow.py). *)

\* Steps that keep capacity back for the final answer.
Reserving == {"round", "retrieve"}

\* Mutant: repairs and follow-ups may take the last call.
LimitsSharedCalls(h) ==
    LET start == step[h].start
        half(most, used) == IF step[h].kind \in Reserving THEN used + (most - used) \div 2 ELSE most
    IN [calls |-> MaxCalls, input |-> half(MaxInput, start.input), output |-> half(MaxOutput, start.output)]

\* A reserving step leaves one call and half of the tokens left at its start.
Limits(h) ==
    LET start == step[h].start
        half(most, used) == IF step[h].kind \in Reserving THEN used + (most - used) \div 2 ELSE most
    IN [calls  |-> IF step[h].kind \in Reserving THEN MaxCalls - 1 ELSE MaxCalls,
        input  |-> half(MaxInput, start.input),
        output |-> half(MaxOutput, start.output)]

RoundAllowed(h) == counters[h].calls + 1 < MaxCalls

\* allow_retrieval: the synthesis may ask for retained evidence.
RetrievalAllowed(h) ==
    /\ MaxCalls - counters[h].calls >= 3
    /\ MaxInput > counters[h].input /\ MaxOutput > counters[h].output
    /\ expired[h] = 0

\* The step's deadline has passed: a retrieval's is the hunt's less the time
\* kept for the final answer.
Late(h) == expired[h] >= (IF step[h].kind = "retrieve" THEN 1 ELSE 2)

\* The steps of an execution come in order; a complete request that could not
\* be sent is followed by a retrieval, a retrieval by a retrieval or the final
\* answer.
BeginStep(h, kind) ==
    /\ pc[h] = "idle"
    /\ Phase(kind) >= Phase(step[h].kind)
    /\ kind = "draft" => step[h].kind = "none"
    /\ kind = "round" => RoundAllowed(h)
    /\ kind \in {"complete", "retrieve"} => RetrievalAllowed(h) /\ step[h].kind # "final"
    /\ step' = [step EXCEPT ![h] = [kind |-> kind,
                                   start |-> IF kind \in Reserving THEN counters[h] ELSE Zero]]
    /\ req' = [req EXCEPT ![h] = NoRequest]
    /\ UNCHANGED <<counters, pc, search, signals, adapter>>

----------------------------------------------------------------------------
(* StrictModelRunner: building a request. *)

\* _request_fits: the context limit and the input tokens left.
RequestFits(h, size) ==
    /\ size <= MaxContext
    /\ size <= Limits(h).input - counters[h].input

OutputAllowance(h) ==
    LET left == Limits(h).output - counters[h].output
    IN IF left < MaxOutputPerCall THEN left ELSE MaxOutputPerCall

\* The caller has its answer or its error and goes on.
Return(h) ==
    /\ pc' = [pc EXCEPT ![h] = "idle"]
    /\ req' = [req EXCEPT ![h] = NoRequest]

Build(h, size, rows, attempt) ==
    IF OutputAllowance(h) <= 0
    THEN Return(h)
    ELSE /\ pc' = [pc EXCEPT ![h] = "ready"]
         /\ req' = [req EXCEPT ![h] = [size |-> size, rows |-> rows, attempt |-> attempt]]

\* run: only synthesis steps fit their evidence to the request.
Synthesizing(h) == step[h].kind \in {"retrieve", "final"}

Run(h) ==
    /\ pc[h] = "idle" /\ step[h].kind # "none"
    /\ \/ ~Synthesizing(h) /\ UNCHANGED search
          /\ \E size \in FixedSizes : Build(h, size, 0, 1)
       \/ Synthesizing(h) /\ OutputAllowance(h) <= 0 /\ Return(h) /\ UNCHANGED search
       \/ Synthesizing(h) /\ OutputAllowance(h) > 0 /\ UNCHANGED req
          /\ pc' = [pc EXCEPT ![h] = "fitting"]
          /\ \E sizes \in SampleSizes : search' = [search EXCEPT ![h] = NewSearch(sizes)]
    /\ UNCHANGED <<counters, step, signals, adapter>>

\* What is left to try once it is known whether the limit at hand fits.
Tried(s, fits) ==
    [sizes   |-> s.sizes,
     minimum |-> IF fits THEN s.row + 1 ELSE s.minimum,
     maximum |-> IF fits THEN s.maximum ELSE s.row - 1,
     best    |-> IF fits THEN s.row ELSE s.best,
     row     |-> s.row]

\* Mutant: a search that ends on a limit that does not fit keeps it.
KeptLast(t, fits) == TRUE

\* The search that is over keeps the request at hand when it fits or none did.
Kept(t, fits) == fits \/ t.best = 0

\* One turn of run's loop: the request for the row limit at hand is built and
\* measured, then the middle of the limits left is tried; at the end, the best
\* is built again unless it is at hand.
FitRows(h) ==
    /\ pc[h] = "fitting"
    /\ LET fits == RequestFits(h, search[h].sizes[search[h].row])
           t == Tried(search[h], fits)
           over == t.minimum > t.maximum
           tryRow(row) == search' = [search EXCEPT ![h] = [t EXCEPT !.row = row]] /\ UNCHANGED <<pc, req>>
       IN \/ ~over /\ tryRow((t.minimum + t.maximum) \div 2)
          \/ over /\ ~Kept(t, fits) /\ tryRow(t.best)
          \/ over /\ Kept(t, fits) /\ Build(h, t.sizes[t.row], t.row, 1)
                  /\ search' = [search EXCEPT ![h] = NoSearch]
    /\ UNCHANGED <<counters, step, signals, adapter>>

\* repair_once: the application rejected a valid answer; its request is final.
RepairOnce(h) ==
    /\ pc[h] = "idle" /\ step[h].kind \in {"draft", "round"}
    /\ counters[h].calls > 0
    /\ \E size \in FixedSizes : Build(h, size + RepairSize, 0, 2)
    /\ UNCHANGED <<counters, step, search, signals, adapter>>

----------------------------------------------------------------------------
(* _call and _bounded_call. *)

Refused(h) ==
    \/ cancelled[h] \/ Late(h)
    \/ counters[h].calls >= Limits(h).calls
    \/ ~RequestFits(h, req[h].size)

CallRefused(h) ==
    /\ pc[h] = "ready" /\ Refused(h)
    /\ Return(h)
    /\ UNCHANGED <<counters, step, search, signals, adapter>>

\* Mutant: a call is counted once it is answered.
RecordModelCallLater(h) == counters

\* record_model_call, before the adapter is called.
RecordModelCall(h) == [counters EXCEPT ![h].calls = @ + 1]

\* The adapter is closed, or an earlier call, even an abandoned one, still runs.
Occupied == closed \/ work # {}

\* A counted call that the adapter does not admit is lost to the budget.
CallRefusedByAdapter(h) ==
    /\ pc[h] = "ready" /\ ~Refused(h) /\ Occupied
    /\ counters' = RecordModelCall(h)
    /\ Return(h)
    /\ UNCHANGED <<step, search, signals, adapter>>

Call(h) ==
    /\ pc[h] = "ready" /\ ~Refused(h) /\ ~Occupied
    /\ counters' = RecordModelCall(h)
    /\ work' = work \cup {[hunt |-> h, stage |-> "pending", live |-> TRUE,
                           counted |-> counters'[h].calls > counters[h].calls]}
    /\ pc' = [pc EXCEPT ![h] = "waiting"]
    /\ UNCHANGED <<step, req, search, signals, closed, release, client>>

\* The caller stops waiting: its token is set, its deadline or the call's
\* timeout has passed.  A pending call is cancelled, a running one goes on.
GiveUp(h) ==
    /\ pc[h] = "waiting"
    /\ LET mine == {c \in work : c.hunt = h /\ c.live}
           running == {c \in mine : c.stage # "pending"}
       IN work' = (work \ mine) \cup {[c EXCEPT !.live = FALSE] : c \in running}
    /\ Return(h)
    /\ UNCHANGED <<counters, step, search, signals, closed, release, client>>

\* The answer was returned, but the hunt was cancelled meanwhile: no usage is
\* recorded.
AnswerDropped(h) ==
    /\ pc[h] = "answered" /\ cancelled[h]
    /\ Return(h)
    /\ UNCHANGED <<counters, step, search, signals, adapter>>

\* The usage an answer reports: unknown (zero), or at most what was asked for,
\* since the provider keeps to the allowed output and a request's size bounds
\* its input tokens.
Usages(h) == {[input |-> 0, output |-> 0],
              [input |-> req[h].size, output |-> OutputAllowance(h)]}

\* run's second attempt, after an answer that does not satisfy its contract:
\* the request is sent again with the answer, if output is left for it.
RepairContract(h, outputUsed) ==
    /\ req[h].attempt = 1 /\ ~Late(h)
    /\ IF Limits(h).output - counters[h].output - outputUsed <= 0
       THEN Return(h)
       ELSE /\ pc' = [pc EXCEPT ![h] = "ready"]
            /\ req' = [req EXCEPT ![h].size = @ + RepairSize, ![h].attempt = 2]

\* The answer's usage is recorded whatever becomes of it.  It is an error when
\* it is late, a refusal, cut off or over the budget.
Answer(h) ==
    /\ pc[h] = "answered" /\ ~cancelled[h]
    /\ \E usage \in Usages(h) :
         /\ counters' = [counters EXCEPT ![h].input = @ + usage.input, ![h].output = @ + usage.output]
         /\ \/ Return(h)        \* an error, or an accepted answer
            \/ RepairContract(h, usage.output)
    /\ UNCHANGED <<step, search, signals, adapter>>

----------------------------------------------------------------------------
(* The adapter's thread, close(), and the hunt's signals. *)

\* The call moves to another stage.
At(c, stage) == work' = (work \ {c}) \cup {[c EXCEPT !.stage = stage]}

\* The thread takes a call when it runs none.
StartWork(c) ==
    /\ \A d \in work : d.stage = "pending"
    /\ At(c, "connecting")
    /\ UNCHANGED <<counters, step, req, pc, search, signals, closed, release, client>>

\* The client is made when it is first needed.
Send(c) ==
    /\ c.stage = "connecting"
    /\ At(c, "sent")
    /\ client' = TRUE
    /\ UNCHANGED <<counters, step, req, pc, search, signals, closed, release>>

\* The calls of hunts whose future failed return to their caller.
ReturnAll(hunts) ==
    /\ pc' = [h \in Hunts |-> IF h \in hunts THEN "idle" ELSE pc[h]]
    /\ req' = [h \in Hunts |-> IF h \in hunts THEN NoRequest ELSE req[h]]

\* The thread's call ends, and with it the future: close's callback runs.  The
\* provider's errors are normalized; no usage is recorded for them.
EndWork(c, outcome) ==
    /\ c.stage # "pending"
    /\ outcome = "answer" => c.stage = "sent"
    /\ work' = work \ {c}
    /\ \/ ~c.live /\ UNCHANGED <<pc, req>>
       \/ c.live /\ outcome = "answer" /\ pc' = [pc EXCEPT ![c.hunt] = "answered"] /\ UNCHANGED req
       \/ c.live /\ outcome = "error" /\ ReturnAll({c.hunt})
    /\ IF release = "callback"
       THEN release' = "released" /\ client' = FALSE
       ELSE UNCHANGED <<release, client>>
    /\ UNCHANGED <<counters, step, search, signals, closed>>

\* close, under the lock: pending calls are cancelled.
Close ==
    /\ ~closed
    /\ closed' = TRUE /\ release' = "check"
    /\ LET pending == {c \in work : c.stage = "pending"}
       IN /\ work' = work \ pending
          /\ ReturnAll({c.hunt : c \in pending})
    /\ UNCHANGED <<counters, step, search, signals, client>>

\* Mutant: the client is closed at once.
CloseClientNow ==
    /\ release = "check"
    /\ release' = "released" /\ client' = FALSE
    /\ UNCHANGED <<counters, step, req, pc, search, signals, work, closed>>

\* close, after the lock: the client goes now or when the running call ends.
CloseClient ==
    /\ release = "check"
    /\ IF work # {}
       THEN release' = "callback" /\ UNCHANGED client
       ELSE release' = "released" /\ client' = FALSE
    /\ UNCHANGED <<counters, step, req, pc, search, signals, work, closed>>

CancelHunt(h) ==
    /\ step[h].kind # "none" /\ ~cancelled[h]
    /\ cancelled' = [cancelled EXCEPT ![h] = TRUE]
    /\ UNCHANGED <<counters, step, req, pc, search, expired, adapter>>

\* The retrievals' deadline passes, then the hunt's.
Expire(h) ==
    /\ Phase(step[h].kind) > 1 /\ expired[h] < 2
    /\ expired' = [expired EXCEPT ![h] = @ + 1]
    /\ UNCHANGED <<counters, step, req, pc, search, cancelled, adapter>>

Next ==
    \/ \E h \in Hunts :
         \/ \E kind \in StepsOf[h] : BeginStep(h, kind)
         \/ Run(h) \/ FitRows(h) \/ RepairOnce(h)
         \/ CallRefused(h) \/ CallRefusedByAdapter(h) \/ Call(h)
         \/ GiveUp(h) \/ AnswerDropped(h) \/ Answer(h)
         \/ CancelHunt(h) \/ Expire(h)
    \/ \E c \in work :
         \/ StartWork(c) \/ Send(c)
         \/ \E outcome \in {"answer", "error"} : EndWork(c, outcome)
    \/ Close \/ CloseClient

Spec == Init /\ [][Next]_vars

----------------------------------------------------------------------------
(* Properties. *)

\* Every request sent to the provider was counted before, within the hunt's
\* call limit, and at most one is outstanding for all hunts, though callers
\* leave their calls behind ("model_calls counts every request sent to a
\* model, including requests that fail and repair attempts").
RequestsCounted ==
    /\ \A h \in Hunts : counters[h].calls <= MaxCalls
    /\ \A c, d \in work : c = d
    /\ \A c \in work : c.stage = "sent" => c.counted

\* A step that reserves capacity for the final answer leaves it, whatever
\* repairs and follow-up calls it made: a call and half of the tokens.
SynthesisReserve ==
    \A h \in Hunts : step[h].kind \in Reserving =>
        /\ counters[h].calls < MaxCalls
        /\ 2 * (MaxInput - counters[h].input) >= MaxInput - step[h].start.input
        /\ 2 * (MaxOutput - counters[h].output) >= MaxOutput - step[h].start.output

\* The SDK client outlives the call that uses it, abandoned or not, and a
\* closed adapter keeps none.
ClientOutlivesCalls ==
    /\ \A c \in work : c.stage = "sent" => client
    /\ release = "released" => ~client

\* The request a synthesis step makes holds the most rows that fit, whatever
\* earlier calls left of the budget and however the request grows with the
\* rows; when none fits it holds one, and _call refuses it.
LargestSampleSent ==
    [][\A h \in Hunts : pc[h] = "fitting" /\ pc'[h] = "ready" =>
         LET sizes == search[h].sizes
             fitting == {r \in 1..MaxRows : RequestFits(h, sizes[r])}
             rows == req'[h].rows
         IN /\ req'[h].size = sizes[rows]
            /\ IF fitting = {} THEN rows = 1 ELSE rows \in fitting /\ \A r \in fitting : r <= rows]_vars
=============================================================================
