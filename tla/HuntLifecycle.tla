--------------------------- MODULE HuntLifecycle ---------------------------
(***************************************************************************)
(* The workflow states of a hunt and the moves between them                *)
(* (domain/state.py).  WorkflowService never consults this table: it       *)
(* writes hunts.state itself, and HuntWorkflow is checked against it.      *)
(***************************************************************************)
VARIABLE state

Terminal == {"finalized", "cancelled", "failed"}

ExplicitTransitions ==
    [ created              |-> {"discovering"},
      discovering          |-> {"plan_draft"},
      plan_draft           |-> {"awaiting_plan_review"},
      awaiting_plan_review |-> {"approved", "plan_draft"},
      approved             |-> {"queued", "plan_draft"},
      queued               |-> {"plan_draft", "running", "synthesizing"},
      running              |-> {"synthesizing", "paused"},
      paused               |-> {"queued"},
      synthesizing         |-> {"report_draft", "paused"},
      report_draft         |-> {"finalized"},
      finalized            |-> {},
      cancelled            |-> {},
      failed               |-> {} ]

States == DOMAIN ExplicitTransitions

\* ALLOWED_TRANSITIONS: cancellation leaves every non-terminal state, failure
\* every active one.
AllowedTransitions ==
    [s \in States |->
        ExplicitTransitions[s]
          \cup (IF s \notin Terminal THEN {"cancelled"} ELSE {})
          \cup (IF s \notin Terminal \cup {"created"} THEN {"failed"} ELSE {})]

Init == state = "created"

Next == \E t \in AllowedTransitions[state] : state' = t

Spec == Init /\ [][Next]_state
=============================================================================
