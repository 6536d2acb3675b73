\* Two callers, the second with or without a ledger, two actions under one
\* key, requests lost and duplicated, and one database fault.
CONSTANTS
    c1 = c1
    c2 = c2
    Calls = {c1, c2}
    Actions = {"a1", "a2"}
    Digests = {"a1", "a2"}
    MaxDbFaults = 1
    Deliveries <- MCDeliveries
    Connectors <- MCConnectors
SPECIFICATION Spec
INVARIANTS
    SubmittedAtMostOnce
    RowNamesTheSearch
    LateRequestsRefused
CHECK_DEADLOCK FALSE
