SPECIFICATION Spec
CONSTANTS
    c1 = c1
    c2 = c2
    w1 = w1
    w2 = w2
    Clients = {c1, c2}
    Workers = {w1}
    Nobody = Nobody
    EditsAlone = FALSE
    MaxEdits = 1
    MaxRedeploys = 0
    MaxCrashes = 0
    MaxGlitches = 0
    MaxFaults = 0
INVARIANT ExecutesApprovedPlan
CHECK_DEADLOCK FALSE
