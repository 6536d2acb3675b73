\* Two clients and two workers, one analyst edit, and one crash, lost lease,
\* database error or release.
SPECIFICATION FairSpec
CONSTANTS
    c1 = c1
    c2 = c2
    w1 = w1
    w2 = w2
    Clients = {c1, c2}
    Workers = {w1, w2}
    Nobody = Nobody
    EditsAlone = TRUE
    MaxEdits = 1
    MaxRedeploys = 1
    MaxCrashes = 1
    MaxGlitches = 1
    MaxFaults = 1
SYMMETRY ClientsAlike
INVARIANTS
    ExecutesApprovedPlan
    PdfMatchesReport
PROPERTIES
    FollowsLifecycle
    ReportNeverOverwritten
    QueuedHuntEnds
    CancelledJobEnds
CHECK_DEADLOCK FALSE
