\* One worker, which dies and comes back: no two work at once on a running hunt while
\* live workers keep their leases (AloneInv of HuntExecutionProofs).
SPECIFICATION FairSpec
CONSTANTS
    w1 = w1
    w2 = w2
    Workers = {w1}
    Nobody = Nobody
    MaxDraft = 2
    MaxIssued = 3
    MaxSearches = 2
    MaxCycles = 1
    MaxQueryRows = 1
    MaxRows = 1
    MaxCrashes = 1
    MaxErrors = 1
    MaxGlitches = 0
INVARIANTS
    NothingLeftOpen
    WithinLimits
PROPERTIES
    CheckpointsAdvance
    HuntEnds
CHECK_DEADLOCK FALSE
