SPECIFICATION Spec
CONSTANTS
    w1 = w1
    w2 = w2
    Workers = {w1, w2}
    Nobody = Nobody
    MaxDraft = 1
    MaxIssued = 1
    MaxSearches = 2
    MaxCycles = 1
    MaxQueryRows = 1
    MaxRows = 1
    MaxCrashes = 0
    MaxErrors = 0
    MaxGlitches = 1
SYMMETRY Symmetric
INVARIANTS
    OneResultPerSearch
CHECK_DEADLOCK FALSE
