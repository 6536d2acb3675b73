SPECIFICATION LoginSpec
CONSTANTS
    p1 = p1
    p2 = p2
    c1 = c1
    c2 = c2
    Account = Account
    Processes = {p1, p2}
    Clients = {c1, c2}
    MaxClientFailures = 2
    MaxAccountFailures = 3
    Window = 2
    SessionTtl = 2
    MaxTime = 4
    MaxTokens = 1
    MaxDeaths = 1
SYMMETRY Symmetric
INVARIANTS
    OverrunBounded
PROPERTIES
    BlockLasts
CHECK_DEADLOCK FALSE
