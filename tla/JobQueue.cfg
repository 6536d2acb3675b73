SPECIFICATION FairSpec
CONSTANTS
    h1 = h1
    h2 = h2
    w1 = w1
    w2 = w2
    Hunts = {h1, h2}
    Procs = {w1, w2}
    WorkerIdOf <- SharedId
    NoHunt = NoHunt
    NoProc = NoProc
    NoWorker = NoWorker
    MaxActiveHunts = 1
    Skew = 0
    MaxAttempts = 4
    MaxFaults = 2
INVARIANTS
    ExclusiveLease
    AdmissionBound
    NoRestartWithoutFault
PROPERTIES
    OnlyHolderDecides
    KeepsContract
    JobsSettle
    FencedWorkerReturns
