SPECIFICATION Spec
CONSTANTS
    i1 = i1
    i2 = i2
    i3 = i3
    s1 = s1
    s2 = s2
    s3 = s3
    NoPairs = NoPairs
    Requests <- MCRequests
    Sites <- MCSites
    Internal = {i2}
    MaxItems = 2
    MaxSamples = 2
INVARIANTS
    ResultIsHonest
    NoSearchLeftRunning
