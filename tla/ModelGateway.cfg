\* Two hunts of one process; requests of one to four units against a context
\* of three and an input budget of six, four row limits, four calls.
CONSTANTS
    h1 = h1
    h2 = h2
    Hunts = {h1, h2}
    StepsOf <- MCStepsOf
    MaxCalls = 4
    MaxInput = 6
    MaxOutput = 2
    MaxOutputPerCall = 2
    MaxContext = 3
    MaxRows = 4
    FixedSizes = {1}
    SampleSizes <- MCSampleSizes
    RepairSize = 1
SPECIFICATION Spec
INVARIANTS
    RequestsCounted
    SynthesisReserve
    ClientOutlivesCalls
PROPERTIES
    LargestSampleSent
CHECK_DEADLOCK FALSE
