SPECIFICATION Spec
CONSTANTS
    Events <- MCEvents
    Plan <- MCPlan
    Questions <- MCQuestions
    Proposals <- MCProposals
    NextQuestions <- MCNext
    MaxFollowUps = 1
    MaxSessions = 2
    PageMax = 1
    RowLimit = 2
    HuntRowLimit = 3
    MaxSearches = 2
    MaxCycles = 1
    MaxCalls = 3
    AssessLimit = 2
    SampleLimit = 2
    LookupLimit = 1
    TimelineLimit = 2
    EvidenceLimit = 2
    AppendixLimit = 1
    FindingTarget = 1
    MaxLimitations = 8
    MaxReportSize = 5
INVARIANTS
    NegativeFindingsSound
    LeadsAccounted
    ActivityAddsUp
    SampleBalanced
    DraftValidates
