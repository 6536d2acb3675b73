SPECIFICATION InvestigationSpec
CHECK_DEADLOCK FALSE
CONSTANTS
    Events <- MCEvents
    Plan <- MCPlan
    Questions <- MCQuestions
    Proposals <- MCProposals
    NextQuestions <- MCNext
    MaxFollowUps = 1
    MaxSessions = 2
    PageMax = 2
    RowLimit = 2
    HuntRowLimit = 4
    MaxSearches = 3
    MaxCycles = 2
    MaxCalls = 5
    AssessLimit = 2
    SampleLimit = 2
    LookupLimit = 1
    TimelineLimit = 2
    EvidenceLimit = 2
    AppendixLimit = 1
    FindingTarget = 1
    MaxLimitations = 8
    MaxReportSize = 5
INVARIANTS
    SkipsAreCurrent
    PagesCoverMatches
    ExcerptSpansTimeline
