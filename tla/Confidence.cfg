SPECIFICATION Spec
CONSTANTS
    Symbols <- mcSymbols
    Windows <- mcWindows
    LastDay = 5
    MonthOf <- mcMonthOf
    CohortSize = 2
    MinSamples = 1
    MinBlocks <- mcMinBlocks
    MinCoverage = 50
    MaxScorings = 30
    MaxTraining = 7
    Unit = 50
    Slack = 0
    Baseline <- mcBaseline
    Tunable <- mcTunable
    Days <- mcDays
    Verdicts <- mcVerdicts
PROPERTIES EvidenceIsWhole ProposalsAreSafe
