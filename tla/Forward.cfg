SPECIFICATION TracksSpec
CONSTANTS
    Candidates = {c1}
    Workers = {k1}
    Stop = 2
    Ends = 3
    Settings <- mcSettings
    c1 = c1
    k1 = k1
    Symbols <- ruleSymbols
    Horizons <- ruleWindows
    Dates <- ruleDates
    MonthOf <- ruleMonthOf
    CohortSize = 2
    Cutoff = 1
    MinSamples = 1
    MinBlocks <- ruleMinBlocks
    MinCoverage = 50
    MaxCandidates = 4
    MaxGroup = 2
    ExcessSlack = 0
    DownsideSlack = 0
    Bucket <- ruleBucket
    Score <- ruleScore
    Pools <- rulePools
    Verdicts <- ruleVerdicts
    MaxRuns <- ruleMaxRuns
INVARIANTS OutcomesAreSound
PROPERTIES SettledStays EventuallySettled RulesReportIsSound
