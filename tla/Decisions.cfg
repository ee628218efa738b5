SPECIFICATION SubjectSpec
CHECK_DEADLOCK FALSE
CONSTANTS
    Loads <- mcLoads
    RunDay <- mcRunDay
    Groups <- mcGroups
    CandidateLimit = 1
    Lookback = 3
    Short = 2
    Long = 4
    Slope = 1
    Missing <- mcMissing
    Providers <- mcProviders
    TwseOnly <- mcTwseOnly
    Tapes <- mcTapes
    OneDayRows <- mcOneDayRows
    Histories <- mcHistories
    Levels <- mcLevels
    Ratios <- mcRatios
    RsiValues <- mcRsiValues
    Bands <- mcBands
INVARIANTS ScoresAreBacked SelectionAgrees PlansAreJustified
PROPERTIES WhatIfIsMonotone
