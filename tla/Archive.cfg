SPECIFICATION FairSpec
CONSTANTS
    LastDate = 5
    Weekend = {3}
    Markets <- mcMarkets
    Symbols <- mcSymbols
    Report <- mcReport
    Known <- mcKnown
    Asked <- mcAsked
    RunDate = 5
    Span = 4
    MarketDays = 3
    MinStreak = 2
    FullHistory = 3
    Settings <- mcSettings
INVARIANTS ReadersSeeWholeReports
PROPERTIES ArchivingEnds
