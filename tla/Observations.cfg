SPECIFICATION TracksSpec
CONSTANTS
    Funds = {1, 2, 3}
    Symbols = {1, 2}
    LastDay = 3
    EtfSettings <- mcEtfSettings
    MinSample = 2
    KeptNum = 1
    KeptDen = 2
    Stocks = {1, 2}
    Threads = {1, 2}
    ResearchSettings <- mcResearchSettings
INVARIANTS
    HoldingsAreEvidenced
    HoldingsReadsAgree
    VerdictsAreSound
PROPERTIES
    NothingIsLost
    EverythingIsObserved
