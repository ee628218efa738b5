SPECIFICATION FairSpec
CONSTANTS
    c1 = c1
    c2 = c2
    Callers = {c1, c2}
    None = None
    NoData = NoData
    Settings <- mcSettings
INVARIANTS FinalIsClosing
PROPERTIES EventuallyComplete
