SPECIFICATION FairSpec
CONSTANTS
  SymbolCount = 2
  Limit = 1
  Managed = {1, 2}
  Lanes = {eps}
  Jobs = {j1, j2}
  Workers = {w1, w2}
  Scheduled = {w1}
  NoJob = NoJob
  MaxAborts = 1
  eps = eps
  j1 = j1
  j2 = j2
  w1 = w1
  w2 = w2
INVARIANTS
  TypeOK
  OneRunningJob
  CursorCountsPages
PROPERTIES
  ServesQueue
  NoStarvation
