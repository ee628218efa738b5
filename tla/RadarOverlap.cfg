SPECIFICATION Spec
CONSTANTS
  Symbols = {s1, s2}
  Managed = {s1}
  Workers = {w1, w2}
  ContextSteps = {"refresh-full-margin"}
  OptionalSteps = {}
  MaxCalls = 4
  Served = {"prepare-universe", "refresh-full-margin", "refresh-ohlcv", "refresh-managed-raw-data", "run", "run-scoring", "refresh-market-context"}
  s1 = s1
  s2 = s2
  w1 = w1
  w2 = w2
SYMMETRY Symmetric
INVARIANTS
  PreparationStatusesKept
  OhlcvCompletionBacked
  PublishedRowsUsable
PROPERTIES
  LockedWritersKeepOthers
  CurrentRowsKept
