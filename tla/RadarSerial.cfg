SPECIFICATION Spec
CONSTANTS
  Symbols = {s1, s2}
  Managed = {s1}
  Workers = {w1}
  ContextSteps = {"refresh-full-margin"}
  OptionalSteps = {}
  MaxCalls = 7
  Served = {"prepare-universe", "refresh-full-margin", "refresh-ohlcv", "refresh-market-context", "refresh-managed-raw-data", "run-scoring"}
  s1 = s1
  s2 = s2
  w1 = w1
INVARIANTS TypeOK PreparedRowCoherent ScoringStepsReadSelection PublishedContextFresh
PROPERTIES OwnStatusOnly
