SPECIFICATION Spec
CONSTANTS
  Symbols = {s1, s2}
  Managed = {s1}
  Workers = {w1, w2}
  ContextSteps = {"refresh-full-margin"}
  OptionalSteps = {}
  MaxCalls = 7
  Served = {"prepare-universe", "refresh-full-margin", "refresh-ohlcv", "refresh-market-context", "run-scoring"}
  s1 = s1
  s2 = s2
  w1 = w1
  w2 = w2
SYMMETRY Symmetric
INVARIANTS
  ScoringStepsReadSelection
