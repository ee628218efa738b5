SPECIFICATION Spec
CONSTANTS
  Settings <- mcSettings
  s1 = s1
  s2 = s2
  w1 = w1
  w2 = w2
SYMMETRY mcSymmetry
INVARIANTS
  TypeOK
  CompletedIsFresh
PROPERTIES
  FreshIsReused
  OnlyImproves
