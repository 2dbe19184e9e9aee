SPECIFICATION MCSpec
CONSTANTS
  Elements = {1, 2, 3, 4}
  Points <- Grid
  Origin <- Corner
  Metric <- L2
  Lm = 2
  EfConstruction = 3
INVARIANT FlagsFresh
PROPERTY KeepsReference
