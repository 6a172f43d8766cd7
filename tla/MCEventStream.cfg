CONSTANTS
  d1 = d1
  d2 = d2
  Devices = {d1, d2}
  MaxLen = 2
  ReadFactor = 2
  Limits = {1, 2}
  BucketSizes = {1, 2}
  MaxEvents = 3
  MaxTs = 1
SPECIFICATION Spec
SYMMETRY Symmetry
INVARIANTS
  TypeOK
  PollingMissesOnlyTrimmed
  StatsAgreeWithQuery
  WalkAdvances
  LatestMissesOnlyBuried
CHECK_DEADLOCK FALSE
