CONSTANTS
  d1 = d1
  d2 = d2
  Devices = {d1, d2}
  MaxLen = 4
  ReadFactor = 2
  Limits = {1, 2}
  BucketSizes = {1}
  MaxEvents = 3
  MaxTs = 0
SPECIFICATION Spec
SYMMETRY Symmetry
INVARIANTS
  WalkSeesAll
CHECK_DEADLOCK FALSE
