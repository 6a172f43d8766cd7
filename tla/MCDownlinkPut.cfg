CONSTANTS
  s1 = s1
  s2 = s2
  d1 = d1
  None = None
  Slots = {s1, s2}
  Devices = {d1}
  MaxRequests = 3
  MaxFaults = 0
SPECIFICATION Spec
INVARIANTS
  AnsweredPutWasPublished
CHECK_DEADLOCK FALSE
