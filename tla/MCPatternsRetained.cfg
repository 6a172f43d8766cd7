CONSTANTS
  s1 = s1
  s2 = s2
  p1 = p1
  p2 = p2
  d1 = d1
  None = None
  Slots = {s1, s2}
  Patterns = {p1, p2}
  Devices = {d1}
  Flags = {TRUE}
  MaxRequests = 4
  MaxFaults = 0
SPECIFICATION Spec
INVARIANTS
  RetainedIsActive
CHECK_DEADLOCK FALSE
