CONSTANTS
  s1 = s1
  s2 = s2
  p1 = p1
  p2 = p2
  d1 = d1
  None = None
  Slots = {s1}
  Patterns = {p1, p2}
  Devices = {d1}
  Flags = {TRUE}
  MaxRequests = 5
  MaxFaults = 2
SPECIFICATION Spec
PROPERTIES
  CatalogueSpec
CHECK_DEADLOCK FALSE
