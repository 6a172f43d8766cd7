CONSTANTS
  s1 = s1
  s2 = s2
  d1 = d1
  None = None
  Slots = {s1, s2}
  Devices = {d1}
  MaxRequests = 3
  MaxFaults = 1
SPECIFICATION FairSpec
INVARIANTS
  AnnouncedWasStored
  SettledAgrees
  IssuedWasTaken
  LastConnectedSucceeds
PROPERTIES
  OutboxSpec
  RequestsAnswered
CHECK_DEADLOCK FALSE
