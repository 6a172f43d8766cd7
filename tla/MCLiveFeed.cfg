CONSTANTS
  Peek = 2
  Amps = {0, 1}
  None = None
  MaxEvents = 4
  MaxOpens = 1
  MaxFaults = 1
SPECIFICATION FairSpec
INVARIANTS
  TypeOK
  SentInOrder
  MissedWasCovered
PROPERTIES
  KnockEnds
  GoneClientNoticed
CHECK_DEADLOCK FALSE
