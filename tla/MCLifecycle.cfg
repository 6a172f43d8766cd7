CONSTANTS
  d1 = d1
  Devices = {d1}
  Sending = {"telemetry", "config_reported"}
  StreamMaxLen = 1
  OnlineTtl = 1
  MaxMsgs = 2
  MaxFaults = 2
  MaxNow = 1
  MaxFailedBoots = 1
SPECIFICATION AppFairSpec
INVARIANTS
  HandlersHaveRedis
PROPERTIES
  ImplementsIngest
  QueueDrains
  Reconnects
  ShutdownCompletes
CHECK_DEADLOCK FALSE
