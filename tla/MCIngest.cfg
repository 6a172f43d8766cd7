CONSTANTS
  d1 = d1
  d2 = d2
  Devices = {d1, d2}
  Sending = {"telemetry", "config_reported"}
  StreamMaxLen = 1
  OnlineTtl = 0
  MaxMsgs = 3
  MaxFaults = 2
  MaxNow = 2
SPECIFICATION Spec
SYMMETRY Symmetry
INVARIANTS
  TypeOK
  LogInSendOrder
  AppendedIsCurrent
  SnapshotOfLoggedEvent
  SnapshotLagExplained
  ReportedCoversLog
  RecentlyHeardIsOnline
PROPERTIES
  SnapshotMonotonic
  HistorySpec
CHECK_DEADLOCK FALSE
