CONSTANTS
  Devices = {"api", "ack"}
  CommandIds = {"c1", "telemetry"}
  MaxMessages = 4
SPECIFICATION Spec
INVARIANTS
  AcksCorrelate
  RoutedAsSent
  ArrivingIsRouted
CHECK_DEADLOCK FALSE
