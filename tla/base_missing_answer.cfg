CONSTANTS
  Calls <- TwoCalls
  Asks <- SomeAsks
  MaxSpeeds = 0
  QueueDepth = 1
  MaxTelemetry = 1
  MaxLosses = 1
  MaxStarts = 1
  PortFaults = {}
SPECIFICATION Spec
CHECK_DEADLOCK FALSE
INVARIANT
  HandlersReport
