CONSTANTS
  Calls <- TwoCalls
  Asks <- SomeAsks
  MaxSpeeds = 2
  QueueDepth = 1
  MaxTelemetry = 1
  MaxLosses = 1
  MaxStarts = 2
  PortFaults = {"open", "unplug"}
SPECIFICATION FairSpec
CHECK_DEADLOCK FALSE
INVARIANTS
  TypeOK
  VerdictIsTrue
  ColourAsAsked
PROPERTY
  NewestSpeedArrives
