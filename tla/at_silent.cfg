CONSTANTS
  MaxRetries = 3
  MaxNoise = 3
  AdapterFaults = {"silent"}
SPECIFICATION FairSpec
CHECK_DEADLOCK FALSE
PROPERTY
  HandshakeTimesOut
