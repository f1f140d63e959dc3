CONSTANTS
  MaxRetries = 3
  MaxNoise = 3
  AdapterFaults = {"error", "silent"}
SPECIFICATION FairSpec
CHECK_DEADLOCK FALSE
INVARIANTS
  TypeOK
  
PROPERTY
  HandshakeEnds
