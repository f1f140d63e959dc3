CONSTANTS
  Sessions = {s1, s2}
  NoParser = NoParser
  MaxPresses = 1
  NavFaults = {}
  SerialFaults = {}
SPECIFICATION Spec
CHECK_DEADLOCK FALSE
INVARIANT
  StoppedAtExit
