CONSTANTS
  Sessions = {s1, s2}
  NoParser = NoParser
  MaxPresses = 2
  NavFaults = {"reject"}
  SerialFaults = {}
SPECIFICATION Spec
CHECK_DEADLOCK FALSE
INVARIANT
  DockOnlyAfterArrival
