CONSTANTS
  Sessions = {s1, s2}
  NoParser = NoParser
  MaxPresses = 2
  NavFaults = {"reject", "crash", "late"}
  SerialFaults = {"open", "io"}
SPECIFICATION FairSpec
CHECK_DEADLOCK FALSE
INVARIANTS
  TypeOK
  IInv
  DrivenBySession
  EveryTripRequested
  OneAtATime
  DockOnOwnVerdict
PROPERTIES
  ImplementsService
  RequestServed
  TripEnds
  ClosedPortEndsSession
