CONSTANTS
  Axes <- TwoAxes
  Commands <- SomeCommands
  NoCommand = NoCommand
  MaxVelocity <- Most
  MinVelocity <- Least
  Deadband <- TurnDeadband
  Limits <- TwoLimits
  Timeout = 1
  Measured <- Push
  MaxChanges = 1
SPECIFICATION FairSpec
INVARIANT
  TypeOK
PROPERTIES
  NoJump
  SameDirection
  SilenceStops
  CommandReached
