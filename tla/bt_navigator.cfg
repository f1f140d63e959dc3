CONSTANTS
  Order <- Navigators
  MaxGoals = 3
  MaxActivations = 2
  MaxCancels = 1
SPECIFICATION FairSpec
CHECK_DEADLOCK FALSE
INVARIANTS
  TypeOK
  OneNavigatorUnlessLogged
  MuxerFreed
  StrandedByDeactivation
  GoalsFoundUnlessOverdue
  DeactivatedIsQuiet
PROPERTIES
  ImplementsGoalServer
  SucceededWasReached
  Heeded
  DeactivationEnds
