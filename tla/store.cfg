CONSTANTS
  MaxUpdates = 5
  QueueDepth = 2
  StoreFaults = {"open", "dump", "kill"}
SPECIFICATION FairSpec
CHECK_DEADLOCK FALSE
INVARIANTS
  TypeOK
  MarkerShowsSavedFile
PROPERTIES
  GoalsNeverGoBack
  NewestUpdateIsSaved
