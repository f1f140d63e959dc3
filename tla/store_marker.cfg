CONSTANTS
  MaxUpdates = 2
  QueueDepth = 2
  StoreFaults = {"open"}
SPECIFICATION Spec
CHECK_DEADLOCK FALSE
INVARIANT
  MarkerShowsFile
