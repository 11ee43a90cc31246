SPECIFICATION FairSpec
CONSTANTS
  numThreads_ = 1
  MaxPicks = 0
PROPERTIES
  DestructorReturns
CHECK_DEADLOCK FALSE
