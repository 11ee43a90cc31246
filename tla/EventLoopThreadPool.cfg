SPECIFICATION FairSpec
CONSTANTS
  numThreads_ = 3
  MaxPicks = 2
INVARIANTS
  TypeOK
  LoopsLive
  RoundRobin
  NoneLeftRunning
  StartWaitsForNews
PROPERTIES
  StartReturns
  JoinReturns
CHECK_DEADLOCK FALSE
