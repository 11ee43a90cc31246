SPECIFICATION FairSpec
CONSTANTS
  MaxThreads = 2
  MaxConns = 3
  Descriptors = 2
INVARIANTS
  TypeOK
  FunctorsAtHome
  PollersPointAtLive
  DestroyedOnce
  NoneLost
PROPERTIES
  ImplementsPromise
  ClosedIsReclaimed
  WaitingIsAccepted
  DestructionReleasesAll
CHECK_DEADLOCK FALSE
