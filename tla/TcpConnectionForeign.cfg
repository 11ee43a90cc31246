SPECIFICATION FairSpec
CONSTANTS
  Messages = {m1, m2}
  Long = {m2}
  Size <- MCSize
  Threads = {t1}
  ForeignUses = {{"send"}, {"shutdown"}}
  CallersKeep = TRUE
  Callbacks = {"writeComplete"}
  HighWaterMark = 2
  MaxArrivals = 0
  None = None
INVARIANTS
  DestroyedClean
  WatchedWhileUp
  RemovalIsComing
PROPERTIES
  CloseCompletes
CHECK_DEADLOCK FALSE
