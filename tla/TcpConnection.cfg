SPECIFICATION DrainingSpec
CONSTANTS
  Messages = {m1, m2}
  Long = {m2}
  Size <- MCSize
  Threads = {}
  ForeignUses = {{}}
  CallersKeep = TRUE
  Callbacks = {"writeComplete", "highWater"}
  HighWaterMark = 2
  MaxArrivals = 1
  None = None
INVARIANTS
  TypeOK
  WriteInterest
  NoWriteAfterShutdown
PROPERTIES
  ImplementsPromise
  CloseCompletes
  Drains
CHECK_DEADLOCK FALSE
