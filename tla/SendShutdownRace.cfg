SPECIFICATION Spec
CONSTANTS
  Messages = {m1}
  Long = {m1}
  Size <- MCSize
  Threads = {t1, t2}
  ForeignUses = {{"send", "shutdown"}}
  CallersKeep = TRUE
  Callbacks = {}
  HighWaterMark = 2
  MaxArrivals = 0
  None = None
INVARIANTS
  DestroyedClean
CHECK_DEADLOCK FALSE
