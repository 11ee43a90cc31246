SPECIFICATION Spec
CONSTANTS
  Messages = {m1}
  Long = {}
  Size <- MCSize
  Threads = {t1}
  ForeignUses = {{"send"}}
  CallersKeep = TRUE
  Callbacks = {}
  HighWaterMark = 2
  MaxArrivals = 0
  None = None
INVARIANTS
  NoWriteAfterShutdown
CHECK_DEADLOCK FALSE
