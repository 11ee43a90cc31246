SPECIFICATION Spec
CONSTANTS
  Messages = {m1}
  Long = {}
  Size <- MCSize
  Threads = {t1}
  ForeignUses = {{"send"}, {"shutdown"}}
  CallersKeep = FALSE
  Callbacks = {}
  HighWaterMark = 2
  MaxArrivals = 0
  None = None
INVARIANTS
  CallArgumentsLive
CHECK_DEADLOCK FALSE
