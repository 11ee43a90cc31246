SPECIFICATION DrainingSpec
CONSTANTS
  Messages = {m1}
  Long = {m1}
  Size <- MCSize
  Threads = {}
  ForeignUses = {{}}
  CallersKeep = TRUE
  Callbacks = {}
  HighWaterMark = 2
  MaxArrivals = 0
  None = None
PROPERTIES
  ShutdownCompletes
CHECK_DEADLOCK FALSE
