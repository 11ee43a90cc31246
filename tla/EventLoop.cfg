SPECIFICATION FairSpec
CONSTANTS
  Callers = {t1, t2}
  Functors = {f1, f2, f3}
INVARIANTS
  LoopInv
  NoLostWakeup
PROPERTIES
  ImplementsQueue
  FunctorsRun
  QuitEndsLoop
