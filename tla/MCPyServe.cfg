SPECIFICATION FairSpec
CONSTANTS
  MaxThreads = 2
  QSize = 1
  WaitLimit = 1
  CqMax = 1
  Mark = 2
  Bodies <- MCBodies
  Aborts = TRUE
  MaxReq = 3
INVARIANTS Accounted
PROPERTIES Served
CHECK_DEADLOCK FALSE
