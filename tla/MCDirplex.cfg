SPECIFICATION Spec
CONSTANTS
  p1 = p1
  p2 = p2
  Fd <- MCFd
  Proc <- MCProc
  QueueMax = 1
  Big = {}
  Node <- MCNode
  Stem <- MCStem
  Dotted = {".h"}
  HtDir <- MCHtDir
  Htrc <- MCHtrc
  Start = {"v1", "v4"}
  Fixed <- MCFixed
  Requests <- MCRequests
  CheckAge = 0
  MaxTime = 2
  MaxEdits = 1
  MaxReq = 2
INVARIANTS SocketsOwned OneOutcome Fresh
PROPERTIES HeldAlive
CHECK_DEADLOCK FALSE
