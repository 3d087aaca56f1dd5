SPECIFICATION Spec
CONSTANTS
  p1 = p1
  p2 = p2
  p3 = p3
  Fd <- MCFd
  Proc <- MCProc
  QueueMax = 1
  Big <- MCBig
  Confs <- MCConfs
  Global <- MCGlobal
  Requests <- MCRequests
  Text = {"a", "b"}
  Literal <- MCLiteral
  MaxReq = 3
  MaxHups = 2
INVARIANTS SocketsOwned OneAnswer BestMatch
PROPERTIES ChildrenKept
CHECK_DEADLOCK FALSE
