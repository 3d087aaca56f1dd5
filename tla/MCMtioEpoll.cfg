SPECIFICATION FairSpec
CONSTANTS
  m1 = m1
  m2 = m2
  lone = lone
  NULL = NULL
  MainCtxt = MainCtxt
  Muth <- MCMuth
  Lone <- MCLone
  Fd <- MCFd
  BadFd <- MCBadFd
  Specs <- MCSpecs
  Timeouts <- MCTimeouts
  MaxNow = 2
  MaxCalls = 3
  MaxLoops = 2
INVARIANTS ListsAgree TimeoutsOrdered WalksSafe
PROPERTIES TimeoutsFire
CHECK_DEADLOCK FALSE
