SPECIFICATION FairSpec
CONSTANTS
  r1 = r1
  r2 = r2
  None = None
  Reqs <- MCReqs
  Limit = 1
  Timeout = 1
  MaxFile = 2
  MaxEvents = 3
  Room = 1
INVARIANTS Carried LogOwned
PROPERTIES AllEnd FollowsChild
CHECK_DEADLOCK FALSE
