SPECIFICATION FairSpec
CONSTANTS
  p1 = p1
  p2 = p2
  r1 = r1
  r2 = r2
  u = u
  None = None
  Clients <- MCClients
  Reqs <- MCReqs
  Users <- MCUsers
  UserOf <- MCUserOf
  MaxKid = 3
  MaxEvents = 4
  Room = 1
INVARIANTS Placed Known Decoupled
PROPERTIES Settled
CHECK_DEADLOCK FALSE
