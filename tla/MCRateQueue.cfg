SPECIFICATION RqFairSpec
CONSTANTS
  NoSource = NoSource
  Source <- MCSource
  Hash <- MCHash
  MinSize = 2
  Unit = 3
  Confs <- MCConfs
  Retain = 1
  WarnRate = 2
  Lag = 1
  MaxReq = 4
  LastArrival = 2
  MaxClock = 12
  MaxHups = 1
INVARIANTS StoreAgrees
PROPERTIES BucketSpec Answered
CHECK_DEADLOCK FALSE
