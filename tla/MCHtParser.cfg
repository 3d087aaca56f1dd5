SPECIFICATION HtFairSpec
CONSTANTS
  Port <- MCPort
  Watch = "watch"
  Conn <- MCConn
  MaxSignals = 2
INVARIANTS HtTypeOK PortsServed PidTells
PROPERTIES Stops
CHECK_DEADLOCK FALSE
