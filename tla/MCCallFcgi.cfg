CONSTANTS
  Calls <- MCCalls
  Protocol <- MCProtocol
  Proc = {p1, p2}
  Server = server
  Addr = addr
  NoAddr = noaddr
  Retries = 1
  MaxReq = 2
  MaxRec = 2
  PipeMax = 1
SPECIFICATION Spec
INVARIANTS TypeOK HandlersManaged AnswerOwn NoneWaitsInVain Released
PROPERTY Answered
CHECK_DEADLOCK FALSE
