CONSTANTS
  Conn = {c1, c2}
  Fd = {f5, f6}
  AppThread = {a1}
  Svc = svc
  None = none
  SndBuf = 1
  MaxSend = 1
  MaxCalls = 1
  Unicast = FALSE
  Disciplined = FALSE
SPECIFICATION FairSpec
PROPERTIES HungUpIsReaped BacklogServed SendReturns StopCompletesOnEvent
CHECK_DEADLOCK FALSE
