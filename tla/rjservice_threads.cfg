CONSTANTS
  Conn = {c1, c2}
  Fd = {f5, f6}
  AppThread = {a1}
  Svc = svc
  None = none
  SndBuf = 1
  MaxSend = 2
  MaxCalls = 1
  Unicast = TRUE
  Disciplined = FALSE
SPECIFICATION Spec
SYMMETRY Symm
INVARIANTS FdBookkeeping FaultNeedsDeparture DestroyedIsClean
CHECK_DEADLOCK FALSE
