CONSTANTS
  Conn = {c1, c2}
  Fd = {f5, f6}
  AppThread = {}
  Svc = svc
  None = none
  SndBuf = 1
  MaxSend = 2
  MaxCalls = 2
  Unicast = FALSE
  Disciplined = TRUE
SPECIFICATION Spec
SYMMETRY Symm
INVARIANT AttachedAreClients
PROPERTY CloseOnlyFaulty
CHECK_DEADLOCK FALSE
