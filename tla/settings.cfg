CONSTANTS
  t1 = t1
  t2 = t2
  brightness = brightness
  hdmi = hdmi
  Thread = {t1, t2}
  Setting = {brightness, hdmi}
  Value = {0, 1, 2, 20, 81}
  None = none
  Allowed <- MCAllowed
  Default <- MCDefault
  InitFile <- WithControl
  MaxColons = 1
  MaxCalls = 2
  DeviceFails = TRUE
  DiskFull = TRUE
  Crashes = TRUE
SPECIFICATION FairSpec
INVARIANTS   ReadsWereSet
PROPERTIES   SetReturns
CHECK_DEADLOCK FALSE
