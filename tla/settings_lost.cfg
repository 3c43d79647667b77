CONSTANTS
  t1 = t1
  t2 = t2
  brightness = brightness
  hdmi = hdmi
  Thread = {t1, t2}
  Setting = {brightness, hdmi}
  Value = {0, 1, 2, 20, 81}
  None = none
  Allowed <- MCAllowed
  Default <- MCDefault
  InitFile <- WithControl
  MaxColons = 2
  MaxCalls = 2
  DeviceFails = FALSE
  DiskFull = FALSE
  Crashes = TRUE
SPECIFICATION Spec
INVARIANT SavedAfterCrash
CHECK_DEADLOCK FALSE
