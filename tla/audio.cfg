CONSTANTS
  Device = {builtin, hdmi, usb}
  Usb = {builtin, usb}
  BuiltIn = {builtin}
  Hdmi = {hdmi}
  Stream = {s1}
  None = none
  MaxInit = 1
  MaxEnv = 3
SPECIFICATION Spec
INVARIANTS InSync Routed
CHECK_DEADLOCK FALSE
