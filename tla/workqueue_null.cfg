CONSTANTS
  Customer = {c1, c2}
  Producer = producer
  Tags = {5}
  MaxItems = 2
  MaxMade = 4
  MallocFails = FALSE
  NULL = null
SPECIFICATION Spec
INVARIANT KeyNotNull
CHECK_DEADLOCK FALSE
