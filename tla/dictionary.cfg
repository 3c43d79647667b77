CONSTANTS
  k1 = k1
  k2 = k2
  k3 = k3
  Key = {k1, k2, k3}
  Val = {v1, v2}
  NULL = null
  Hash <- MCHash
  DICTMINSZ = 1
  MaxSize = 4
  MallocFails = TRUE
SPECIFICATION Spec
INVARIANTS TypeOK CountBounds NoOverrun OneSlotPerKey
 
CHECK_DEADLOCK FALSE
