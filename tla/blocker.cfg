CONSTANTS
  MaxSize = 8
  Sizes <- MCSizes
  MaxChunks = 10
SPECIFICATION Spec
INVARIANTS ChecksHold OutputAligned
CHECK_DEADLOCK FALSE
