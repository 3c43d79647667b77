CONSTANTS
  Customer = {c1, c2}
  Producer = producer
  Tags = {5, 100}
  MaxItems = 2
  MaxMade = 4
  MallocFails = TRUE
  NULL = null
SPECIFICATION FairSpec
INVARIANTS BooksBalance NotStalled
PROPERTIES  SignalEnds
CHECK_DEADLOCK FALSE
