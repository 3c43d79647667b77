CONSTANTS
  MaxSock = 2
  Tries = 2
  MaxOps = 3
  CallbackSends = TRUE
SPECIFICATION FairSpec
INVARIANTS TypeOK NoCallbackAfterDetach  HandshakeFirst 
PROPERTIES NothingSwallowed   
CHECK_DEADLOCK FALSE
