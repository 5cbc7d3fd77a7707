SPECIFICATION FairSpec
CONSTANTS
  MaxRecords = 2
  GatewayMayFail = TRUE
  DbMayFail = TRUE
INVARIANTS
  MutexReleased
PROPERTIES
  StoredInOrder
  CleanupEnds
  QueuesAreEmptied
CHECK_DEADLOCK FALSE
