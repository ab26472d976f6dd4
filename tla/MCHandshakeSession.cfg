SPECIFICATION Spec
CONSTANTS
  Count = 3
  Sessions = 3
  MaxFaults = 3
INVARIANTS
  TypeOK
  RowsPair
  CleanupEndsServers
  FailureHasCause
PROPERTIES
  EveryServerEnds
CHECK_DEADLOCK FALSE
