\* Two loads, one after the other, of two clients that try two connections.
SPECIFICATION FairSpec
CONSTANTS
  Concurrency = 2
  MaxLoads = 2
  MaxTries = 2
  None = None
  Torn = Torn
INVARIANTS
  TypeOK
  LoadedIsReady
  CollectedIsComplete
  NoSilentLoss
  CleanupEndsLoad
PROPERTY
  EveryLoadEnds
CHECK_DEADLOCK FALSE
