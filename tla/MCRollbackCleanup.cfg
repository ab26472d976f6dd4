SPECIFICATION Spec
CONSTANTS
  None = None
  Versions <- TwoVersions
  Base = "base"
  Capable <- TwoVersions
  Pqc <- OnePqcVersion
  Release = TRUE
  Kinds = {}
  MaxPid = 4
  MaxFaults = 0
INVARIANT CleanupStopsEveryServer
CHECK_DEADLOCK FALSE
