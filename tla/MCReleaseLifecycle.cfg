SPECIFICATION Spec
CONSTANTS
  None = None
  Versions <- TwoVersions
  Base = "base"
  Capable <- TwoVersions
  Pqc <- OnePqcVersion
  Release = TRUE
  Kinds = {}
  MaxPid = 4
  MaxFaults = 1
INVARIANTS
  TypeOK
  RollbackTargetIsTrusted
  FilesAgree
PROPERTIES
  NeverBackToClassical
  ImplementsContract
  SessionsSurvive
CHECK_DEADLOCK FALSE
