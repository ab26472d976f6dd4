SPECIFICATION Spec
CONSTANTS
  Roles <- TwoNodes
  None = None
  Torn = Torn
INVARIANTS
  TypeOK
  FileIsAhead
  SuccessIsHonest
PROPERTIES
  NobodyInterrupted
CHECK_DEADLOCK FALSE
