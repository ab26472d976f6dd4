SPECIFICATION Spec
CONSTANTS
  Roles <- TwoNodes
  None = None
  Torn = Torn
INVARIANTS
  CleanupFindsAll
CHECK_DEADLOCK FALSE
