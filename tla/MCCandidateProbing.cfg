SPECIFICATION Spec
CONSTANTS
  None = None
  Configs <- AllConfigs
INVARIANTS
  TypeOK
  ApprovedIsPqcOnly
  SecureIsNotRefused
CHECK_DEADLOCK FALSE
