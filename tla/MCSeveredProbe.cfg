SPECIFICATION Spec
CONSTANTS
  None = None
  Configs <- AllConfigs
INVARIANTS
  TransportFailureIsNoRefusal
CHECK_DEADLOCK FALSE
