SPECIFICATION Spec
CONSTANTS
  Algorithms <- ThreeAlgorithms
  Classical = "EC"
  Required = "haetae2"
  Families <- TwoFamilies
  ClassicGroup = "X25519"
  Samples = 2
  MaxFaults = 2
INVARIANTS
  TypeOK
  OwnConnections
  ShareIsExact
  NoSilentFailover
  FailureHasCause
  FailClosedIsWitnessed
PROPERTIES
  Finishes
CHECK_DEADLOCK FALSE
