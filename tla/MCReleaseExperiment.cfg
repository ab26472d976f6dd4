SPECIFICATION Spec
CONSTANTS
  Expected = 100
  RequiredWindows = 2
  Consecutive = 2
  Objective = 10
  Load = 15
  MaxFaults = 1
INVARIANTS
  TypeOK
  PercentileIsExact
  FailureHasCause
PROPERTIES
  ImplementsContract
  FaultIsAnswered
CHECK_DEADLOCK FALSE
