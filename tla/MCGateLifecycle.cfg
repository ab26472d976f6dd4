SPECIFICATION Spec
CONSTANTS
  None = None
  Versions <- AllCandidates
  Base = "base"
  Capable <- AllCandidates
  Pqc <- TwoPqcVersions
  Release = FALSE
  Kinds <- ClientKinds
  MaxPid = 3
  MaxFaults = 2
INVARIANTS
  ApprovalIsSound
  PortIsOneServer
  RoutedIdentity
  CleanupStopsRecorded
CHECK_DEADLOCK FALSE
