CONSTANTS
  s1 = s1
  p1 = p1
  p2 = p2
  u1 = u1
  Requests <- FourRequests
  KindOf <- FourKinds
  Stop = Stop
  MaxSilent = 2
SPECIFICATION Spec
SYMMETRY Parks
INVARIANTS PendingExact QuietWhileParked RegistryTruthful LastWordWins
PROPERTY KeepsContract
CHECK_DEADLOCK FALSE
