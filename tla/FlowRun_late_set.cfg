CONSTANTS
  psu = psu
  dmm = dmm
  Devices <- Bench
  Sources <- Supply
  SafeKnown <- SafeFirst
  NoOne = NoOne
  MaxSteps = 2
  MaxCleanup = 1
  MaxRuns = 1
  MaxContinues = 2
SPECIFICATION Spec
INVARIANT FailedRunIsOff
CHECK_DEADLOCK FALSE
