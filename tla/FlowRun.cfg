CONSTANTS
  psu = psu
  dmm = dmm
  Devices <- Supply
  Sources <- Supply
  SafeKnown <- SafeFirst
  NoOne = NoOne
  MaxSteps = 2
  MaxCleanup = 1
  MaxRuns = 2
  MaxContinues = 2
SPECIFICATION FairSpec
INVARIANTS SafeAfterFailure CleanupComplete PromptsNeedContinue
PROPERTIES OwnReadingCurrent AbortEndsRun
CHECK_DEADLOCK FALSE
