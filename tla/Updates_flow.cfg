CONSTANTS
  Kinds = {"appimage", "nsis"}
  CheckTasks = {c1}
  Downloads = {t1}
  MaxRelease = 1
  MaxPassed = 1
  MaxFaults = 0
  MaxKills = 0
SPECIFICATION UpdatesSpec
PROPERTY UpdateSparesFlows
CHECK_DEADLOCK FALSE
