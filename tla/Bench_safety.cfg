CONSTANTS
  psu = psu
  dmm = dmm
  h1 = h1
  h2 = h2
  Putter = Putter
  Nobody = Nobody
  Ids <- TwoDevices
  Handlers <- TwoHandlers
  Tasks <- AllTasks
  Bases = {1, 2}
  LastPort = 2
  Lists <- FewLists
  Flows <- OneFlow
  MaxOps = 2
  MaxOthers = 1
  MaxRuns = 1
SYMMETRY Symmetry
SPECIFICATION Spec
INVARIANTS RunningIsSaved NoneParkedUnderRun ListenersFollow
CHECK_DEADLOCK FALSE
