CONSTANTS
  Documents <- SmallDocuments
  Overrides <- SomeOverrides
  Bench <- TheBench
  MaxPoints = 3
SPECIFICATION Spec
INVARIANTS AcceptedFlowsRun UnarmedStaysOff
CHECK_DEADLOCK FALSE
