CONSTANTS
  h1 = h1
  h2 = h2
  volt = volt
  amp = amp
  Handlers <- TwoHandlers
  Signals = {volt}
  Interval <- Intervals
  MaxId = 2
  MaxTicks = 2
  MaxOps = 4
  Capacity = 1
SYMMETRY Symmetry
SPECIFICATION Spec
INVARIANTS SamplesBelong ClientFollows
PROPERTY StopIsFinal
CHECK_DEADLOCK FALSE
