CONSTANTS
  i1 = i1
  i2 = i2
  i3 = i3
  p1 = p1
  p2 = p2
  l1 = l1
  l2 = l2
  e1 = e1
  e2 = e2
  a1 = a1
  a2 = a2
  d1 = d1
  d2 = d2
  d3 = d3
  keyA = keyA
  keyC = keyC
  url = url
  model = model
  None = None
  Empty = Empty
  Nothing = Nothing
  Kinds <- AllKinds
  CheckTasks = {c1}
  Downloads = {t1, t2}
  MaxRelease = 1
  MaxPassed = 1
  MaxFaults = 2
  MaxKills = 1
  Instruments = {i1, i2, i3}
  Paths = {p1, p2}
  Locations = {l1, l2}
  Entries = {e1, e2}
  Owners <- OwnersOfTwo
  ByPort <- NoneOrSecond
  Chip <- OneChip
  Serial <- OneSerial
  IdnSerial = {i1}
  Models <- EqualModels
  Probes <- TwoProbes
  Understands <- ProbesOf
  Known <- ProbesKnown
  MaxPlugs = 3
  Devices <- TwoDevices
  Units <- EightUnits
  Failures = {"timeout"}
  MaxErrors = 2
  MaxUnits = 2
  MaxConnections = 2
  Systems = {"linux", "macos", "windows", "other"}
  Arguments <- SomeArguments
  PutTasks = {a1, a2}
  MaxPuts = 3
  MaxMishaps = 2
  Docs = {d1, d2, d3}
  NameOf <- OneName
  Erroneous = {d3}
  Numbers = {1, 2}
  SaveTasks = {f1, f2}
  MaxSaves = 3
  MaxTrouble = 1
  Providers = {"anthropic", "custom"}
  Bodies <- SevenBodies
  For <- TypedFor
  Chats = {"chat"}
  Retries = 2
  MaxChanges = 4
  MaxBreaks = 1
  Clients = {"claude", "cursor"}
  Batches <- SixBatches
  MaxRuns = 2
  MaxSaved = 1
  Rows <- UpToFive
  MaxPoints = {2, 3, 4}
  Framings <- EightFramings
  Streams <- ShortStreams
  PrefixMax = 2
SYMMETRY Symmetry
SPECIFICATION Spec
INVARIANTS ProgramSurvives StagedIsWhole OwnInstrument OneConversation ParkedNotProbed
  ErrorsNotLost HelpIsTrue AnswersHold FlowsKept RequestsMatch RepliesWhole PeaksSurvive
PROPERTY ConfirmedMeansDone
CHECK_DEADLOCK FALSE
