CONSTANTS
  Names = {"idn", "volt", "mode", "vset", "gone", "ch"}
  Keys = {"v"}
  Shadow = {"mode_"}
  Ops = {"voltage"}
  Statuses = {"VOUT"}
  Removed = Removed
  Null = Null
  Definitions <- AllDefinitions
  Transports <- AnyTransport
  TheContract <- Contract1
  MaxDepth = 4
  MaxSilent = 2
  MaxLine = 2
  MaxGarbled = 1
SPECIFICATION Spec
INVARIANTS DefinitionErrorsKnown OwnReadings SilenceCounted
