CONSTANTS
  MaxId = 3
  n1 = n1
  n2 = n2
  n3 = n3
  h1 = h1
  NULL = NULL
  Nodes <- MCNodes
  Handles = {h1}
  IdLimit = 2
  UshrtMax = 2
  MaxSources = 3
  HoursPerDay = 3
  MaxZone = 1
  MaxDay = 1
  MaxNow = 2
  MaxSets = 1
  MaxAlarms = 1
  MaxSyncs = 2
  NtpTimeout = 1
  Second = 2
  UInt = 7
SPECIFICATION MCSpec
CHECK_DEADLOCK FALSE
INVARIANTS
  LoopSafe
  ListSound
  TinyLoopSound
  TimeSound
PROPERTIES
  LoopSteps
  SequenceSpec
