SPECIFICATION FairSpec
CONSTANTS
  a = a
  b = b
  u = u
  v = v
  NoTurn = NoTurn
  Threads = {a, b}
  Turns = {}
  Shapes <- NoteShapes
  PoisonThreads = {a}
  Fingerprints = {e1}
  EffectsPerEvent = 1
  PageSize = 2
  RetainAccepted = 0
  ScanInterval = 1
  AttemptLimit = 2
  UpgradeBreaksRows = TRUE
  MaxEvents = 2
  MaxCrashes = 1
  MaxTransient = 0
PROPERTIES
  ClearEventsAccepted
CHECK_DEADLOCK FALSE
