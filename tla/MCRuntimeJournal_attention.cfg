SPECIFICATION FairSpec
CONSTANTS
  a = a
  b = b
  u = u
  v = v
  NoTurn = NoTurn
  Threads = {a, b}
  Turns = {}
  Shapes <- NoteShapes
  PoisonThreads = {a}
  Fingerprints = {e1}
  EffectsPerEvent = 1
  PageSize = 2
  RetainAccepted = 0
  ScanInterval = 1
  AttemptLimit = 2
  UpgradeBreaksRows = FALSE
  MaxEvents = 1
  MaxCrashes = 0
  MaxTransient = 1
PROPERTIES
  QuarantineBecomesVisible
CHECK_DEADLOCK FALSE
