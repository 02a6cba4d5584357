SPECIFICATION Spec
CONSTANTS
  a = a
  b = b
  u = u
  v = v
  NoTurn = NoTurn
  Threads = {a}
  Turns = {u, v}
  Shapes <- TurnShapes
  PoisonThreads = {a}
  Fingerprints = {e1, e2}
  EffectsPerEvent = 1
  PageSize = 1
  RetainAccepted = 1
  ScanInterval = 1
  AttemptLimit = 2
  UpgradeBreaksRows = FALSE
  MaxEvents = 3
  MaxCrashes = 0
  MaxTransient = 0
INVARIANTS
  RetentionKeeps
PROPERTIES
  QuarantineNeedsRepetition
SYMMETRY Interchangeable
