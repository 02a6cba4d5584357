SPECIFICATION Spec
CONSTANTS
  a = a
  b = b
  u = u
  v = v
  NoTurn = NoTurn
  Threads = {a, b}
  Turns = {}
  Shapes <- NoteShapes
  PoisonThreads = {a}
  Fingerprints = {e1}
  EffectsPerEvent = 2
  PageSize = 1
  RetainAccepted = 1
  ScanInterval = 1
  AttemptLimit = 2
  UpgradeBreaksRows = FALSE
  MaxEvents = 3
  MaxCrashes = 1
  MaxTransient = 1
INVARIANTS
  TypeOK
  PendingRowsKept
  EffectsFaithful
  FailureIsAtHead
  CurrentIsHead
PROPERTIES
  QuarantineHolds
  OrderedSpec
