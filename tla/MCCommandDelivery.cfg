SPECIFICATION FairSpec
CONSTANTS
  t1 = t1
  t2 = t2
  Threads = {t1, t2}
  Histories <- Commands
  TailRows = 3
  SafeRetryLimit = 2
  MaxEvents = 4
  MaxMishaps = 2
  MaxGrants = 1
INVARIANTS
  TypeOK
  SentAgainForCause
  CursorContiguous
PROPERTIES
  QuarantineSilences
  SkipsOnlyQuarantined
  OrderKept
  EventsSettle
CHECK_DEADLOCK FALSE
