SPECIFICATION FairSpec
CONSTANTS
  p = p
  c = c
  m1 = m1
  m2 = m2
  m3 = m3
  Threads = {p, c}
  Parent = p
  Messages = {m1, m2, m3}
  ThreadOf <- Where
  Scenarios <- Everything
  MaxLog = 14
INVARIANTS
  TypeOK
  StartedOnce
  OneDrain
  
PROPERTIES
  WithdrawnStaysUnsent
  OldestFirst
  QueueEmpties
CHECK_DEADLOCK FALSE
