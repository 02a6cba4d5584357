\* Two callers with two calls each contend for two places while a drain and a quiesce
\* or stop run at any step.  The clients may stop calling: the system may rest.
SPECIFICATION FairSpec
CONSTANTS
  p1 = p1
  p2 = p2
  d1 = d1
  c1 = c1
  Producers = {p1, p2}
  Drainers = {d1}
  Closers = {c1}
  Capacity = 2
  CallsEach = 2
  Interruptible = TRUE
INVARIANTS
  TypeOK
  NothingDropped
  OfferNeverSuspends
  DrainCovers
PROPERTIES
  WorkSpec
  CallersReturn
CHECK_DEADLOCK FALSE
