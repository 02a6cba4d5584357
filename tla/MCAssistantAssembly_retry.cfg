\* One transient failure of a dispatch or of the cursor transaction.
SPECIFICATION Spec
CONSTANTS
  a = a
  b = b
  Messages = {a, b}
  Scenarios <- RetryScenarios
  BufferLimit = 1
  MaxEvents = 6
INVARIANTS
  TranscriptFaithful
CHECK_DEADLOCK FALSE
