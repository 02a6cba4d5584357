\* Deltas of two items and every fault the assembly tolerates.  A behaviour ends
\* with its turn: the system stops.
SPECIFICATION Spec
CONSTANTS
  a = a
  b = b
  Messages = {a, b}
  Scenarios <- SoundScenarios
  BufferLimit = 1
  MaxEvents = 6
INVARIANTS
  TypeOK
  TranscriptFaithful
  NothingInLimbo
PROPERTIES
  CompletedTextIsFinal
CHECK_DEADLOCK FALSE
