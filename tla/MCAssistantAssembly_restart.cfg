\* One restart between the completion of an item and the end of its turn.
SPECIFICATION Spec
CONSTANTS
  a = a
  b = b
  Messages = {a, b}
  Scenarios <- RestartScenarios
  BufferLimit = 1
  MaxEvents = 6
PROPERTIES
  CompletedTextIsFinal
CHECK_DEADLOCK FALSE
