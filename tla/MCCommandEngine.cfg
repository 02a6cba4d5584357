SPECIFICATION FairSpec
CONSTANTS
  stopCall = stopCall
  turnCall = turnCall
  turnAgain = turnAgain
  otherCall = otherCall
  stopId = stopId
  turnId = turnId
  otherId = otherId
  t = t
  u = u
  Calls = {stopCall, turnCall, turnAgain, otherCall}
  IdOf <- Identity
  LaneOf <- Lane
  ThreadOf <- Subject
  Workloads <- Sets
  Capacity = 2
  Reserve = 1
  MaxMishaps = 2
INVARIANTS
  TypeOK
  SummariesKept
PROPERTIES
  LedgerSpec
  BusInOrder
  EngineSettles
CHECK_DEADLOCK FALSE
