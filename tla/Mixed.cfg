SPECIFICATION Spec
CONSTANTS
  NULL = NULL
  NotFound = NotFound
  Words <- MCWords
  Num <- MCNum
  FirstDb <- MCFirstDb
  NumWorkers = 1
  NumKeys = 8
  Packets <- MixedPackets
  Garbage <- NoGarbage
  ReadBurst = 1
  MaxBursts = 4
  MaxSignals = 1
  FaultyOps = {}
INVARIANTS
  SavepointsBackCount
PROPERTIES
  ImplementsAtomicShards
  HandlerReturns
CHECK_DEADLOCK FALSE
