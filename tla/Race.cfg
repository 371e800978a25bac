SPECIFICATION Spec
CONSTANTS
  NULL = NULL
  NotFound = NotFound
  Words <- MCWords
  Num <- MCNum
  FirstDb <- MCFirstDb
  NumWorkers = 2
  NumKeys = 8
  Packets <- RacePackets
  Garbage <- RaceGarbage
  ReadBurst = 1
  MaxBursts = 2
  MaxSignals = 0
  FaultyOps = {}
INVARIANTS
  TypeOK
  SavepointsBackCount
  NoTransactionLeftBehind
PROPERTIES
  AllOrNothing
  ImplementsAtomicShards
  SinglePacketReturns
CHECK_DEADLOCK FALSE
