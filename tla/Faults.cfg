SPECIFICATION Spec
CONSTANTS
  NULL = NULL
  NotFound = NotFound
  Words <- MCWords
  Num <- MCNum
  FirstDb <- MCFirstDb
  NumWorkers = 1
  NumKeys = 8
  Packets <- FaultPackets
  Garbage <- NoGarbage
  ReadBurst = 1
  MaxBursts = 3
  MaxSignals = 0
  FaultyOps <- AllFaults
INVARIANTS
  ExactCounts
  NoTransactionLeftBehind
PROPERTIES
  AllOrNothing
  HandlerReturns
CHECK_DEADLOCK FALSE
