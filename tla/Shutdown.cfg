SPECIFICATION Spec
CONSTANTS
  NULL = NULL
  NotFound = NotFound
  Words <- MCWords
  Num <- MCNum
  FirstDb <- MCFirstDb
  NumWorkers = 2
  NumKeys = 8
  Packets <- SignalPackets
  Garbage <- NoGarbage
  ReadBurst = 2
  MaxBursts = 1
  MaxSignals = 2
  FaultyOps <- SignalFaults
INVARIANTS
  SavepointsBackCount
PROPERTIES
  ImplementsAtomicShards
  StopsWhenNothingCounted
CHECK_DEADLOCK FALSE
