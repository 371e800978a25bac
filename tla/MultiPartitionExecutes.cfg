SPECIFICATION Spec
CONSTANTS
  NULL = NULL
  NotFound = NotFound
  Words <- MCWords
  Num <- MCNum
  FirstDb <- MCFirstDb
  NumWorkers = 2
  NumKeys = 8
  Packets <- RacePackets
  Garbage <- NoGarbage
  ReadBurst = 1
  MaxBursts = 1
  MaxSignals = 0
  FaultyOps = {}
PROPERTIES
  MultiPartitionExecutes
CHECK_DEADLOCK FALSE
