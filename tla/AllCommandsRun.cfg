SPECIFICATION Spec
CONSTANTS
  NULL = NULL
  NotFound = NotFound
  Words <- MCWords
  Num <- MCNum
  FirstDb <- MCFirstDb
  NumWorkers = 1
  NumKeys = 8
  Packets <- TwoCommands
  Garbage <- NoGarbage
  ReadBurst = 1
  MaxBursts = 1
  MaxSignals = 0
  FaultyOps = {}
PROPERTIES
  AllCommandsRun
CHECK_DEADLOCK FALSE
