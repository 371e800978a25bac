SPECIFICATION Spec
CONSTANTS
  NumWorkers = 2
  Chosen = 1
  Preload = 2
  RxRead = 2
  RxWrite = 2
  WorkerRead = 2
  WorkerWrite = 2
  TxRead = 1
  TxWrite = 2
  RingRoom = 7
  IoFlush = 1
  WorkerFlush = 1
  MaxLosses = 1
INVARIANTS
  LeaksOnce
PROPERTIES
  NeverMore
  KeepsRunning
  DriesUp
