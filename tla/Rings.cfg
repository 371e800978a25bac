SPECIFICATION Spec
CONSTANTS
  io = io
  io2 = io2
  Ios <- TwoIos
  RingsIn <- RingsToAll
  NumWorkers = 2
  NumPorts = 1
  RxPorts <- RxByFirst
  TxPorts <- TxBySecond
  RxRead = 2
  RxWrite = 2
  WorkerRead = 2
  WorkerWrite = 2
  TxRead = 1
  TxWrite = 2
  RxRingRoom = 2
  TxRingRoom = 2
  ArraySize = 2
  IoFlush = 1
  WorkerFlush = 1
  Bytes = {0, 1}
  MaxPackets = 3
INVARIANTS
  TypeOK
  Conserved
  ArraysBounded
  InOrder
PROPERTIES
  Settles
