SPECIFICATION ISpec
CONSTANTS
  NumLcores = 5
  NumPorts = 2
  NumQueues = 1
  Enabled = {0, 1, 2, 3}
  MaxTuples = 2
  MaxQueues = 1
  MaxTxPorts = 2
  MaxWorkers = 2
  MaxRules = 1
  PortArgs = {0, 1, 2}
  QueueArgs = {0, 1}
  LcoreArgs = {0, 1, 2, 3, 4}
  MaxOptions = 5
  Width = 4
  ArraySize = 5
  MaxPos = 3
  RszArgs <- OddRings
  BszArgs <- OddBursts
  PosArgs = {3, 18}
  DefaultBursts <- BurstsOfTwo
  DefaultRings <- RingsOfFour
  DefaultPos = 1
  MaxIos = 2
  SocketOf <- LastFar
  MaxSockets = 2
  ShortWidth = 3
  DescLimits <- FirstShort
  Null = Null
INVARIANTS
  TypeOK
  OneReaderPerQueue
  OneSenderPerPort
  UnionIntact
  AnswersHaveASender
  BurstsFitArrays
  RingsConnect
  SingleEnds
  AnswersHaveARing
  PoolsThere
  AlgorithmicErrorsDead
PROPERTIES
  RolesStay
CHECK_DEADLOCK FALSE
