SPECIFICATION Spec
CONSTANTS
  NumWorkers = 2
  ClientText = 64
  ServerText = 1024
  Positions = {43}
  Bytes = {119}
  Stale = {0, 1}
INVARIANTS
  NamedShardOnly
CHECK_DEADLOCK FALSE
