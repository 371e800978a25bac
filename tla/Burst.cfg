SPECIFICATION Spec
CONSTANTS
  ArraySize = 6
  ReadBurst = 6
  MaxPackets = 14
INVARIANTS
  InOrder
  Complete
CHECK_DEADLOCK FALSE
