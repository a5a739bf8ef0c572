SPECIFICATION FairSpec
CONSTANTS
  Lengths = {1, 2, 3}
  MaxPackets = 2
  Base = 3
CHECK_DEADLOCK FALSE
INVARIANTS
  DeliveredInOrder
  FatalOnlyAtEof
PROPERTY ArrivedIsDelivered
