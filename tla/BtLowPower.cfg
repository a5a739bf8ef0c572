SPECIFICATION FairSpec
CONSTANTS
  Senders = {s1, s2}
  PipeSize = 2
CHECK_DEADLOCK FALSE
INVARIANTS
  ChangesReachSelect
  ZeroTimeoutNeverFires
PROPERTIES
  DataIsRead
  CloseReturns
