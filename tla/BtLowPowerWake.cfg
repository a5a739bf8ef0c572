SPECIFICATION Spec
CONSTANTS
  Senders = {s1}
  PipeSize = 2
CHECK_DEADLOCK FALSE
INVARIANT WakeFlagIsTrue
