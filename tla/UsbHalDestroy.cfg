SPECIFICATION FairSpec
CONSTANTS
  Ports = {port0}
  Modes = {source}
  QueueSize = 2
  MaxEvents = 1
  MaxSpurious = 1
CHECK_DEADLOCK FALSE
PROPERTY DestroyEndsWorker
