SPECIFICATION FairSpec
CONSTANTS
  Ports = {port0, port1}
  Modes = {source}
  QueueSize = 2
  MaxEvents = 2
  MaxSpurious = 1
CHECK_DEADLOCK FALSE
INVARIANTS
  PartnerSignalKept
  SwitchUndisturbed
  ReportedIsCurrent
PROPERTY SwitchIsAnswered
