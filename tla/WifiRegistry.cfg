SPECIFICATION FairSpec
CONSTANTS
  Kinds = {"scan", "epno", "rtt"}
  MaxCmds = 3
  CmdSlots = 2
  CbSlots = 8
  MaxEvents = 2
  Sharing = FALSE
  Overlap = FALSE
CHECK_DEADLOCK FALSE
INVARIANTS
  NoUseAfterFree
  ReferencesCounted
  RunningIsHeard
PROPERTIES
  CleanupReturns
