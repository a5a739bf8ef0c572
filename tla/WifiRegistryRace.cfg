SPECIFICATION Spec
CONSTANTS
  Kinds = {"scan", "fullScan", "hotlist", "epno", "change", "anqpo", "rssi", "rtt"}
  MaxCmds = 3
  CmdSlots = 2
  CbSlots = 8
  MaxEvents = 2
  Sharing = FALSE
  Overlap = TRUE
CHECK_DEADLOCK FALSE
INVARIANT
  SavedHoldsReference
