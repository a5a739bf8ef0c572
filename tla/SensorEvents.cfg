SPECIFICATION FairSpec
CONSTANTS
  Drivers <- Three
  Handles = {"acc", "motion", "detector", "wakeup"}
  RingSize = 2
  PollSize = 3
  PipeSize = 5
  MaxEvents = 3
  MaxCalls = 3
  Apart = TRUE
CHECK_DEADLOCK FALSE
INVARIANTS
  EventsInOrder
  SharesFit
  OneShotStaysArmed
PROPERTIES
  ReadersAreQueues
  FlushIsAnswered
