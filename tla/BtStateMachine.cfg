SPECIFICATION FairSpec
CONSTANTS
  Clients = {c1, c2}
  Threads = {t1, t2}
  None = None
  MaxCalls = 3
CHECK_DEADLOCK FALSE
INVARIANTS
  ShutdownFindsInterface
  PowerFollowsLastRequest
  LooperReadyForMessages
  OneAnswerPerSession
PROPERTIES
  InitializeIsAnswered
  DeathTurnsOff
  ImplementsPowerSwitch
