SPECIFICATION Spec
CONSTANTS
  FusionSensors = {"grv", "la"}
  ListOrder <- MCListOrder
  Periods = {1, 3}
  MinDelay = 2
  FastPeriod = 1
  NormalPeriod = 3
  MaxDelay = 5
  MaxChannels = 2

PROPERTY RemovedChannelIsGone
