SPECIFICATION Spec
CONSTANTS
  Addresses = {a0, a1}
  Clients = {c1, c2}
  MAX_ROUTES = 2
  Rates = {r44, r48}
  PipeFrames = 1
  MaxWritten = 1
SYMMETRY Symmetry
VIEW View
CHECK_DEADLOCK FALSE
INVARIANTS
  StreamHasPipe
  RoutesFollowStreams
  InputCounted
  WriteWaitsForInput
  OpenInputHears
