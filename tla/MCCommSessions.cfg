CONSTANTS
  AuthTimeout = 1
  WindowSize = 4
  MuxSlots = 2
  Probed = {"SBAND", "UHF"}
  Async = FALSE
  ProbePeriod = 1
  ProbeThreshold = 1
  FaultThreshold = 0
  QuiesceTicks = 0
  SuppressTicks = 1
  ReliableDir = FALSE
  PassDurations = {1}
  Uplinked <- MCUplinked
  MaxKeys = 2
  MaxRequests = 0
SPECIFICATION Spec
INVARIANTS   StatusReturnsToSender  
CHECK_DEADLOCK FALSE
