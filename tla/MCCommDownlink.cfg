CONSTANTS
  AuthTimeout = 2
  WindowSize = 4
  MuxSlots = 2
  Probed = {"SBAND"}
  Async = TRUE
  ProbePeriod = 1
  ProbeThreshold = 2
  FaultThreshold = 1
  QuiesceTicks = 1
  SuppressTicks = 2
  ReliableDir = TRUE
  PassDurations = {}
  Uplinked <- NoUplink
  MaxKeys = 0
  MaxRequests = 2
SPECIFICATION FairSpec
INVARIANTS AcceptedIsTracked StaleProbeIsDiscarded IncidentMatchesFault
PROPERTIES CompletionEndsItsOwn AcceptedIsAnswered
CHECK_DEADLOCK FALSE
