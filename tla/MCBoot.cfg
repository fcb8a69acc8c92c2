CONSTANTS
  MaxVersion = 2
  ConfirmTimeout = 2
  Threshold = 2
  CountMax = 2
  MaxStarts = 3
  Faults = {"kept"}
  BootFaults = {"kept"}
  Overlap = FALSE
SPECIFICATION FairSpec
INVARIANTS SlotsAgree LoopIsClamped
PROPERTIES PendingEnds
\* The bound on starts ends the behaviour.
CHECK_DEADLOCK FALSE
