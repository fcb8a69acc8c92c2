SPECIFICATION FairSpec
CONSTANTS
  FramesOf <- MCFrames
  Workloads <- MCWorkloads
  WindowCap = 2
  StagingLimit = 2
  DrainLimit = 2
  ProbeLimit = 2
  UplinkLimit = 1
  MaxRxErrors = 2
  WireLimit = 3
  MaxCloses = 1
INVARIANTS GroundSeesPrefixes NothingLostSilently 
PROPERTIES SendReturns
CHECK_DEADLOCK FALSE
