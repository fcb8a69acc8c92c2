CONSTANTS
  w1 = w1
  w2 = w2
  Sources = {w1, w2}
  Tunable = {w2}
  DefaultConfig <- MCDefault
  Configs <- MCConfigs
  AgeMax = 3
  CmdLag = 1
  Timeout = 2
  Launches = 2
SPECIFICATION ChainSpec
INVARIANTS RunningIsSupervised IncidentsMatchFaults
PROPERTIES UnfedBoardIsReset
CHECK_DEADLOCK FALSE
