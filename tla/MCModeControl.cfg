CONSTANTS
  w1 = w1
  None = None
  Unavailable = Unavailable
  Socs = {9, 50, 60, 71}
  Windows = {w1}
  Timeouts = {1}
  LossMax = 2
  Overlap = FALSE
SPECIFICATION FairSpec
 
PROPERTIES LowPowerFallsBack LostPassIsAbandoned
