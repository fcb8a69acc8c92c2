SPECIFICATION FairSpec
CONSTANTS
  Files <- MCFiles
  SegmentsOf <- MCSegments
  WindowSize = 1
  AckTimeout = 1
  ResendBudget = 1
  MaxTransfers = 2
  MaxRestarts = 1
PROPERTIES DeliversFiles TransferEnds
CHECK_DEADLOCK FALSE
