SPECIFICATION FairSpec
CONSTANTS
  EpsCommands <- MCEpsCommands
  AdcsCommands <- MCAdcsCommands
  MaxHandles = 3
  PollPeriod = 1
  Threshold = 2
  MaxCommands = 1
  MaxBeacons = 1
  PingTargets = {"EPS"}
  MaxFaults = 1
INVARIANTS IncidentMatchesLatch SuppressedBeaconIsSilent
PROPERTIES CallersAreAnswered DeadNodeIsReported Converges
