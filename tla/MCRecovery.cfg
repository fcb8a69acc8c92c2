CONSTANTS
  wd1 = wd1
  sub = sub
  \* sub is one subsystem source of any kind: the kind is consulted only when
  \* the source's first incident opens.
  WatchdogSources = {wd1}
  EpsSources = {sub}
  AdcsSources = {sub}
  CommSources = {sub}
  Modes = {"SAFE", "IDLE"}
  HardwareWatchdogMode = TRUE
  UnclearedTicks = 2
  StableAckTicks = 1
  MaxEpoch = 2
  NoSource = NoSource
  Index <- MCIndex
SPECIFICATION FairSpec
INVARIANTS ExitIsDurable
PROPERTIES SubsystemIncidentResolves QuietBootIsAcknowledged
\* The epoch bound ends the behaviour.
CHECK_DEADLOCK FALSE
