SPECIFICATION Spec
CONSTANTS
  a = a
  ip1 = ip1
  Labels = {a}
  IPs = {ip1}
  NoHost = NoHost
  StalenessThreshold = 1
  PruningInterval = 1
  ResumePruningDelay = 1
  WarmingDuration = 1
  Messages <- AllKinds
  MaxQueue = 1
  MaxCallbacks = 3
CHECK_DEADLOCK FALSE
INVARIANTS
  ReconnectSends
