SPECIFICATION FairSpec
CONSTANTS
  a = a
  ip1 = ip1
  Labels = {a}
  IPs = {ip1}
  NoHost = NoHost
  StalenessThreshold = 1
  PruningInterval = 1
  ResumePruningDelay = 0
  WarmingDuration = 0
  Messages <- AllKinds
  MaxQueue = 1
  MaxCallbacks = 2
CHECK_DEADLOCK FALSE
INVARIANTS
  TypeOK
  PauseTracksConnection
  AnnouncedWhenConnected
  FailureLeavesNothing
  LateReconnectsSend
PROPERTIES
  RefinesTable
  RunOnceReturns
  EventuallyWarm
  OutageFreezesTable
  RecoveryResumesPruning
