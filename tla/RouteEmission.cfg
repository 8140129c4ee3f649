SPECIFICATION EmissionSpec
CONSTANTS
  a = a
  Labels = {a}
  IPs = {ip1}
  NoHost = NoHost
  StalenessThreshold = 3
  PruningInterval = 2
  ResumePruningDelay = 2
  WarmingDuration = 3
  Name <- AppName
  Messages <- EmitterMessages
  MaxQueue = 2
  MaxCallbacks = 2
  EmitInterval = 2
  AnswersStart = TRUE
  DetectionDelay = 1
INVARIANTS
  LiveRoutesStay
  WarmTableComplete
  GhostsLeave
