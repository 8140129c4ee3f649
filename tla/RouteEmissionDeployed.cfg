SPECIFICATION EmissionSpec
CONSTANTS
  a = a
  Labels = {a}
  IPs = {ip1}
  NoHost = NoHost
  StalenessThreshold = 3
  PruningInterval = 1
  ResumePruningDelay = 1
  WarmingDuration = 1
  Name <- AppName
  Messages <- EmitterMessages
  MaxQueue = 1
  MaxCallbacks = 2
  EmitInterval = 1
  AnswersStart = TRUE
  DetectionDelay = 4
INVARIANTS
  EmittedRoutesStay
