SPECIFICATION TableSpec
CONSTANTS
  Labels = {a}
  IPs = {ip1}
  StalenessThreshold = 1
  PruningInterval = 2
  ResumePruningDelay = 1
PROPERTIES
  PauseStopsPruning
