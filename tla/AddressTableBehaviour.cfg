SPECIFICATION TableFairSpec
CONSTANTS
  Labels = {a}
  IPs = {ip1, ip2, ip3}
  StalenessThreshold = 1
  PruningInterval = 2
  ResumePruningDelay = 1
INVARIANTS
  TableTypeOK
  UniqueIPs
  SpellingsAgree
PROPERTIES
  FreshRoutesSurvive
  RefinesRegistry
  StaleEventuallyPruned
  PauseQuiesces
