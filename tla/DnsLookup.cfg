SPECIFICATION FairSpec
CONSTANTS
  a = a
  slash = slash
  percent = percent
  dots = dots
  Labels = {a}
  IPs = {ip1, ip2}
  StalenessThreshold = 1
  PruningInterval = 1
  ResumePruningDelay = 0
  Requests = {r1}
  NoName = NoName
  OddNames = {slash, percent, dots}
  UrlKey <- OddKeys
  BadUrl = BadUrl
  OtherPath = OtherPath
INVARIANTS
  TypeOK
  AnswersAreSnapshots
  WarmNeverRefuses
  GivesUpLate
PROPERTIES
  EveryQueryAnswered
