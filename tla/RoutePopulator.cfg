SPECIFICATION FairSpec
CONSTANTS
  MaxRoutes = 7
  MaxCPU = 3
  SmallJob = 2
CHECK_DEADLOCK FALSE
INVARIANTS
  TypeOK
  JobsPartition
  ErrorsReported
  ReportNeverBlocks
PROPERTIES
  StopEnds
  FailureEnds
  HeartbeatsRepeat
