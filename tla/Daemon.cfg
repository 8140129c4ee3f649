SPECIFICATION FairSpec
CONSTANTS
  TransitTimes <- SomeTimes
  MaxRequests = 1
CHECK_DEADLOCK FALSE
INVARIANTS
  TypeOK
  ServesSubscribed
  ExitTellsWhy
  AnswersCounted
  LongestTransit
PROPERTIES
  FailureEnds
  SignalEnds
  UnfedServerEnds
