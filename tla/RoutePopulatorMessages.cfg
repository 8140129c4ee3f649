SPECIFICATION Spec
CONSTANTS
  MaxRoutes = 2
  MaxCPU = 2
  SmallJob = 2
CHECK_DEADLOCK FALSE
INVARIANTS
  OneMessagePerRoute
