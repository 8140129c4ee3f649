SPECIFICATION Spec
CONSTANTS
  MaxRoutes = 1000
  MaxCPU = 36
  SmallJob = 1000
CHECK_DEADLOCK FALSE
INVARIANTS
  AllRoutesPopulated
