SPECIFICATION Spec
CONSTANTS
  Requests = {r1, r2, r3}
  Identities = {alice}
  LimitOfAll = 2
  Limit <- MCLimit
  WindowTicks = 2
  MaxConcurrent = 2
  MaxTime = 3
  FaultsPossible = FALSE
SYMMETRY RequestSymmetry
INVARIANT LimitHolds
CHECK_DEADLOCK FALSE
