SPECIFICATION Spec
CONSTANTS
  Requests = {r1, r2, r3, r4, r5}
  Identities = {alice}
  LimitOfAll = 1
  Limit <- MCLimit
  WindowTicks = 2
  MaxConcurrent = 2
  MaxTime = 4
  FaultsPossible = TRUE
SYMMETRY RequestSymmetry
INVARIANTS OverrunBounded DenialJustified IndInv
PROPERTY MarkersKept
CHECK_DEADLOCK FALSE
