SPECIFICATION Spec
CONSTANTS
  Clicks = {k1, k2}
  Unstorable = {}
  Malformed = {bad}
  Scalars = {poison}
  Workers = {w1, w2}
  NoMessage = NoMessage
  MaxRetries = 2
  MaxConnectAttempts = 2
  Prefetch = 2
  MaxFaults = 2
  MaxCrashes = 1
SYMMETRY Symmetry
INVARIANTS IndInv CountedOnce NothingLost OneCopy
PROPERTIES DeadLetterJustified ImplementsLedger
CHECK_DEADLOCK FALSE
