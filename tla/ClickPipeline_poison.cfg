SPECIFICATION Spec
CONSTANTS
  Clicks = {k1}
  Unstorable = {}
  Malformed = {}
  Scalars = {poison}
  Workers = {w1, w2}
  NoMessage = NoMessage
  MaxRetries = 2
  MaxConnectAttempts = 2
  Prefetch = 2
  MaxFaults = 0
  MaxCrashes = 0
PROPERTY AcceptedSettles
CHECK_DEADLOCK FALSE
