SPECIFICATION Spec
CONSTANTS
  Clicks = {k1}
  Unstorable = {orphan}
  Malformed = {bad}
  Scalars = {}
  Workers = {w1, w2}
  NoMessage = NoMessage
  MaxRetries = 2
  MaxConnectAttempts = 2
  Prefetch = 2
  MaxFaults = 2
  MaxCrashes = 1
PROPERTIES AcceptedSettles RedirectSettles WorkerRecovers
CHECK_DEADLOCK FALSE
