SPECIFICATION Spec
CONSTANTS
  Requests = {r1, r2}
  Codes = {c1}
  GeneratedCodes = {c1}
  LongUrls = {u1, junk}
  ValidUrls = {u1}
  Users = {alice}
  Nobody = Nobody
  Expiries = {1}
  Never = Never
  NoAlias = NoAlias
  MaxAttempts = 2
  CacheTtl = 1
  TicksPerSecond = 2
  MaxTime = 2
  FaultsPossible = FALSE
PROPERTIES RequestsAnswered StepsRunOut StalenessBounded
