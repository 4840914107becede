SPECIFICATION Spec
CONSTANTS
  Requests = {r1, r2, r3, r4}
  Ids = {u1, u2}
  Emails = {e1}
  Passwords = {long, short}
  ShortPasswords = {short}
  AccessTtl = 1
  RefreshTtl = 2
  MaxConcurrent = 2
  MaxTime = 2
  None = None
  NoCredentials = NoCredentials
  Garbage = Garbage
SYMMETRY Symmetry
INVARIANTS SessionsEnd BearerIsFresh DeactivationEnds AnonymousOnlyIfGone RegistrationExclusive IndInv
CHECK_DEADLOCK FALSE
