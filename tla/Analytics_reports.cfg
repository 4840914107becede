SPECIFICATION Spec
CONSTANTS
  Requests = {r1, r2}
  Workers = {w1, w2}
  Popular = popular
  Other = other
  Urls = {popular, other}
  OtherEvent = e0
  Events = {e0, e1, e2, e3}
  Alice = alice
  Users = {alice}
  Anonymous = Anonymous
  UrlOf <- MCUrlOf
  Owner <- MCOwner
  RecentLimit = 2
  MaxTime = 1
  None = None
SYMMETRY Symmetry
INVARIANTS RecentCoversTotal ReportsAgree ReportsAuthorised IndInv
CHECK_DEADLOCK FALSE
