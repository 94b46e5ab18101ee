SPECIFICATION FairSpec
CONSTANTS
  Clients = {c1}
  Requests = {q1, q2, q3}
  Limit = 2
  Window = 3
  None = None
  MaxFaults = 1
INVARIANTS TypeOK KeyAlwaysExpires RefusalEnds NumberedOnce SlidingBound
PROPERTY NoLockout
