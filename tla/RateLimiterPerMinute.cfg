SPECIFICATION Spec
CONSTANTS
  Clients = {c1}
  Requests = {q1, q2}
  Limit = 2
  Window = 3
  None = None
  MaxFaults = 0
INVARIANT LimitPerMinute
