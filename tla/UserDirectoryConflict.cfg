\* No call fails here: the constraint on the password is enough.
SPECIFICATION Spec
CONSTANTS
  Logins = {u1}
  Profiles = {p1, bad}
  Invalid = {bad}
  Slots = {s1, s2}
  None = None
  Miss = Miss
  MaxFaults = 0
INVARIANT ConflictMeansExists
