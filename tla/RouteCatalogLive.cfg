\* Liveness: no symmetry; the lists of two owners converge independently, so
\* one owner is enough.
SPECIFICATION FairSpec
CONSTANTS
  Owners = {o1}
  RouteIds = {r1, r2}
  Slots = {s1, s2, s3}
  None = None
  Miss = Miss
  MaxFaults = 1
PROPERTY Converges
