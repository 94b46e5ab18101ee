SPECIFICATION Spec
CONSTANTS
  Owners = {o1}
  RouteIds = {r1}
  Slots = {s1, s2}
  None = None
  Miss = Miss
  MaxFaults = 1
INVARIANT AckedIsPublished
