\* No call fails here: the race alone breaks the comment.
SPECIFICATION Spec
CONSTANTS
  Owners = {o1}
  RouteIds = {r1}
  Slots = {s1, s2}
  None = None
  Miss = Miss
  MaxFaults = 0
INVARIANT ReadYourWrites
