\* Safety: three slots, so that two readers and a writer can overlap.
SPECIFICATION Spec
CONSTANTS
  Owners = {o1, o2}
  RouteIds = {r1, r2}
  Slots = {s1, s2, s3}
  None = None
  Miss = Miss
  MaxFaults = 1
SYMMETRY Symmetry
INVARIANTS TypeOK NoForeignRoutes EventsAreFacts StaleExplained
PROPERTY ImplementsContract
