\* p1 and p2 are acceptable, bad has a password of under eight characters.
SPECIFICATION Spec
CONSTANTS
  Logins = {u1, u2}
  Profiles = {p1, p2, bad}
  Invalid = {bad}
  Slots = {s1, s2, s3}
  None = None
  Miss = Miss
  MaxFaults = 1
SYMMETRY Symmetry
INVARIANTS TypeOK CachedProfileIsRow OneWinner CreatedIsFound
PROPERTY ImplementsStorage
