\* Life is 24 hours in two ticks, so that a token has a middle; the clock goes
\* on until a token that was drawn late has expired too.
SPECIFICATION Spec
CONSTANTS
  Logins = {l1, l2}
  Passwords = {p1, p2}
  Tokens = {t1, t2}
  Forged = forged
  Life = 2
  Slots = {s1, s2}
  None = None
  MaxTime = 4
  MaxFaults = 1
SYMMETRY Symmetry
INVARIANTS TypeOK OnlyVerified ExpiresInTime GoodTokenPasses
PROPERTY ImplementsStorage
