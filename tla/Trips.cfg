\* Safety: two faults, so that a late write can meet a second error or a crash.
SPECIFICATION Spec
CONSTANTS
  Routes = {r1}
  Unknown = r9
  TripIds = {t1, t2}
  Logins = {l1, l2}
  Slots = {s1, s2}
  None = None
  MaxFaults = 2
SYMMETRY Symmetry
INVARIANTS TypeOK NobodyTwice OneJoinEvent EventsAreFacts ToldIsJoined JoinIsAnnounced KnownIsFound
PROPERTY ImplementsStorage
