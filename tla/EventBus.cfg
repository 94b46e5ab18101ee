\* bad is a message that Process cannot read.  CHECK_DEADLOCK FALSE: when every
\* event has been published and consumed, nothing is left to do.
SPECIFICATION FairSpec
CONSTANTS
  Messages = {m1, m2, bad}
  Malformed = {bad}
  Prefetch = 2
  MaxFaults = 2
INVARIANTS TypeOK ConfirmedIsKept DuplicatesNeedFaults
PROPERTIES ConfirmedIsConsumed MalformedIsDropped ImplementsDelivery
CHECK_DEADLOCK FALSE
