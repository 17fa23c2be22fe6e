\* One grant through the broker: clocks, crashes, failed writes.
CONSTANTS
  Grants = {g1}
  Ttl = 1
  Ceiling = 2
  ReplyDelay = 1
  DocumentAge = 2
  Tolerance = 0
  Retention = 1
  MaxTime = 3
  MaxLag = 1
  MaxSettings = 2
  MaxFailures = 1
  MaxCrashes = 1

SPECIFICATION Spec

INVARIANTS
  ReportsTrue

PROPERTIES
  OneUseContract
  AuthorityInForce

CHECK_DEADLOCK FALSE
