CONSTANTS
  Requests = {c1, c2}
  Names = {overview, risk}
  Ttl = 2
  Idle = 1
  MaxNow = 6
SPECIFICATION Spec
INVARIANTS
  TypeOK
  ServedIsRecent
  AskedOnlyWhenStale
PROPERTIES
  SilenceEnds
CHECK_DEADLOCK FALSE
