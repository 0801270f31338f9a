CONSTANTS
  o1 = o1
  o2 = o2
  m = m
  Accounts <- MCAccounts
  KindOf <- MCKindOf
  PageOf <- MCPageOf
  Idle <- MCIdle
  Decodes <- MCDecodes
  Pages = 2
  INSERT_BATCH = 2
  Scopes <- MCScopes
  MaxSlot = 2
  MaxWrites = 2
  MaxLost = 1
  MaxRuns = 2
SPECIFICATION Spec
INVARIANTS
  TypeOK
  ReadsAsOf
  RunsAddUp
PROPERTY RecordedRunIsBacked
CHECK_DEADLOCK FALSE
