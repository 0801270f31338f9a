CONSTANTS
  u1 = u1
  u2 = u2
  u3 = u3
  u4 = u4
  Updates <- MCUpdates
  SlotOf <- MCSlotOf
  TablesOf <- MCTablesOf
  Tolerance = 1
  BatchMax = 2
  Budgets <- UnattendedOrSample
  Window = 2
  MaxOverReplay = 1
  MaxTip = 4
  MaxFaults = 3
SPECIFICATION Spec
INVARIANTS
  TypeOK
  CheckpointCovered
  EveryHoleLeavesARow
  NoHoleOutsideSeams
  AuditAgreesWithGapTable
  OneStreamPerSample
  StopLosesNothing
  SeamIsJudged
PROPERTIES
  StartupRowsAreReal
  ImplementsLog
CHECK_DEADLOCK FALSE
