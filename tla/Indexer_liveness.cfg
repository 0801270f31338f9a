CONSTANTS
  u1 = u1
  u2 = u2
  u3 = u3
  u4 = u4
  Updates <- MCUpdates
  SlotOf <- MCSlotOf
  TablesOf <- MCTablesOf
  Tolerance = 1
  BatchMax = 2
  Budgets <- Unattended
  Window = 2
  MaxOverReplay = 0
  MaxTip = 4
  MaxFaults = 2
SPECIFICATION SupervisedSpec
PROPERTIES
  EveryUpdateSettles
CHECK_DEADLOCK FALSE
