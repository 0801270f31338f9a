CONSTANTS
  o1 = o1
  o2 = o2
  r1 = r1
  Accounts <- MCAccounts
  KindOf <- MCKindOf
  BodiesOf <- MCBodiesOf
  Narrow = 64
  Scale = 4
  RepeatEvery = 3
  ListLimit = 1
  Slices <- MCSlices
  MaxSlot = 2
  MaxUpdates = 3
  MaxFaults = 2
SPECIFICATION Spec
INVARIANTS
  ListedStillBorrow
CHECK_DEADLOCK FALSE
