CONSTANTS
  a0 = a0
  a1 = a1
  s1 = s1
  a4 = a4
  o1 = o1
  Rows <- MCRows
  SlotOf <- MCSlotOf
  TableOf <- MCTableOf
  StreamRows <- MCStreamRows
  PartSize = 2
  BatchRows = 2
  MaxCopies = 2
  MaxRuns = 2
SPECIFICATION Spec
INVARIANT SkippedIsIdentical
CHECK_DEADLOCK FALSE
