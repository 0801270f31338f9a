CONSTANTS
  Threshold = 3
  Interval = 2
  MinSettle = 1
  MaxQuiet = 1
  MaxStart = 1
  MaxHiccups = 1
  MaxIncidents = 0
SPECIFICATION Spec
INVARIANT StreamIsFrozen
