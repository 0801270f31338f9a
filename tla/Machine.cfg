CONSTANTS
  Threshold = 3
  Interval = 2
  MinSettle = 1
  MaxQuiet = 1
  MaxStart = 1
  MaxHiccups = 1
  MaxIncidents = 2
SPECIFICATION Spec
INVARIANTS
  TypeOK
  UnmaskedStallIsCaught
  FrozenUnlessTroubled
  QuietFreezeIsComplete
PROPERTY ResumeRestores
