CONSTANTS
  Panels = 1
  QueryMax = 1
  PutMax = 1
  Interval = 2
  MaxNow = 9
  MaxTrouble = 2
  Landings = {3}
SPECIFICATION Spec
INVARIANTS
  TypeOK
  PublishesOnTime
  ShownTogetherTheyBound
  FinalPageIsFinal
PROPERTIES
  RunPublishesItsOwn
CHECK_DEADLOCK FALSE
