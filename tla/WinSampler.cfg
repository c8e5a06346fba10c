SPECIFICATION FairSpec
CONSTANTS
  MaxSessions = 2
  MaxWrites = 2
INVARIANTS
  RecordsWhole
  OneLateSample
PROPERTIES
  CallsReturn
CHECK_DEADLOCK FALSE
