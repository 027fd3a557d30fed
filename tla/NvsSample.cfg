SPECIFICATION FairSpec
CONSTANTS
  MAX_REBOOT = 5
  DELETE_AT = 3
  MaxCrashes = 3
  MaxFailures = 1
  None = None
INVARIANTS
  TypeOK
  StringFollowsCounter
PROPERTIES
  CounterSteps
  TestEnds
CHECK_DEADLOCK FALSE
