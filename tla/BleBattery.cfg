SPECIFICATION FairSpec
CONSTANTS
  Capacity = 3
  MaxErrors = 2
INVARIANTS TypeOK PayloadShowsLevel PendingIsScheduled
PROPERTIES EventsAreProcessed KeepsDischarging
CHECK_DEADLOCK FALSE
