\* The bound on events ends every behaviour.
CHECK_DEADLOCK FALSE
CONSTANTS
  Delays = {1, 2, 3}
  Never = 5
  MaxEvents = 4
SPECIFICATION FairSpec
INVARIANTS
  TypeOK
  TimerCoversEvents
  RingLeavesListClean
PROPERTIES
  Implements
  EveryEventRings
