\* The bound on events ends every behaviour.
CHECK_DEADLOCK FALSE
CONSTANTS
  Delays = {0, 1, 2}
  Never = 5
  MaxEvents = 2
SPECIFICATION FairSpec
PROPERTY
  EveryEventRings
