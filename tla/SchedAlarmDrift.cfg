\* The bound on events ends every behaviour.
CHECK_DEADLOCK FALSE
CONSTANTS
  Delays = {1, 2, 3}
  Never = 5
  MaxEvents = 2
SPECIFICATION Spec
PROPERTY
  CalledOnTime
