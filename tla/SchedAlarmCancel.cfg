\* The bound on events ends every behaviour.
CHECK_DEADLOCK FALSE
CONSTANTS
  Delays = {1, 2}
  Never = 5
  MaxEvents = 3
SPECIFICATION Spec
PROPERTY
  CancelledNotCalled
