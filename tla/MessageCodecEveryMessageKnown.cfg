SPECIFICATION Spec
CONSTANTS
  MaxMessages = 2
  MaxEvents = 2
  IDs = {0, 7}
  None = none
INVARIANT EveryMessageKnown
CHECK_DEADLOCK FALSE
