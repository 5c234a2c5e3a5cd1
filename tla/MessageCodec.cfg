SPECIFICATION Spec
CONSTANTS
  MaxMessages = 2
  MaxEvents = 2
  IDs = {0, 7}
  None = none
INVARIANTS RoundTrip  OnlyRefusalLost SeverityOrderKept
CHECK_DEADLOCK FALSE
