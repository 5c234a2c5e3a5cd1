SPECIFICATION Spec
CONSTANTS
  Conns = {c1}
  Machines = {m1}
  Workers = {w1}
  MaxLogs = 1
  Loop = loop
  None = none
INVARIANT AcceptedIsStored
CHECK_DEADLOCK FALSE
