SPECIFICATION Spec
CONSTANTS
  Conns = {c1}
  Machines = {m1}
  Workers = {w1}
  MaxLogs = 1
  Loop = loop
  None = none
PROPERTY RefusedWhenDisconnected
CHECK_DEADLOCK FALSE
