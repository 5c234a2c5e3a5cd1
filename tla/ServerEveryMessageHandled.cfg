SPECIFICATION FairSpec
CONSTANTS
  Conns = {c1}
  Machines = {m1}
  Workers = {w1}
  MaxLogs = 2
  Loop = loop
  None = none
PROPERTY EveryMessageHandled
CHECK_DEADLOCK FALSE
