SPECIFICATION FairSpec
CONSTANTS
  Conns = {c1}
  Machines = {m1}
  Workers = {w1, w2}
  MaxLogs = 2
  Loop = loop
  None = none
INVARIANT AcceptAfterTransaction
PROPERTIES KeepsSession WorkReclaimed AnswersWritten
CHECK_DEADLOCK FALSE
