SPECIFICATION Spec
CONSTANTS
  Conns = {c1, c2}
  Machines = {m1, m2}
  Workers = {w1, w2}
  MaxLogs = 1
  Loop = loop
  None = none
INVARIANTS TypeOK MapHoldsLiveClients OneOwner WakeupPending 
   AcceptAfterTransaction SessionInv
PROPERTY KeepsSession
SYMMETRY Symmetry
CHECK_DEADLOCK FALSE
