SPECIFICATION FairSpec
CONSTANTS
  Main = main
  PoolThreads = {p1}
  None = none
  MaxSignals = 3
INVARIANTS TypeOK OnlySIGTERMBlocksItself FirstConnectSafe HandlerOutlivesUsers Inv
PROPERTIES StartUpEnds 
CHECK_DEADLOCK FALSE
