SPECIFICATION FairSpec
CONSTANT MaxRecords = 4
INVARIANTS TypeOK EachNewRecordOnce NoSilentStall
PROPERTY CatchesUp
CHECK_DEADLOCK FALSE
