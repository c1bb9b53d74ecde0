CONSTANT DeferClose = FALSE
SPECIFICATION FairSpec
INVARIANTS
  RecordNeedsBothUsers
  DriverFollowsMachine
  
PROPERTIES
  CloseUnwinds
CHECK_DEADLOCK FALSE
