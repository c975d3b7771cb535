CONSTANTS
  StreamLen = 4
  PipeCap = 2
  MaxRead = 2
  LateENOMEM = TRUE
SPECIFICATION FairSpec
PROPERTY ImplementsTransfer
CHECK_DEADLOCK FALSE
