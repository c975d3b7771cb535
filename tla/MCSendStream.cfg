CONSTANTS
  StreamLen = 4
  PipeCap = 2
  MaxRead = 2
  LateENOMEM = FALSE
SPECIFICATION FairSpec
INVARIANTS
  TypeOK
  VerdictPrecedesEOF
  FailFast
  VerdictIsIoctls
PROPERTIES
  ImplementsTransfer
  SenderEnds
CHECK_DEADLOCK FALSE
