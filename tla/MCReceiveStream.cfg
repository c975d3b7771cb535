CONSTANTS
  BeginLen = 2
  StreamLen = 5
  PipeCap = 3
  MaxWrite = 3
  SupplyLens <- Lengths
  Presets = {FALSE, TRUE}
  LateENOMEM = FALSE
  PropErrors = TRUE
SPECIFICATION FairSpec
INVARIANTS
  TypeOK
  WriteErrorHasVerdict
  SendsNeverBlock
  ShortOnlyIfShort
PROPERTIES
  ImplementsTransfer
  WriteReturns
  WaitReturns
  ClosesEverything
CHECK_DEADLOCK FALSE
