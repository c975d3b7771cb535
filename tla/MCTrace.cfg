CONSTANTS
  MaxCalls = 3
  Programs <- AllPrograms
  MaxSignals = 2
  Migrates = TRUE
SPECIFICATION FairSpec
INVARIANTS
  ReportsEnded
  Complete
  SignalsOnlyRepeat
PROPERTIES
  TracerEnds
