CONSTANTS
  Filesystems = {"f", "g"}
  Snapshots = {"s"}
  Props = {"p", "q"}
  Cut <- CutNames
  Calls <- AllCalls
  MaxTries = 2
SPECIFICATION Spec
INVARIANTS
  TypeOK
  NilMeansDone
  ErrorsConfined
  Served
  PromoteReports
