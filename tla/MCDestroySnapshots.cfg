CONSTANTS
  Filesystems = {"f", "g"}
  Snapshots = {"s"}
  Props = {"p", "q"}
  Cut <- CutNames
  Calls <- SomeCalls
  MaxTries = 2
SPECIFICATION Spec
INVARIANT SnapshotsDestroyed
