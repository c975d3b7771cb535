CONSTANTS
  BufLen = 64
  Sizes <- AllSizes
  NameSizes <- SomeNames
  Elems <- SomeElems
  Targets = {"any"}
SPECIFICATION FairSpec
INVARIANTS
  NoPanic
  NestingKept
  PairConfined
CHECK_DEADLOCK FALSE
