CONSTANTS
  BufLen = 64
  Sizes <- AllSizes
  NameSizes <- SomeNames
  Elems <- SomeElems
  Targets = {"struct"}
SPECIFICATION FairSpec
INVARIANT NestingKept
CHECK_DEADLOCK FALSE
