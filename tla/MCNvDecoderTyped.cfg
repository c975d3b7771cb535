CONSTANTS
  BufLen = 64
  Sizes <- FewSizes
  NameSizes <- SomeNames
  Elems <- SomeElems
  Targets = {"any", "lists", "scalars", "struct", "invalid"}
SPECIFICATION FairSpec
INVARIANTS
  TypeOK
  DepthBounded
PROPERTIES
  Terminates
CHECK_DEADLOCK FALSE
