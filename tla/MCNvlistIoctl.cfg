CONSTANTS
  NameLen = 4
  Names <- SomeNames
  ReplyName <- ListedName
  Cookies = {5}
  Needs <- ReplySizes
SPECIFICATION FairSpec
INVARIANTS
  TypeOK
  KernelSeesName
  GaveUpOnlyIfTooBig
PROPERTIES
  ImplementsOneCall
  CallReturns
