CONSTANTS
  Names <- SomeNames
  Fields <- SomeFields
  MaxPairs = 3
  MaxDepth = 3
SPECIFICATION CodecSpec
INVARIANTS
  ErrorsSurface
  PairsTile
  RoundTrip
CHECK_DEADLOCK FALSE
