CONSTANTS
  a = a
  b = b
  c = c
  Datasets = {a, b, c}
  Pos <- Places
  MaxErrors = 1
SPECIFICATION FairSpec
INVARIANTS
  NothingMissed
  ListedOnce
PROPERTIES
  ListingEnds
