SPECIFICATION MemSpec
CONSTANTS
  zero = zero
  data = data
  w1 = w1
  Vals <- MCVals
  Empty = zero
  Weights <- MCWeights
  Windows <- MCWindows
  DefaultWindow = 2
  MaxAddr = 2
  MaxVersion = 3
  MaxEdits = 3
INVARIANTS
  MemTypeOK
  SixMapsAgree
  RetainsNewest
  FreshAddress
  MetaMatchesHeap
PROPERTIES
  VersionsImmutable
  ImplementsArchive
