SPECIFICATION FairChainSpec
CONSTANTS
  MaxFilters = 3
  MaxWrites = 3
  SndRoom = 2
  MaxRcv = 2
CHECK_DEADLOCK FALSE
INVARIANTS
  ChainTypeOK
  NothingBypasses
  ClosedFromTheTop
PROPERTIES
  KeepsPromise
  ChainConnects
  ChainCloses
