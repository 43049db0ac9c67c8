SPECIFICATION FairTableSpec
CONSTANTS
  Loops = {la, lb}
  Mains = {m1, m2}
  NoLoop = NoLoop
  MaxDestroys = 2
CHECK_DEADLOCK FALSE
INVARIANTS
  TableTypeOK
  LoopOutlivesRun
  NoCircularJoin
  FaultsExplained
PROPERTY
  DestroyAllReturns
