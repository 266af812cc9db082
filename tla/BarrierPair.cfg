SPECIFICATION RunSpec
CONSTANTS
  Programs <- PairPrograms
  LockIds <- MCLocks
  BarrierIds <- MCBarriers
  MaxDepth = 1
  HasMaxSteps = FALSE
  MaxCtx = 3
CHECK_DEADLOCK FALSE
INVARIANTS
  BarrierReleasesAll
