SPECIFICATION FairRunSpec
CONSTANTS
  Programs <- LivePrograms
  LockIds <- MCLocks
  BarrierIds <- MCBarriers
  MaxDepth = 1
  HasMaxSteps = FALSE
  MaxCtx = 3
CHECK_DEADLOCK FALSE
PROPERTIES
  RedIsServed
