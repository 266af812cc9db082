SPECIFICATION RunSpec
CONSTANTS
  Programs <- MCPrograms
  LockIds <- MCLocks
  BarrierIds <- MCBarriers
  MaxDepth = 1
  HasMaxSteps = TRUE
  MaxCtx = 3
CHECK_DEADLOCK FALSE
INVARIANTS
  RunTypeOK
  QueuesExact
  StrictPriority
  BlockedAreWaiting
  IdleMeansNothingReady
PROPERTIES
  FifoOrder
  LocksAreHeld
  ImplementsDispatcher
