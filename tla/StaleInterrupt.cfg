SPECIFICATION Spec
CONSTANTS
  Programs <- AbortPrograms
  BusCapacity = 2
  HasMaxSteps = FALSE
  MaxCtx = 3
CHECK_DEADLOCK FALSE
INVARIANTS
  InterruptsAreFresh
