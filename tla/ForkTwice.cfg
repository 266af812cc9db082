SPECIFICATION Spec
CONSTANTS
  Programs <- StraightPrograms
  BusCapacity = 2
  HasMaxSteps = FALSE
  MaxCtx = 3
CHECK_DEADLOCK FALSE
INVARIANTS
  OneChildPerFork
