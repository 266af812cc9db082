SPECIFICATION Spec
CONSTANTS
  Programs <- MCPrograms
  BusCapacity = 2
  HasMaxSteps = TRUE
  MaxCtx = 3
CHECK_DEADLOCK FALSE
INVARIANTS
  TypeOK
  ReadyQueuedOnce
  EndsWhenAllEnded
PROPERTIES
  LateSignalsWakeNobody
