SPECIFICATION Spec
CONSTANTS
  Tasks <- MCTasks
  NaN <- MCNaN
  Kernel <- MCKernel
  FMax <- MCFMax
  QBlock = 2
  SuperBlock = 4
  ArenaMax = 128
  MaxCalls = 2
  RegLimit = 16777216
CHECK_DEADLOCK FALSE
INVARIANTS
  JumpsLand
  ControlStaysInside
  OperandsSurvive
  DataWhereSaid
  FileIsTheProgram
  OrderLaws
  ShapeLaws
  IndexLaws
  ArenaBlocksDisjoint
  AddressesAreForever
PROPERTIES
  RagSnapshotsIsolated
  RefusedOrWhole
