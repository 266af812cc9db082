SPECIFICATION Spec
CONSTANTS
  zero = zero
  data = data
  ssm = ssm
  snn = snn
  arena = arena
  Vals <- MCVals
  Empty = zero
  Weights <- MCWeights
  Windows <- MCWindows
  DefaultWindow = 2
  MaxAddr = 0
  MaxVersion = 3
  MaxEdits = 1
  MaxMoves = 2
  Engines <- MCEngines
  SignalEngines <- MCSignalEngines
SYMMETRY MCSymmetry
PROPERTIES
  RestoreReturnsEngines
