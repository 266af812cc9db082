SPECIFICATION HostSpec
CONSTANTS
  Programs <- MCPrograms
  Images = {0, 1}
  Tokens = {0, 1}
  Levels = {0, 1, 2}
  Window = 2
  HostWindow = 2
  MaxSamples = 2
  FallbackOffset = 1
  Physical = 4
  Logical = 8
  PromptLengths = {3, 5}
  MaxVersion = 4
  MaxOutput = 3
  MaxBytes = 9
  MaxCtx = 5
CHECK_DEADLOCK FALSE
INVARIANTS
  CheckpointsArePrefixes
  TemporalReadsBack
PROPERTIES
  RollbackAllOrNothing
