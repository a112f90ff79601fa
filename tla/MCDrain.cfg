\* One replica's applyUpdate loop, step by step.
SPECIFICATION Spec
CONSTANTS
  Client = {1, 2, 3}
  Self = 1
  Nil = Nil
  MaxClock = 2
  MaxBatch = 3
  Struct <- MCStruct
  Batch <- MCBatch
INVARIANTS
  TypeOK
  GapFree
  NoInsertionDropped
  NothingReadyPends
  DrainIsClosure
PROPERTIES
  DrainEnds
