\* A document created again from its saved state.
SPECIFICATION ReloadSpec
CONSTANTS
  Client = {1, 2}
  Root = {"text"}
  Nil = Nil
  ClockMod = 64
  Split = TRUE
  HighClocks = {}
  LowClocks = {}
  MaxUnits = 3
  MaxInsert = 2
  MaxDeletes = 2
  MaxBatch = 1
  MaxBuffered = 2
  Redeliver = FALSE
  Syncs = FALSE
INVARIANT ClockIsNext
CHECK_DEADLOCK FALSE
