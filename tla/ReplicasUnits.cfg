\* Two replicas and the wire codec: one-unit items in batches of two, delete spans and
\* whole states, in any order and any number of times.
SPECIFICATION Spec
CONSTANTS
  Client = {1, 2}
  Root = {"text"}
  Nil = Nil
  ClockMod = 64
  Split = TRUE
  HighClocks = {0}
  LowClocks = {1}
  MaxUnits = 3
  MaxInsert = 2
  MaxDeletes = 1
  MaxBatch = 2
  MaxBuffered = 2
  Redeliver = TRUE
  Syncs = TRUE
INVARIANTS
  Convergence
  NothingReadyPends
  DeletesLand
PROPERTIES
  SyncCatchesUp
CHECK_DEADLOCK FALSE
