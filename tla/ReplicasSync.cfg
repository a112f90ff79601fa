\* Three replicas that exchange whole states: enough concurrent insertions at one
\* place for every branch of the conflict scan.
SPECIFICATION Spec
CONSTANTS
  Client = {1, 2, 3}
  Root = {"text"}
  Nil = Nil
  ClockMod = 64
  Split = TRUE
  HighClocks = {}
  LowClocks = {}
  MaxUnits = 4
  MaxInsert = 1
  MaxDeletes = 0
  MaxBatch = 0
  MaxBuffered = 0
  Redeliver = FALSE
  Syncs = TRUE
INVARIANTS
  OneOrder
  OriginsRespected
PROPERTIES
  OrderIsStable
CHECK_DEADLOCK FALSE
