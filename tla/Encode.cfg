\* A document written while another goroutine edits it.
SPECIFICATION EncodeSpec
CONSTANTS
  Client = {1, 2}
  Root = {"text"}
  Nil = Nil
  ClockMod = 64
  Split = TRUE
  HighClocks = {}
  LowClocks = {}
  MaxUnits = 3
  MaxInsert = 1
  MaxDeletes = 1
  MaxBatch = 1
  MaxBuffered = 2
  Redeliver = FALSE
  Syncs = FALSE
  Self = 1
INVARIANT UnitsKeepTheirIds
CHECK_DEADLOCK FALSE
