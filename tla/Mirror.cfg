\* One text and one peer: transactions of several edits, runs that arrive whole, a
\* mirror registered at any time.
SPECIFICATION MirrorSpec
CONSTANTS
  Client = {1, 2}
  Root = {"text"}
  Nil = Nil
  ClockMod = 64
  Split = FALSE
  HighClocks = {}
  LowClocks = {}
  MaxUnits = 3
  MaxInsert = 2
  MaxDeletes = 2
  MaxBatch = 1
  MaxBuffered = 2
  Redeliver = FALSE
  Syncs = FALSE
  Self = 1
INVARIANTS
  MirrorLaw
  TypeOK
  ListsAgree
  DeletesLand
CHECK_DEADLOCK FALSE
