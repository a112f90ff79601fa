\* Two texts that share the clocks of their clients, runs that arrive whole, clocks of
\* three values, and an observer of each text that is polled at any time.
SPECIFICATION PollSpec
CONSTANTS
  Client = {1, 2}
  Root = {"text", "title"}
  Nil = Nil
  ClockMod = 3
  Split = FALSE
  HighClocks = {}
  LowClocks = {}
  MaxUnits = 3
  MaxInsert = 2
  MaxDeletes = 1
  MaxBatch = 1
  MaxBuffered = 2
  Redeliver = FALSE
  Syncs = FALSE
  Self = 1
  MaxPolls = 1
INVARIANTS
  PollCatchesUp
  Convergence
  LenIsVisible
  OneOrder
  ListsAgree
  DeletesLand
  InsertAtIndex
  DeleteAtIndex
CHECK_DEADLOCK FALSE
