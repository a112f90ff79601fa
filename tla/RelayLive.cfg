\* Progress, with two peers and four messages.
SPECIFICATION FairSpec
CONSTANTS
  Conn = {a, b}
  Nil = Nil
  Capacity = 1
  MaxMessages = 4
PROPERTIES
  EveryMessageProcessed
CHECK_DEADLOCK FALSE
