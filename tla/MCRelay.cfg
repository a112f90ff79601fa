\* Three peers, three messages, and buffers that hold one message towards a peer.
SPECIFICATION Spec
CONSTANTS
  Conn = {a, b, c}
  Nil = Nil
  Capacity = 1
  MaxMessages = 3
SYMMETRY Symmetry
INVARIANTS
  TypeOK
  AppliedInOrder
  FanOut
PROPERTIES
  Broadcast
CHECK_DEADLOCK FALSE
