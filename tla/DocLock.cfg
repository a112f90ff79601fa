\* Three goroutines, so that readers can come between a writer and a reader.
SPECIFICATION FairSpec
CONSTANTS
  Goroutine = {g1, g2, g3}
  Nil = Nil
  MaxEdits = 2
  MaxText = 3
INVARIANTS
  TypeOK
  Exclusive
  CheckHolds
PROPERTIES
  IsSerial
  CallsReturn
