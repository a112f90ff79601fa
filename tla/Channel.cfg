\* Two goroutines at one end and one at the other; messages with and without data.
SPECIFICATION FairSpec
CONSTANTS
  Dialers = {"d1", "d2"}
  Acceptors = {"a1"}
  Nil = Nil
  HeaderLen = 2
  DataLens = {0, 1}
  Capacity = 2
  MaxSends = 3
  MaxFaults = 1
INVARIANTS
  TypeOK
  FramesHold
  FailuresAreLast
PROPERTY FailureEndsCalls
