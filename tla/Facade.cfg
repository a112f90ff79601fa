\* One text, edited by the application and by its handlers.
SPECIFICATION Spec
CONSTANTS
  Text = {"text"}
  Nil = Nil
  MaxEdits = 2
INVARIANT EventsTellTheState
CHECK_DEADLOCK FALSE
