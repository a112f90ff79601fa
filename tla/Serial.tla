------------------------------- MODULE Serial -------------------------------
(***************************************************************************)
(* What a document and its mirror promise the goroutines that call them:   *)
(* every call acts at once, somewhere between its start and its return.  A *)
(* text is abstracted to the number of edits in it, a call that reads to   *)
(* the first and the last thing it read.                                   *)
(***************************************************************************)
EXTENDS Naturals

CONSTANT MaxEdits    \* the most edits of one transaction

VARIABLES text,        \* the edits of the transactions so far
          view,        \* the mirror's copy
          registered,  \* whether the mirror follows the text
          returned     \* the result of the last read

vars == <<text, view, registered, returned>>

Init ==
  /\ text = 0
  /\ view = 0
  /\ registered = FALSE
  /\ returned = [first |-> 0, last |-> 0]

\* A transaction, with its observers.
Transact ==
  /\ \E n \in 1 .. MaxEdits : text' = text + n
  /\ view' = IF registered THEN text' ELSE view
  /\ UNCHANGED <<registered, returned>>

Register ==
  /\ view' = text
  /\ registered' = TRUE
  /\ UNCHANGED <<text, returned>>

\* A read of the text, and a Check, which reads the text and the view.
ReadText ==
  /\ returned' = [first |-> text, last |-> text]
  /\ UNCHANGED <<text, view, registered>>

ReadView ==
  /\ returned' = [first |-> view, last |-> view]
  /\ UNCHANGED <<text, view, registered>>

Next == Transact \/ Register \/ ReadText \/ ReadView

Spec == Init /\ [][Next]_vars
=============================================================================
