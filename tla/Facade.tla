------------------------------- MODULE Facade -------------------------------
(***************************************************************************)
(* The JavaScript document over a binding (yjswasm/main.go, cert-yjs.mjs): *)
(* one thread, on which the application's code runs at the top, in the     *)
(* body of transact, and in the handlers the document calls.               *)
(*                                                                         *)
(* A text is abstracted to the number of edits in it; a delta to its text; *)
(* the encoded state to the texts.  (Two encodings of one state may differ *)
(* in the order of delete ranges, which adds events and takes none away.)  *)
(* insert and delete outside transact, and applyUpdate, are a transaction  *)
(* in whose body the application does nothing else.                        *)
(***************************************************************************)
EXTENDS Naturals, Sequences, SequencesExt

CONSTANTS Text,
          Nil,
          MaxEdits    \* bound: edits of a text

VARIABLES text,            \* the document behind the binding
          transaction,     \* binding.transaction, as the texts it changed; Nil: none
          observing,       \* the texts the binding queues deltas of
          handlers,        \* the texts with an observer
          updateHandler,   \* whether there is an 'update' handler
          lastState,       \* the state of the last 'update' event, or Nil
          deliveries,      \* the queued deltas
          settling,        \* where _settle is: "no" when it does not run
          calling          \* the handler _settle is in, or Nil

document == <<text, transaction>>
registry == <<observing, handlers, updateHandler>>
settle == <<deliveries, settling, calling>>
vars == <<document, registry, lastState, settle>>

inTransaction == transaction # Nil

\* The application's code runs, and may call the document.
running == inTransaction \/ calling # Nil \/ settling = "no"

-----------------------------------------------------------------------------
Init ==
  /\ text = [t \in Text |-> 0] /\ transaction = Nil
  /\ observing = {} /\ handlers = {} /\ updateHandler = FALSE
  /\ lastState = Nil
  /\ deliveries = <<>> /\ settling = "no" /\ calling = Nil

\* The first observe of a text locks the document: refused inside transact.
observe(t) ==
  /\ running
  /\ inTransaction => t \in observing
  /\ observing' = observing \cup {t}
  /\ handlers' = handlers \cup {t}
  /\ UNCHANGED <<document, updateHandler, lastState, settle>>

unobserve(t) ==
  /\ running
  /\ handlers' = handlers \ {t}
  /\ UNCHANGED <<document, observing, updateHandler, lastState, settle>>

on ==
  /\ running
  /\ updateHandler' = TRUE
  /\ lastState' = IF lastState = Nil THEN text ELSE lastState
  /\ UNCHANGED <<document, observing, handlers, settle>>

off ==
  /\ running
  /\ updateHandler' = FALSE
  /\ UNCHANGED <<document, observing, handlers, lastState, settle>>

-----------------------------------------------------------------------------
\* A transact inside another joins it.
transact ==
  /\ running /\ ~inTransaction
  /\ transaction' = {}
  /\ UNCHANGED <<text, registry, lastState, settle>>

\* An edit inside a transaction is routed to the In-variants.
edit(t) ==
  /\ inTransaction
  /\ text[t] < MaxEdits
  /\ text' = [text EXCEPT ![t] = @ + 1]
  /\ transaction' = transaction \cup {t}
  /\ UNCHANGED <<registry, lastState, settle>>

\* The end of a transaction, whether its body returned or threw: the binding's
\* callbacks queue the deltas, in no particular order; then _settle, which does
\* nothing when it is running further down the stack.
endTransact ==
  /\ inTransaction
  /\ transaction' = Nil
  /\ \E told \in SetToSeqs(transaction \cap observing) : deliveries' = deliveries \o told
  /\ settling' = IF settling = "no" THEN "deliver" ELSE settling
  /\ UNCHANGED <<text, registry, lastState, calling>>

-----------------------------------------------------------------------------
\* _settle calls the observers of the next delta ...
deliver ==
  /\ settling = "deliver" /\ calling = Nil
  /\ deliveries # <<>>
  /\ deliveries' = Tail(deliveries)
  /\ calling' = IF Head(deliveries) \in handlers THEN "observer" ELSE Nil
  /\ UNCHANGED <<document, registry, lastState, settling>>

\* ... then, with no delta left, the 'update' handlers if the state changed ...
update ==
  /\ settling = "deliver" /\ calling = Nil
  /\ deliveries = <<>>
  /\ settling' = "again"
  /\ IF updateHandler /\ text # lastState
       THEN lastState' = text /\ calling' = "update"
       ELSE UNCHANGED <<lastState, calling>>
  /\ UNCHANGED <<document, registry, deliveries>>

\* ... and begins again if there are deltas by now.
again ==
  /\ settling = "again" /\ calling = Nil
  /\ settling' = IF deliveries # <<>> THEN "deliver" ELSE "no"
  /\ UNCHANGED <<document, registry, lastState, deliveries, calling>>

handlerReturns ==
  /\ calling # Nil /\ ~inTransaction
  /\ calling' = Nil
  /\ UNCHANGED <<document, registry, lastState, deliveries, settling>>

\* The exception leaves _settle; what is queued waits for the next call.
handlerThrows ==
  /\ calling # Nil /\ ~inTransaction
  /\ calling' = Nil
  /\ settling' = "no"
  /\ UNCHANGED <<document, registry, lastState, deliveries>>

Next ==
  \/ \E t \in Text : observe(t) \/ unobserve(t) \/ edit(t)
  \/ on \/ off \/ transact \/ endTransact
  \/ deliver \/ update \/ again \/ handlerReturns \/ handlerThrows

Spec == Init /\ [][Next]_vars

-----------------------------------------------------------------------------
\* Claimed of _settle (cert-yjs.mjs:184-186: it calls "the 'update' handlers if
\* the document changed. A handler that writes the document re-enters here; the
\* loop of the outer call delivers for it"): when the outer call is about to
\* return, the last 'update' event carried the state the document has.
EventsTellTheState ==
  settling = "again" /\ calling = Nil /\ deliveries = <<>> /\ updateHandler
    => lastState = text
=============================================================================
