------------------------------ MODULE DocLock ------------------------------
(***************************************************************************)
(* Goroutines that share a document and a Mirror of one of its texts:      *)
(* storeRef's lock and the entry points that take it (yjs/store.go,        *)
(* doc.go, text.go, observe.go, transaction.go), the callbacks that run    *)
(* under it, and the Mirror's own lock (observeapp/observeapp.go).         *)
(*                                                                         *)
(* pc[g] is what goroutine g does next.  The text is abstracted to the     *)
(* number of edits made in it; a delta, to how many of them it carries.    *)
(*                                                                         *)
(* sync.RWMutex is external: writers come one by one; one that announced   *)
(* itself waits until the readers let in before it are gone and keeps      *)
(* later ones out; unlocking lets in every reader that came meanwhile.     *)
(***************************************************************************)
EXTENDS Naturals, FiniteSets

CONSTANTS Goroutine,
          Nil,        \* nobody
          MaxEdits,   \* bound: edits of one transaction
          MaxText     \* bound: edits altogether

ASSUME NilAssumption == Nil \notin Goroutine
ASSUME BoundsAssumption == MaxEdits \in Nat /\ MaxText \in Nat

VARIABLES call,        \* the call a goroutine is in; "none": outside the document
          pc,          \* what it does next in it
          writer,      \* RWMutex: the announced writer
          readers,     \* RWMutex: the readers let in
          waiting,     \* RWMutex: the readers kept out
          mu,          \* the holder of the mirror's lock
          text,        \* the edits in the text
          edits,       \* those of them the observers have yet to be told
          view,        \* the mirror's copy of the text
          registered,  \* whether the mirror's callback is registered
          seen,        \* what a goroutine read first in its call
          returned     \* the result of the last read

lock == <<writer, readers, waiting>>
data == <<text, edits, view, registered>>
reads == <<seen, returned>>
vars == <<call, pc, lock, mu, data, reads>>

\* The calls that take the write lock: a transaction (Transact, Insert, Delete,
\* ApplySyncUpdate; GetOrCreateText and Poll are as one that edits nothing),
\* Mirror.Check and NewMirror.
WriteCall == {"transact", "check", "observe"}
ReadCall == {"read", "mirror"}

-----------------------------------------------------------------------------
Init ==
  /\ call = [g \in Goroutine |-> "none"]
  /\ pc = [g \in Goroutine |-> "start"]
  /\ writer = Nil /\ readers = {} /\ waiting = {} /\ mu = Nil
  /\ text = 0 /\ edits = 0 /\ view = 0 /\ registered = FALSE
  /\ seen = [g \in Goroutine |-> 0]
  /\ returned = [first |-> 0, last |-> 0]

\* The program calls; the mirror is made once, and used when it is there.
Call(g, c) ==
  /\ call[g] = "none"
  /\ c = "observe" => ~registered /\ \A h \in Goroutine : call[h] # "observe"
  /\ c \in {"check", "mirror"} => registered /\ \A h \in Goroutine : call[h] # "observe"
  /\ call' = [call EXCEPT ![g] = c]
  /\ UNCHANGED <<pc, lock, mu, data, reads>>

at(g, c, label) == call[g] = c /\ pc[g] = label
goto(g, label) == pc' = [pc EXCEPT ![g] = label] /\ UNCHANGED call
return(g) == call' = [call EXCEPT ![g] = "none"] /\ pc' = [pc EXCEPT ![g] = "start"]

-----------------------------------------------------------------------------
\* wlock: a writer announces itself when no other has, and has the lock when
\* the readers are gone.
Announce(g) ==
  /\ call[g] \in WriteCall /\ pc[g] = "start"
  /\ writer = Nil
  /\ writer' = g
  /\ goto(g, "drain")
  /\ UNCHANGED <<readers, waiting, mu, data, reads>>

Locked(g) ==
  /\ pc[g] = "drain" /\ readers = {}
  /\ goto(g, "locked")
  /\ UNCHANGED <<lock, mu, data, reads>>

\* wunlock: the readers that came meanwhile are let in.
wunlock(g) ==
  /\ writer' = Nil
  /\ readers' = waiting
  /\ waiting' = {}

\* Fault: a waiting writer keeps no reader out.
rlockOvertakes(g) ==
  /\ at(g, "read", "start")
  /\ IF writer = Nil \/ (\E h \in Goroutine : writer = h /\ pc[h] = "drain")
       THEN readers' = readers \cup {g} /\ UNCHANGED waiting
     ELSE waiting' = waiting \cup {g} /\ UNCHANGED readers
  /\ goto(g, "rlocked")
  /\ UNCHANGED <<writer, mu, data, reads>>

rlock(g) ==
  /\ at(g, "read", "start")
  /\ IF writer = Nil THEN readers' = readers \cup {g} /\ UNCHANGED waiting
     ELSE waiting' = waiting \cup {g} /\ UNCHANGED readers
  /\ goto(g, "rlocked")
  /\ UNCHANGED <<writer, mu, data, reads>>

-----------------------------------------------------------------------------
\* Fault: the walk does not wait for the lock.
ReadFirstUnlocked(g) ==
  /\ at(g, "read", "rlocked")
  /\ seen' = [seen EXCEPT ![g] = text]
  /\ goto(g, "walk")
  /\ UNCHANGED <<lock, mu, data, returned>>

\* CodeUnits, Snapshot and Len: the walk over the list, from what it finds
\* first to what it finds last.
ReadFirst(g) ==
  /\ at(g, "read", "rlocked") /\ g \in readers
  /\ seen' = [seen EXCEPT ![g] = text]
  /\ goto(g, "walk")
  /\ UNCHANGED <<lock, mu, data, returned>>

\* The end of the walk, and runlock.
ReadLast(g) ==
  /\ at(g, "read", "walk")
  /\ returned' = [first |-> seen[g], last |-> text]
  /\ seen' = [seen EXCEPT ![g] = 0]
  /\ readers' = readers \ {g}
  /\ return(g)
  /\ UNCHANGED <<writer, waiting, mu, data>>

-----------------------------------------------------------------------------
\* Fault: an insertion that is refused is recorded nevertheless.
EditRefused(g) ==
  /\ at(g, "transact", "locked")
  /\ edits < MaxEdits
  /\ edits' = edits + 1
  /\ UNCHANGED <<call, pc, lock, mu, text, view, registered, reads>>

\* transact: f edits the text, through the transaction ...
Edit(g) ==
  /\ at(g, "transact", "locked")
  /\ edits < MaxEdits /\ text < MaxText
  /\ text' = text + 1
  /\ edits' = edits + 1
  /\ UNCHANGED <<call, pc, lock, mu, view, registered, reads>>

\* Fault: a transaction of one edit is told to nobody.
NotifyMany(g) ==
  /\ at(g, "transact", "locked")
  /\ goto(g, IF edits > 1 /\ registered THEN "callback" ELSE "unlock")
  /\ UNCHANGED <<lock, mu, data, reads>>

\* ... notify calls the callback if the text changed and somebody observes it ...
Notify(g) ==
  /\ at(g, "transact", "locked")
  /\ goto(g, IF edits > 0 /\ registered THEN "callback" ELSE "unlock")
  /\ UNCHANGED <<lock, mu, data, reads>>

\* ... and the write lock is released.
Unlock(g) ==
  /\ pc[g] = "unlock"
  /\ wunlock(g)
  /\ edits' = 0
  /\ return(g)
  /\ UNCHANGED <<mu, text, view, registered, reads>>

\* Text.Observe: the callback is told the whole text ...
Initial(g) ==
  /\ at(g, "observe", "locked")
  /\ goto(g, "callback")
  /\ UNCHANGED <<lock, mu, data, reads>>

\* ... and registered.
Register(g) ==
  /\ at(g, "observe", "register")
  /\ registered' = TRUE
  /\ goto(g, "unlock")
  /\ UNCHANGED <<lock, mu, text, edits, view, reads>>

-----------------------------------------------------------------------------
\* The mirror's callback: its lock is taken, under the document's ...
CallbackLock(g) ==
  /\ pc[g] = "callback" /\ mu = Nil
  /\ mu' = g
  /\ goto(g, "patch")
  /\ UNCHANGED <<lock, data, reads>>

\* ... the view patched with what it was told, and the lock released.
CallbackPatch(g) ==
  /\ pc[g] = "patch"
  /\ view' = IF call[g] = "observe" THEN text ELSE view + edits
  /\ edits' = 0
  /\ mu' = Nil
  /\ goto(g, IF call[g] = "observe" THEN "register" ELSE "unlock")
  /\ UNCHANGED <<lock, text, registered, reads>>

\* Check: the text, inside a transaction ...
CheckText(g) ==
  /\ at(g, "check", "locked")
  /\ seen' = [seen EXCEPT ![g] = text]
  /\ goto(g, "mirror")
  /\ UNCHANGED <<lock, mu, data, returned>>

\* ... and the view; Mirror.Text by itself takes the mirror's lock only.
MirrorLock(g) ==
  /\ at(g, "mirror", "start") \/ at(g, "check", "mirror")
  /\ mu = Nil
  /\ mu' = g
  /\ goto(g, "view")
  /\ UNCHANGED <<lock, data, reads>>

\* Fault: the view is read when nobody writes the document, which is waited for
\* (a turn of the wait changes nothing) with the view's lock in hand.
MirrorTextWaits(g) ==
  /\ pc[g] = "view"
  /\ IF writer \notin {Nil, g} THEN UNCHANGED vars
     ELSE /\ mu' = Nil
          /\ returned' = [first |-> IF call[g] = "check" THEN seen[g] ELSE view,
                          last |-> view]
          /\ seen' = [seen EXCEPT ![g] = 0]
          /\ IF call[g] = "check" THEN goto(g, "unlock") ELSE return(g)
          /\ UNCHANGED <<lock, data>>

MirrorText(g) ==
  /\ pc[g] = "view"
  /\ mu' = Nil
  /\ returned' = [first |-> IF call[g] = "check" THEN seen[g] ELSE view,
                  last |-> view]
  /\ seen' = [seen EXCEPT ![g] = 0]
  /\ IF call[g] = "check" THEN goto(g, "unlock") ELSE return(g)
  /\ UNCHANGED <<lock, data>>

-----------------------------------------------------------------------------
Step(g) ==
  \/ Announce(g) \/ Locked(g) \/ rlock(g) \/ ReadFirst(g) \/ ReadLast(g)
  \/ Edit(g) \/ Notify(g) \/ Unlock(g) \/ Initial(g) \/ Register(g)
  \/ CallbackLock(g) \/ CallbackPatch(g) \/ CheckText(g)
  \/ MirrorLock(g) \/ MirrorText(g)

Next == \E g \in Goroutine : Step(g) \/ \E c \in WriteCall \cup ReadCall : Call(g, c)

Spec == Init /\ [][Next]_vars

\* The scheduler runs a goroutine that can go on, and a mutex does not pass over
\* one that waits for ever: its starvation mode hands it over after a while, so
\* that a goroutine that can go on again and again does.
FairSpec == Spec /\ \A g \in Goroutine : SF_vars(Step(g))

-----------------------------------------------------------------------------
\* Properties

Label == {"start", "drain", "locked", "unlock", "rlocked", "walk", "callback",
          "patch", "register", "mirror", "view"}

TypeOK ==
  /\ call \in [Goroutine -> WriteCall \cup ReadCall \cup {"none"}]
  /\ pc \in [Goroutine -> Label]
  /\ writer \in Goroutine \cup {Nil} /\ mu \in Goroutine \cup {Nil}
  /\ readers \subseteq Goroutine /\ waiting \subseteq Goroutine
  /\ text \in Nat /\ edits \in 0 .. text /\ view \in Nat
  /\ registered \in BOOLEAN
  /\ seen \in [Goroutine -> Nat]
  /\ returned \in [first : Nat, last : Nat]

\* A goroutine is where the text is edited or walked, or the mirror patched or
\* read, only while it has the lock for it, and nobody else is in its way.
Writing(g) == pc[g] \in {"locked", "callback", "patch", "register", "mirror", "unlock"}

Exclusive ==
  \A g, h \in Goroutine :
    /\ Writing(g) => writer = g /\ pc[h] # "walk" /\ (Writing(h) => h = g)
    /\ pc[g] = "walk" => g \in readers
    /\ pc[g] \in {"patch", "view"} => mu = g

\* Whatever the goroutines interleave, the document and its mirror behave as if
\* every call were one step: a transaction and what its observers are told, a
\* read, a registration.  The edits of an open transaction are not there yet.
Atomic == INSTANCE Serial WITH text <- text - edits,
                               view <- IF registered THEN view ELSE 0

IsSerial == Atomic!Spec

\* Mirror.Check reports true: the text and the view read inside one transaction
\* are the same, though other goroutines write, and read the mirror, meanwhile.
CheckHolds == \A g \in Goroutine : at(g, "check", "view") => seen[g] = view

\* Every call returns: nobody waits for ever for the document or the mirror.
CallsReturn == \A g \in Goroutine : call[g] # "none" ~> call[g] = "none"
=============================================================================
