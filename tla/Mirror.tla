------------------------------- MODULE Mirror -------------------------------
(***************************************************************************)
(* The push side of the observers: Text.Observe and notify, and the Mirror *)
(* of observeapp, whose callback keeps a copy of each text.                *)
(*                                                                         *)
(* The observed document is that of replica Self.  Its transactions are    *)
(* taken apart: opened, edited any number of times, committed; the write   *)
(* lock is held meanwhile, so that nothing else touches the document.  The *)
(* other replicas do what they do in Replicas; their steps commute with    *)
(* the edits of an open transaction and are taken between transactions.    *)
(***************************************************************************)
EXTENDS Observe

CONSTANT Self

ASSUME SelfAssumption == Self \in Client

VARIABLES tr,      \* the open transaction of Self; Nil: the lock is free
          view     \* the mirror's copy of each text; Nil: not registered

mirrorVars == <<tr, view>>
allVars == <<vars, mirrorVars>>

-----------------------------------------------------------------------------
\* Fault: a unit inserted and deleted in one transaction counts as deleted.
textDeltaDeletesFirst(s, t, inserted, dropped) ==
  walk(s, t, [u \in ToSet(Snapshot(s, t)) |->
    IF u.id \in dropped THEN "delete"
    ELSE IF u.id \in inserted THEN "insert"
    ELSE IF u.deleted THEN Nil ELSE "retain"])

\* Against a transaction's record, given as the ids it inserted and deleted.
textDelta(s, t, inserted, dropped) ==
  walk(s, t, [u \in ToSet(Snapshot(s, t)) |->
    IF u.id \in inserted THEN IF u.deleted THEN Nil ELSE "insert"
    ELSE IF u.id \in dropped THEN "delete"
    ELSE IF u.deleted THEN Nil ELSE "retain"])

\* Fault: only the roots inserted into are told.
notifyInserted(done) ==
  [t \in Root |->
     IF view[t] = Nil \/ t \notin {done.store.heap[x.id].parent : x \in ToSet(done.insertSet)}
       THEN view[t]
     ELSE callback(view[t], textDelta(done.store, t, SpanIds(done.insertSet),
                                      SpanIds(done.deleteSet)))]

\* The copies after transaction done: each changed root that somebody observes
\* is told its delta.
notify(done) ==
  [t \in Root |->
     IF view[t] = Nil \/ t \notin done.changed THEN view[t]
     ELSE callback(view[t], textDelta(done.store, t, SpanIds(done.insertSet),
                                      SpanIds(done.deleteSet)))]

-----------------------------------------------------------------------------
MirrorInit ==
  /\ Init
  /\ tr = Nil
  /\ view = [t \in Root |-> Nil]

\* transact: the lock is taken and an empty record made ...
Begin ==
  /\ tr = Nil
  /\ tr' = newTransaction(doc[Self])
  /\ UNCHANGED <<vars, view>>

\* ... f edits the store through it ...
EditInsert(t, index, n) ==
  /\ tr # Nil
  /\ Cardinality(StructIds(sent)) + Cardinality(SpanIds(tr.insertSet)) + n <= MaxUnits
  /\ tr' = InsertIn(tr, t, index, n)
  /\ UNCHANGED <<vars, view>>

EditDelete(t, index, length) ==
  /\ tr # Nil
  /\ Cardinality(cut) + Cardinality(SpanIds(tr.deleteSet)) < MaxDeletes
  /\ tr' = DeleteIn(tr, t, index, length)
  /\ UNCHANGED <<vars, view>>

\* ... and the observers are told before the lock is released.
Commit ==
  /\ tr # Nil
  /\ doc' = [doc EXCEPT ![Self] = tr.store]
  /\ sent' = sent \cup Emitted(tr.store, tr.insertSet)
  /\ cut' = cut \cup Spans(SpanIds(tr.deleteSet))
  /\ got' = [got EXCEPT ![Self] = [ins |-> @.ins \cup SpanIds(tr.insertSet),
                                   del |-> @.del \cup SpanIds(tr.deleteSet)]]
  /\ view' = notify(tr)
  /\ tr' = Nil

\* An update from the network: one transaction, all at once.
Update(structs, spans) ==
  /\ tr = Nil
  /\ Deliver(Self, structs, spans)
  /\ \E done \in {applySyncUpdate(newTransaction(doc[Self]), structs, spans)} :
       view' = notify(done)
  /\ UNCHANGED tr

\* Fault: a callback that joins later is not told what is there.
initialNothing(s, t) == <<>>

\* The text as one insert.
initial(s, t) ==
  IF Text(s, t) = <<>> THEN <<>>
  ELSE <<[kind |-> "insert", length |-> 0, content |-> Text(s, t)]>>

\* Text.Observe: the initial load and the registration, under one lock.
Register(t) ==
  /\ tr = Nil /\ view[t] = Nil
  /\ view' = [view EXCEPT ![t] = callback(<<>>, initial(doc[Self], t))]
  /\ UNCHANGED <<vars, tr>>

MirrorNext ==
  \/ \E r \in Client \ {Self} : tr = Nil /\ Step(r) /\ UNCHANGED mirrorVars
  \/ Begin
  \/ \E t \in Root, n \in 1 .. MaxInsert :
       tr # Nil /\ \E index \in 0 .. tr.store.len[t] : EditInsert(t, index, n)
  \/ \E t \in Root :
       tr # Nil /\ \E index \in 0 .. tr.store.len[t] - 1 :
         \E length \in 1 .. tr.store.len[t] - index : EditDelete(t, index, length)
  \/ Commit
  \/ \E structs \in Batches(sent, MaxBatch), spans \in Batches(cut, 1) :
       structs \o spans # <<>> /\ Update(structs, spans)
  \/ \E t \in Root : Register(t)

MirrorSpec == MirrorInit /\ [][MirrorNext]_allVars

-----------------------------------------------------------------------------
\* Properties

\* What observeapp.Mirror.Check reports: between transactions, and when one has
\* just begun, a mirror equals the text, however many edits, tombstones, splits
\* and late arrivals the transactions since its registration were made of.
MirrorLaw ==
  \A t \in Root : view[t] # Nil => view[t] = Text(doc[Self], t)
=============================================================================
