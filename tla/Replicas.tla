------------------------------ MODULE Replicas ------------------------------
(***************************************************************************)
(* Several documents edited concurrently and brought together by updates.  *)
(* Each replica runs the code of yjs/; the network is a set of the structs *)
(* and delete spans of every edit so far, from which any batch may reach   *)
(* any replica, in any order, any number of times or never.  Besides, a    *)
(* replica may be given the whole state of another (EncodeUpdate).         *)
(*                                                                         *)
(* Split says which codec decodes: the wire codec, which hands the store   *)
(* one-unit items, or one that hands it runs as they were encoded.         *)
(***************************************************************************)
EXTENDS Update

CONSTANTS Split,        \* TRUE: the wire codec, FALSE: runs arrive whole
          MaxUnits,     \* bound: units inserted altogether
          MaxInsert,    \* bound: units of one insertion
          MaxDeletes,   \* bound: delete edits altogether
          MaxBatch,     \* bound: structs of one delivered batch
          MaxBuffered,  \* bound: buffered delete spans of a replica
          Redeliver,    \* whether the network repeats what it delivered
          Syncs         \* whether whole-state updates are exchanged

ASSUME BoundsAssumption ==
  /\ {MaxUnits, MaxInsert, MaxDeletes, MaxBatch, MaxBuffered} \subseteq Nat
  /\ {Split, Redeliver, Syncs} \subseteq BOOLEAN
ASSUME InsertAssumption == MaxInsert < ClockMod    \* the length of a string is
                                                   \* an int, a clock a uint64

VARIABLES doc,      \* the store of each replica
          sent,     \* the structs of every insertion so far
          cut,      \* the delete spans of every deletion, by edit
          got       \* the ids whose insertion / deletion each replica was told

vars == <<doc, sent, cut, got>>

-----------------------------------------------------------------------------
\* The runs of consecutive units of a set of ids, as delete spans: the delete
\* set a Yjs peer sends for one edit (this package writes whole states only).
Spans(ids) ==
  {d \in [client : Client, clock : 0 .. MaxUnits, length : 1 .. MaxUnits] :
     /\ SpanUnits(d) \subseteq ids
     /\ newId(d.client, d.clock - 1) \notin ids
     /\ newId(d.client, d.clock + d.length) \notin ids}

\* The update items of a struct section.
Decoded(sections) ==
  IF Split THEN splitStructs(readStructSection(sections))
  ELSE readStructSection(sections)

\* The structs a Yjs peer sends for an insertion of the recorded spans: the
\* client's own, encoded as those of a whole state are.
Emitted(s, spans) ==
  IF spans = <<>> THEN {}
  ELSE ToSet(Decoded(<<encodeClient(s, [i \in DOMAIN spans |-> spans[i].id])>>))

-----------------------------------------------------------------------------
Init ==
  /\ doc = [r \in Client |-> newStore(r)]
  /\ sent = {}
  /\ cut = {}
  /\ got = [r \in Client |-> [ins |-> {}, del |-> {}]]

\* Text.Insert: an index past the end is refused.
Insert(r, t, index, n) ==
  /\ Cardinality(StructIds(sent)) + n <= MaxUnits
  /\ \E tr \in {InsertIn(newTransaction(doc[r]), t, index, n)} :
       /\ doc' = [doc EXCEPT ![r] = tr.store]
       /\ sent' = sent \cup Emitted(tr.store, tr.insertSet)
       /\ got' = [got EXCEPT ![r].ins = @ \cup SpanIds(tr.insertSet)]
  /\ UNCHANGED cut

\* Text.Delete: a range past the end is cut short.
Delete(r, t, index, length) ==
  /\ Cardinality(cut) < MaxDeletes
  /\ \E tr \in {DeleteIn(newTransaction(doc[r]), t, index, length)} :
       LET dead == SpanIds(tr.deleteSet)
       IN  /\ doc' = [doc EXCEPT ![r] = tr.store]
           /\ cut' = cut \cup Spans(dead)
           /\ got' = [got EXCEPT ![r].del = @ \cup dead]
  /\ UNCHANGED sent

\* ApplySyncUpdate of a batch the network made of what was sent.
Deliver(r, structs, spans) ==
  LET told == [ins |-> got[r].ins \cup StructIds(ToSet(structs)),
               del |-> got[r].del \cup UNION {SpanUnits(d) : d \in ToSet(spans)}]
  IN  /\ Redeliver \/ told # got[r]
      /\ Len(doc[r].pendingDeletes) + Len(spans) <= MaxBuffered
      /\ doc' = [doc EXCEPT ![r] =
                   applySyncUpdate(newTransaction(@), structs, spans).store]
      /\ got' = [got EXCEPT ![r] = told]
      /\ UNCHANGED <<sent, cut>>

\* ApplyEncodedUpdate of the whole state of replica q.
Sync(r, q) ==
  LET apply(s, update) ==
        applySyncUpdate(newTransaction(s), Decoded(update.structs),
                        readDeleteSection(update.deletes)).store
      told == [ins |-> got[r].ins \cup Integrated(doc[q]),
               del |-> got[r].del \cup Tombstones(doc[q])]
  IN  /\ Syncs
      /\ Redeliver \/ told # got[r]
      /\ doc' = [doc EXCEPT ![r] = apply(@, EncodeUpdate(doc[q]))]
      /\ got' = [got EXCEPT ![r] = told]
      /\ UNCHANGED <<sent, cut>>

Batches(S, n) == UNION {[1 .. k -> S] : k \in 0 .. n}

\* What replica r does by itself, or with what the network brings it.
Step(r) ==
  \/ \E t \in Root, n \in 1 .. MaxInsert :
       \E index \in 0 .. doc[r].len[t] + 1 : Insert(r, t, index, n)
  \/ \E t \in Root : \E index \in 0 .. doc[r].len[t] - 1 :
       \E length \in 1 .. doc[r].len[t] - index + 1 : Delete(r, t, index, length)
  \/ \E structs \in Batches(sent, MaxBatch), spans \in Batches(cut, 1) :
       structs \o spans # <<>> /\ Deliver(r, structs, spans)

Next == \E r \in Client : Step(r) \/ \E q \in Client \ {r} : Sync(r, q)

Spec == Init /\ [][Next]_vars

-----------------------------------------------------------------------------
\* Properties

Order(r, t) ==
  LET shot == Snapshot(doc[r], t) IN [i \in DOMAIN shot |-> shot[i].id]
IndexOf(x, seq) == CHOOSE i \in DOMAIN seq : seq[i] = x

NodeType(r) ==
  [originLeftId : Client \X Nat \cup {Nil}, originRightId : Client \X Nat \cup {Nil},
   left : DOMAIN doc[r].heap \cup {Nil}, right : DOMAIN doc[r].heap \cup {Nil},
   parent : Root, len : 1 .. MaxUnits, deleted : BOOLEAN]

\* Every field of every replica's store has its type: in particular a linked
\* node has a parent, at least one unit and neighbours that are linked nodes.
TypeOK ==
  \A r \in Client :
    /\ doc[r].client = r
    /\ doc[r].clock \in 0 .. MaxUnits
    /\ \A x \in DOMAIN doc[r].heap : doc[r].heap[x] \in NodeType(r)
    /\ \A c \in Client : ToSet(doc[r].items[c]) \subseteq DOMAIN doc[r].heap
    /\ \A t \in Root : doc[r].start[t] \in DOMAIN doc[r].heap \cup {Nil}
    /\ ToSet(doc[r].pending) \subseteq sent
    /\ got[r].ins \cup got[r].del \subseteq Client \X Nat

\* The lists of a store and its run lists hold the same nodes: every linked
\* list is doubly linked and ends at its head (start has no left), a node is
\* in exactly the list of its parent, and the run list of a client is sorted
\* and covers its clocks from 0 without a gap (what the binary search of
\* getNodeIndex and splitNode's insertion rely on), whatever splits happened.
ListsAgree ==
  \A r \in Client :
    LET s == doc[r] IN
    /\ \A t \in Root :
         LET chain == Chain(s, t) IN
         /\ ToSet(chain) = {x \in DOMAIN s.heap : s.heap[x].parent = t}
         /\ \A i \in DOMAIN chain :
              s.heap[chain[i]].left = IF i = 1 THEN Nil ELSE chain[i - 1]
    /\ \A c \in Client :
         LET run == s.items[c] IN
         /\ ToSet(run) = {x \in DOMAIN s.heap : clientOf(x) = c}
         /\ \A i \in DOMAIN run :
              clockOf(run[i]) = IF i = 1 THEN 0
                                ELSE clockOf(run[i - 1]) + s.heap[run[i - 1]].len

\* The visible length a root keeps incrementally (yType.len, which bounds
\* every index) is the number of units it shows.
LenIsVisible ==
  \A r \in Client, t \in Root : doc[r].len[t] = Len(Text(doc[r], t))

\* A unit stands between its origins for ever: its left origin to its left,
\* its right origin to its right, in the same list.
OriginsRespected ==
  \A r \in Client : \A x \in DOMAIN doc[r].heap :
    LET node == doc[r].heap[x]
        order == Order(r, node.parent)
    IN  /\ node.originLeftId # Nil =>
             /\ node.originLeftId \in ToSet(order)
             /\ IndexOf(node.originLeftId, order) < IndexOf(x, order)
        /\ node.originRightId # Nil =>
             /\ node.originRightId \in ToSet(order)
             /\ IndexOf(x, order) < IndexOf(node.originRightId, order)

\* Strong eventual consistency: two replicas told of the same insertions and
\* deletions show the same snapshot, tombstones included, whatever the order,
\* batching and duplication of what they were sent.  A snapshot is the ids and
\* the tombstones: the halves of a surrogate pair that an edit came between may
\* read differently at two replicas (codec.go:39-41).
Convergence ==
  \A r, q \in Client :
    got[r] = got[q] => \A t \in Root : Snapshot(doc[r], t) = Snapshot(doc[q], t)

\* Even replicas that know different things order what both know alike: the
\* lists of all replicas are parts of one list.
OneOrder ==
  \A r, q \in Client, t \in Root :
    LET common == Integrated(doc[r]) \cap Integrated(doc[q])
        both(p) == SelectIn(Order(p, t), common)
    IN  both(r) = both(q)

\* No delivered insertion is lost: it is integrated or buffered, and never
\* both; what is buffered still misses a dependency (nothing ready waits for
\* another update to be drained), and is buffered once.
NothingReadyPends ==
  \A r \in Client :
    LET pending == doc[r].pending
        waiting == ToSet(pending)
    IN  /\ got[r].ins = Integrated(doc[r]) \cup StructIds(waiting)
        /\ Integrated(doc[r]) \cap StructIds(waiting) = {}
        /\ \A u \in waiting : ~depsArrived(doc[r], u)
        /\ \A i, j \in DOMAIN pending : pending[i].id = pending[j].id => i = j

\* A deletion takes effect on exactly the units named, as soon as they are
\* there: the tombstones are the integrated units whose deletion was
\* delivered, and a deletion that came first is still buffered.
DeletesLand ==
  \A r \in Client :
    /\ Tombstones(doc[r]) = got[r].del \cap Integrated(doc[r])
    /\ got[r].del \ Integrated(doc[r])
         \subseteq UNION {SpanUnits(d) : d \in ToSet(doc[r].pendingDeletes)}

\* A step never reorders or removes a unit of a replica's list and never
\* brings a deleted unit back.
OrderIsStable ==
  [][\A r \in {q \in Client : doc'[q] # doc[q]}, t \in Root :
       /\ Tombstones(doc[r]) \subseteq Tombstones(doc'[r])
       /\ \A old \in {Order(r, t)}, new \in {Order(r, t)'} :
            /\ ToSet(old) \subseteq ToSet(new)
            /\ \A i, j \in DOMAIN old :
                 i < j => IndexOf(old[i], new) < IndexOf(old[j], new)]_vars

\* What a user sees of an insertion, whenever it is made: the new units, in
\* order, between the visible units before and after the visible index.  It
\* is refused, and changes nothing, just when the index is past the end or the
\* clock has no room for the units.  Tombstones and runs may lie at the index.
InsertAtIndex ==
  \A r \in Client, t \in Root, n \in 1 .. MaxInsert :
    \A index \in 0 .. doc[r].len[t] + 1 :
      LET old == Text(doc[r], t)
          new == [k \in 1 .. n |-> newId(r, doc[r].clock + k - 1)]
      IN  Text(InsertIn(newTransaction(doc[r]), t, index, n).store, t) =
            IF index > Len(old) \/ doc[r].clock + n >= ClockMod THEN old
            ELSE SubSeq(old, 1, index) \o new \o SubSeq(old, index + 1, Len(old))

\* What a user sees of a deletion, whenever it is made: the visible units from
\* the index on, as many as asked for or are left, are gone, and no others.
DeleteAtIndex ==
  \A r \in Client, t \in Root :
    \A index \in 0 .. doc[r].len[t] - 1 :
      \A length \in 1 .. doc[r].len[t] - index + 1 :
        LET old == Text(doc[r], t)
        IN  Text(DeleteIn(newTransaction(doc[r]), t, index, length).store, t) =
              SubSeq(old, 1, index) \o SubSeq(old, index + length + 1, Len(old))

\* A whole-state update catches a replica up: all the sender shows or hides
\* is then shown or hidden here, though runs were joined to be written and
\* split to be read.
SyncCatchesUp ==
  [][\A r, q \in Client :
       r # q /\ Sync(r, q) =>
         /\ Integrated(doc[q]) \subseteq Integrated(doc'[r])
         /\ Tombstones(doc[q]) \subseteq Tombstones(doc'[r])]_vars
=============================================================================
