------------------------------- MODULE Drain -------------------------------
(***************************************************************************)
(* The loop of Transaction.applyUpdate (yjs/transaction.go), one iteration *)
(* a step: what became of each struct of a batch, and of the structs that  *)
(* waited for it.  Where the document puts a struct does not matter here;  *)
(* the store is the set of the ids its run lists cover.                    *)
(*                                                                         *)
(* The whole loop runs under the store's write lock, so a local insertion  *)
(* or another batch comes only between two runs of it.                     *)
(***************************************************************************)
EXTENDS Integers, Sequences, FiniteSets

CONSTANTS Client,      \* replica ids
          Self,        \* the replica whose document this is
          Struct,      \* the decoded structs there are
          Batch,       \* the batches of structs that may be delivered
          MaxClock,    \* bound: local insertions (2^64 - 1 in the code)
          Nil          \* the absent origin

Id == Client \X Nat
newId(client, clock) == <<client, clock>>
clientOf(x) == x[1]
clockOf(x) == x[2]

\* The ids of a struct's units.
Units(u) ==
  {newId(clientOf(u.id), k) : k \in clockOf(u.id) .. clockOf(u.id) + u.len - 1}

ASSUME SelfAssumption == Self \in Client /\ MaxClock \in Nat
ASSUME StructAssumption ==
  Struct \subseteq [id : Id, len : Nat \ {0},
                    originLeftId : Id \cup {Nil}, originRightId : Id \cup {Nil}]
ASSUME BatchAssumption == Batch \subseteq Seq(Struct)
ASSUME NilAssumption == Nil \notin Id

\* What is sent of an edit is cut into structs once: two structs that share a
\* unit are one.  The wire codec's one-unit items are such structs.
ASSUME TilesAssumption ==
  \A u, v \in Struct : Units(u) \cap Units(v) # {} => u = v

VARIABLES have,       \* the ids the store's run lists cover
          clock,      \* the next local clock
          pending,    \* store.pending
          queue, rest, i, progress,   \* the locals of applyUpdate
          pc,         \* "idle" or "drain": whether a call is running
          received    \* history: the structs delivered so far

vars == <<have, clock, pending, queue, rest, i, progress, pc, received>>

Elements(seq) == {seq[k] : k \in 1 .. Len(seq)}

hasNode(x) == x \in have
originArrived(x) == x = Nil \/ hasNode(x)

\* Fault: the author's preceding unit does not gate a struct.
depsArrivedOrigins(u) ==
  originArrived(u.originLeftId) /\ originArrived(u.originRightId)

depsArrived(u) ==
  /\ originArrived(u.originLeftId)
  /\ originArrived(u.originRightId)
  /\ clockOf(u.id) > 0 => hasNode(newId(clientOf(u.id), clockOf(u.id) - 1))

containsUpdateItemId(us, x) == \E k \in 1 .. Len(us) : us[k].id = x

\* Peers know of this replica's units only what it inserted: a struct that is
\* one of them, or refers to one, comes after it.
ComesAfterOwn(u) ==
  /\ clientOf(u.id) = Self => Units(u) \subseteq have
  /\ u.originLeftId # Nil /\ clientOf(u.originLeftId) = Self => hasNode(u.originLeftId)
  /\ u.originRightId # Nil /\ clientOf(u.originRightId) = Self => hasNode(u.originRightId)

-----------------------------------------------------------------------------
Init ==
  /\ have = {}
  /\ clock = 0
  /\ pending = <<>>
  /\ queue = <<>> /\ rest = <<>> /\ i = 1 /\ progress = FALSE
  /\ pc = "idle"
  /\ received = {}

\* Fault: the unit takes the clock before the next.
InsertOneLower ==
  /\ pc = "idle"
  /\ clock < MaxClock
  /\ have' = have \cup {newId(Self, clock - 1)}
  /\ clock' = clock + 1
  /\ UNCHANGED <<pending, queue, rest, i, progress, pc, received>>

\* A local insertion takes the next clock; nothing is drained.
Insert ==
  /\ pc = "idle"
  /\ clock < MaxClock
  /\ have' = have \cup {newId(Self, clock)}
  /\ clock' = clock + 1
  /\ UNCHANGED <<pending, queue, rest, i, progress, pc, received>>

\* Fault: the buffer is emptied and not queued.
BeginForgets(batch) ==
  /\ pc = "idle"
  /\ \A u \in Elements(batch) : ComesAfterOwn(u)
  /\ queue' = batch
  /\ pending' = <<>>
  /\ rest' = <<>> /\ i' = 1 /\ progress' = FALSE
  /\ pc' = "drain"
  /\ received' = received \cup Elements(batch)
  /\ UNCHANGED <<have, clock>>

\* applyUpdate(batch) takes the buffer out of the store and queues the batch
\* behind it.
Begin(batch) ==
  /\ pc = "idle"
  /\ \A u \in Elements(batch) : ComesAfterOwn(u)
  /\ queue' = pending \o batch
  /\ pending' = <<>>
  /\ rest' = <<>> /\ i' = 1 /\ progress' = FALSE
  /\ pc' = "drain"
  /\ received' = received \cup Elements(batch)
  /\ UNCHANGED <<have, clock>>

Visiting == pc = "drain" /\ i <= Len(queue)

\* A struct the store has is a duplicate delivery.
Drop ==
  /\ Visiting
  /\ hasNode(queue[i].id)
  /\ i' = i + 1
  /\ UNCHANGED <<have, clock, pending, queue, rest, progress, pc, received>>

Integrate ==
  /\ Visiting
  /\ ~hasNode(queue[i].id)
  /\ depsArrived(queue[i])
  /\ have' = have \cup Units(queue[i])
  /\ progress' = TRUE
  /\ i' = i + 1
  /\ UNCHANGED <<clock, pending, queue, rest, pc, received>>

\* Fault: a struct that is not ready is dropped once the pass made progress.
RequeueUnlessProgress ==
  /\ Visiting
  /\ ~hasNode(queue[i].id)
  /\ ~depsArrived(queue[i])
  /\ rest' = IF progress THEN rest ELSE Append(rest, queue[i])
  /\ i' = i + 1
  /\ UNCHANGED <<have, clock, pending, queue, progress, pc, received>>

\* A struct that is not ready is kept for the next pass, once per id.
Requeue ==
  /\ Visiting
  /\ ~hasNode(queue[i].id)
  /\ ~depsArrived(queue[i])
  /\ rest' = IF containsUpdateItemId(rest, queue[i].id) THEN rest
             ELSE Append(rest, queue[i])
  /\ i' = i + 1
  /\ UNCHANGED <<have, clock, pending, queue, progress, pc, received>>

\* Fault: the passes never stop.
NextPassAlways ==
  /\ pc = "drain" /\ i > Len(queue)
  /\ queue' = rest
  /\ rest' = <<>> /\ i' = 1 /\ progress' = FALSE
  /\ UNCHANGED <<have, clock, pending, pc, received>>

NextPass ==
  /\ pc = "drain" /\ i > Len(queue) /\ progress
  /\ queue' = rest
  /\ rest' = <<>> /\ i' = 1 /\ progress' = FALSE
  /\ UNCHANGED <<have, clock, pending, pc, received>>

\* Fault: the loop ends after its first pass.
FinishEarly ==
  /\ pc = "drain" /\ i > Len(queue)
  /\ pending' = rest
  /\ queue' = <<>> /\ rest' = <<>> /\ i' = 1 /\ progress' = FALSE
  /\ pc' = "idle"
  /\ UNCHANGED <<have, clock, received>>

Finish ==
  /\ pc = "drain" /\ i > Len(queue) /\ ~progress
  /\ pending' = rest
  /\ queue' = <<>> /\ rest' = <<>> /\ i' = 1 /\ progress' = FALSE
  /\ pc' = "idle"
  /\ UNCHANGED <<have, clock, received>>

Loop == Drop \/ Integrate \/ Requeue \/ NextPass \/ Finish

Next == Insert \/ (\E batch \in Batch : Begin(batch)) \/ Loop

\* A call that holds the lock runs on; nothing makes the application insert or
\* the network deliver.
Spec == Init /\ [][Next]_vars /\ WF_vars(Loop)

-----------------------------------------------------------------------------
\* Properties

TypeOK ==
  /\ have \subseteq Id
  /\ clock \in Nat
  /\ pending \in Seq(Struct) /\ queue \in Seq(Struct) /\ rest \in Seq(Struct)
  /\ i \in Nat \ {0}
  /\ progress \in BOOLEAN
  /\ pc \in {"idle", "drain"}
  /\ received \subseteq Struct

\* The structs that still wait: in the buffer, for their turn, or for the
\* next pass.
Unvisited == {queue[k] : k \in {j \in 1 .. Len(queue) : i <= j}}
Waiting == Elements(pending) \cup Unvisited \cup Elements(rest)

\* The clocks of every client are covered from 0 without a gap, whatever the
\* order of delivery: what lets the store keep no state vector and search its
\* run lists by clock (store.go depsArrived).
GapFree ==
  \A x \in have : \A k \in 0 .. clockOf(x) : newId(clientOf(x), k) \in have

\* README "No insertion is dropped": a delivered struct is in the document
\* with all its units, or it waits.
NoInsertionDropped ==
  \A u \in received : Units(u) \subseteq have \/ u \in Waiting

\* When a call returns nothing it buffered could have been integrated, and a
\* local insertion after it does not make it so: no struct waits for a later
\* update that it does not depend on.
NothingReadyPends ==
  pc = "idle" => \A u \in Elements(pending) : ~hasNode(u.id) /\ ~depsArrived(u)

\* What a set of ids must hold beside the replica's own units: the units of
\* every delivered struct whose origins and predecessor it holds.
Own == {newId(Self, k) : k \in 0 .. clock - 1}
ReadyIn(u, S) ==
  /\ u.originLeftId # Nil => u.originLeftId \in S
  /\ u.originRightId # Nil => u.originRightId \in S
  /\ clockOf(u.id) > 0 => newId(clientOf(u.id), clockOf(u.id) - 1) \in S
Closed(S) ==
  Own \subseteq S /\ \A u \in received : ReadyIn(u, S) => Units(u) \subseteq S

AllUnits == {newId(Self, k) : k \in 0 .. MaxClock - 1} \cup UNION {Units(u) : u \in Struct}

\* Between calls the document holds the least such set.  So what is integrated
\* is a function of what was inserted here and delivered: the order, the
\* batches and the repetitions do not matter, and no unit comes out of thin air.
DrainIsClosure ==
  pc = "idle" => /\ Closed(have)
                 /\ \A S \in SUBSET AllUnits : Closed(S) => have \subseteq S

\* Every call of applyUpdate ends.
DrainEnds == pc = "drain" ~> pc = "idle"
=============================================================================
