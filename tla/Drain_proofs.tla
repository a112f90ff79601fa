---------------------------- MODULE Drain_proofs ----------------------------
(***************************************************************************)
(* Proofs about the applyUpdate loop of module Drain, for any clients, any *)
(* structs that tile their units and any batches.                          *)
(***************************************************************************)
EXTENDS Drain, TLAPS

-----------------------------------------------------------------------------
\* Sequences and what waits in them

\* The empty queue is a queue of structs and holds none.
LEMMA EmptyQueue == <<>> \in Seq(Struct) /\ Elements(<<>>) = {}
  BY DEF Elements

\* Appending a struct to a queue adds it to the queue's elements.
LEMMA ElementsAppend ==
  ASSUME NEW s \in Seq(Struct), NEW u \in Struct
  PROVE  Elements(Append(s, u)) = Elements(s) \cup {u}
  BY DEF Elements

\* Queueing a batch behind a buffer queues the elements of both.
LEMMA ElementsConcat ==
  ASSUME NEW s \in Seq(Struct), NEW t \in Seq(Struct)
  PROVE  Elements(s \o t) = Elements(s) \cup Elements(t)
<1>1. Elements(s \o t) \subseteq Elements(s) \cup Elements(t)
  BY DEF Elements
<1>2. Elements(s) \subseteq Elements(s \o t)
  BY DEF Elements
<1>3. ASSUME NEW k \in 1 .. Len(t)
      PROVE  t[k] \in Elements(s \o t)
  <2>1. /\ Len(s) + k \in 1 .. Len(s \o t)
        /\ (s \o t)[Len(s) + k] = t[k]
    OBVIOUS
  <2> QED BY <2>1 DEF Elements
<1> QED BY <1>1, <1>2, <1>3 DEF Elements

\* The elements of a queue of structs are structs.
LEMMA ElementsType ==
  ASSUME NEW s \in Seq(Struct)
  PROVE  Elements(s) \subseteq Struct
  BY DEF Elements

-----------------------------------------------------------------------------
\* Units

\* The units of a struct are ids of its client and include its own id.
LEMMA UnitsType ==
  ASSUME NEW u \in Struct
  PROVE  /\ Units(u) \subseteq Id
         /\ \A x \in Units(u) : clientOf(x) = clientOf(u.id)
         /\ u.id \in Units(u)
         /\ u.id \in Id
<1>1. /\ u.id \in Id
      /\ u.len \in Nat \ {0}
  BY StructAssumption
<1>2. PICK c \in Client, n \in Nat : u.id = <<c, n>>
  BY <1>1 DEF Id
<1>3. \A k \in n .. n + u.len - 1 : <<c, k>> \in Id
  BY <1>1, <1>2 DEF Id
<1>4. n \in n .. n + u.len - 1
  BY <1>1, <1>2
<1> QED BY <1>1, <1>2, <1>3, <1>4 DEF Units, newId, clientOf, clockOf

\* Two structs with one id are one: a queue that holds the id holds the struct.
LEMMA SameId ==
  ASSUME NEW u \in Struct, NEW v \in Struct, v.id \in Units(u)
  PROVE  u = v
  BY UnitsType, TilesAssumption

-----------------------------------------------------------------------------
\* Types

\* What TypeOK says of every variable but the flag of the pass: SMT takes the
\* numbers and the sequences, Zenon the flag.
TypeOfData ==
  /\ have \subseteq Id
  /\ clock \in Nat
  /\ pending \in Seq(Struct) /\ queue \in Seq(Struct) /\ rest \in Seq(Struct)
  /\ i \in Nat \ {0}
  /\ pc \in {"idle", "drain"}
  /\ received \subseteq Struct

\* The types are the types of the data and of the flag.
LEMMA TypeParts == TypeOK <=> TypeOfData /\ progress \in BOOLEAN
  BY DEF TypeOK, TypeOfData

\* Every variable keeps its type (module Drain, TypeOK).
LEMMA TypeStep == TypeOK /\ [Next]_vars => TypeOK'
<1> SUFFICES ASSUME TypeOfData, progress \in BOOLEAN, [Next]_vars
             PROVE  TypeOfData' /\ progress' \in BOOLEAN
  BY TypeParts DEF TypeOK, TypeOfData
<1>1. progress' \in BOOLEAN
  BY DEF Next, Loop, Insert, Begin, Drop, Integrate, Requeue, NextPass, Finish, vars
<1>2. TypeOfData'
  <2> USE DEF TypeOfData
  <2>1. CASE Insert
    <3>1. newId(Self, clock) \in Id
      BY SelfAssumption DEF newId, Id
    <3> QED BY <2>1, <3>1 DEF Insert
  <2>2. ASSUME NEW batch \in Batch, Begin(batch)
        PROVE  TypeOfData'
    <3>1. batch \in Seq(Struct)
      BY BatchAssumption
    <3>2. Elements(batch) \subseteq Struct
      BY <3>1, ElementsType
    <3> QED BY <2>2, <3>1, <3>2, EmptyQueue DEF Begin
  <2>3. CASE Drop
    BY <2>3 DEF Drop, Visiting
  <2>4. CASE Integrate
    <3>1. queue[i] \in Struct
      BY <2>4 DEF Integrate, Visiting
    <3>2. Units(queue[i]) \subseteq Id
      BY <3>1, UnitsType
    <3> QED BY <2>4, <3>2 DEF Integrate, Visiting
  <2>5. CASE Requeue
    <3>1. queue[i] \in Struct
      BY <2>5 DEF Requeue, Visiting
    <3> QED BY <2>5, <3>1 DEF Requeue, Visiting
  <2>6. CASE NextPass
    BY <2>6, EmptyQueue DEF NextPass
  <2>7. CASE Finish
    BY <2>7, EmptyQueue DEF Finish
  <2>8. CASE UNCHANGED vars
    BY <2>8 DEF vars
  <2> QED BY <2>1, <2>2, <2>3, <2>4, <2>5, <2>6, <2>7, <2>8 DEF Next, Loop
<1> QED BY <1>1, <1>2

\* In the initial state they have them.
LEMMA TypeInit == Init => TypeOK
<1>1. Init => TypeOfData
  BY EmptyQueue DEF Init, TypeOfData
<1>2. Init => progress \in BOOLEAN
  BY DEF Init
<1> QED BY <1>1, <1>2, TypeParts

\* The types hold of every behaviour.
THEOREM TypeCorrect == Spec => []TypeOK
  BY TypeInit, TypeStep, PTL DEF Spec

-----------------------------------------------------------------------------
\* The inductive invariant

\* A call at work has taken the buffer; between calls there is only the buffer.
Places ==
  /\ pc = "idle" => queue = <<>> /\ rest = <<>>
  /\ pc = "drain" => pending = <<>>
  /\ Waiting \subseteq received

\* The replica has its own units, and knows its own of what it was told.
OwnFirst ==
  /\ Own \subseteq have
  /\ \A u \in received : ComesAfterOwn(u)

\* A struct of another client is there whole or not at all.
Whole ==
  \A u \in Struct :
    clientOf(u.id) # Self /\ hasNode(u.id) => Units(u) \subseteq have

\* While a pass has made no progress the store is as it was when the pass
\* requeued its first struct: none of them is ready.
RestNotReady ==
  ~progress => \A u \in Elements(rest) : ~hasNode(u.id) /\ ~depsArrived(u)

\* Any set that holds what it must holds what the document holds: each struct
\* was integrated because its dependencies were in the document, so in the set.
Least == \A S \in SUBSET Id : Closed(S) => have \subseteq S

IInv ==
  /\ TypeOK
  /\ Places
  /\ OwnFirst
  /\ Whole
  /\ GapFree
  /\ NoInsertionDropped
  /\ RestNotReady
  /\ NothingReadyPends
  /\ Least

\* What has arrived stays, so a struct that is ready stays ready.
LEMMA ReadyIsStable ==
  ASSUME NEW u \in Struct, have \subseteq have', depsArrived(u)
  PROVE  depsArrived(u)'
  BY DEF depsArrived, originArrived, hasNode

\* What comes after the replica's own units does so for ever.
LEMMA OwnIsStable ==
  ASSUME NEW u \in Struct, have \subseteq have', ComesAfterOwn(u)
  PROVE  ComesAfterOwn(u)'
  BY DEF ComesAfterOwn, hasNode

\* A struct that comes after the replica's own units and waits for something
\* does not wait for the replica's next insertion.
LEMMA InsertWakesNothing ==
  ASSUME TypeOK, NEW u \in Struct, ComesAfterOwn(u),
         ~hasNode(u.id), ~depsArrived(u), Insert
  PROVE  ~hasNode(u.id)' /\ ~depsArrived(u)'
<1>1. have' = have \cup {<<Self, clock>>}
  BY DEF Insert, newId
<1>2. clientOf(u.id) # Self
  BY UnitsType DEF ComesAfterOwn, hasNode
<1>3. ~hasNode(u.id)'
  BY <1>1, <1>2 DEF hasNode, clientOf
<1>4. ~originArrived(u.originLeftId) => ~originArrived(u.originLeftId)'
  BY <1>1 DEF originArrived, hasNode, ComesAfterOwn, clientOf
<1>5. ~originArrived(u.originRightId) => ~originArrived(u.originRightId)'
  BY <1>1 DEF originArrived, hasNode, ComesAfterOwn, clientOf
<1>6. ASSUME ~hasNode(newId(clientOf(u.id), clockOf(u.id) - 1))
      PROVE  ~hasNode(newId(clientOf(u.id), clockOf(u.id) - 1))'
  BY <1>1, <1>2, <1>6 DEF hasNode, newId
<1> QED BY <1>3, <1>4, <1>5, <1>6 DEF depsArrived

-----------------------------------------------------------------------------
\* What waits, action by action

\* Passing a struct takes it off the structs to visit and no other.
LEMMA UnvisitedStep ==
  ASSUME queue \in Seq(Struct), i \in Nat \ {0}, i <= Len(queue),
         queue' = queue, i' = i + 1
  PROVE  Unvisited = {queue[i]} \cup Unvisited'
<1>1. {j \in 1 .. Len(queue) : i <= j} = {i} \cup {j \in 1 .. Len(queue) : i + 1 <= j}
  OBVIOUS
<1> QED BY <1>1 DEF Unvisited

\* At the end of a pass all have been visited.
LEMMA UnvisitedNone ==
  ASSUME queue \in Seq(Struct), i \in Nat, i > Len(queue)
  PROVE  Unvisited = {}
  BY DEF Unvisited

\* At the start of a pass none has.
LEMMA UnvisitedAll ==
  ASSUME i' = 1, queue' \in Seq(Struct)
  PROVE  Unvisited' = Elements(queue')
  BY DEF Unvisited, Elements

\* A queue of no struct has none to visit.
LEMMA UnvisitedEmpty ==
  /\ queue = <<>> => Unvisited = {}
  /\ queue' = <<>> => Unvisited' = {}
  BY DEF Unvisited

\* Between calls what waits is the buffer, during a call it is not.
LEMMA WaitingParts ==
  ASSUME Places
  PROVE  /\ pc = "idle" => Waiting = Elements(pending)
         /\ pc = "drain" => Waiting = Unvisited \cup Elements(rest)
  BY EmptyQueue, UnvisitedEmpty DEF Places, Waiting

-----------------------------------------------------------------------------
\* Every action preserves the inductive invariant

\* The initial state satisfies it.
LEMMA InvInit == Init => IInv
<1> SUFFICES ASSUME Init
             PROVE  IInv
  OBVIOUS
<1> USE DEF Init
<1>1. TypeOK
  BY TypeInit
<1>2. Places
  BY EmptyQueue, UnvisitedEmpty DEF Places, Waiting
<1>3. OwnFirst
  BY DEF OwnFirst, Own
<1>4. Whole /\ GapFree /\ NoInsertionDropped /\ Least
  BY DEF Whole, GapFree, NoInsertionDropped, Least, hasNode
<1>5. RestNotReady /\ NothingReadyPends
  BY EmptyQueue DEF RestNotReady, NothingReadyPends
<1> QED BY <1>1, <1>2, <1>3, <1>4, <1>5 DEF IInv

\* A local insertion wakes no buffered struct and leaves no gap.
LEMMA InvInsert == IInv /\ Insert => IInv'
<1> SUFFICES ASSUME IInv, Insert
             PROVE  IInv'
  OBVIOUS
<1> USE DEF IInv
<1>1. /\ have' = have \cup {<<Self, clock>>}
      /\ clock' = clock + 1
      /\ clock \in Nat
      /\ received' = received
      /\ pending' = pending /\ pending \in Seq(Struct)
      /\ pc = "idle" /\ pc' = "idle"
  BY DEF Insert, newId, TypeOK
<1>2. TypeOK'
  BY TypeStep DEF Next
<1>3. Waiting' = Waiting /\ Elements(pending)' = Elements(pending)
  BY DEF Insert, Waiting, Unvisited
<1>4. Places'
  BY <1>3 DEF Insert, Places
<1>5. OwnFirst'
  <2>1. Own' = Own \cup {<<Self, clock>>}
    <3>1. 0 .. clock' - 1 = (0 .. clock - 1) \cup {clock}
      BY <1>1
    <3> QED BY <3>1 DEF Own, newId
  <2>2. \A u \in received : ComesAfterOwn(u)'
    BY <1>1, OwnIsStable DEF OwnFirst, TypeOK
  <2> QED BY <1>1, <2>1, <2>2 DEF OwnFirst
<1>6. Whole'
  BY <1>1 DEF Whole, hasNode, clientOf
<1>7. GapFree'
  <2>1. \A k \in 0 .. clock : <<Self, k>> \in have'
    <3>1. \A k \in 0 .. clock - 1 : <<Self, k>> \in have
      BY DEF OwnFirst, Own, newId
    <3>2. \A k \in 0 .. clock : k = clock \/ k \in 0 .. clock - 1
      BY <1>1
    <3> QED BY <1>1, <3>1, <3>2
  <2>2. ASSUME NEW x \in have, NEW k \in 0 .. clockOf(x)
        PROVE  newId(clientOf(x), k) \in have'
    BY <1>1 DEF GapFree
  <2>3. ASSUME NEW x, x = <<Self, clock>>, NEW k \in 0 .. clockOf(x)
        PROVE  newId(clientOf(x), k) \in have'
    BY <2>1, <2>3 DEF clientOf, clockOf, newId
  <2> QED BY <1>1, <2>2, <2>3 DEF GapFree
<1>8. NoInsertionDropped'
  BY <1>1, <1>3 DEF NoInsertionDropped
<1>9. RestNotReady'
  <2>1. rest' = <<>>
    BY <1>1 DEF Insert, Places
  <2> QED BY <2>1, EmptyQueue DEF RestNotReady
<1>10. NothingReadyPends'
  <2> SUFFICES ASSUME NEW u \in Elements(pending)
               PROVE  ~hasNode(u.id)' /\ ~depsArrived(u)'
    BY <1>1, <1>3 DEF NothingReadyPends, hasNode
  <2>1. u \in Struct /\ ComesAfterOwn(u)
    BY <1>1, ElementsType, WaitingParts DEF Places, OwnFirst
  <2>2. ~hasNode(u.id) /\ ~depsArrived(u)
    BY <1>1 DEF NothingReadyPends
  <2> QED BY <2>1, <2>2, InsertWakesNothing
<1>11. Least'
  <2> SUFFICES ASSUME NEW S \in SUBSET Id, Closed(S)'
               PROVE  have' \subseteq S
    BY DEF Least
  <2>1. 0 .. clock - 1 \subseteq 0 .. clock' - 1 /\ clock \in 0 .. clock' - 1
    BY <1>1
  <2>2. Own \subseteq S /\ <<Self, clock>> \in S
    BY <2>1 DEF Closed, Own, newId
  <2>3. Closed(S)
    BY <1>1, <2>2 DEF Closed
  <2> QED BY <1>1, <2>2, <2>3 DEF Least
<1> QED BY <1>2, <1>4, <1>5, <1>6, <1>7, <1>8, <1>9, <1>10, <1>11

\* A call takes the buffer and the batch, and loses neither.
LEMMA InvBegin ==
  ASSUME NEW batch \in Batch, IInv, Begin(batch)
  PROVE  IInv'
<1> USE DEF IInv
<1>1. /\ have' = have /\ clock' = clock
      /\ received' = received \cup Elements(batch)
      /\ pc = "idle" /\ pc' = "drain"
      /\ pending' = <<>> /\ rest' = <<>>
      /\ batch \in Seq(Struct) /\ pending \in Seq(Struct)
  BY BatchAssumption DEF Begin, TypeOK
<1>2. TypeOK'
  BY TypeStep DEF Next
<1>3. Waiting' = Elements(pending) \cup Elements(batch)
  <2>1. Unvisited' = Elements(pending \o batch)
    BY <1>2, UnvisitedAll DEF Begin, TypeOK
  <2>2. Elements(pending') = {} /\ Elements(rest') = {}
    BY <1>1, EmptyQueue
  <2> QED BY <1>1, <2>1, <2>2, ElementsConcat DEF Waiting, Elements
<1>4. Places'
  BY <1>1, <1>3, WaitingParts DEF Places
<1>5. OwnFirst'
  <2>1. \A u \in Elements(batch) : ComesAfterOwn(u)'
    BY <1>1 DEF Begin, ComesAfterOwn, hasNode
  <2>2. \A u \in received : ComesAfterOwn(u)'
    BY <1>1 DEF OwnFirst, ComesAfterOwn, hasNode
  <2> QED BY <1>1, <2>1, <2>2 DEF OwnFirst, Own
<1>6. Whole' /\ GapFree'
  BY <1>1 DEF Whole, GapFree, hasNode
<1>7. NoInsertionDropped'
  BY <1>1, <1>3, WaitingParts DEF NoInsertionDropped
<1>8. RestNotReady' /\ NothingReadyPends'
  BY <1>1, EmptyQueue DEF RestNotReady, NothingReadyPends
<1>9. Least'
  <2> SUFFICES ASSUME NEW S \in SUBSET Id, Closed(S)'
               PROVE  have' \subseteq S
    BY DEF Least
  <2>1. Closed(S)
    BY <1>1 DEF Closed, Own
  <2> QED BY <1>1, <2>1 DEF Least
<1> QED BY <1>2, <1>4, <1>5, <1>6, <1>7, <1>8, <1>9

\* Passing a struct loses it only if it is in the document or queued already.
LEMMA InvVisit ==
  ASSUME IInv, Visiting, UNCHANGED <<have, clock, pending, queue, progress, pc, received>>,
         i' = i + 1, TypeOK',
         \/ hasNode(queue[i].id) /\ rest' = rest
         \/ /\ ~hasNode(queue[i].id) /\ ~depsArrived(queue[i])
            /\ Elements(rest)' = Elements(rest) \cup {queue[i]}
  PROVE  IInv'
<1> USE DEF IInv
<1> DEFINE u == queue[i]
<1>1. /\ have' = have /\ clock' = clock /\ received' = received
      /\ pc = "drain" /\ pc' = "drain" /\ pending' = pending
      /\ u \in Struct
  BY DEF Visiting, TypeOK
<1>2. Unvisited = {u} \cup Unvisited'
  BY UnvisitedStep DEF Visiting, TypeOK
<1>3. u \in received
  BY <1>2 DEF Places, Waiting
<1>4. Elements(rest)' \subseteq Elements(rest) \cup {u} /\ Elements(rest) \subseteq Elements(rest)'
  OBVIOUS
<1>5. Places'
  BY <1>1, <1>2, <1>3, <1>4 DEF Places, Waiting, Elements
<1>6. OwnFirst' /\ Whole' /\ GapFree'
  BY <1>1 DEF OwnFirst, Own, Whole, GapFree, ComesAfterOwn, hasNode
<1>7. NoInsertionDropped'
  <2> SUFFICES ASSUME NEW v \in received
               PROVE  Units(v) \subseteq have \/ v \in Waiting'
    BY <1>1 DEF NoInsertionDropped
  <2>1. CASE v # u
    BY <1>1, <1>2, <1>4, <2>1 DEF NoInsertionDropped, Waiting, Elements
  <2>2. CASE v = u /\ hasNode(u.id)
    <3>1. Units(u) \subseteq have
      BY <1>1, <1>3, <2>2 DEF Whole, OwnFirst, ComesAfterOwn
    <3> QED BY <2>2, <3>1
  <2>3. CASE v = u /\ ~hasNode(u.id)
    BY <2>3 DEF Waiting
  <2> QED BY <2>1, <2>2, <2>3
<1>8. RestNotReady'
  BY <1>1 DEF RestNotReady, depsArrived, originArrived, hasNode
<1>9. NothingReadyPends'
  BY <1>1 DEF NothingReadyPends
<1>10. Least'
  BY <1>1 DEF Least, Closed, Own
<1> QED BY <1>5, <1>6, <1>7, <1>8, <1>9, <1>10

\* A duplicate is in the document, whole.
LEMMA InvDrop == IInv /\ Drop => IInv'
<1> SUFFICES ASSUME IInv, Drop
             PROVE  IInv'
  OBVIOUS
<1>1. TypeOK'
  BY TypeStep DEF Next, Loop, IInv
<1> QED BY <1>1, InvVisit DEF Drop

\* A struct that is not requeued because its id is queued is queued itself.
LEMMA InvRequeue == IInv /\ Requeue => IInv'
<1> SUFFICES ASSUME IInv, Requeue
             PROVE  IInv'
  OBVIOUS
<1>1. TypeOK' /\ TypeOK
  BY TypeStep DEF Next, Loop, IInv
<1>2. queue[i] \in Struct /\ rest \in Seq(Struct)
  BY <1>1 DEF Requeue, Visiting, TypeOK
<1>3. Elements(rest)' = Elements(rest) \cup {queue[i]}
  <2>1. CASE containsUpdateItemId(rest, queue[i].id)
    <3>1. PICK k \in 1 .. Len(rest) : rest[k].id = queue[i].id
      BY <2>1 DEF containsUpdateItemId
    <3>2. rest[k] \in Struct
      BY <1>2
    <3>3. rest[k] = queue[i]
      BY <1>2, <3>1, <3>2, UnitsType, SameId
    <3>4. queue[i] \in Elements(rest)
      BY <3>3 DEF Elements
    <3> QED BY <2>1, <3>4 DEF Requeue, Elements
  <2>2. CASE ~containsUpdateItemId(rest, queue[i].id)
    <3>1. rest' = Append(rest, queue[i])
      BY <2>2 DEF Requeue
    <3> QED BY <1>2, <3>1, ElementsAppend DEF Elements
  <2> QED BY <2>1, <2>2
<1> QED BY <1>1, <1>3, InvVisit DEF Requeue

\* Integrating a ready struct closes the document under it.
LEMMA InvIntegrate == IInv /\ Integrate => IInv'
<1> SUFFICES ASSUME IInv, Integrate
             PROVE  IInv'
  OBVIOUS
<1> USE DEF IInv
<1> DEFINE u == queue[i]
<1>1. /\ have' = have \cup Units(u) /\ clock' = clock /\ received' = received
      /\ pc = "drain" /\ pc' = "drain" /\ pending' = pending /\ rest' = rest
      /\ u \in Struct /\ ~hasNode(u.id) /\ depsArrived(u)
      /\ have \subseteq Id /\ received \subseteq Struct
  BY DEF Integrate, Visiting, TypeOK
<1>2. TypeOK'
  BY TypeStep DEF Next, Loop
<1>3. Unvisited = {u} \cup Unvisited'
  BY UnvisitedStep DEF Integrate, Visiting, TypeOK
<1>4. u \in received
  BY <1>3 DEF Places, Waiting
<1>5. Places'
  BY <1>1, <1>3 DEF Places, Waiting
<1>6. OwnFirst'
  BY <1>1, OwnIsStable DEF OwnFirst, Own
<1>7. Whole'
  <2> SUFFICES ASSUME NEW v \in Struct, clientOf(v.id) # Self, v.id \in have'
               PROVE  Units(v) \subseteq have'
    BY DEF Whole, hasNode
  <2>1. CASE v.id \in have
    BY <1>1, <2>1 DEF Whole, hasNode
  <2>2. CASE v.id \in Units(u)
    BY <1>1, <2>2, SameId
  <2> QED BY <1>1, <2>1, <2>2
<1>8. GapFree'
  <2>1. PICK c \in Client, n \in Nat : u.id = <<c, n>>
    BY <1>1, UnitsType DEF Id
  <2>2. \A j \in 0 .. n - 1 : <<c, j>> \in have
    <3>1. CASE n = 0
      BY <3>1
    <3>2. CASE n > 0
      <4>1. <<c, n - 1>> \in have
        BY <1>1, <2>1, <3>2 DEF depsArrived, hasNode, newId, clientOf, clockOf
      <4> QED BY <4>1 DEF GapFree, newId, clientOf, clockOf
    <3> QED BY <2>1, <3>1, <3>2
  <2>3. ASSUME NEW x \in Units(u), NEW j \in 0 .. clockOf(x)
        PROVE  newId(clientOf(x), j) \in have'
    <3>1. PICK k \in n .. n + u.len - 1 : x = <<c, k>>
      BY <2>1 DEF Units, newId, clientOf, clockOf
    <3>2. j \in 0 .. k /\ clientOf(x) = c
      BY <3>1 DEF clientOf, clockOf
    <3>3. u.len \in Nat
      BY <1>1, StructAssumption
    <3>4. j \in 0 .. n - 1 \/ j \in n .. n + u.len - 1
      BY <2>1, <3>1, <3>2, <3>3
    <3>5. CASE j \in 0 .. n - 1
      BY <1>1, <2>2, <3>2, <3>5 DEF newId
    <3>6. CASE j \in n .. n + u.len - 1
      BY <1>1, <2>1, <3>2, <3>6 DEF Units, newId, clientOf, clockOf
    <3> QED BY <3>4, <3>5, <3>6
  <2>4. ASSUME NEW x \in have, NEW j \in 0 .. clockOf(x)
        PROVE  newId(clientOf(x), j) \in have'
    BY <1>1 DEF GapFree
  <2> QED BY <1>1, <2>3, <2>4 DEF GapFree
<1>9. NoInsertionDropped'
  BY <1>1, <1>3 DEF NoInsertionDropped, Waiting
<1>10. RestNotReady' /\ NothingReadyPends'
  BY <1>1 DEF RestNotReady, NothingReadyPends, Integrate
<1>11. Least'
  <2> SUFFICES ASSUME NEW S \in SUBSET Id, Closed(S)'
               PROVE  have' \subseteq S
    BY DEF Least
  <2>1. Closed(S)
    BY <1>1 DEF Closed, Own
  <2>2. have \subseteq S
    BY <2>1 DEF Least
  <2>3. ReadyIn(u, S)
    BY <1>1, <2>2 DEF ReadyIn, depsArrived, originArrived, hasNode
  <2> QED BY <1>1, <1>4, <2>1, <2>2, <2>3 DEF Closed
<1> QED BY <1>2, <1>5, <1>6, <1>7, <1>8, <1>9, <1>10, <1>11

\* A new pass visits what the last one kept.
LEMMA InvNextPass == IInv /\ NextPass => IInv'
<1> SUFFICES ASSUME IInv, NextPass
             PROVE  IInv'
  OBVIOUS
<1> USE DEF IInv
<1>1. /\ have' = have /\ clock' = clock /\ received' = received
      /\ pc = "drain" /\ pc' = "drain" /\ pending' = pending /\ rest' = <<>>
  BY DEF NextPass
<1>2. TypeOK'
  BY TypeStep DEF Next, Loop
<1>3. Unvisited' = Elements(rest)
  BY <1>2, UnvisitedAll DEF NextPass, TypeOK
<1>4. Unvisited = {}
  BY UnvisitedNone DEF NextPass, TypeOK
<1>5. Waiting' = Waiting
  BY <1>1, <1>3, <1>4, EmptyQueue DEF Waiting, Elements
<1>6. Places'
  BY <1>1, <1>5 DEF Places
<1>7. OwnFirst' /\ Whole' /\ GapFree'
  BY <1>1 DEF OwnFirst, Own, Whole, GapFree, ComesAfterOwn, hasNode
<1>8. NoInsertionDropped'
  BY <1>1, <1>5 DEF NoInsertionDropped
<1>9. RestNotReady' /\ NothingReadyPends'
  BY <1>1, EmptyQueue DEF RestNotReady, NothingReadyPends
<1>10. Least'
  BY <1>1 DEF Least, Closed, Own
<1> QED BY <1>2, <1>6, <1>7, <1>8, <1>9, <1>10

\* The last pass made no progress, so what it kept is not ready.
LEMMA InvFinish == IInv /\ Finish => IInv'
<1> SUFFICES ASSUME IInv, Finish
             PROVE  IInv'
  OBVIOUS
<1> USE DEF IInv
<1>1. /\ have' = have /\ clock' = clock /\ received' = received
      /\ pc = "drain" /\ pc' = "idle" /\ pending' = rest
      /\ queue' = <<>> /\ rest' = <<>>
  BY DEF Finish
<1>2. TypeOK'
  BY TypeStep DEF Next, Loop
<1>3. Unvisited = {} /\ Unvisited' = {}
  BY <1>1, UnvisitedNone, UnvisitedEmpty DEF Finish, TypeOK
<1>4. Waiting' = Waiting
  <2>1. Waiting = Elements(rest)
    BY <1>1, <1>3, WaitingParts
  <2>2. Elements(rest') = {} /\ Elements(pending') = Elements(rest)
    BY <1>1, EmptyQueue
  <2> QED BY <1>3, <2>1, <2>2 DEF Waiting, Elements
<1>5. Places'
  BY <1>1, <1>4 DEF Places
<1>6. OwnFirst' /\ Whole' /\ GapFree'
  BY <1>1 DEF OwnFirst, Own, Whole, GapFree, ComesAfterOwn, hasNode
<1>7. NoInsertionDropped'
  BY <1>1, <1>4 DEF NoInsertionDropped
<1>8. RestNotReady'
  BY <1>1, EmptyQueue DEF RestNotReady
<1>9. NothingReadyPends'
  BY <1>1 DEF RestNotReady, NothingReadyPends, Finish, Elements,
              depsArrived, originArrived, hasNode
<1>10. Least'
  BY <1>1 DEF Least, Closed, Own
<1> QED BY <1>2, <1>5, <1>6, <1>7, <1>8, <1>9, <1>10

-----------------------------------------------------------------------------
\* The theorems

\* The inductive invariant holds of every behaviour.
THEOREM Invariance == Spec => []IInv
<1>1. IInv /\ [Next]_vars => IInv'
  <2> SUFFICES ASSUME IInv, [Next]_vars
               PROVE  IInv'
    OBVIOUS
  <2>1. CASE UNCHANGED vars
    <3>1. TypeOK'
      BY <2>1, TypeStep DEF IInv
    <3>2. Unvisited' = Unvisited
      BY <2>1 DEF Unvisited, vars
    <3>3. Places' /\ NoInsertionDropped'
      BY <2>1, <3>2 DEF IInv, Places, NoInsertionDropped, Waiting, Elements, vars
    <3>4. OwnFirst' /\ Whole' /\ GapFree' /\ Least'
      BY <2>1 DEF IInv, OwnFirst, Own, Whole, GapFree, Least, Closed,
                  ComesAfterOwn, hasNode, vars
    <3>5. RestNotReady' /\ NothingReadyPends'
      BY <2>1 DEF IInv, RestNotReady, NothingReadyPends, Elements, depsArrived,
                  originArrived, hasNode, vars
    <3> QED BY <3>1, <3>3, <3>4, <3>5 DEF IInv
  <2> QED BY <2>1, InvInsert, InvBegin, InvDrop, InvIntegrate, InvRequeue,
             InvNextPass, InvFinish DEF Next, Loop
<1> QED BY <1>1, InvInit, PTL DEF Spec

\* Clocks are covered without a gap in every reachable state, whatever the
\* order and the batches of delivery.
THEOREM NoGaps == Spec => []GapFree
  BY Invariance, PTL DEF IInv

\* README "No insertion is dropped", for every behaviour of the loop.
THEOREM NothingLost == Spec => []NoInsertionDropped
  BY Invariance, PTL DEF IInv

\* Between calls no buffered struct is ready, for every behaviour.
THEOREM NothingWaitsInVain == Spec => []NothingReadyPends
  BY Invariance, PTL DEF IInv

\* Between calls the document holds the least closed set of ids: a function
\* of what was inserted and delivered, not of the order.
THEOREM OrderDoesNotMatter == Spec => []DrainIsClosure
<1>1. IInv => DrainIsClosure
  <2> SUFFICES ASSUME IInv, pc = "idle"
               PROVE  /\ Closed(have)
                      /\ \A S \in SUBSET AllUnits : Closed(S) => have \subseteq S
    BY DEF DrainIsClosure
  <2>1. ASSUME NEW u \in received, ReadyIn(u, have)
        PROVE  Units(u) \subseteq have
    <3>1. depsArrived(u)
      BY <2>1 DEF ReadyIn, depsArrived, originArrived, hasNode
    <3>2. u \notin Elements(pending)
      BY <3>1 DEF IInv, NothingReadyPends
    <3>3. Waiting = Elements(pending)
      BY WaitingParts DEF IInv
    <3> QED BY <3>2, <3>3 DEF IInv, NoInsertionDropped
  <2>2. Closed(have)
    BY <2>1 DEF IInv, OwnFirst, Closed
  <2>3. AllUnits \subseteq Id
    <3>1. \A k \in 0 .. MaxClock - 1 : newId(Self, k) \in Id
      BY SelfAssumption DEF newId, Id
    <3> QED BY <3>1, UnitsType DEF AllUnits
  <2> QED BY <2>2, <2>3 DEF IInv, Least
<1> QED BY <1>1, Invariance, PTL

=============================================================================
