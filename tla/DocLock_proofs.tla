--------------------------- MODULE DocLock_proofs ---------------------------
(***************************************************************************)
(* Proofs about module DocLock, for any goroutines: nobody is in another's *)
(* way, Mirror.Check reports true, and every call acts as one step.        *)
(***************************************************************************)
EXTENDS DocLock, TLAPS

-----------------------------------------------------------------------------
\* The inductive invariant

\* What every label belongs to: a goroutine outside the document is nowhere.
Labels ==
  \A g \in Goroutine :
    /\ call[g] = "none" => pc[g] = "start"
    /\ pc[g] \in {"drain", "locked", "unlock"} => call[g] \in WriteCall
    /\ pc[g] \in {"callback", "patch"} => call[g] \in {"transact", "observe"}
    /\ pc[g] = "register" => call[g] = "observe"
    /\ pc[g] = "mirror" => call[g] = "check"
    /\ pc[g] = "view" => call[g] \in {"check", "mirror"}
    /\ pc[g] \in {"rlocked", "walk"} => call[g] = "read"

\* A goroutine inside the write lock: Writing, or reading the mirror for a Check.
Inside(g) == Writing(g) \/ (pc[g] = "view" /\ call[g] = "check")

\* The writer is the one that announced itself and has not let go; once it is
\* inside, nobody reads.
WriterIsInside ==
  \A g \in Goroutine :
    /\ writer = g <=> Inside(g) \/ pc[g] = "drain"
    /\ Inside(g) => readers = {}

\* The readers, let in or kept out, are those in rlock and in the walk, which
\* only those let in begin.
ReadersAreInside ==
  /\ readers \cap waiting = {}
  /\ \A g \in Goroutine :
       /\ g \in readers \cup waiting <=> pc[g] \in {"rlocked", "walk"}
       /\ pc[g] = "walk" => g \in readers

\* The mirror's lock is held by the one that patches or reads the mirror.
MuIsHeld == \A g \in Goroutine : mu = g <=> pc[g] \in {"patch", "view"}

\* The edits nobody was told of are those of the transaction that is open; one
\* whose observers have yet to be called has made some.
EditsAreOpen ==
  /\ edits <= MaxEdits
  /\ edits > 0 => \E g \in Goroutine : Inside(g) /\ call[g] = "transact"
  /\ \A g \in Goroutine :
       /\ pc[g] \in {"callback", "patch"} /\ call[g] = "transact" => edits > 0 /\ registered
       /\ pc[g] = "unlock" /\ registered => edits = 0

\* The mirror is the text without what it was not told; what a goroutine read
\* first is still so.
CopiesAgree ==
  /\ registered => view + edits = text
  /\ \A g \in Goroutine :
       /\ call[g] \in {"check", "mirror"} => registered
       /\ pc[g] = "register" => view = text
       /\ pc[g] = "walk" => seen[g] = text
       /\ pc[g] \in {"mirror", "view"} /\ call[g] = "check" => seen[g] = text

\* Who is where, which locks it has, and who may be there with it.
Locks == Labels /\ WriterIsInside /\ ReadersAreInside /\ MuIsHeld

\* What was edited, told and read so far.
Copies == EditsAreOpen /\ CopiesAgree

\* All of it, the types included.
IInv == TypeOK /\ Locks /\ Copies

-----------------------------------------------------------------------------
\* Types

\* Every variable but the flag, which SMT does not take as a value.
TypeOfData ==
  /\ call \in [Goroutine -> WriteCall \cup ReadCall \cup {"none"}]
  /\ pc \in [Goroutine -> Label]
  /\ writer \in Goroutine \cup {Nil} /\ mu \in Goroutine \cup {Nil}
  /\ readers \subseteq Goroutine /\ waiting \subseteq Goroutine
  /\ text \in Nat /\ edits \in 0 .. text /\ view \in Nat
  /\ seen \in [Goroutine -> Nat]
  /\ returned \in [first : Nat, last : Nat]

\* The types are the types of the data and of the flag.
LEMMA TypeParts == TypeOK <=> TypeOfData /\ registered \in BOOLEAN
  BY DEF TypeOK, TypeOfData

\* Every variable keeps its type (module DocLock, TypeOK).
LEMMA TypeStep == TypeOK /\ [Next]_vars => TypeOK'
<1> SUFFICES ASSUME TypeOfData, registered \in BOOLEAN, [Next]_vars
             PROVE  TypeOfData' /\ registered' \in BOOLEAN
  BY TypeParts DEF TypeOK, TypeOfData
<1>1. registered' \in BOOLEAN
  BY DEF Next, Step, Call, Announce, Locked, rlock, ReadFirst, ReadLast, Edit, Notify,
         Unlock, Initial, Register, CallbackLock, CallbackPatch, CheckText, MirrorLock,
         MirrorText, vars, data
<1>2. TypeOfData'
  <2> USE DEF TypeOfData, Label, WriteCall, ReadCall, lock, data, reads, at, goto, return
  <2>1. ASSUME NEW g \in Goroutine, NEW c \in WriteCall \cup ReadCall, Call(g, c)
        PROVE  TypeOfData'
    BY <2>1 DEF Call
  <2>2. ASSUME NEW g \in Goroutine, Announce(g) \/ Locked(g) \/ rlock(g)
        PROVE  TypeOfData'
    BY <2>2 DEF Announce, Locked, rlock
  <2>3. ASSUME NEW g \in Goroutine, ReadFirst(g) \/ ReadLast(g)
        PROVE  TypeOfData'
    BY <2>3 DEF ReadFirst, ReadLast
  <2>4. ASSUME NEW g \in Goroutine, Edit(g) \/ Notify(g) \/ Unlock(g)
        PROVE  TypeOfData'
    BY <2>4 DEF Edit, Notify, Unlock, wunlock
  <2>5. ASSUME NEW g \in Goroutine, Initial(g) \/ Register(g)
        PROVE  TypeOfData'
    BY <2>5 DEF Initial, Register
  <2>6. ASSUME NEW g \in Goroutine, CallbackLock(g) \/ CallbackPatch(g)
        PROVE  TypeOfData'
    BY <2>6 DEF CallbackLock, CallbackPatch
  <2>7. ASSUME NEW g \in Goroutine, CheckText(g) \/ MirrorLock(g) \/ MirrorText(g)
        PROVE  TypeOfData'
    BY <2>7 DEF CheckText, MirrorLock, MirrorText
  <2>8. CASE UNCHANGED vars
    BY <2>8 DEF vars
  <2> QED BY <2>1, <2>2, <2>3, <2>4, <2>5, <2>6, <2>7, <2>8 DEF Next, Step
<1> QED BY <1>1, <1>2

-----------------------------------------------------------------------------
\* The locks

\* The locks are free and everybody is outside at the start.
LEMMA LocksInit == Init => Locks
  BY NilAssumption DEF Init, Locks, Labels, WriterIsInside, ReadersAreInside, MuIsHeld,
                       Inside, Writing, WriteCall

\* Every step keeps the locks (storeRef's entry points, Mirror's mutex).
LEMMA LocksStep == TypeOfData /\ Locks /\ [Next]_vars => Locks'
<1> SUFFICES ASSUME TypeOfData, Locks, [Next]_vars
             PROVE  Locks'
  OBVIOUS
<1> USE NilAssumption
    DEF TypeOfData, Label, WriteCall, ReadCall, Locks, Labels, WriterIsInside,
        ReadersAreInside, MuIsHeld, Inside, Writing, lock, data, reads, at, goto, return
<1>1. ASSUME NEW g \in Goroutine, NEW c \in WriteCall \cup ReadCall, Call(g, c)
      PROVE  Locks'
  BY <1>1 DEF Call
<1>2. ASSUME NEW g \in Goroutine, Announce(g)
      PROVE  Locks'
  BY <1>2 DEF Announce
<1>3. ASSUME NEW g \in Goroutine, Locked(g)
      PROVE  Locks'
  BY <1>3 DEF Locked
<1>4. ASSUME NEW g \in Goroutine, Unlock(g)
      PROVE  Locks'
  BY <1>4 DEF Unlock, wunlock
<1>5. ASSUME NEW g \in Goroutine, rlock(g)
      PROVE  Locks'
  BY <1>5 DEF rlock
<1>6. ASSUME NEW g \in Goroutine, ReadFirst(g)
      PROVE  Locks'
  BY <1>6 DEF ReadFirst
<1>7. ASSUME NEW g \in Goroutine, ReadLast(g)
      PROVE  Locks'
  BY <1>7 DEF ReadLast
<1>8. ASSUME NEW g \in Goroutine, Edit(g)
      PROVE  Locks'
  BY <1>8 DEF Edit
<1>9. ASSUME NEW g \in Goroutine, Notify(g)
      PROVE  Locks'
  BY <1>9 DEF Notify
<1>10. ASSUME NEW g \in Goroutine, Initial(g) \/ Register(g)
       PROVE  Locks'
  BY <1>10 DEF Initial, Register
<1>11. ASSUME NEW g \in Goroutine, CallbackLock(g) \/ CallbackPatch(g)
       PROVE  Locks'
  BY <1>11 DEF CallbackLock, CallbackPatch
<1>12. ASSUME NEW g \in Goroutine, CheckText(g)
       PROVE  Locks'
  BY <1>12 DEF CheckText
<1>13. ASSUME NEW g \in Goroutine, MirrorLock(g) \/ MirrorText(g)
       PROVE  Locks'
  BY <1>13 DEF MirrorLock, MirrorText
<1>14. CASE UNCHANGED vars
  BY <1>14 DEF vars
<1> QED BY <1>1, <1>2, <1>3, <1>4, <1>5, <1>6, <1>7, <1>8, <1>9, <1>10, <1>11, <1>12,
           <1>13, <1>14 DEF Next, Step

\* Nobody is in another's way (module DocLock, Exclusive).
LEMMA LocksExclude == Locks => Exclusive
  BY NilAssumption DEF Locks, WriterIsInside, ReadersAreInside, MuIsHeld, Inside, Writing,
                       Exclusive

-----------------------------------------------------------------------------
\* The text and its copies

\* Nothing was edited at the start.
LEMMA CopiesInit == Init => Copies
  BY BoundsAssumption DEF Init, Copies, EditsAreOpen, CopiesAgree, Inside, Writing

\* Two goroutines inside the write lock are one.
LEMMA OneInside ==
  ASSUME Locks, NEW g \in Goroutine, NEW h \in Goroutine, Inside(g), Inside(h)
  PROVE  g = h
  BY DEF Locks, WriterIsInside

\* While one is inside, nobody walks.
LEMMA NoWalk ==
  ASSUME Locks, NEW g \in Goroutine, NEW h \in Goroutine, Inside(g)
  PROVE  pc[h] # "walk"
  BY DEF Locks, WriterIsInside, ReadersAreInside

\* Every step keeps the copies (transact, notify, Observe, Check, the reads).
LEMMA CopiesStep == TypeOK /\ Locks /\ Copies /\ [Next]_vars => Copies'
<1> SUFFICES ASSUME TypeOK, Locks, Copies, [Next]_vars
             PROVE  Copies'
  OBVIOUS
<1> USE NilAssumption, BoundsAssumption
    DEF TypeOK, Label, WriteCall, ReadCall, Copies, EditsAreOpen, CopiesAgree,
        Inside, Writing, lock, data, reads, at, goto, return
<1>1. ASSUME NEW g \in Goroutine, NEW c \in WriteCall \cup ReadCall, Call(g, c)
      PROVE  Copies'
  BY <1>1 DEF Call, Locks, Labels
<1>2. ASSUME NEW g \in Goroutine, Announce(g) \/ Locked(g) \/ rlock(g)
      PROVE  Copies'
  BY <1>2 DEF Announce, Locked, rlock, Locks, Labels
<1>3. ASSUME NEW g \in Goroutine, Unlock(g)
      PROVE  Copies'
  BY <1>3, OneInside DEF Unlock, wunlock
<1>4. ASSUME NEW g \in Goroutine, ReadFirst(g)
      PROVE  Copies'
  BY <1>4 DEF ReadFirst
<1>5. ASSUME NEW g \in Goroutine, ReadLast(g)
      PROVE  Copies'
  BY <1>5 DEF ReadLast
<1>6. ASSUME NEW g \in Goroutine, Edit(g)
      PROVE  Copies'
  BY <1>6, OneInside, NoWalk DEF Edit
<1>7. ASSUME NEW g \in Goroutine, Notify(g)
      PROVE  Copies'
  BY <1>7, OneInside DEF Notify
<1>8. ASSUME NEW g \in Goroutine, Initial(g) \/ Register(g)
       PROVE  Copies'
  BY <1>8, OneInside DEF Initial, Register, Locks, Labels
<1>9. ASSUME NEW g \in Goroutine, CallbackLock(g) \/ CallbackPatch(g)
       PROVE  Copies'
  BY <1>9, OneInside DEF CallbackLock, CallbackPatch, Locks, Labels
<1>10. ASSUME NEW g \in Goroutine, CheckText(g)
       PROVE  Copies'
  BY <1>10, OneInside DEF CheckText
<1>11. ASSUME NEW g \in Goroutine, MirrorLock(g) \/ MirrorText(g)
       PROVE  Copies'
  BY <1>11, OneInside DEF MirrorLock, MirrorText
<1>12. CASE UNCHANGED vars
  BY <1>12 DEF vars
<1> QED BY <1>1, <1>2, <1>3, <1>4, <1>5, <1>6, <1>7, <1>8, <1>9, <1>10,
           <1>11, <1>12 DEF Next, Step

-----------------------------------------------------------------------------
\* The invariant and the safety properties

\* The invariant holds at the start.
LEMMA InvInit == Init => IInv
<1>1. Init => TypeOfData
  BY DEF Init, TypeOfData, Label, WriteCall, ReadCall
<1>2. Init => registered \in BOOLEAN
  BY DEF Init
<1> QED BY <1>1, <1>2, TypeParts, LocksInit, CopiesInit DEF IInv

\* Every step keeps it.
LEMMA InvStep == IInv /\ [Next]_vars => IInv'
  BY TypeStep, TypeParts, LocksStep, CopiesStep DEF IInv

\* The strengthening holds in every reachable state.
THEOREM Invariance == Spec => []IInv
  BY InvInit, InvStep, PTL DEF Spec

\* Every variable keeps its type.
THEOREM TypeCorrect == Spec => []TypeOK
<1>1. IInv => TypeOK
  BY DEF IInv
<1> QED BY <1>1, Invariance, PTL

\* A goroutine edits, walks, patches or reads the mirror only with the lock for
\* it, and nobody is in its way (storeRef's lock, Mirror's mutex).
THEOREM NobodyInTheWay == Spec => []Exclusive
<1>1. IInv => Exclusive
  BY LocksExclude DEF IInv
<1> QED BY <1>1, Invariance, PTL

\* Nothing is edited and untold while a goroutine that edits nothing is inside.
LEMMA NothingUntold ==
  ASSUME IInv, NEW g \in Goroutine, Inside(g), call[g] # "transact"
  PROVE  edits = 0
  BY OneInside DEF IInv, Copies, EditsAreOpen, TypeOK

\* Mirror.Check reports true.
THEOREM CheckIsTrue == Spec => []CheckHolds
<1>1. IInv => CheckHolds
  <2> SUFFICES ASSUME IInv, NEW g \in Goroutine, at(g, "check", "view")
               PROVE  seen[g] = view
    BY DEF CheckHolds
  <2>1. edits = 0
    BY NothingUntold DEF at, Inside
  <2>2. registered /\ seen[g] = text
    BY DEF IInv, Copies, CopiesAgree, at
  <2>3. view + edits = text
    BY <2>2 DEF IInv, Copies, CopiesAgree
  <2> QED BY <2>1, <2>2, <2>3 DEF IInv, TypeOK
<1> QED BY <1>1, Invariance, PTL

-----------------------------------------------------------------------------
\* Every call is one step of module Serial

\* The document starts as Serial has it.
LEMMA SerialInit == Init => Atomic!Init
  BY DEF Init, Atomic!Init

\* The callback of a transaction, or its end when it has none to call, is where
\* it takes effect; the end of a registration, of a walk and of a look at the
\* mirror are where those do.  Every other step changes nothing of Serial's.
LEMMA SerialStep == IInv /\ [Next]_vars => [Atomic!Next]_Atomic!vars
<1> SUFFICES ASSUME IInv, [Next]_vars
             PROVE  [Atomic!Next]_Atomic!vars
  OBVIOUS
<1>a. /\ text \in Nat /\ edits \in Nat /\ view \in Nat /\ edits <= MaxEdits
      /\ edits <= text
      /\ MaxEdits \in Nat
  BY BoundsAssumption DEF IInv, TypeOK, Copies, EditsAreOpen
<1>1. ASSUME NEW g \in Goroutine, Edit(g)
      PROVE  UNCHANGED Atomic!vars
  BY <1>1, <1>a DEF Edit, Atomic!vars, reads
<1>2. ASSUME NEW g \in Goroutine, Unlock(g), edits = 0
      PROVE  UNCHANGED Atomic!vars
  BY <1>2, <1>a DEF Unlock, Atomic!vars, reads
<1>3. ASSUME NEW g \in Goroutine, Unlock(g), edits # 0
      PROVE  Atomic!Transact
  <2>1. ~registered
    BY <1>3 DEF Unlock, IInv, Copies, EditsAreOpen
  <2>2. edits \in 1 .. MaxEdits /\ text' - edits' = (text - edits) + edits
    BY <1>3, <1>a DEF Unlock
  <2> QED BY <1>3, <2>1, <2>2 DEF Unlock, Atomic!Transact, reads
<1>4. ASSUME NEW g \in Goroutine, CallbackPatch(g), call[g] = "transact"
      PROVE  Atomic!Transact
  <2>1. registered /\ edits > 0 /\ view + edits = text
    BY <1>4 DEF CallbackPatch, IInv, Copies, EditsAreOpen, CopiesAgree
  <2>2. edits \in 1 .. MaxEdits /\ text' - edits' = (text - edits) + edits
    BY <1>4, <1>a, <2>1 DEF CallbackPatch
  <2>3. view' = text' - edits'
    BY <1>4, <1>a, <2>1 DEF CallbackPatch
  <2> QED BY <1>4, <2>1, <2>2, <2>3 DEF CallbackPatch, Atomic!Transact, reads
<1>5. ASSUME NEW g \in Goroutine, CallbackPatch(g), call[g] # "transact"
      PROVE  UNCHANGED Atomic!vars
  <2>1. edits = 0
    BY <1>5, NothingUntold DEF CallbackPatch, Inside, Writing
  <2>2. registered => view = text
    BY <1>a, <2>1 DEF IInv, Copies, CopiesAgree
  <2>3. call[g] = "observe"
    BY <1>5 DEF CallbackPatch, IInv, Locks, Labels
  <2> QED BY <1>5, <1>a, <2>1, <2>2, <2>3 DEF CallbackPatch, Atomic!vars, reads
<1>6. ASSUME NEW g \in Goroutine, Register(g)
      PROVE  Atomic!Register
  <2>1. edits = 0
    BY <1>6, NothingUntold DEF Register, at, Inside, Writing
  <2>2. view = text
    BY <1>6 DEF Register, at, IInv, Copies, CopiesAgree
  <2> QED BY <1>6, <1>a, <2>1, <2>2 DEF Register, Atomic!Register, reads
<1>7. ASSUME NEW g \in Goroutine, ReadLast(g)
      PROVE  Atomic!ReadText
  <2>1. seen[g] = text
    BY <1>7 DEF ReadLast, at, IInv, Copies, CopiesAgree
  <2>2. edits = 0
    BY <1>7, <1>a, NoWalk DEF ReadLast, at, IInv, Copies, EditsAreOpen
  <2> QED BY <1>7, <1>a, <2>1, <2>2 DEF ReadLast, Atomic!ReadText, data
<1>8. ASSUME NEW g \in Goroutine, MirrorText(g)
      PROVE  Atomic!ReadView
  <2>1. registered
    BY <1>8 DEF MirrorText, IInv, Locks, Labels, Copies, CopiesAgree
  <2>2. CASE call[g] = "check"
    <3>1. edits = 0 /\ seen[g] = text
      BY <1>8, <2>2, NothingUntold DEF MirrorText, Inside, IInv, Copies, CopiesAgree
    <3>2. view = text
      BY <1>a, <2>1, <3>1 DEF IInv, Copies, CopiesAgree
    <3> QED BY <1>8, <2>1, <2>2, <3>1, <3>2 DEF MirrorText, Atomic!ReadView, data
  <2>3. CASE call[g] # "check"
    BY <1>8, <2>1, <2>3 DEF MirrorText, Atomic!ReadView, data
  <2> QED BY <2>2, <2>3
<1>9. ASSUME NEW g \in Goroutine,
             \/ \E c \in WriteCall \cup ReadCall : Call(g, c)
             \/ Announce(g) \/ Locked(g) \/ rlock(g) \/ ReadFirst(g) \/ Notify(g)
             \/ Initial(g) \/ CallbackLock(g) \/ CheckText(g) \/ MirrorLock(g)
      PROVE  UNCHANGED Atomic!vars
  BY <1>9 DEF Call, Announce, Locked, rlock, ReadFirst, Notify, Initial, CallbackLock,
              CheckText, MirrorLock, Atomic!vars, data, reads
<1>10. CASE UNCHANGED vars
  BY <1>10 DEF vars, data, reads, Atomic!vars
<1> QED BY <1>1, <1>2, <1>3, <1>4, <1>5, <1>6, <1>7, <1>8, <1>9, <1>10
        DEF Next, Step, Atomic!Next

\* Whatever the goroutines interleave, every call acts as one step (module
\* DocLock, IsSerial).
THEOREM CallsAreAtomic == Spec => IsSerial
  BY SerialInit, SerialStep, Invariance, PTL DEF Spec, IsSerial, Atomic!Spec
=============================================================================
