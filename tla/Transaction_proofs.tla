------------------------- MODULE Transaction_proofs -------------------------
(***************************************************************************)
(* What a transaction does to the store it begins in, for any document,    *)
(* any batch of structs and spans and any lengths.                         *)
(*                                                                         *)
(* Keeps says what every one of them leaves as it was.  The theorems say   *)
(* what each adds to that: a delete range hides what there is of it        *)
(* (RangeDeleted), buffered and new delete spans land on what is there     *)
(* (DeletesLandThere), a decoded struct gives the document its units       *)
(* (DecodedIntegrates), passes over what is pending drain it until nothing *)
(* is ready (UpdateApplied), an insertion types the client's own units or  *)
(* is refused (InsertionTyped), a deletion hides what it records           *)
(* (DeletionRecorded).  Those that take part in a world of insertions keep *)
(* the document arranged by it: so does an update whose structs are        *)
(* spelled as the world has them, and a typed run extends the world.       *)
(*                                                                         *)
(* Every loop of the code is a fold.  Its values are followed from the     *)
(* first to the last: inside a set that is closed under a turn (FoldsIn,   *)
(* FoldValues), or inside one set for each number of turns (GradedFold).   *)
(***************************************************************************)
EXTENDS Transaction, Store_proofs

\* F folds n elements from base by g, as far as its values stay in A.
FoldsIn(n, A, base, g, F) ==
  /\ n \in Nat /\ base \in A /\ g \in [A \X (1 .. n) -> A]
  /\ F[{}] = base
  /\ \A S \in SUBSET (1 .. n) :
       S # {} /\ F[S \ {Max(S)}] \in A => F[S] = g[<<F[S \ {Max(S)}], Max(S)>>]

\* The values a fold takes, one for each of its first elements.
Values(n, A, base, g, h) ==
  /\ h \in [0 .. n -> A] /\ h[0] = base
  /\ \A k \in 0 .. n - 1 : h[k + 1] = g[<<h[k], k + 1>>]

\* A fold takes its values one by one.
LEMMA FoldValues ==
  ASSUME NEW n, NEW A, NEW base, NEW g, NEW F, FoldsIn(n, A, base, g, F)
  PROVE  \E h : Values(n, A, base, g, h) /\ h[n] = F[1 .. n]
<1> DEFINE h == [k \in 0 .. n |-> F[1 .. k]]
           T == {k \in 0 .. n : F[1 .. k] \in A}
<1>0. n \in Nat /\ base \in A /\ g \in [A \X (1 .. n) -> A]
  BY DEF FoldsIn
<1>1. F[1 .. 0] = base
  <2>1. 1 .. 0 = {}
    OBVIOUS
  <2> QED BY <2>1 DEF FoldsIn
<1>2. \A k \in 0 .. n - 1 : F[1 .. k] \in A => F[1 .. k + 1] = g[<<F[1 .. k], k + 1>>]
  <2> TAKE k \in 0 .. n - 1
  <2>1. k \in Nat /\ 1 .. k + 1 \in SUBSET (1 .. n)
    BY <1>0
  <2>2. Max(1 .. k + 1) = k + 1 /\ (1 .. k + 1) \ {k + 1} = 1 .. k /\ 1 .. k + 1 # {}
    BY <2>1, Prefix
  <2> QED BY <2>1, <2>2 DEF FoldsIn
<1>3. 0 \in T
  BY <1>0, <1>1
<1>4. \A k \in 0 .. n - 1 : k \in T => k + 1 \in T
  <2> TAKE k \in 0 .. n - 1
  <2> HAVE k \in T
  <2>1. k + 1 \in 1 .. n /\ k + 1 \in 0 .. n
    BY <1>0
  <2> QED BY <2>1, <1>0, <1>2
<1> HIDE DEF T
<1>5. \A k \in 0 .. n : k \in T
  BY <1>0, <1>3, <1>4, UpTo
<1>6. h \in [0 .. n -> A]
  BY <1>0, <1>5 DEF T
<1>7. \A k \in 0 .. n - 1 : h[k + 1] = g[<<h[k], k + 1>>]
  <2> TAKE k \in 0 .. n - 1
  <2>1. k + 1 \in 0 .. n /\ k \in 0 .. n
    BY <1>0
  <2> QED BY <2>1, <1>2, <1>6
<1>8. h[0] = base /\ h[n] = F[1 .. n]
  BY <1>0, <1>1
<1> HIDE DEF h
<1> QED BY <1>6, <1>7, <1>8 DEF Values

-----------------------------------------------------------------------------
Span == [id : Id, len : Nat \ {0}]
Tr == [store : StoreType, insertSet : Seq(Span), deleteSet : Seq(Span), changed : SUBSET Root]

\* A struct names its root just when it has no origins.
Item == {u \in UpdateItem :
           u.parentName # Nil <=> u.originLeftId = Nil /\ u.originRightId = Nil}

\* What every operation on a store keeps: the lists, what there is and what is
\* hidden, the order of the units, and that what is shown is counted.
Keeps(s, r) ==
  /\ Sound(r) /\ r.client = s.client
  /\ Integrated(s) \subseteq Integrated(r) /\ Tombstones(s) \subseteq Tombstones(r)
  /\ \A t \in Root : Before(s, t) \subseteq Before(r, t)
  /\ Counted(s) => Counted(r)
  /\ Anchored(s) => Anchored(r)
  /\ Integrated(r) = Integrated(s) => \A w : Agrees(s, w) => Agrees(r, w)

\* Store r is as much a part of a world as store s was, if the structs us are.
Tells(s, us, r) ==
  \A w : Valid(w) /\ (\A u \in us : Spelled(u, w)) /\ Agrees(s, w) => Agrees(r, w)

\* A store keeps what it keeps of what it keeps.
LEMMA KeepsAgain ==
  ASSUME NEW s, NEW r, NEW q, Keeps(s, r), Keeps(r, q)
  PROVE  Keeps(s, q)
BY DEF Keeps

\* A store keeps what it is.
LEMMA KeepsItself ==
  ASSUME NEW s, Sound(s)
  PROVE  Keeps(s, s)
BY DEF Keeps

\* A cut keeps a store.
LEMMA CutsKeep ==
  ASSUME NEW s, Sound(s), NEW r, Cut(s, r)
  PROVE  Keeps(s, r)
<1>1. (Counted(s) => Counted(r)) /\ \A w : Agrees(s, w) => Agrees(r, w)
  BY CutCounted, CutsAgree
<1> QED BY <1>1 DEF Keeps, Cut, Frame

\* So does the integration of a node with origins that are there.
LEMMA AddsKeep ==
  ASSUME NEW s, Sound(s), NEW x \in Id, clockOf(x) = Size(s, clientOf(x)),
         NEW t \in Root, NEW n \in Nat \ {0}, NEW r, Adds(s, r, t, x, n),
         {r.heap[x].originLeftId, r.heap[x].originRightId} \subseteq Integrated(s) \cup {Nil}
  PROVE  Keeps(s, r)
<1>1. (Counted(s) => Counted(r)) /\ (Anchored(s) => Anchored(r))
  BY AddsCounted, AddsAnchored
<1>2. Integrated(r) # Integrated(s)
  <2>1. Runs(s) /\ clockOf(x) \in Nat
    BY IdFacts DEF Sound
  <2>2. x \in Ids(x, n)
    BY <2>1, IdsAre
  <2>3. x \notin Integrated(s)
    BY <2>1, <2>2, FreeId
  <2> QED BY <2>2, <2>3 DEF Adds
<1> QED BY <1>1, <1>2 DEF Keeps, Adds, Frame

\* So does a deletion.
LEMMA HidesKeep ==
  ASSUME NEW s, Sound(s), NEW x \in DOMAIN s.heap, NEW r, Hides(s, r, x)
  PROVE  Keeps(s, r)
<1>1. /\ (Counted(s) => Counted(r)) /\ (Anchored(s) => Anchored(r))
      /\ \A w : Agrees(s, w) => Agrees(r, w)
  BY HidesCounted, HidesAnchored, HidesAgree
<1> QED BY <1>1 DEF Keeps, Hides, Frame

-----------------------------------------------------------------------------
\* The node at x cut at clock m, which is in it or ends it, and at or before end.
CutAt(s, q, x, m, end) ==
  /\ Cut(s, q) /\ x \in DOMAIN q.heap
  /\ m \in Nat /\ clockOf(x) < m /\ m <= end
  /\ Units(q, x) = Ids(x, m - clockOf(x))

\* The cuts of deleteRange at a clock that some node covers.
LEMMA RangeCut ==
  ASSUME NEW s, Sound(s), NEW x \in Id, hasNode(s, x), NEW end \in Nat, clockOf(x) < end
  PROVE  LET q == splitAtAndGetRight(s, x).store
             next == clockOf(x) + q.heap[x].len
         IN  CutAt(s, IF end < next THEN splitAtAndGetLeft(q, newId(clientOf(x), end - 1)).store
                      ELSE q, x, IF end < next THEN end ELSE next, end)
<1> DEFINE q == splitAtAndGetRight(s, x).store
           n == q.heap[x].len
           next == clockOf(x) + n
           y == newId(clientOf(x), end - 1)
           p == splitAtAndGetLeft(q, y)
<1>0. s \in StoreType /\ Runs(s) /\ clockOf(x) \in Nat /\ clientOf(x) \in Client
  BY IdFacts DEF Sound, Runs
<1>1. x \in Integrated(s)
  BY <1>0, GetNodeIs DEF hasNode
<1>2. Cut(s, q) /\ x \in DOMAIN q.heap
  BY <1>1, AtRight
<1>3. Sound(q) /\ Runs(q) /\ q \in StoreType
  BY <1>2 DEF Cut, Sound, Runs
<1>4. n \in Nat \ {0}
  BY <1>2, <1>3, HeapFacts
<1> HIDE DEF q
<1>5. CASE ~(end < next)
  <2>1. next \in Nat /\ clockOf(x) < next /\ next <= end /\ next - clockOf(x) = n
    BY <1>0, <1>4, <1>5
  <2>2. CutAt(s, q, x, next, end)
    BY <1>2, <2>1 DEF CutAt, Units
  <2> QED BY <1>5, <2>2 DEF q
<1>6. CASE end < next
  <2>1. y \in Id /\ clockOf(y) = end - 1 /\ clientOf(y) = clientOf(x)
    BY <1>0 DEF newId, Id, clockOf, clientOf
  <2>2. y \in Units(q, x)
    <3>1. clockOf(x) <= clockOf(y) /\ clockOf(y) < clockOf(x) + n
      BY <1>0, <1>4, <1>6, <2>1
    <3> QED BY <1>4, <2>1, <3>1, IdsAre DEF Units
  <2>3. y \in Integrated(q)
    BY <1>2, <2>2 DEF Integrated
  <2>4. p.node = GetNode(q, y) /\ p.node # Nil
    <3>1. p.node # Nil
      BY <1>3, <2>1, <2>3, AtLeft
    <3> QED BY <3>1 DEF splitAtAndGetLeft
  <2>5. p.node = x
    <3>1. p.node \in DOMAIN q.heap /\ y \in Units(q, p.node)
      BY <1>3, <2>1, <2>4, GetNodeIs DEF hasNode
    <3> QED BY <1>2, <1>3, <2>2, <3>1, NodesApart
  <2>6. /\ Cut(q, p.store) /\ x \in DOMAIN p.store.heap /\ LastId(p.store, x) = y
    BY <1>3, <2>1, <2>4, <2>5, AtLeft
  <2>7. p.store.heap[x].len = end - clockOf(x)
    <3>1. Add(x, p.store.heap[x].len - 1) = y
      BY <2>6 DEF LastId
    <3>2. p.store.heap[x].len \in Nat \ {0}
      <4>1. p.store \in StoreType
        BY <2>6 DEF Cut, Sound, Runs
      <4> QED BY <4>1, <2>6, HeapFacts
    <3>3. p.store.heap[x].len - 1 \in Nat
      BY <3>2
    <3>4. clockOf(y) = clockOf(x) + (p.store.heap[x].len - 1)
      BY <3>1, <3>3, IdFacts
    <3> QED BY <3>2, <3>4, <2>1, <1>0
  <2>8. CutAt(s, p.store, x, end, end)
    <3>1. Cut(s, p.store)
      BY <1>2, <2>6, CutAgain
    <3> QED BY <3>1, <2>6, <2>7 DEF CutAt, Units
  <2> QED BY <1>6, <2>8 DEF q
<1> QED BY <1>5, <1>6

\* What a transaction records of a deletion.
LEMMA TrDeletes ==
  ASSUME NEW tr \in Tr, Sound(tr.store), NEW x \in DOMAIN tr.store.heap
  PROVE  LET r == trDeleteNode(tr, x)
             h == tr.store.heap
         IN  /\ r \in Tr /\ r.store = deleteNode(tr.store, x)
             /\ r.insertSet = tr.insertSet
             /\ r.deleteSet = IF h[x].deleted THEN tr.deleteSet
                              ELSE Append(tr.deleteSet, idSpan(x, h[x].len))
<1> DEFINE s == tr.store
           q == deleteNode(s, x)
           node == s.heap[x]
           r == trDeleteNode(tr, x)
<1>0. s \in StoreType /\ Runs(s)
  BY DEF Sound, Runs
<1>1. x \in Id /\ node \in Node /\ node.len \in Nat \ {0} /\ node.parent \in Root /\ node.deleted \in BOOLEAN
  BY <1>0, HeapFacts DEF Node
<1>2. Hides(s, q, x)
  BY DeleteKeeps
<1>3. q \in StoreType /\ q.heap[x].deleted
  BY <1>2 DEF Hides, Sound, Runs
<1>4. q = s <=> node.deleted
  BY <1>3 DEF deleteNode
<1>5. r = IF q = s THEN tr ELSE [tr EXCEPT !.store = q,
                                   !.deleteSet = Append(@, idSpan(x, node.len)),
                                   !.changed = @ \cup {node.parent}]
  BY DEF trDeleteNode
<1>6. idSpan(x, node.len) \in Span
  BY <1>1 DEF idSpan, Span
<1> HIDE DEF q, node, s
<1>7. CASE node.deleted
  BY <1>4, <1>5, <1>7 DEF s, q, node
<1>8. CASE ~node.deleted
  <2>1. Append(tr.deleteSet, idSpan(x, node.len)) \in Seq(Span)
    BY <1>6 DEF Tr
  <2>2. tr.changed \cup {node.parent} \in SUBSET Root
    BY <1>1 DEF Tr
  <2>3. r = [tr EXCEPT !.store = q, !.deleteSet = Append(tr.deleteSet, idSpan(x, node.len)),
                       !.changed = tr.changed \cup {node.parent}]
    BY <1>4, <1>5, <1>8
  <2> HIDE DEF r
  <2>4. r \in Tr /\ r.store = q /\ r.insertSet = tr.insertSet
        /\ r.deleteSet = Append(tr.deleteSet, idSpan(x, node.len))
    BY <2>1, <2>2, <2>3, <1>3 DEF Tr
  <2> QED BY <1>8, <2>4 DEF s, q, node, r
<1> QED BY <1>1, <1>7, <1>8

\* The walk of deleteRange has come from clock k of client c to its cursor: what
\* there is of the range is hidden.
RangeTo(s, c, k, st) ==
  LET gone == Ids(newId(c, k), st.cur - k)
      r == st.tr.store
  IN  /\ st \in [tr : Tr, cur : Nat, covered : BOOLEAN]
      /\ Keeps(s, r) /\ Frame(s, r) /\ Integrated(r) = Integrated(s)
      /\ k <= st.cur
      /\ Tombstones(r) = Tombstones(s) \cup (gone \cap Integrated(s))
      /\ st.covered <=> gone \subseteq Integrated(s)

\* One run after another.
LEMMA IdsJoin ==
  ASSUME NEW c \in Client, NEW k \in Nat, NEW m \in Nat, NEW n \in Nat, k <= m, m <= n
  PROVE  Ids(newId(c, k), n - k) = Ids(newId(c, k), m - k) \cup Ids(newId(c, m), n - m)
<1> DEFINE x == newId(c, k)
           y == newId(c, m)
<1>1. /\ x \in Id /\ clientOf(x) = c /\ clockOf(x) = k
      /\ y \in Id /\ clientOf(y) = c /\ clockOf(y) = m
  BY DEF newId, Id, clientOf, clockOf
<1>2. n - k \in Nat /\ m - k \in Nat /\ n - m \in Nat
  OBVIOUS
<1> HIDE DEF x, y
<1>3. ASSUME NEW u
      PROVE  u \in Ids(x, n - k) <=> u \in Ids(x, m - k) \/ u \in Ids(y, n - m)
  <2>1. u \in Ids(x, n - k) <=> /\ u \in Id /\ clientOf(u) = c
                                /\ k <= clockOf(u) /\ clockOf(u) < k + (n - k)
    BY <1>1, <1>2, IdsAre
  <2>2. u \in Ids(x, m - k) <=> /\ u \in Id /\ clientOf(u) = c
                                /\ k <= clockOf(u) /\ clockOf(u) < k + (m - k)
    BY <1>1, <1>2, IdsAre
  <2>3. u \in Ids(y, n - m) <=> /\ u \in Id /\ clientOf(u) = c
                                /\ m <= clockOf(u) /\ clockOf(u) < m + (n - m)
    BY <1>1, <1>2, IdsAre
  <2>4. u \in Id => clockOf(u) \in Nat
    BY IdFacts
  <2> QED BY <2>1, <2>2, <2>3, <2>4
<1> QED BY <1>3 DEF x, y

\* deleteRange hides what there is of its range, and nothing else.
THEOREM RangeDeleted ==
  ASSUME NEW tr \in Tr, Sound(tr.store), NEW span \in DeleteSpan,
         span.clock + span.length < ClockMod
  PROVE  LET d == deleteRange(tr, span)
         IN  /\ RangeTo(tr.store, span.client, span.clock, d)
             /\ d.cur = span.clock + span.length
<1> DEFINE c == span.client
           k0 == span.clock
           len == span.length
           end == (k0 + len) % ClockMod
           take(st, x, s) ==
             LET next == st.cur + s.heap[x].len
                 cut == IF end < next
                          THEN splitAtAndGetLeft(s, newId(c, end - 1)).store
                          ELSE s
             IN  [st EXCEPT !.tr = trDeleteNode([@ EXCEPT !.store = cut], x),
                            !.cur = IF end < next THEN end ELSE next]
           at(st, x) ==
             IF st.cur >= end THEN st
             ELSE IF ~hasNode(st.tr.store, x)
               THEN [st EXCEPT !.cur = @ + 1, !.covered = FALSE]
             ELSE take(st, x, splitAtAndGetRight(st.tr.store, x).store)
           step(st, k) == at(st, newId(c, st.cur))
           st0 == [tr |-> tr, cur |-> k0, covered |-> TRUE]
           seq == [k \in 1 .. len |-> k]
           E(F) == F = [S \in SUBSET DOMAIN seq |->
                          IF S = {} THEN st0 ELSE step(F[S \ {Max(S)}], seq[Max(S)])]
           s0 == tr.store
           A == {st \in [tr : Tr, cur : Nat, covered : BOOLEAN] :
                   RangeTo(s0, c, k0, st) /\ st.cur <= end}
           g == [p \in A \X (1 .. len) |-> step(p[1], seq[p[2]])]
<1>1. deleteRange(tr, span) = (CHOOSE F : E(F))[DOMAIN seq]
  BY DEF deleteRange, FoldLeft, MapThenFoldSet
<1>2. /\ c \in Client /\ k0 \in Nat /\ len \in Nat \ {0} /\ DOMAIN seq = 1 .. len
      /\ \A k \in 1 .. len : seq[k] = k
  BY DEF DeleteSpan
<1>3. end = k0 + len /\ end \in Nat
  <2>1. \A m \in Nat, n \in Nat : m < n => m % n = m
    BY SMT
  <2> QED BY <2>1, <1>2, ClockModAssumption
<1> HIDE DEF c, k0, len, end, s0
<1>4. st0 \in A /\ st0.cur = k0
  <2>1. Ids(newId(c, k0), k0 - k0) = {}
    <3>1. k0 - k0 = 0 /\ 0 .. 0 - 1 = {}
      BY <1>2
    <3> QED BY <3>1 DEF Ids
  <2>2. Keeps(s0, s0) /\ Frame(s0, s0)
    BY KeepsItself DEF Frame, s0
  <2>3. st0 \in [tr : Tr, cur : Nat, covered : BOOLEAN]
    BY <1>2
  <2>4. st0.tr = tr /\ st0.cur = k0 /\ st0.covered = TRUE
    OBVIOUS
  <2> HIDE DEF st0
  <2>5. RangeTo(s0, c, k0, st0)
    BY <2>1, <2>2, <2>3, <2>4, <1>2 DEF RangeTo, s0
  <2> QED BY <2>3, <2>4, <2>5, <1>2, <1>3
<1>5. ASSUME NEW st \in A, NEW k \in 1 .. len
      PROVE  step(st, k) \in A /\ (step(st, k).cur = end \/ step(st, k).cur > st.cur)
  <2> DEFINE x == newId(c, st.cur)
             s == st.tr.store
  <2>1. /\ st \in [tr : Tr, cur : Nat, covered : BOOLEAN] /\ st.tr \in Tr
        /\ Keeps(s0, s) /\ Frame(s0, s) /\ Integrated(s) = Integrated(s0)
        /\ k0 <= st.cur /\ st.cur <= end
        /\ Tombstones(s) = Tombstones(s0) \cup (Ids(newId(c, k0), st.cur - k0) \cap Integrated(s0))
        /\ st.covered <=> Ids(newId(c, k0), st.cur - k0) \subseteq Integrated(s0)
    BY DEF RangeTo
  <2>2. x \in Id /\ clientOf(x) = c /\ clockOf(x) = st.cur
    BY <1>2, <2>1 DEF newId, Id, clientOf, clockOf
  <2>3. Sound(s) /\ s \in StoreType /\ Runs(s)
    BY <2>1 DEF Keeps, Sound, Runs
  <2>4. step(st, k) = at(st, x)
    OBVIOUS
  <2> HIDE DEF x, step
  <2>5. CASE st.cur >= end
    BY <2>1, <2>4, <2>5, <1>3
  <2>6. CASE st.cur < end /\ ~hasNode(s, x)
    <3> DEFINE w == [st EXCEPT !.cur = st.cur + 1, !.covered = FALSE]
    <3>1. at(st, x) = w
      BY <2>1, <2>6, <1>3
    <3>2. /\ w \in [tr : Tr, cur : Nat, covered : BOOLEAN] /\ w.tr = st.tr /\ w.cur = st.cur + 1
          /\ ~w.covered
      <4>1. st.cur + 1 \in Nat /\ FALSE \in BOOLEAN
        BY <2>1
      <4> QED BY <2>1, <4>1
    <3>3. x \notin Integrated(s0)
      BY <2>1, <2>2, <2>3, <2>6, GetNodeIs DEF hasNode
    <3>4. Ids(newId(c, k0), (st.cur + 1) - k0)
            = Ids(newId(c, k0), st.cur - k0) \cup Ids(newId(c, st.cur), (st.cur + 1) - st.cur)
      <4>1. st.cur \in Nat /\ st.cur + 1 \in Nat /\ k0 <= st.cur /\ st.cur <= st.cur + 1
        BY <2>1
      <4>2. \A n \in Nat : st.cur <= n =>
              Ids(newId(c, k0), n - k0)
                = Ids(newId(c, k0), st.cur - k0) \cup Ids(newId(c, st.cur), n - st.cur)
        BY <4>1, <1>2, IdsJoin
      <4> QED BY <4>1, <4>2
    <3>5. Ids(newId(c, st.cur), (st.cur + 1) - st.cur) = {x}
      <4>1. (st.cur + 1) - st.cur = 1
        BY <2>1
      <4>2. ASSUME NEW u PROVE u \in Ids(x, 1) <=> u = x
        <5>1. u \in Ids(x, 1) <=> /\ u \in Id /\ clientOf(u) = clientOf(x)
                            /\ clockOf(x) <= clockOf(u) /\ clockOf(u) < clockOf(x) + 1
          BY <2>2, IdsAre
        <5>2. u \in Id => clockOf(u) \in Nat /\ u = <<clientOf(u), clockOf(u)>>
          BY IdFacts
        <5>3. x = <<clientOf(x), clockOf(x)>> /\ clockOf(x) \in Nat
          BY <2>2, IdFacts
        <5> QED BY <5>1, <5>2, <5>3, <2>2
      <4> QED BY <4>1, <4>2 DEF x
    <3>6. RangeTo(s0, c, k0, w)
      <4> HIDE DEF w
      <4>1. k0 <= w.cur
        BY <1>2, <2>1, <3>2
      <4> QED BY <4>1, <2>1, <3>2, <3>3, <3>4, <3>5 DEF RangeTo
    <3>7. w \in A /\ w.cur > st.cur
      <4> HIDE DEF w
      <4> QED BY <2>1, <2>6, <3>2, <3>6, <1>3
    <3> QED BY <2>4, <3>1, <3>7
  <2>7. CASE st.cur < end /\ hasNode(s, x)
    <3> DEFINE q == splitAtAndGetRight(s, x).store
               next == st.cur + q.heap[x].len
               p == IF end < next THEN splitAtAndGetLeft(q, newId(c, end - 1)).store ELSE q
               m == IF end < next THEN end ELSE next
               tp == [st.tr EXCEPT !.store = p]
               w == [st EXCEPT !.tr = trDeleteNode(tp, x), !.cur = m]
    <3>1. at(st, x) = w
      BY <2>1, <2>7, <1>3
    <3>2. CutAt(s, p, x, m, end)
      BY <1>3, <2>2, <2>3, <2>7, RangeCut
    <3> HIDE DEF p, m
    <3>3. /\ Cut(s, p) /\ x \in DOMAIN p.heap /\ m \in Nat /\ st.cur < m /\ m <= end
          /\ Units(p, x) = Ids(x, m - st.cur)
      BY <2>2, <3>2 DEF CutAt
    <3>4. Sound(p) /\ p \in StoreType
      BY <3>3 DEF Cut, Sound, Runs
    <3>5. tp \in Tr /\ tp.store = p
      BY <2>1, <3>4 DEF Tr
    <3> HIDE DEF tp
    <3>6. trDeleteNode(tp, x) \in Tr /\ trDeleteNode(tp, x).store = deleteNode(p, x)
      BY <3>3, <3>4, <3>5, TrDeletes
    <3>7. Hides(p, deleteNode(p, x), x)
      BY <3>3, <3>4, DeleteKeeps
    <3> DEFINE r == deleteNode(p, x)
    <3>8. /\ w \in [tr : Tr, cur : Nat, covered : BOOLEAN] /\ w.tr.store = r /\ w.cur = m
          /\ w.covered = st.covered
      BY <2>1, <3>3, <3>6
    <3> HIDE DEF r, w
    <3>9. Keeps(s0, r)
      <4>1. Keeps(s, p)
        BY <2>3, <3>3, CutsKeep
      <4>2. Keeps(p, r)
        BY <3>3, <3>4, <3>7, HidesKeep DEF r
      <4> QED BY <2>1, <4>1, <4>2, KeepsAgain
    <3>10. /\ Frame(s0, r) /\ Integrated(r) = Integrated(s0)
           /\ Tombstones(r) = Tombstones(s) \cup Ids(x, m - st.cur)
      BY <2>1, <3>3, <3>7 DEF Cut, Hides, Frame, r
    <3>11. Ids(newId(c, k0), m - k0) = Ids(newId(c, k0), st.cur - k0) \cup Ids(x, m - st.cur)
      BY <1>2, <2>1, <3>3, IdsJoin DEF x
    <3>12. Ids(x, m - st.cur) \subseteq Integrated(s0)
      BY <2>1, <3>3 DEF Cut, Integrated
    <3>13. k0 <= m /\ m <= end /\ m > st.cur
      BY <1>2, <2>1, <3>3
    <3>14. RangeTo(s0, c, k0, w)
      BY <2>1, <3>8, <3>9, <3>10, <3>11, <3>12, <3>13 DEF RangeTo
    <3> QED BY <2>4, <3>1, <3>8, <3>13, <3>14
  <2> QED BY <2>1, <2>5, <2>6, <2>7, <1>3
<1> HIDE DEF A, step, st0
<1>6. g \in [A \X (1 .. len) -> A]
  BY <1>2, <1>5
<1>7. \A a \in A, k \in 1 .. len : g[<<a, k>>] = step(a, seq[k])
  OBVIOUS
<1> HIDE DEF g, seq
<1>8. \E F : E(F)
  <2>1. PICK F \in [SUBSET (1 .. len) -> A] : FoldsBy(len, st0, g, F)
    BY <1>2, <1>4, <1>6, FoldExists
  <2>2. \A S \in SUBSET (1 .. len) : S # {} => Max(S) \in 1 .. len /\ F[S \ {Max(S)}] \in A
    BY <1>2, <2>1, MaxIn
  <2>3. \A S \in SUBSET (1 .. len) :
          F[S] = IF S = {} THEN st0 ELSE step(F[S \ {Max(S)}], seq[Max(S)])
    BY <2>1, <2>2, <1>7 DEF FoldsBy
  <2>4. F = [S \in SUBSET DOMAIN seq |->
               IF S = {} THEN st0 ELSE step(F[S \ {Max(S)}], seq[Max(S)])]
    BY <2>1, <2>3, <1>2
  <2> QED BY <2>4
<1> DEFINE fold == CHOOSE F : E(F)
<1>9. E(fold)
  BY <1>8
<1> HIDE DEF fold
<1>10. FoldsIn(len, A, st0, g, fold)
  <2>1. \A S \in SUBSET (1 .. len) : S # {} => Max(S) \in 1 .. len
    BY <1>2, MaxIn
  <2>2. {} \in SUBSET (1 .. len)
    OBVIOUS
  <2>3. fold = [S \in SUBSET (1 .. len) |->
               IF S = {} THEN st0 ELSE step(fold[S \ {Max(S)}], seq[Max(S)])]
    BY <1>2, <1>9
  <2> HIDE DEF E
  <2>4. fold[{}] = st0
    BY <2>2, <2>3
  <2>5. \A S \in SUBSET (1 .. len) : S # {} /\ fold[S \ {Max(S)}] \in A =>
          fold[S] = g[<<fold[S \ {Max(S)}], Max(S)>>]
    BY <2>1, <2>3, <1>7
  <2> QED BY <2>4, <2>5, <1>2, <1>4, <1>6 DEF FoldsIn
<1>f. PICK h : Values(len, A, st0, g, h) /\ h[len] = fold[1 .. len]
  BY <1>10, FoldValues
<1>11. /\ h \in [0 .. len -> A] /\ h[0] = st0 /\ h[len] = fold[1 .. len]
       /\ \A k \in 0 .. len - 1 : h[k + 1] = g[<<h[k], k + 1>>]
  BY <1>f DEF Values
<1> DEFINE T == {k \in 0 .. len : h[k].cur = end \/ h[k].cur >= k0 + k}
<1>12. \A k \in 0 .. len : h[k] \in A /\ h[k].cur \in Nat /\ h[k].cur <= end
  BY <1>11 DEF A
<1>13. 0 \in T
  BY <1>2, <1>4, <1>11
<1>14. \A k \in 0 .. len - 1 : k \in T => k + 1 \in T
  <2> TAKE k \in 0 .. len - 1
  <2> HAVE k \in T
  <2>1. k \in 0 .. len /\ k + 1 \in 1 .. len /\ k + 1 \in 0 .. len
    BY <1>2
  <2>2. h[k + 1] = step(h[k], k + 1)
    <3>1. h[k + 1] = g[<<h[k], k + 1>>]
      BY <1>11
    <3>2. seq[k + 1] = k + 1
      BY <2>1, <1>2
    <3> QED BY <2>1, <3>1, <3>2, <1>7, <1>12
  <2>3. h[k + 1].cur = end \/ h[k + 1].cur > h[k].cur
    BY <2>1, <2>2, <1>5, <1>12
  <2> QED BY <2>1, <2>3, <1>2, <1>3, <1>12
<1> HIDE DEF T
<1>15. \A k \in 0 .. len : k \in T
  BY <1>2, <1>13, <1>14, UpTo
<1>16. h[len].cur = end /\ h[len] \in A
  <2>1. len \in 0 .. len
    BY <1>2
  <2> QED BY <2>1, <1>2, <1>3, <1>12, <1>15 DEF T
<1>17. deleteRange(tr, span) = h[len]
  BY <1>1, <1>2, <1>11 DEF fold
<1> QED BY <1>3, <1>16, <1>17 DEF A, len, c, k0, s0

-----------------------------------------------------------------------------
\* A span whose end is a clock.
NoWrap == {d \in DeleteSpan : d.clock + d.length < ClockMod}

\* A span retried: what there is of it is hidden; it is kept unless that was all.
Retried(s, span, r, covered) ==
  /\ Keeps(s, r) /\ Frame(s, r) /\ Integrated(r) = Integrated(s)
  /\ Tombstones(r) = Tombstones(s) \cup (SpanUnits(span) \cap Integrated(s))
  /\ covered <=> SpanUnits(span) \subseteq Integrated(s)

\* deleteRange retries a span.
LEMMA RangeRetried ==
  ASSUME NEW tr \in Tr, Sound(tr.store), NEW span \in NoWrap
  PROVE  LET d == deleteRange(tr, span)
         IN  /\ d \in [tr : Tr, cur : Nat, covered : BOOLEAN]
             /\ Retried(tr.store, span, d.tr.store, d.covered)
<1> DEFINE d == deleteRange(tr, span)
           k == span.clock
<1>1. span \in DeleteSpan /\ k \in Nat /\ span.length \in Nat /\ k + span.length < ClockMod
  BY DEF NoWrap, DeleteSpan
<1>2. RangeTo(tr.store, span.client, k, d) /\ d.cur = k + span.length
  BY <1>1, RangeDeleted
<1> HIDE DEF d, k
<1>3. d.cur - k = span.length
  BY <1>1, <1>2
<1>4. Ids(newId(span.client, k), d.cur - k) = SpanUnits(span)
  BY <1>3 DEF SpanUnits, k
<1> QED BY <1>2, <1>4 DEF RangeTo, Retried, d

\* The retry loop has come through the first k of the spans.
RetriedTo(s, all, k, st) ==
  /\ Tombstones(st.tr.store)
       = Tombstones(s) \cup ((UNION {SpanUnits(all[i]) : i \in 1 .. k}) \cap Integrated(s))
  /\ ToSet(st.rest) \subseteq {all[i] : i \in 1 .. k}
  /\ \A i \in 1 .. k : SpanUnits(all[i]) \subseteq Integrated(s) \/ all[i] \in ToSet(st.rest)

\* Store r is store s after the delete spans were applied with those buffered.
DeletesApplied(s, spans, r) ==
  LET all == ToSet(s.pendingDeletes) \cup ToSet(spans)
  IN  /\ Keeps(s, r) /\ r.clock = s.clock /\ r.pending = s.pending
      /\ Integrated(r) = Integrated(s)
      /\ Tombstones(r) = Tombstones(s) \cup ((UNION {SpanUnits(d) : d \in all}) \cap Integrated(s))
      /\ ToSet(r.pendingDeletes) \subseteq all
      /\ \A d \in all : SpanUnits(d) \subseteq Integrated(s) \/ d \in ToSet(r.pendingDeletes)

\* A store that differs only in its clock and its buffers.
LEMMA SameLists ==
  ASSUME NEW s, Sound(s), NEW r \in StoreType, r.items = s.items, r.heap = s.heap,
         r.start = s.start, r.len = s.len, r.client = s.client
  PROVE  Keeps(s, r)
<1>1. \A t \in Root : Chain(r, t) = Chain(s, t)
  BY DEF Chain, From
<1>2. Runs(r)
  BY DEF Sound, Runs, RunOf
<1>3. \A t \in Root : \A l : ListOf(r, t, l) <=> ListOf(s, t, l)
  BY DEF ListOf
<1>4. Sound(r)
  BY <1>1, <1>2, <1>3 DEF Sound, Linked
<1>5. \A x : Units(r, x) = Units(s, x)
  BY DEF Units
<1>6. /\ Integrated(r) = Integrated(s) /\ Tombstones(r) = Tombstones(s)
      /\ \A t : Live(r, t) = Live(s, t)
  BY <1>5 DEF Integrated, Tombstones, Live
<1>7. \A t \in Root : Before(r, t) = Before(s, t)
  BY <1>1, <1>5 DEF Before, OrderOf
<1>8. (Counted(s) => Counted(r)) /\ (Anchored(s) => Anchored(r))
  BY <1>6 DEF Counted, Anchored
<1>9. \A w : Agrees(s, w) => Agrees(r, w)
  BY <1>5, <1>7 DEF Agrees, Follows, Arranged
<1> QED BY <1>4, <1>6, <1>7, <1>8, <1>9 DEF Keeps

\* Keeps does not depend on what is buffered.
LEMMA BuffersKeep ==
  ASSUME NEW s \in StoreType, Sound(s),
         NEW p \in Seq(UpdateItem), NEW d \in Seq(DeleteSpan)
  PROVE  /\ Keeps(s, [s EXCEPT !.pendingDeletes = d])
         /\ Keeps(s, [s EXCEPT !.pending = p])
<1>1. /\ [s EXCEPT !.pendingDeletes = d] \in StoreType
      /\ [s EXCEPT !.pending = p] \in StoreType
  BY DEF StoreType
<1> QED BY <1>1, SameLists DEF StoreType

\* A sequence of two.
LEMMA Concat ==
  ASSUME NEW A, NEW a \in Seq(A), NEW b \in Seq(A)
  PROVE  a \o b \in Seq(A) /\ ToSet(a \o b) = ToSet(a) \cup ToSet(b)
<1> DEFINE c == a \o b
           m == Len(a)
           n == Len(b)
<1>1. /\ c \in Seq(A) /\ m \in Nat /\ n \in Nat /\ Len(c) = m + n
      /\ DOMAIN a = 1 .. m /\ DOMAIN b = 1 .. n /\ DOMAIN c = 1 .. m + n
  OBVIOUS
<1>2. \A i \in 1 .. m + n : c[i] = IF i <= m THEN a[i] ELSE b[i - m]
  OBVIOUS
<1> HIDE DEF c, m, n
<1>3. ToSet(c) \subseteq ToSet(a) \cup ToSet(b)
  <2> SUFFICES ASSUME NEW i \in 1 .. m + n PROVE c[i] \in ToSet(a) \cup ToSet(b)
    BY <1>1 DEF ToSet
  <2>1. CASE i <= m
    <3>1. i \in 1 .. m /\ c[i] = a[i]
      BY <2>1, <1>1, <1>2
    <3> QED BY <3>1, <1>1 DEF ToSet
  <2>2. CASE i > m
    <3>1. i - m \in 1 .. n
      BY <2>2, <1>1
    <3>2. c[i] = b[i - m]
      BY <2>2, <1>1, <1>2
    <3> QED BY <3>1, <3>2, <1>1 DEF ToSet
  <2> QED BY <2>1, <2>2, <1>1
<1>4. ToSet(a) \subseteq ToSet(c)
  <2> SUFFICES ASSUME NEW i \in 1 .. m PROVE a[i] \in ToSet(c)
    BY <1>1 DEF ToSet
  <2>1. i \in 1 .. m + n /\ c[i] = a[i]
    BY <1>1, <1>2
  <2> QED BY <2>1, <1>1 DEF ToSet
<1>5. ToSet(b) \subseteq ToSet(c)
  <2> SUFFICES ASSUME NEW i \in 1 .. n PROVE b[i] \in ToSet(c)
    BY <1>1 DEF ToSet
  <2>1. m + i \in 1 .. m + n /\ ~(m + i <= m) /\ (m + i) - m = i
    BY <1>1
  <2>2. c[m + i] = b[(m + i) - m]
    BY <2>1, <1>2
  <2> QED BY <2>1, <2>2, <1>1 DEF ToSet
<1> QED BY <1>1, <1>3, <1>4, <1>5 DEF c

\* applyDeleteSpans: the units named, of those there are, are hidden, and no
\* others; a span some unit of which is missing stays buffered.
THEOREM DeletesLandThere ==
  ASSUME NEW tr \in Tr, Sound(tr.store), NEW spans \in Seq(NoWrap),
         tr.store.pendingDeletes \in Seq(NoWrap)
  PROVE  LET r == applyDeleteSpans(tr, spans)
         IN  r \in Tr /\ DeletesApplied(tr.store, spans, r.store)
<1> DEFINE s0 == tr.store
           seq == s0.pendingDeletes \o spans
           n == Len(seq)
           st0 == [tr |-> tr, rest |-> <<>>]
           E(F) == F = [S \in SUBSET DOMAIN seq |->
                          IF S = {} THEN st0 ELSE retrySpan(F[S \ {Max(S)}], seq[Max(S)])]
           A == {st \in [tr : Tr, rest : Seq(NoWrap)] :
                   /\ Keeps(s0, st.tr.store) /\ Frame(s0, st.tr.store)
                   /\ Integrated(st.tr.store) = Integrated(s0)}
           g == [p \in A \X (1 .. n) |-> retrySpan(p[1], seq[p[2]])]
           fold == CHOOSE F : E(F)
           done == fold[DOMAIN seq]
<1>1. applyDeleteSpans(tr, spans) = [done.tr EXCEPT !.store.pendingDeletes = done.rest]
  BY DEF applyDeleteSpans, FoldLeft, MapThenFoldSet
<1>2. /\ seq \in Seq(NoWrap) /\ n \in Nat /\ DOMAIN seq = 1 .. n
      /\ \A k \in 1 .. n : seq[k] \in NoWrap
      /\ ToSet(seq) = ToSet(s0.pendingDeletes) \cup ToSet(spans)
  BY Concat
<1> HIDE DEF seq, n, done, fold
<1>3. st0 \in A /\ RetriedTo(s0, seq, 0, st0)
  <2>1. Keeps(s0, s0) /\ Frame(s0, s0)
    BY KeepsItself DEF Frame
  <2>2. 1 .. 0 = {} /\ ToSet(<<>>) = {}
    BY DEF ToSet
  <2>3. st0 \in [tr : Tr, rest : Seq(NoWrap)]
    OBVIOUS
  <2>4. st0.tr = tr /\ st0.rest = <<>>
    OBVIOUS
  <2> HIDE DEF st0
  <2> QED BY <2>1, <2>2, <2>3, <2>4 DEF RetriedTo
<1>4. ASSUME NEW st \in A, NEW span \in NoWrap
      PROVE  /\ retrySpan(st, span) \in A
             /\ LET q == retrySpan(st, span)
                    there == SpanUnits(span) \subseteq Integrated(s0)
                IN  /\ Tombstones(q.tr.store)
                         = Tombstones(st.tr.store) \cup (SpanUnits(span) \cap Integrated(s0))
                    /\ ToSet(q.rest) = ToSet(st.rest) \cup (IF there THEN {} ELSE {span})
  <2> DEFINE d == deleteRange(st.tr, span)
             q == [tr |-> d.tr, rest |-> IF d.covered THEN st.rest ELSE Append(st.rest, span)]
  <2>1. st.tr \in Tr /\ st.rest \in Seq(NoWrap) /\ Keeps(s0, st.tr.store)
        /\ Frame(s0, st.tr.store) /\ Integrated(st.tr.store) = Integrated(s0)
    OBVIOUS
  <2>2. d \in [tr : Tr, cur : Nat, covered : BOOLEAN]
        /\ Retried(st.tr.store, span, d.tr.store, d.covered)
    BY <2>1, RangeRetried DEF Keeps
  <2>3. retrySpan(st, span) = q
    BY DEF retrySpan
  <2> HIDE DEF d
  <2>4. Append(st.rest, span) \in Seq(NoWrap) /\ ToSet(Append(st.rest, span)) = ToSet(st.rest) \cup {span}
    BY <2>1, AppendSet
  <2>5. /\ Keeps(s0, d.tr.store) /\ Frame(s0, d.tr.store) /\ Integrated(d.tr.store) = Integrated(s0)
        /\ Tombstones(d.tr.store) = Tombstones(st.tr.store) \cup (SpanUnits(span) \cap Integrated(s0))
        /\ d.covered <=> SpanUnits(span) \subseteq Integrated(s0)
    BY <2>1, <2>2, KeepsAgain DEF Retried, Frame
  <2>6. q \in [tr : Tr, rest : Seq(NoWrap)] /\ q.tr = d.tr
        /\ q.rest = IF d.covered THEN st.rest ELSE Append(st.rest, span)
    BY <2>1, <2>2, <2>4
  <2> HIDE DEF q
  <2>7. q \in A
    BY <2>5, <2>6
  <2>8. ToSet(q.rest) = ToSet(st.rest) \cup
          (IF SpanUnits(span) \subseteq Integrated(s0) THEN {} ELSE {span})
    BY <2>4, <2>5, <2>6
  <2> QED BY <2>3, <2>5, <2>6, <2>7, <2>8
<1> HIDE DEF st0
<1>5. \A st \in A : st.tr \in Tr /\ st.rest \in Seq(NoWrap)
        /\ Keeps(s0, st.tr.store) /\ Frame(s0, st.tr.store)
        /\ Integrated(st.tr.store) = Integrated(s0)
  OBVIOUS
<1> HIDE DEF A, s0
<1>6. g \in [A \X (1 .. n) -> A]
  BY <1>2, <1>4
<1>7. \A a \in A, k \in 1 .. n : g[<<a, k>>] = retrySpan(a, seq[k])
  OBVIOUS
<1> HIDE DEF g
<1>8. \E F : E(F)
  <2>1. PICK F \in [SUBSET (1 .. n) -> A] : FoldsBy(n, st0, g, F)
    BY <1>2, <1>3, <1>6, FoldExists
  <2>2. \A S \in SUBSET (1 .. n) : S # {} => Max(S) \in 1 .. n /\ F[S \ {Max(S)}] \in A
    BY <1>2, <2>1, MaxIn
  <2>3. \A S \in SUBSET (1 .. n) :
          F[S] = IF S = {} THEN st0 ELSE retrySpan(F[S \ {Max(S)}], seq[Max(S)])
    BY <2>1, <2>2, <1>7 DEF FoldsBy
  <2>4. F = [S \in SUBSET DOMAIN seq |->
               IF S = {} THEN st0 ELSE retrySpan(F[S \ {Max(S)}], seq[Max(S)])]
    BY <2>1, <2>3, <1>2
  <2> QED BY <2>4
<1>9. E(fold)
  BY <1>8 DEF fold
<1>10. FoldsIn(n, A, st0, g, fold)
  <2>1. \A S \in SUBSET (1 .. n) : S # {} => Max(S) \in 1 .. n
    BY <1>2, MaxIn
  <2>2. {} \in SUBSET (1 .. n)
    OBVIOUS
  <2>3. fold = [S \in SUBSET (1 .. n) |->
               IF S = {} THEN st0 ELSE retrySpan(fold[S \ {Max(S)}], seq[Max(S)])]
    BY <1>2, <1>9
  <2> QED BY <2>1, <2>2, <2>3, <1>2, <1>3, <1>6, <1>7 DEF FoldsIn
<1>f. PICK h : Values(n, A, st0, g, h) /\ h[n] = fold[1 .. n]
  BY <1>10, FoldValues
<1>11. /\ h \in [0 .. n -> A] /\ h[0] = st0 /\ h[n] = fold[1 .. n]
       /\ \A k \in 0 .. n - 1 : h[k + 1] = g[<<h[k], k + 1>>]
  BY <1>f DEF Values
<1> DEFINE T == {k \in 0 .. n : RetriedTo(s0, seq, k, h[k])}
<1>12. 0 \in T
  BY <1>2, <1>3, <1>11
<1>13. \A k \in 0 .. n - 1 : k \in T => k + 1 \in T
  <2> TAKE k \in 0 .. n - 1
  <2> HAVE k \in T
  <2>1. k \in 0 .. n /\ k + 1 \in 1 .. n /\ k + 1 \in 0 .. n /\ h[k] \in A
    BY <1>2, <1>11
  <2>2. h[k + 1] = retrySpan(h[k], seq[k + 1])
    <3>1. h[k + 1] = g[<<h[k], k + 1>>]
      BY <1>11
    <3> QED BY <2>1, <3>1, <1>7
  <2> DEFINE d == seq[k + 1]
  <2>3. d \in NoWrap
    BY <2>1, <1>2
  <2>4. \A i : i \in 1 .. k + 1 <=> i \in 1 .. k \/ i = k + 1
    BY <1>2
  <2>5. /\ Tombstones(h[k + 1].tr.store)
              = Tombstones(h[k].tr.store) \cup (SpanUnits(d) \cap Integrated(s0))
        /\ ToSet(h[k + 1].rest)
             = ToSet(h[k].rest) \cup (IF SpanUnits(d) \subseteq Integrated(s0) THEN {} ELSE {d})
    BY <2>1, <2>2, <2>3, <1>4
  <2>6. UNION {SpanUnits(seq[i]) : i \in 1 .. k + 1}
          = (UNION {SpanUnits(seq[i]) : i \in 1 .. k}) \cup SpanUnits(d)
    <3>1. ASSUME NEW u
          PROVE  (\E i \in 1 .. k + 1 : u \in SpanUnits(seq[i]))
                   <=> (\E i \in 1 .. k : u \in SpanUnits(seq[i])) \/ u \in SpanUnits(d)
      BY <2>4
    <3> HIDE DEF d
    <3> QED BY <3>1
  <2>7. RetriedTo(s0, seq, k, h[k])
    OBVIOUS
  <2>8. RetriedTo(s0, seq, k + 1, h[k + 1])
    <3>1. Tombstones(h[k + 1].tr.store)
            = Tombstones(s0) \cup ((UNION {SpanUnits(seq[i]) : i \in 1 .. k + 1}) \cap Integrated(s0))
      <4> DEFINE was == UNION {SpanUnits(seq[i]) : i \in 1 .. k}
                 is == UNION {SpanUnits(seq[i]) : i \in 1 .. k + 1}
      <4>1. Tombstones(h[k].tr.store) = Tombstones(s0) \cup (was \cap Integrated(s0))
        BY <2>7 DEF RetriedTo
      <4>2. is = was \cup SpanUnits(d)
        BY <2>6
      <4> HIDE DEF was, is, d
      <4>3. Tombstones(h[k + 1].tr.store) = Tombstones(s0) \cup (is \cap Integrated(s0))
        BY <4>1, <4>2, <2>5
      <4> QED BY <4>3 DEF is
    <3>2. ToSet(h[k + 1].rest) \subseteq {seq[i] : i \in 1 .. k + 1}
      BY <2>4, <2>5, <2>7 DEF RetriedTo
    <3>3. \A i \in 1 .. k + 1 :
            SpanUnits(seq[i]) \subseteq Integrated(s0) \/ seq[i] \in ToSet(h[k + 1].rest)
      BY <2>4, <2>5, <2>7 DEF RetriedTo
    <3> QED BY <3>1, <3>2, <3>3 DEF RetriedTo
  <2> QED BY <2>1, <2>8
<1> HIDE DEF T
<1>14. \A k \in 0 .. n : k \in T
  BY <1>2, <1>12, <1>13, UpTo
<1>15. done \in A /\ RetriedTo(s0, seq, n, done)
  BY <1>2, <1>11, <1>14 DEF T, done
<1> DEFINE q == done.tr.store
           p == [q EXCEPT !.pendingDeletes = done.rest]
           r == [done.tr EXCEPT !.store = p]
<1>16. applyDeleteSpans(tr, spans) = r
  BY <1>1
<1>17. /\ done.tr \in Tr /\ q \in StoreType /\ Sound(q) /\ done.rest \in Seq(DeleteSpan)
       /\ Keeps(s0, q) /\ Frame(s0, q) /\ Integrated(q) = Integrated(s0)
  <2>1. \A w \in Seq(NoWrap) : w \in Seq(DeleteSpan)
    BY DEF NoWrap
  <2> QED BY <2>1, <1>5, <1>15 DEF Keeps, Sound, Runs
<1>18. Keeps(q, p)
  <2>1. <<>> \in Seq(UpdateItem)
    OBVIOUS
  <2> QED BY <2>1, <1>17, BuffersKeep
<1>19. /\ p \in StoreType /\ p.pendingDeletes = done.rest /\ p.clock = s0.clock /\ p.pending = s0.pending
       /\ p.heap = q.heap
  BY <1>17 DEF StoreType, Frame
<1>20. r \in Tr /\ r.store = p
  BY <1>17, <1>19 DEF Tr
<1> HIDE DEF r, p
<1>21. Keeps(s0, p) /\ Integrated(p) = Integrated(s0) /\ Tombstones(p) = Tombstones(q)
  BY <1>17, <1>18, <1>19, KeepsAgain DEF Integrated, Tombstones, Units
<1>22. {seq[i] : i \in 1 .. n} = ToSet(seq)
  BY <1>2 DEF ToSet
<1>23. DeletesApplied(s0, spans, p)
  BY <1>2, <1>15, <1>19, <1>21, <1>22 DEF DeletesApplied, RetriedTo
<1> QED BY <1>16, <1>20, <1>23 DEF s0

-----------------------------------------------------------------------------
\* The units of store s and others, and of structs that arrived.
Gains(s, r, ids) ==
  /\ Keeps(s, r) /\ Frame(s, r)
  /\ Integrated(r) = Integrated(s) \cup ids /\ Tombstones(r) = Tombstones(s)

\* hasNode tells the units of the document.
LEMMA HasNodeIs ==
  ASSUME NEW s, Sound(s), NEW x \in Id
  PROVE  hasNode(s, x) <=> x \in Integrated(s)
BY GetNodeIs DEF hasNode, Sound, Runs

\* A struct that has arrived with all it depends on is the next of its client.
LEMMA NextOfClient ==
  ASSUME NEW s, Sound(s), NEW u \in UpdateItem, depsArrived(s, u), ~hasNode(s, u.id)
  PROVE  clockOf(u.id) = Size(s, clientOf(u.id))
<1> DEFINE c == clientOf(u.id)
           k == clockOf(u.id)
<1>1. u.id \in Id /\ c \in Client /\ k \in Nat
  BY IdFacts DEF UpdateItem
<1>2. Runs(s) /\ Size(s, c) \in Nat
  BY <1>1, Holds DEF Sound, Runs
<1>3. ~(k < Size(s, c))
  BY <1>1, <1>2, HasNodeIs, Holds
<1>4. CASE k = 0
  BY <1>2, <1>3, <1>4
<1>5. CASE k > 0
  <2> DEFINE y == Sub(u.id, 1)
  <2>1. y \in Id /\ clientOf(y) = c /\ clockOf(y) = k - 1
    BY <1>1, <1>5 DEF Sub, Id, clientOf, clockOf
  <2>2. hasNode(s, y)
    BY <1>5 DEF depsArrived
  <2> HIDE DEF y, k, c
  <2>3. k - 1 < Size(s, c)
    BY <2>1, <2>2, <1>2, HasNodeIs, Holds
  <2>4. Size(s, c) \in Nat /\ k \in Nat
    BY <1>1, <1>2
  <2>5. ~(k < Size(s, c))
    BY <1>3
  <2>6. k = Size(s, c)
    BY <2>3, <2>4, <2>5
  <2> QED BY <2>6 DEF k, c
<1> QED BY <1>1, <1>4, <1>5

\* A struct that is ready is integrated, and nothing else is.
THEOREM DecodedIntegrates ==
  ASSUME NEW tr \in Tr, Sound(tr.store), NEW u \in Item,
         depsArrived(tr.store, u), ~hasNode(tr.store, u.id)
  PROVE  LET r == integrateDecoded(tr, u)
         IN  /\ r \in Tr /\ Gains(tr.store, r.store, Ids(u.id, u.len))
             /\ Tells(tr.store, {u}, r.store)
<1> DEFINE s == tr.store
           it == newItem(u.originLeftId, u.originRightId, u.len)
           r == repair(s, it, u.parentName)
           q == r.store
           item == r.item
           tq == [tr EXCEPT !.store = q]
           p == Integrate(q, u.id, item)
           t == item.parent
<1>0. /\ u \in UpdateItem /\ u.id \in Id /\ u.len \in Nat \ {0} /\ u.parentName \in Root \cup {Nil}
      /\ u.originLeftId \in OptId /\ u.originRightId \in OptId
      /\ u.parentName # Nil <=> u.originLeftId = Nil /\ u.originRightId = Nil
  BY DEF Item, UpdateItem
<1>1. /\ it \in Struct /\ it.originLeftId = u.originLeftId /\ it.originRightId = u.originRightId
      /\ it.len = u.len
  BY <1>0 DEF newItem, Struct, OptId
<1> HIDE DEF it
<1>2. Repaired(s, it, u.parentName, r)
  BY <1>0, <1>1, RepairKeeps
<1> HIDE DEF r
<1>3. /\ Cut(s, q) /\ item \in Struct /\ item.len = u.len
      /\ item.left # Nil => item.left \in DOMAIN q.heap /\ q.heap[item.left].parent = t
  BY <1>1, <1>2 DEF Repaired
<1>a. {u.originLeftId, u.originRightId} \subseteq Integrated(s) \cup {Nil}
  <2>1. \A x \in OptId : x # Nil => x \in Id
    BY DEF OptId
  <2>2. u.originLeftId # Nil => u.originLeftId \in Integrated(s)
    BY <1>0, <2>1, HasNodeIs DEF depsArrived, originArrived
  <2>3. u.originRightId # Nil => u.originRightId \in Integrated(s)
    BY <1>0, <2>1, HasNodeIs DEF depsArrived, originArrived
  <2> QED BY <2>2, <2>3
<1>4. t # Nil
  BY <1>0, <1>1, <1>2, <1>a DEF Repaired
<1>5. Sound(q) /\ q \in StoreType /\ Runs(q) /\ Integrated(q) = Integrated(s) /\ Runs(s)
  BY <1>3 DEF Cut, Sound, Runs
<1>6. clockOf(u.id) = Size(q, clientOf(u.id))
  <2> DEFINE c == clientOf(u.id)
             k == clockOf(u.id)
  <2>1. c \in Client /\ k \in Nat /\ k = Size(s, c)
    BY <1>0, NextOfClient, IdFacts
  <2>2. Size(q, c) \in Nat /\ Size(s, c) \in Nat
    BY <1>5, <2>1, Holds
  <2>3. \A m \in Nat : m < Size(q, c) <=> m < Size(s, c)
    <3> TAKE m \in Nat
    <3>1. newId(c, m) \in Id /\ clientOf(newId(c, m)) = c /\ clockOf(newId(c, m)) = m
      BY <2>1 DEF newId, Id, clientOf, clockOf
    <3>2. newId(c, m) \in Integrated(q) <=> m < Size(q, c)
      BY <1>5, <3>1, Holds
    <3>3. newId(c, m) \in Integrated(s) <=> m < Size(s, c)
      BY <1>5, <3>1, Holds
    <3> QED BY <1>5, <3>2, <3>3
  <2> HIDE DEF c, k
  <2>4. Size(q, c) = Size(s, c)
    <3>1. ~(Size(q, c) < Size(s, c)) /\ ~(Size(s, c) < Size(q, c))
      BY <2>2, <2>3
    <3> QED BY <2>2, <3>1
  <2> QED BY <2>1, <2>4 DEF c, k
<1>7. t \in Root /\ item.len \in Nat /\ item.len \in Nat \ {0}
  BY <1>0, <1>3, <1>4 DEF Struct
<1>c. Tells(s, {u}, p)
  <2>1. Repaired(s, newItem(u.originLeftId, u.originRightId, u.len), u.parentName, r)
    BY <1>2 DEF it
  <2> SUFFICES ASSUME NEW w, Valid(w), Spelled(u, w), Agrees(s, w) PROVE Agrees(p, w)
    BY DEF Tells
  <2> QED BY <2>1, <1>0, <1>4, <1>6, <1>a, DeliveredArranges
<1>8. /\ Adds(q, p, t, u.id, item.len)
      /\ p.heap[u.id].originLeftId = item.originLeftId
      /\ p.heap[u.id].originRightId = item.originRightId
  BY <1>0, <1>3, <1>4, <1>5, <1>6, IntegrateKeeps
<1>b. {p.heap[u.id].originLeftId, p.heap[u.id].originRightId} \subseteq Integrated(q) \cup {Nil}
  <2> HIDE DEF p, q, item
  <2> QED BY <1>1, <1>2, <1>5, <1>8, <1>a DEF Repaired, item, q
<1>9. Gains(s, p, Ids(u.id, u.len))
  <2>1. Keeps(s, q)
    BY <1>3, CutsKeep
  <2>2. Keeps(q, p)
    BY <1>0, <1>5, <1>6, <1>7, <1>8, <1>b, AddsKeep
  <2>3. Keeps(s, p)
    BY <2>1, <2>2, KeepsAgain
  <2> HIDE DEF p, q, item, t
  <2> QED BY <2>3, <1>3, <1>8 DEF Gains, Cut, Adds, Frame
<1>10. tq \in Tr /\ tq.store = q /\ tq.insertSet = tr.insertSet /\ tq.changed = tr.changed
       /\ tq.deleteSet = tr.deleteSet
  BY <1>5 DEF Tr
<1>11. integrateDecoded(tr, u) = integrate(tq, u.id, item)
  BY DEF integrateDecoded, it, r
<1> HIDE DEF tq, p, q, item, t
<1> DEFINE w == [tq EXCEPT !.store = Integrate(@, u.id, item),
                           !.insertSet = Append(@, idSpan(u.id, item.len)),
                           !.changed = @ \cup {item.parent}]
<1>12. integrate(tq, u.id, item) = w
  BY <1>4 DEF integrate, t
<1>13. w \in Tr /\ w.store = p
  <2>1. idSpan(u.id, item.len) \in Span
    BY <1>0, <1>3 DEF idSpan, Span
  <2>2. Integrate(tq.store, u.id, item) = p
    BY <1>10 DEF p
  <2>3. p \in StoreType
    BY <1>9 DEF Gains, Keeps, Sound, Runs
  <2>4. Append(tq.insertSet, idSpan(u.id, item.len)) \in Seq(Span)
    BY <1>10, <2>1 DEF Tr
  <2>5. tq.changed \cup {item.parent} \in SUBSET Root
    BY <1>7, <1>10 DEF Tr, t
  <2>6. w = [tq EXCEPT !.store = p, !.insertSet = Append(tq.insertSet, idSpan(u.id, item.len)),
                       !.changed = tq.changed \cup {item.parent}]
    BY <2>2
  <2> HIDE DEF w
  <2> QED BY <2>3, <2>4, <2>5, <2>6, <1>10 DEF Tr
<1> QED BY <1>9, <1>c, <1>11, <1>12, <1>13 DEF s

-----------------------------------------------------------------------------
Acc == [tr : Tr, rest : Seq(Item), progress : BOOLEAN]

\* No two structs of a sequence share an id.
ApartIds(us) == \A i, j \in DOMAIN us : us[i].id = us[j].id => i = j

\* None of the structs is in the document, or could be.
Waits(s, us) == \A u \in ToSet(us) : ~hasNode(s, u.id) /\ ~depsArrived(s, u)

\* Every struct is a single unit, as the wire codec reads them.
OneUnit(us) == \A u \in us : u.len = 1

\* The pass over the structs in has come through the first k of them.
PassTo(tr, in, k, acc) ==
  LET s == tr.store
      r == acc.tr.store
      seen == {in[i] : i \in 1 .. k}
      is == Integrated(r) \cup StructIds(ToSet(acc.rest))
      was == Integrated(s) \cup StructIds(seen)
  IN  /\ acc \in Acc /\ Keeps(s, r) /\ Frame(s, r) /\ Tombstones(r) = Tombstones(s)
      /\ is \subseteq was /\ (OneUnit(ToSet(in)) => is = was)
      /\ ToSet(acc.rest) \subseteq seen /\ ApartIds(acc.rest)
      /\ Len(acc.rest) <= k /\ (acc.progress => Len(acc.rest) < k)
      /\ ~acc.progress => acc.tr = tr /\ Waits(s, acc.rest)
      /\ Tells(s, ToSet(in), r)

\* The visit of a struct in a pass.
visitStruct(acc, u) ==
  IF hasNode(acc.tr.store, u.id) THEN acc
  ELSE IF depsArrived(acc.tr.store, u)
    THEN [acc EXCEPT !.tr = integrateDecoded(@, u), !.progress = TRUE]
  ELSE IF containsUpdateItemId(acc.rest, u.id) THEN acc
  ELSE [acc EXCEPT !.rest = Append(@, u)]

\* The units of one struct more.
LEMMA StructsMore ==
  ASSUME NEW S, NEW u
  PROVE  StructIds(S \cup {u}) = StructIds(S) \cup Ids(u.id, u.len)
<1>1. ASSUME NEW x
      PROVE  (\E v \in S \cup {u} : x \in Ids(v.id, v.len))
               <=> (\E v \in S : x \in Ids(v.id, v.len)) \/ x \in Ids(u.id, u.len)
  OBVIOUS
<1> QED BY <1>1 DEF StructIds

\* A single unit.
LEMMA OneId ==
  ASSUME NEW x \in Id
  PROVE  Ids(x, 1) = {x}
<1>1. ASSUME NEW u PROVE u \in Ids(x, 1) <=> u = x
  <2>1. u \in Ids(x, 1) <=> /\ u \in Id /\ clientOf(u) = clientOf(x)
                            /\ clockOf(x) <= clockOf(u) /\ clockOf(u) < clockOf(x) + 1
    BY IdsAre
  <2>2. u \in Id => clockOf(u) \in Nat /\ u = <<clientOf(u), clockOf(u)>>
    BY IdFacts
  <2>3. x = <<clientOf(x), clockOf(x)>> /\ clockOf(x) \in Nat
    BY IdFacts
  <2> QED BY <2>1, <2>2, <2>3
<1> QED BY <1>1

\* One struct more of a pass: a duplicate is dropped, a struct that is ready
\* integrated, any other kept, once per id.
LEMMA VisitOne ==
  ASSUME NEW tr \in Tr, NEW in \in Seq(Item), NEW k \in 0 .. Len(in) - 1, NEW acc,
         PassTo(tr, in, k, acc)
  PROVE  PassTo(tr, in, k + 1, visitStruct(acc, in[k + 1]))
<1> DEFINE s == tr.store
           r == acc.tr.store
           u == in[k + 1]
           seen == {in[i] : i \in 1 .. k}
           now == {in[i] : i \in 1 .. k + 1}
           is == Integrated(r) \cup StructIds(ToSet(acc.rest))
           was == Integrated(s) \cup StructIds(seen)
           one == OneUnit(ToSet(in))
           w == visitStruct(acc, u)
<1>1. /\ acc \in Acc /\ acc.tr \in Tr /\ acc.rest \in Seq(Item) /\ acc.progress \in BOOLEAN
      /\ Keeps(s, r) /\ Frame(s, r) /\ Tombstones(r) = Tombstones(s)
      /\ is \subseteq was /\ (one => is = was)
      /\ ToSet(acc.rest) \subseteq seen /\ ApartIds(acc.rest)
      /\ Len(acc.rest) <= k /\ (acc.progress => Len(acc.rest) < k)
      /\ ~acc.progress => acc.tr = tr /\ Waits(s, acc.rest)
      /\ Tells(s, ToSet(in), r)
  BY DEF PassTo, Acc
<1>2. /\ k \in Nat /\ k + 1 \in 1 .. Len(in) /\ u \in Item /\ u \in ToSet(in)
      /\ Len(acc.rest) \in Nat
  <2>1. k + 1 \in 1 .. Len(in)
    OBVIOUS
  <2>2. u \in Item
    BY <2>1
  <2> HIDE DEF u
  <2> QED BY <2>1, <2>2, <1>1 DEF ToSet, u
<1>3. u.id \in Id /\ u.len \in Nat \ {0}
  BY <1>2 DEF Item, UpdateItem
<1>4. now = seen \cup {u}
  <2>1. \A i : i \in 1 .. k + 1 <=> i \in 1 .. k \/ i = k + 1
    BY <1>2
  <2> QED BY <2>1
<1>5. StructIds(now) = StructIds(seen) \cup Ids(u.id, u.len)
  BY <1>4, StructsMore
<1>6. Sound(r)
  BY <1>1 DEF Keeps
<1>7. one => Ids(u.id, u.len) = {u.id}
  BY <1>2, <1>3, OneId DEF OneUnit
<1>8. PassTo(tr, in, k + 1, w) <=>
        /\ w \in Acc /\ Keeps(s, w.tr.store) /\ Frame(s, w.tr.store)
        /\ Tombstones(w.tr.store) = Tombstones(s)
        /\ Integrated(w.tr.store) \cup StructIds(ToSet(w.rest)) \subseteq Integrated(s) \cup StructIds(now)
        /\ one => Integrated(w.tr.store) \cup StructIds(ToSet(w.rest)) = Integrated(s) \cup StructIds(now)
        /\ ToSet(w.rest) \subseteq now /\ ApartIds(w.rest)
        /\ Len(w.rest) <= k + 1 /\ (w.progress => Len(w.rest) < k + 1)
        /\ ~w.progress => w.tr = tr /\ Waits(s, w.rest)
        /\ Tells(s, ToSet(in), w.tr.store)
  BY DEF PassTo
<1> SUFFICES PassTo(tr, in, k + 1, w)
  OBVIOUS
<1> HIDE DEF w, now, seen, one, u
<1>9. CASE hasNode(r, u.id)
  <2>1. w = acc
    BY <1>9 DEF w, visitStruct
  <2>2. u.id \in Integrated(r)
    BY <1>3, <1>6, <1>9, HasNodeIs
  <2>3. is \subseteq Integrated(s) \cup StructIds(now)
    BY <1>1, <1>5
  <2>4. one => is = Integrated(s) \cup StructIds(now)
    BY <1>1, <1>5, <1>7, <2>2
  <2>5. Len(acc.rest) <= k + 1 /\ (acc.progress => Len(acc.rest) < k + 1)
    BY <1>1, <1>2
  <2>a. w \in Acc /\ Keeps(s, w.tr.store) /\ Frame(s, w.tr.store)
        /\ Tombstones(w.tr.store) = Tombstones(s)
    BY <1>1, <1>4, <2>1, <2>3, <2>4, <2>5
  <2>b. /\ Integrated(w.tr.store) \cup StructIds(ToSet(w.rest)) \subseteq Integrated(s) \cup StructIds(now)
        /\ one => Integrated(w.tr.store) \cup StructIds(ToSet(w.rest)) = Integrated(s) \cup StructIds(now)
    BY <1>1, <1>4, <2>1, <2>3, <2>4, <2>5
  <2>c. /\ ToSet(w.rest) \subseteq now /\ ApartIds(w.rest)
        /\ Len(w.rest) <= k + 1 /\ (w.progress => Len(w.rest) < k + 1)
    BY <1>1, <1>4, <2>1, <2>3, <2>4, <2>5
  <2>d. ~w.progress => w.tr = tr /\ Waits(s, w.rest)
    BY <1>1, <1>4, <2>1, <2>3, <2>4, <2>5
  <2>e. Tells(s, ToSet(in), w.tr.store)
    BY <1>1, <2>1
  <2> QED BY <1>8, <2>a, <2>b, <2>c, <2>d, <2>e
<1>10. CASE ~hasNode(r, u.id) /\ depsArrived(r, u)
  <2> DEFINE q == integrateDecoded(acc.tr, u)
             v == [acc EXCEPT !.tr = q, !.progress = TRUE]
  <2>1. w = v
    BY <1>10 DEF w, visitStruct
  <2>2. q \in Tr /\ Gains(r, q.store, Ids(u.id, u.len)) /\ Tells(r, {u}, q.store)
    BY <1>1, <1>2, <1>6, <1>10, DecodedIntegrates
  <2> HIDE DEF q
  <2>3. v \in Acc /\ v.tr = q /\ v.rest = acc.rest /\ v.progress = TRUE
    BY <1>1, <2>2 DEF Acc
  <2> HIDE DEF v
  <2>4. /\ Keeps(s, q.store) /\ Frame(s, q.store) /\ Tombstones(q.store) = Tombstones(s)
        /\ Integrated(q.store) = Integrated(r) \cup Ids(u.id, u.len)
    BY <1>1, <2>2, KeepsAgain DEF Gains, Frame
  <2>5. /\ Integrated(q.store) \cup StructIds(ToSet(acc.rest)) \subseteq Integrated(s) \cup StructIds(now)
        /\ one => Integrated(q.store) \cup StructIds(ToSet(acc.rest)) = Integrated(s) \cup StructIds(now)
    <3>1. Integrated(q.store) \cup StructIds(ToSet(acc.rest)) = is \cup Ids(u.id, u.len)
      BY <2>4
    <3>2. Integrated(s) \cup StructIds(now) = was \cup Ids(u.id, u.len)
      BY <1>5
    <3> HIDE DEF is, was
    <3> QED BY <1>1, <3>1, <3>2
  <2>6. Len(acc.rest) < k + 1 /\ Len(acc.rest) <= k + 1
    BY <1>1, <1>2
  <2>a. w \in Acc /\ Keeps(s, w.tr.store) /\ Frame(s, w.tr.store)
        /\ Tombstones(w.tr.store) = Tombstones(s)
    BY <1>1, <1>4, <2>1, <2>3, <2>4, <2>5, <2>6
  <2>b. /\ Integrated(w.tr.store) \cup StructIds(ToSet(w.rest)) \subseteq Integrated(s) \cup StructIds(now)
        /\ one => Integrated(w.tr.store) \cup StructIds(ToSet(w.rest)) = Integrated(s) \cup StructIds(now)
    BY <1>1, <1>4, <2>1, <2>3, <2>4, <2>5, <2>6
  <2>c. /\ ToSet(w.rest) \subseteq now /\ ApartIds(w.rest)
        /\ Len(w.rest) <= k + 1 /\ (w.progress => Len(w.rest) < k + 1)
    BY <1>1, <1>4, <2>1, <2>3, <2>4, <2>5, <2>6
  <2>d. ~w.progress => w.tr = tr /\ Waits(s, w.rest)
    BY <1>1, <1>4, <2>1, <2>3, <2>4, <2>5, <2>6
  <2>e. Tells(s, ToSet(in), w.tr.store)
    BY <1>1, <1>2, <2>1, <2>2, <2>3 DEF Tells
  <2> QED BY <1>8, <2>a, <2>b, <2>c, <2>d, <2>e
<1>11. CASE ~hasNode(r, u.id) /\ ~depsArrived(r, u) /\ containsUpdateItemId(acc.rest, u.id)
  <2>1. w = acc
    BY <1>11 DEF w, visitStruct
  <2>2. PICK i \in 1 .. Len(acc.rest) : acc.rest[i].id = u.id
    BY <1>11 DEF containsUpdateItemId
  <2>3. acc.rest[i] \in ToSet(acc.rest) /\ acc.rest[i] \in Item
    BY <1>1, <2>2 DEF ToSet
  <2>4. one => u.id \in StructIds(ToSet(acc.rest))
    <3> HAVE one
    <3>1. acc.rest[i] \in ToSet(in)
      <4>1. PICK j \in 1 .. k : acc.rest[i] = in[j]
        BY <1>1, <2>3 DEF seen
      <4>2. j \in 1 .. Len(in)
        BY <1>2
      <4> QED BY <4>1, <4>2 DEF ToSet
    <3>2. Ids(acc.rest[i].id, acc.rest[i].len) = {u.id}
      BY <3>1, <2>2, <1>3, OneId DEF one, OneUnit
    <3> QED BY <2>3, <3>2 DEF StructIds
  <2>5. is \subseteq Integrated(s) \cup StructIds(now)
    BY <1>1, <1>5
  <2>6. one => is = Integrated(s) \cup StructIds(now)
    BY <1>1, <1>5, <1>7, <2>4
  <2>7. Len(acc.rest) <= k + 1 /\ (acc.progress => Len(acc.rest) < k + 1)
    BY <1>1, <1>2
  <2>a. w \in Acc /\ Keeps(s, w.tr.store) /\ Frame(s, w.tr.store)
        /\ Tombstones(w.tr.store) = Tombstones(s)
    BY <1>1, <1>4, <2>1, <2>5, <2>6, <2>7
  <2>b. /\ Integrated(w.tr.store) \cup StructIds(ToSet(w.rest)) \subseteq Integrated(s) \cup StructIds(now)
        /\ one => Integrated(w.tr.store) \cup StructIds(ToSet(w.rest)) = Integrated(s) \cup StructIds(now)
    BY <1>1, <1>4, <2>1, <2>5, <2>6, <2>7
  <2>c. /\ ToSet(w.rest) \subseteq now /\ ApartIds(w.rest)
        /\ Len(w.rest) <= k + 1 /\ (w.progress => Len(w.rest) < k + 1)
    BY <1>1, <1>4, <2>1, <2>5, <2>6, <2>7
  <2>d. ~w.progress => w.tr = tr /\ Waits(s, w.rest)
    BY <1>1, <1>4, <2>1, <2>5, <2>6, <2>7
  <2>e. Tells(s, ToSet(in), w.tr.store)
    BY <1>1, <2>1
  <2> QED BY <1>8, <2>a, <2>b, <2>c, <2>d, <2>e
<1>12. CASE ~hasNode(r, u.id) /\ ~depsArrived(r, u) /\ ~containsUpdateItemId(acc.rest, u.id)
  <2> DEFINE v == [acc EXCEPT !.rest = Append(acc.rest, u)]
             a == acc.rest
             b == Append(a, u)
             n == Len(a)
  <2>1. w = v
    BY <1>12 DEF w, visitStruct
  <2>2. /\ b \in Seq(Item) /\ ToSet(b) = ToSet(a) \cup {u} /\ Len(b) = n + 1
        /\ DOMAIN b = 1 .. n + 1 /\ b[n + 1] = u /\ \A i \in 1 .. n : b[i] = a[i]
    BY <1>1, <1>2, AppendSet
  <2>3. v \in Acc /\ v.tr = acc.tr /\ v.rest = b /\ v.progress = acc.progress
    BY <1>1, <2>2 DEF Acc
  <2> HIDE DEF v
  <2>4. ApartIds(b)
    <3>1. \A i \in 1 .. n : a[i].id # u.id
      BY <1>12 DEF containsUpdateItemId
    <3>2. \A i, j \in 1 .. n : a[i].id = a[j].id => i = j
      BY <1>1 DEF ApartIds
    <3>3. \A i : i \in 1 .. n + 1 <=> i \in 1 .. n \/ i = n + 1
      BY <1>1
    <3> HIDE DEF a, b, n
    <3> QED BY <2>2, <3>1, <3>2, <3>3 DEF ApartIds
  <2>5. StructIds(ToSet(b)) = StructIds(ToSet(a)) \cup Ids(u.id, u.len)
    BY <2>2, StructsMore
  <2>6. /\ Integrated(r) \cup StructIds(ToSet(b)) \subseteq Integrated(s) \cup StructIds(now)
        /\ one => Integrated(r) \cup StructIds(ToSet(b)) = Integrated(s) \cup StructIds(now)
    <3>1. Integrated(r) \cup StructIds(ToSet(b)) = is \cup Ids(u.id, u.len)
      BY <2>5
    <3>2. Integrated(s) \cup StructIds(now) = was \cup Ids(u.id, u.len)
      BY <1>5
    <3> HIDE DEF is, was
    <3> QED BY <1>1, <3>1, <3>2
  <2>7. Len(b) <= k + 1 /\ (acc.progress => Len(b) < k + 1)
    BY <1>1, <1>2, <2>2
  <2>8. ToSet(b) \subseteq now
    BY <1>1, <1>4, <2>2
  <2>9. ~acc.progress => Waits(s, b)
    BY <1>1, <1>12, <2>2 DEF Waits
  <2> HIDE DEF b
  <2>a. w \in Acc /\ Keeps(s, w.tr.store) /\ Frame(s, w.tr.store)
        /\ Tombstones(w.tr.store) = Tombstones(s)
    BY <1>1, <2>1, <2>3, <2>4, <2>6, <2>7, <2>8, <2>9
  <2>b. /\ Integrated(w.tr.store) \cup StructIds(ToSet(w.rest)) \subseteq Integrated(s) \cup StructIds(now)
        /\ one => Integrated(w.tr.store) \cup StructIds(ToSet(w.rest)) = Integrated(s) \cup StructIds(now)
    BY <1>1, <2>1, <2>3, <2>4, <2>6, <2>7, <2>8, <2>9
  <2>c. /\ ToSet(w.rest) \subseteq now /\ ApartIds(w.rest)
        /\ Len(w.rest) <= k + 1 /\ (w.progress => Len(w.rest) < k + 1)
    BY <1>1, <2>1, <2>3, <2>4, <2>6, <2>7, <2>8, <2>9
  <2>d. ~w.progress => w.tr = tr /\ Waits(s, w.rest)
    BY <1>1, <2>1, <2>3, <2>4, <2>6, <2>7, <2>8, <2>9
  <2>e. Tells(s, ToSet(in), w.tr.store)
    BY <1>1, <2>1, <2>3
  <2> QED BY <1>8, <2>a, <2>b, <2>c, <2>d, <2>e
<1> QED BY <1>9, <1>10, <1>11, <1>12

\* A visit keeps the lists of the store.
LEMMA VisitSound ==
  ASSUME NEW acc \in Acc, Sound(acc.tr.store), NEW u \in Item
  PROVE  visitStruct(acc, u) \in Acc /\ Sound(visitStruct(acc, u).tr.store)
<1> DEFINE q == integrateDecoded(acc.tr, u)
<1>0. acc.tr \in Tr /\ acc.rest \in Seq(Item) /\ acc.progress \in BOOLEAN
  BY DEF Acc
<1>1. CASE ~hasNode(acc.tr.store, u.id) /\ depsArrived(acc.tr.store, u)
  <2>1. q \in Tr /\ Sound(q.store)
    BY <1>0, <1>1, DecodedIntegrates DEF Gains, Keeps
  <2>2. visitStruct(acc, u) = [acc EXCEPT !.tr = q, !.progress = TRUE]
    BY <1>1 DEF visitStruct
  <2> HIDE DEF q
  <2>3. [acc EXCEPT !.tr = q, !.progress = TRUE] \in Acc
        /\ [acc EXCEPT !.tr = q, !.progress = TRUE].tr = q
    BY <1>0, <2>1 DEF Acc
  <2> QED BY <2>1, <2>2, <2>3
<1>2. CASE visitStruct(acc, u) = acc
  BY <1>2
<1>3. CASE visitStruct(acc, u) = [acc EXCEPT !.rest = Append(acc.rest, u)]
  <2>1. Append(acc.rest, u) \in Seq(Item)
    BY <1>0
  <2>2. [acc EXCEPT !.rest = Append(acc.rest, u)] \in Acc
        /\ [acc EXCEPT !.rest = Append(acc.rest, u)].tr = acc.tr
    BY <1>0, <2>1 DEF Acc
  <2> QED BY <1>3, <2>2
<1> QED BY <1>1, <1>2, <1>3 DEF visitStruct

\* A pass.
LEMMA PassDrains ==
  ASSUME NEW st \in Acc, Sound(st.tr.store)
  PROVE  PassTo(st.tr, st.rest, Len(st.rest), drainPass(st))
<1> DEFINE seq == st.rest
           tr == st.tr
           n == Len(seq)
           visit(acc, u) ==
             IF hasNode(acc.tr.store, u.id) THEN acc
             ELSE IF depsArrived(acc.tr.store, u)
               THEN [acc EXCEPT !.tr = integrateDecoded(@, u), !.progress = TRUE]
             ELSE IF containsUpdateItemId(acc.rest, u.id) THEN acc
             ELSE [acc EXCEPT !.rest = Append(@, u)]
           st0 == [tr |-> st.tr, rest |-> <<>>, progress |-> FALSE]
           E(F) == F = [S \in SUBSET DOMAIN seq |->
                          IF S = {} THEN st0 ELSE visit(F[S \ {Max(S)}], seq[Max(S)])]
           A == {acc \in Acc : Sound(acc.tr.store)}
           g == [p \in A \X (1 .. n) |-> visitStruct(p[1], seq[p[2]])]
           fold == CHOOSE F : E(F)
<1>1. drainPass(st) = fold[DOMAIN seq]
  BY DEF drainPass, FoldLeft, MapThenFoldSet
<1>2. /\ tr \in Tr /\ seq \in Seq(Item) /\ n \in Nat /\ DOMAIN seq = 1 .. n
      /\ \A k \in 1 .. n : seq[k] \in Item
  BY DEF Acc
<1>3. \A acc, u : visit(acc, u) = visitStruct(acc, u)
  BY DEF visitStruct
<1>e. \A F : E(F) <=> F = [S \in SUBSET DOMAIN seq |->
                     IF S = {} THEN st0 ELSE visitStruct(F[S \ {Max(S)}], seq[Max(S)])]
  BY <1>3
<1> HIDE DEF E, fold, visit, n
<1>4. st0 \in A /\ PassTo(tr, seq, 0, st0)
  <2>1. Keeps(tr.store, tr.store) /\ Frame(tr.store, tr.store)
    BY KeepsItself DEF Frame
  <2>2. 1 .. 0 = {} /\ ToSet(<<>>) = {} /\ Len(<<>>) = 0 /\ <<>> \in Seq(Item) /\ DOMAIN <<>> = {}
    BY DEF ToSet
  <2>3. /\ st0 \in Acc /\ st0.tr = tr /\ st0.rest = <<>> /\ ~st0.progress
    BY <1>2 DEF Acc
  <2> HIDE DEF st0, seq, tr
  <2>4. ApartIds(st0.rest) /\ Waits(tr.store, st0.rest)
    BY <2>2, <2>3 DEF ApartIds, Waits
  <2>5. Sound(tr.store)
    BY DEF tr
  <2>6. {seq[i] : i \in 1 .. 0} = {} /\ ToSet(st0.rest) = {} /\ Len(st0.rest) = 0
    BY <2>2, <2>3
  <2>7. PassTo(tr, seq, 0, st0)
    <3> DEFINE is == Integrated(st0.tr.store) \cup StructIds(ToSet(st0.rest))
               was == Integrated(tr.store) \cup StructIds({seq[i] : i \in 1 .. 0})
    <3>1. is = was
      BY <2>3, <2>6
    <3>2. st0.tr.store = tr.store /\ st0.tr = tr
      BY <2>3
    <3>3. PassTo(tr, seq, 0, st0) <=>
            /\ st0 \in Acc /\ Keeps(tr.store, st0.tr.store) /\ Frame(tr.store, st0.tr.store)
            /\ Tombstones(st0.tr.store) = Tombstones(tr.store)
            /\ is \subseteq was /\ (OneUnit(ToSet(seq)) => is = was)
            /\ ToSet(st0.rest) \subseteq {seq[i] : i \in 1 .. 0} /\ ApartIds(st0.rest)
            /\ Len(st0.rest) <= 0 /\ (st0.progress => Len(st0.rest) < 0)
            /\ ~st0.progress => st0.tr = tr /\ Waits(tr.store, st0.rest)
            /\ Tells(tr.store, ToSet(seq), st0.tr.store)
      BY DEF PassTo
    <3>4. Tells(tr.store, ToSet(seq), st0.tr.store)
      BY <3>2 DEF Tells
    <3> HIDE DEF is, was
    <3> QED BY <2>1, <2>3, <2>4, <2>6, <3>1, <3>2, <3>3, <3>4
  <2> QED BY <2>3, <2>5, <2>7
<1> HIDE DEF st0, seq, tr
<1>5. ASSUME NEW acc \in A, NEW k \in 1 .. n PROVE visitStruct(acc, seq[k]) \in A
  BY <1>2, VisitSound
<1> HIDE DEF A
<1>6. g \in [A \X (1 .. n) -> A]
  BY <1>5
<1>7. \A a \in A, k \in 1 .. n : g[<<a, k>>] = visitStruct(a, seq[k])
  OBVIOUS
<1> HIDE DEF g
<1>8. \E F : E(F)
  <2>1. PICK F \in [SUBSET (1 .. n) -> A] : FoldsBy(n, st0, g, F)
    BY <1>2, <1>4, <1>6, FoldExists
  <2>2. \A S \in SUBSET (1 .. n) : S # {} => Max(S) \in 1 .. n /\ F[S \ {Max(S)}] \in A
    BY <1>2, <2>1, MaxIn
  <2>3. \A S \in SUBSET (1 .. n) :
          F[S] = IF S = {} THEN st0 ELSE visitStruct(F[S \ {Max(S)}], seq[Max(S)])
    BY <2>1, <2>2, <1>7 DEF FoldsBy
  <2>4. F = [S \in SUBSET DOMAIN seq |->
               IF S = {} THEN st0 ELSE visitStruct(F[S \ {Max(S)}], seq[Max(S)])]
    BY <2>1, <2>3, <1>2
  <2> QED BY <2>4, <1>e
<1>9. E(fold)
  BY <1>8 DEF fold
<1>10. FoldsIn(n, A, st0, g, fold)
  <2>1. \A S \in SUBSET (1 .. n) : S # {} => Max(S) \in 1 .. n
    BY <1>2, MaxIn
  <2>2. {} \in SUBSET (1 .. n)
    OBVIOUS
  <2>3. fold = [S \in SUBSET (1 .. n) |->
               IF S = {} THEN st0 ELSE visitStruct(fold[S \ {Max(S)}], seq[Max(S)])]
    BY <1>2, <1>9, <1>e
  <2> QED BY <2>1, <2>2, <2>3, <1>2, <1>4, <1>6, <1>7 DEF FoldsIn
<1>f. PICK h : Values(n, A, st0, g, h) /\ h[n] = fold[1 .. n]
  BY <1>10, FoldValues
<1>11. /\ h \in [0 .. n -> A] /\ h[0] = st0 /\ h[n] = fold[1 .. n]
       /\ \A k \in 0 .. n - 1 : h[k + 1] = g[<<h[k], k + 1>>]
  BY <1>f DEF Values
<1> DEFINE T == {k \in 0 .. n : PassTo(tr, seq, k, h[k])}
<1>12. 0 \in T
  BY <1>2, <1>4, <1>11
<1>13. \A k \in 0 .. n - 1 : k \in T => k + 1 \in T
  <2> TAKE k \in 0 .. n - 1
  <2> HAVE k \in T
  <2>1. k \in 0 .. n /\ k + 1 \in 1 .. n /\ k + 1 \in 0 .. n /\ h[k] \in A
    BY <1>2, <1>11
  <2>2. h[k + 1] = visitStruct(h[k], seq[k + 1])
    <3>1. h[k + 1] = g[<<h[k], k + 1>>]
      BY <1>11
    <3> QED BY <2>1, <3>1, <1>7
  <2>3. k \in 0 .. Len(seq) - 1
    BY DEF n
  <2>4. PassTo(tr, seq, k + 1, h[k + 1])
    BY <1>2, <2>2, <2>3, VisitOne
  <2> QED BY <2>1, <2>4
<1> HIDE DEF T
<1>14. \A k \in 0 .. n : k \in T
  BY <1>2, <1>12, <1>13, UpTo
<1>15. n \in T
  BY <1>2, <1>14
<1> QED BY <1>1, <1>2, <1>11, <1>15 DEF T, n, tr, seq

\* The units a struct depends on.
Deps(u) == ({u.originLeftId, u.originRightId} \ {Nil})
             \cup (IF clockOf(u.id) > 0 THEN {Sub(u.id, 1)} ELSE {})

\* depsArrived tells whether they are in the document.
LEMMA DepsAre ==
  ASSUME NEW s, Sound(s), NEW u \in UpdateItem
  PROVE  /\ hasNode(s, u.id) <=> u.id \in Integrated(s)
         /\ depsArrived(s, u) <=> Deps(u) \subseteq Integrated(s)
<1>1. u.id \in Id /\ clockOf(u.id) \in Nat /\ u.originLeftId \in OptId /\ u.originRightId \in OptId
  BY IdFacts DEF UpdateItem
<1>2. \A x \in OptId : originArrived(s, x) <=> x = Nil \/ x \in Integrated(s)
  BY HasNodeIs DEF originArrived, OptId
<1>3. clockOf(u.id) > 0 => (hasNode(s, Sub(u.id, 1)) <=> Sub(u.id, 1) \in Integrated(s))
  <2> HAVE clockOf(u.id) > 0
  <2>1. Sub(u.id, 1) \in Id
    BY <1>1 DEF Sub, Id, clockOf
  <2> QED BY <2>1, HasNodeIs
<1> QED BY <1>1, <1>2, <1>3, HasNodeIs DEF depsArrived, Deps

\* Stores that hold the same units know the same of a struct.
LEMMA SameUnits ==
  ASSUME NEW s, Sound(s), NEW r, Sound(r), Integrated(r) = Integrated(s), NEW us \in Seq(Item)
  PROVE  Waits(s, us) <=> Waits(r, us)
<1>1. \A u \in ToSet(us) : u \in UpdateItem
  BY DEF ToSet, Item
<1> QED BY <1>1, DepsAre DEF Waits

\* Passes over the structs of all, k of them.
PassesTo(tr, all, k, st) ==
  LET s == tr.store
      r == st.tr.store
      is == Integrated(r) \cup StructIds(ToSet(st.rest))
      was == Integrated(s) \cup StructIds(ToSet(all))
  IN  /\ st \in Acc /\ Keeps(s, r) /\ Frame(s, r) /\ Tombstones(r) = Tombstones(s)
      /\ is \subseteq was /\ (OneUnit(ToSet(all)) => is = was)
      /\ ToSet(st.rest) \subseteq ToSet(all)
      /\ st.progress => Len(st.rest) + k <= Len(all)
      /\ ~st.progress => ApartIds(st.rest) /\ Waits(r, st.rest)
      /\ Tells(s, ToSet(all), r)

\* A pass more, if the last one made progress.
nextPass(st) == IF st.progress THEN drainPass(st) ELSE st

\* A turn of the loop over passes: a pass, or nothing once one made no progress.
LEMMA OnePass ==
  ASSUME NEW tr \in Tr, NEW all \in Seq(Item), NEW k \in Nat, NEW st, PassesTo(tr, all, k, st)
  PROVE  PassesTo(tr, all, k + 1, nextPass(st))
<1> DEFINE s == tr.store
           r == st.tr.store
           q == drainPass(st)
           p == q.tr.store
           is == Integrated(r) \cup StructIds(ToSet(st.rest))
           was == Integrated(s) \cup StructIds(ToSet(all))
           new == Integrated(p) \cup StructIds(ToSet(q.rest))
           one == OneUnit(ToSet(all))
<1>1. /\ st \in Acc /\ Keeps(s, r) /\ Frame(s, r) /\ Tombstones(r) = Tombstones(s)
      /\ is \subseteq was /\ (one => is = was)
      /\ ToSet(st.rest) \subseteq ToSet(all)
      /\ st.progress => Len(st.rest) + k <= Len(all)
      /\ ~st.progress => ApartIds(st.rest) /\ Waits(r, st.rest)
      /\ Tells(s, ToSet(all), r)
  BY DEF PassesTo
<1>2. CASE ~st.progress
  <2>1. nextPass(st) = st
    BY <1>2 DEF nextPass
  <2> QED BY <1>1, <1>2, <2>1 DEF PassesTo
<1>3. CASE st.progress
  <2>1. nextPass(st) = q
    BY <1>3 DEF nextPass
  <2>2. Sound(r) /\ st.rest \in Seq(Item) /\ Len(st.rest) \in Nat /\ Len(all) \in Nat
    BY <1>1 DEF Keeps, Acc
  <2>3. PassTo(st.tr, st.rest, Len(st.rest), q)
    BY <1>1, <2>2, PassDrains
  <2>4. {st.rest[i] : i \in 1 .. Len(st.rest)} = ToSet(st.rest)
    BY <2>2 DEF ToSet
  <2>5. /\ q \in Acc /\ Keeps(r, p) /\ Frame(r, p) /\ Tombstones(p) = Tombstones(r)
        /\ new \subseteq is /\ (OneUnit(ToSet(st.rest)) => new = is)
        /\ ToSet(q.rest) \subseteq ToSet(st.rest) /\ ApartIds(q.rest)
        /\ (q.progress => Len(q.rest) < Len(st.rest))
        /\ ~q.progress => q.tr = st.tr /\ Waits(r, q.rest)
        /\ Tells(r, ToSet(st.rest), p)
    <3> HIDE DEF q
    <3> QED BY <2>3, <2>4 DEF PassTo
  <2> HIDE DEF q
  <2>6. Len(q.rest) \in Nat
    BY <2>5 DEF Acc
  <2>7. one => OneUnit(ToSet(st.rest))
    BY <1>1 DEF OneUnit
  <2>8. Keeps(s, p) /\ Frame(s, p) /\ Tombstones(p) = Tombstones(s)
    BY <1>1, <2>5, KeepsAgain DEF Frame
  <2>9. new \subseteq was /\ (one => new = was)
    <3> HIDE DEF new, is, was, one
    <3> QED BY <1>1, <2>5, <2>7
  <2>10. q.progress => Len(q.rest) + (k + 1) <= Len(all)
    <3> DEFINE a == Len(q.rest)
               b == Len(st.rest)
               c == Len(all)
    <3>1. /\ a \in Nat /\ b \in Nat /\ c \in Nat /\ b + k <= c
          /\ q.progress => a < b
      BY <1>1, <1>3, <2>2, <2>5, <2>6
    <3> HIDE DEF a, b, c
    <3>2. q.progress => a + (k + 1) <= c
      BY <3>1
    <3> QED BY <3>2 DEF a, c
  <2>11. ~q.progress => ApartIds(q.rest) /\ Waits(p, q.rest)
    BY <2>5
  <2>12. ToSet(q.rest) \subseteq ToSet(all)
    BY <1>1, <2>5
  <2>t. Tells(s, ToSet(all), p)
    BY <1>1, <2>5 DEF Tells
  <2>13. PassesTo(tr, all, k + 1, q)
    BY <2>5, <2>8, <2>9, <2>10, <2>11, <2>12, <2>t DEF PassesTo
  <2> QED BY <2>1, <2>13
<1> QED BY <1>2, <1>3

\* A pass keeps the lists of the store.
LEMMA PassSound ==
  ASSUME NEW st \in Acc, Sound(st.tr.store)
  PROVE  nextPass(st) \in Acc /\ Sound(nextPass(st).tr.store)
<1>1. drainPass(st) \in Acc /\ Sound(drainPass(st).tr.store)
  BY PassDrains DEF PassTo, Keeps
<1> QED BY <1>1 DEF nextPass

\* Store r is store s after the structs arrived, with those buffered.
Updated(s, structs, r) ==
  LET all == ToSet(s.pending) \cup ToSet(structs)
      is == Integrated(r) \cup StructIds(ToSet(r.pending))
      was == Integrated(s) \cup StructIds(all)
  IN  /\ Keeps(s, r) /\ r.clock = s.clock /\ r.pendingDeletes = s.pendingDeletes
      /\ Tombstones(r) = Tombstones(s)
      /\ is \subseteq was /\ (OneUnit(all) => is = was)
      /\ ToSet(r.pending) \subseteq all /\ r.pending \in Seq(Item)
      /\ ApartIds(r.pending) /\ Waits(r, r.pending)
      /\ Tells(s, all, r)

\* applyUpdate: what arrived is in the document or buffered, and nothing else is;
\* no buffered struct is a duplicate or ready.
THEOREM UpdateApplied ==
  ASSUME NEW tr \in Tr, Sound(tr.store), NEW structs \in Seq(Item),
         tr.store.pending \in Seq(Item)
  PROVE  LET r == applyUpdate(tr, structs)
         IN  r \in Tr /\ Updated(tr.store, structs, r.store)
<1> DEFINE s == tr.store
           all == s.pending \o structs
           pass(st, i) == IF st.progress THEN drainPass(st) ELSE st
           st0 == [tr |-> tr, rest |-> all, progress |-> TRUE]
           seq == [i \in 1 .. Len(all) + 1 |-> i]
           n == Len(all) + 1
           E(F) == F = [S \in SUBSET DOMAIN seq |->
                          IF S = {} THEN st0 ELSE pass(F[S \ {Max(S)}], seq[Max(S)])]
           A == {acc \in Acc : Sound(acc.tr.store)}
           g == [p \in A \X (1 .. n) |-> nextPass(p[1])]
           fold == CHOOSE F : E(F)
           done == fold[DOMAIN seq]
<1>1. applyUpdate(tr, structs) = [done.tr EXCEPT !.store.pending = done.rest]
  BY DEF applyUpdate, buffered, FoldLeft, MapThenFoldSet
<1>2. /\ all \in Seq(Item) /\ Len(all) \in Nat /\ n \in Nat /\ n = Len(all) + 1
      /\ DOMAIN seq = 1 .. n /\ ToSet(all) = ToSet(s.pending) \cup ToSet(structs)
  BY Concat
<1>3. \A st, i : pass(st, i) = nextPass(st)
  BY DEF nextPass
<1>e. \A F : E(F) <=> F = [S \in SUBSET DOMAIN seq |->
                     IF S = {} THEN st0 ELSE nextPass(F[S \ {Max(S)}])]
  BY <1>3
<1> HIDE DEF E, fold, pass, n, seq, done, all
<1>4. st0 \in A /\ PassesTo(tr, all, 0, st0)
  <2>1. Keeps(tr.store, tr.store) /\ Frame(tr.store, tr.store)
    BY KeepsItself DEF Frame
  <2>2. st0 \in Acc /\ st0.tr = tr /\ st0.rest = all /\ st0.progress
    BY <1>2 DEF Acc
  <2> HIDE DEF st0
  <2>3. Len(st0.rest) + 0 <= Len(all)
    BY <1>2, <2>2
  <2>4. Tells(tr.store, ToSet(all), st0.tr.store)
    BY <2>2 DEF Tells
  <2> QED BY <2>1, <2>2, <2>3, <2>4 DEF PassesTo
<1> HIDE DEF st0, s
<1>5. ASSUME NEW acc \in A, NEW k \in 1 .. n PROVE nextPass(acc) \in A
  BY PassSound
<1> HIDE DEF A
<1>6. g \in [A \X (1 .. n) -> A]
  BY <1>5
<1>7. \A a \in A, k \in 1 .. n : g[<<a, k>>] = nextPass(a)
  OBVIOUS
<1> HIDE DEF g
<1>8. \E F : E(F)
  <2>1. PICK F \in [SUBSET (1 .. n) -> A] : FoldsBy(n, st0, g, F)
    BY <1>2, <1>4, <1>6, FoldExists
  <2>2. \A S \in SUBSET (1 .. n) : S # {} => Max(S) \in 1 .. n /\ F[S \ {Max(S)}] \in A
    BY <1>2, <2>1, MaxIn
  <2>3. \A S \in SUBSET (1 .. n) :
          F[S] = IF S = {} THEN st0 ELSE nextPass(F[S \ {Max(S)}])
    BY <2>1, <2>2, <1>7 DEF FoldsBy
  <2>4. F = [S \in SUBSET DOMAIN seq |->
               IF S = {} THEN st0 ELSE nextPass(F[S \ {Max(S)}])]
    BY <2>1, <2>3, <1>2
  <2> QED BY <2>4, <1>e
<1>9. E(fold)
  BY <1>8 DEF fold
<1>10. FoldsIn(n, A, st0, g, fold)
  <2>1. \A S \in SUBSET (1 .. n) : S # {} => Max(S) \in 1 .. n
    BY <1>2, MaxIn
  <2>2. {} \in SUBSET (1 .. n)
    OBVIOUS
  <2>3. fold = [S \in SUBSET (1 .. n) |->
               IF S = {} THEN st0 ELSE nextPass(fold[S \ {Max(S)}])]
    BY <1>2, <1>9, <1>e
  <2> QED BY <2>1, <2>2, <2>3, <1>2, <1>4, <1>6, <1>7 DEF FoldsIn
<1>f. PICK h : Values(n, A, st0, g, h) /\ h[n] = fold[1 .. n]
  BY <1>10, FoldValues
<1>11. /\ h \in [0 .. n -> A] /\ h[0] = st0 /\ h[n] = fold[1 .. n]
       /\ \A k \in 0 .. n - 1 : h[k + 1] = g[<<h[k], k + 1>>]
  BY <1>f DEF Values
<1> DEFINE T == {k \in 0 .. n : PassesTo(tr, all, k, h[k])}
<1>12. 0 \in T
  BY <1>2, <1>4, <1>11
<1>13. \A k \in 0 .. n - 1 : k \in T => k + 1 \in T
  <2> TAKE k \in 0 .. n - 1
  <2> HAVE k \in T
  <2>1. k \in 0 .. n /\ k + 1 \in 1 .. n /\ k + 1 \in 0 .. n /\ h[k] \in A
    BY <1>2, <1>11
  <2>2. h[k + 1] = nextPass(h[k])
    <3>1. h[k + 1] = g[<<h[k], k + 1>>]
      BY <1>11
    <3> QED BY <2>1, <3>1, <1>7
  <2>3. k \in Nat
    BY <1>2
  <2>4. PassesTo(tr, all, k + 1, h[k + 1])
    BY <1>2, <2>2, <2>3, OnePass
  <2> QED BY <2>1, <2>4
<1> HIDE DEF T
<1>14. \A k \in 0 .. n : k \in T
  BY <1>2, <1>12, <1>13, UpTo
<1>15. PassesTo(tr, all, n, done)
  BY <1>2, <1>11, <1>14 DEF T, done
<1> DEFINE q == done.tr.store
           p == [q EXCEPT !.pending = done.rest]
           r == [done.tr EXCEPT !.store = p]
           is == Integrated(q) \cup StructIds(ToSet(done.rest))
           was == Integrated(s) \cup StructIds(ToSet(all))
<1>16. /\ done \in Acc /\ Keeps(s, q) /\ Frame(s, q) /\ Tombstones(q) = Tombstones(s)
       /\ is \subseteq was /\ (OneUnit(ToSet(all)) => is = was)
       /\ ToSet(done.rest) \subseteq ToSet(all)
       /\ done.progress => Len(done.rest) + n <= Len(all)
       /\ ~done.progress => ApartIds(done.rest) /\ Waits(q, done.rest)
       /\ Tells(s, ToSet(all), q)
  BY <1>15 DEF PassesTo, s
<1>17. done.tr \in Tr /\ done.rest \in Seq(Item) /\ q \in StoreType /\ Sound(q)
       /\ done.progress \in BOOLEAN /\ Len(done.rest) \in Nat
  BY <1>16 DEF Acc, Keeps, Sound, Runs
<1>18. ApartIds(done.rest) /\ Waits(q, done.rest)
  <2> DEFINE a == Len(done.rest)
             c == Len(all)
  <2>1. a \in Nat /\ c \in Nat /\ n = c + 1
    BY <1>2, <1>17
  <2>2. ~(a + n <= c)
    <3> HIDE DEF a, c
    <3> QED BY <2>1
  <2> QED BY <2>2, <1>16, <1>17
<1>19. applyUpdate(tr, structs) = r
  BY <1>1
<1>20. done.rest \in Seq(UpdateItem)
  <2>1. \A w \in Seq(Item) : w \in Seq(UpdateItem)
    BY DEF Item
  <2> QED BY <2>1, <1>17
<1>21. Keeps(q, p)
  <2>1. <<>> \in Seq(DeleteSpan)
    OBVIOUS
  <2> QED BY <2>1, <1>17, <1>20, BuffersKeep
<1>22. /\ p \in StoreType /\ p.pending = done.rest /\ p.clock = s.clock
       /\ p.pendingDeletes = s.pendingDeletes /\ p.heap = q.heap
  BY <1>16, <1>17, <1>20 DEF StoreType, Frame
<1>23. r \in Tr /\ r.store = p
  BY <1>17, <1>22 DEF Tr
<1> HIDE DEF r, p
<1>24. Keeps(s, p) /\ Integrated(p) = Integrated(q) /\ Tombstones(p) = Tombstones(s)
  BY <1>16, <1>21, <1>22, KeepsAgain DEF Integrated, Tombstones, Units
<1>25. Waits(p, done.rest)
  BY <1>17, <1>18, <1>21, <1>24, SameUnits DEF Keeps
<1>t. Tells(s, ToSet(s.pending) \cup ToSet(structs), p)
  <2>1. Integrated(p) = Integrated(q) /\ \A w : Agrees(q, w) => Agrees(p, w)
    BY <1>21, <1>24 DEF Keeps
  <2> QED BY <2>1, <1>2, <1>16 DEF Tells
<1>26. Updated(s, structs, p)
  BY <1>2, <1>16, <1>17, <1>18, <1>22, <1>24, <1>25, <1>t DEF Updated
<1> QED BY <1>19, <1>23, <1>26 DEF s

\* A function defined from the value before it exists.
LEMMA ValuesExist ==
  ASSUME NEW n \in Nat, NEW A, NEW base \in A, NEW g \in [A \X (1 .. n) -> A]
  PROVE  \E h : Values(n, A, base, g, h)
<1>1. PICK F \in [SUBSET (1 .. n) -> A] : FoldsBy(n, base, g, F)
  BY FoldExists
<1>2. FoldsIn(n, A, base, g, F)
  <2>1. {} \in SUBSET (1 .. n)
    OBVIOUS
  <2> QED BY <1>1, <2>1 DEF FoldsIn, FoldsBy
<1> QED BY <1>2, FoldValues

\* What the nodes of a list spend of an index, the first i of them together.
Spent(s, l, v) ==
  /\ v \in [0 .. Len(l) -> Nat] /\ v[0] = 0
  /\ \A i \in 1 .. Len(l) : v[i] = v[i - 1] + spends(s, l[i])

\* What the leading nodes of a list spend of an index is a number that grows with
\* them.
LEMMA SpentIs ==
  ASSUME NEW s, NEW l \in Seq(Id), \A x \in ToSet(l) : spends(s, x) \in Nat,
         NEW v, v = CHOOSE f : f = [i \in 0 .. Len(l) |->
                                      IF i = 0 THEN 0 ELSE f[i - 1] + spends(s, l[i])]
  PROVE  Spent(s, l, v)
<1> DEFINE n == Len(l)
           w == [i \in 1 .. n |-> spends(s, l[i])]
           g == [p \in Nat \X (1 .. n) |-> p[1] + w[p[2]]]
<1>1. n \in Nat /\ w \in [1 .. n -> Nat]
  <2>1. n \in Nat /\ \A i \in 1 .. n : l[i] \in ToSet(l)
    BY DEF ToSet
  <2> QED BY <2>1
<1>2. g \in [Nat \X (1 .. n) -> Nat] /\ \A a \in Nat, k \in 1 .. n : g[<<a, k>>] = a + w[k]
  <2> HIDE DEF w, n
  <2> QED BY <1>1
<1>3. \A i \in 1 .. n : w[i] = spends(s, l[i])
  OBVIOUS
<1> HIDE DEF g, w
<1>4. PICK h : Values(n, Nat, 0, g, h)
  BY <1>1, <1>2, ValuesExist
<1>5. /\ h \in [0 .. n -> Nat] /\ h[0] = 0
      /\ \A k \in 0 .. n - 1 : h[k + 1] = g[<<h[k], k + 1>>]
  BY <1>4 DEF Values
<1>6. \A i \in 1 .. n : h[i] = h[i - 1] + spends(s, l[i])
  <2> TAKE i \in 1 .. n
  <2>1. i - 1 \in 0 .. n - 1 /\ (i - 1) + 1 = i /\ i - 1 \in 0 .. n
    BY <1>1
  <2>2. h[i] = g[<<h[i - 1], i>>]
    BY <1>5, <2>1
  <2>3. h[i - 1] \in Nat
    BY <1>5, <2>1
  <2> QED BY <1>2, <1>3, <2>2, <2>3
<1>7. \A f : (f \in [0 .. n -> Nat] /\ f[0] = 0 /\ \A i \in 1 .. n : f[i] = f[i - 1] + spends(s, l[i]))
         => f = [i \in 0 .. n |-> IF i = 0 THEN 0 ELSE f[i - 1] + spends(s, l[i])]
  <2> TAKE f
  <2> HAVE /\ f \in [0 .. n -> Nat] /\ f[0] = 0
           /\ \A i \in 1 .. n : f[i] = f[i - 1] + spends(s, l[i])
  <2>1. \A i \in 0 .. n : i # 0 => i \in 1 .. n
    BY <1>1
  <2> HIDE DEF n
  <2>2. \A i \in 0 .. n : f[i] = IF i = 0 THEN 0 ELSE f[i - 1] + spends(s, l[i])
    BY <2>1
  <2> QED BY <2>2
<1>8. v = [i \in 0 .. n |-> IF i = 0 THEN 0 ELSE v[i - 1] + spends(s, l[i])]
  <2>1. \E f : f = [i \in 0 .. n |-> IF i = 0 THEN 0 ELSE f[i - 1] + spends(s, l[i])]
    BY <1>5, <1>6, <1>7
  <2> QED BY <2>1
<1> HIDE DEF n
<1>9. \A i \in 0 .. n : v[i] = IF i = 0 THEN 0 ELSE v[i - 1] + spends(s, l[i])
  BY <1>8
<1> DEFINE T == {i \in 0 .. n : v[i] = h[i]}
<1>10. 0 \in T
  <2>1. 0 \in 0 .. n
    BY <1>1
  <2>2. v[0] = 0
    BY <1>9, <2>1
  <2> QED BY <1>5, <2>1, <2>2
<1>11. \A k \in 0 .. n - 1 : k \in T => k + 1 \in T
  <2> TAKE k \in 0 .. n - 1
  <2> HAVE k \in T
  <2>1. k + 1 \in 0 .. n /\ k + 1 \in 1 .. n /\ k + 1 # 0 /\ (k + 1) - 1 = k
    BY <1>1
  <2>2. v[k + 1] = v[k] + spends(s, l[k + 1])
    BY <1>9, <2>1
  <2>3. h[k + 1] = h[k] + spends(s, l[k + 1])
    BY <1>6, <2>1
  <2> QED BY <2>1, <2>2, <2>3
<1> HIDE DEF T
<1>12. \A i \in 0 .. n : i \in T
  BY <1>1, <1>10, <1>11, UpTo
<1>13. \A i \in 0 .. n : v[i] = h[i]
  BY <1>12 DEF T
<1>14. v = h
  <2>1. v = [i \in 0 .. n |-> v[i]]
    BY <1>8
  <2>2. h = [i \in 0 .. n |-> h[i]]
    BY <1>5
  <2> QED BY <1>13, <2>1, <2>2
<1> QED BY <1>5, <1>6, <1>14 DEF Spent, n

\* Where an index lies: a node of the list and the node after it, and how far
\* into the first.
Found(s, t, p) ==
  /\ p.left # Nil => p.left \in DOMAIN s.heap /\ s.heap[p.left].parent = t
  /\ p.right = rightOf(s, t, p.left)
  /\ p.offset # 0 => p.left # Nil /\ p.offset \in 1 .. s.heap[p.left].len - 1

\* What has been spent there is the index, unless the list shows less.
Spends(s, l, index, p) ==
  \E v : \E n \in 0 .. Len(l) :
    /\ Spent(s, l, v) /\ p.left = NodeAt(l, n)
    /\ index <= v[Len(l)] =>
         \/ p.offset = 0 /\ v[n] = index
         \/ p.offset # 0 /\ n # 0 /\ v[n - 1] + p.offset = index /\ ~s.heap[l[n]].deleted

\* findPos passes a prefix of the list, and lands inside the last node it passed
\* or right after it.
LEMMA FindPos ==
  ASSUME NEW s, Sound(s), NEW t \in Root, NEW index \in Nat
  PROVE  /\ Found(s, t, findPos(s, t, index))
         /\ Spends(s, Chain(s, t), index, findPos(s, t, index))
<1> DEFINE l == Chain(s, t)
           m == Len(l)
           v == CHOOSE f : f = [i \in 0 .. Len(l) |->
                                  IF i = 0 THEN 0 ELSE f[i - 1] + spends(s, l[i])]
           passed == {i \in DOMAIN l : v[i] = 0 \/ v[i - 1] < index}
           n == Cardinality(passed)
           p == [left |-> IF n = 0 THEN Nil ELSE l[n],
                 right |-> IF n = Len(l) THEN Nil ELSE l[n + 1],
                 offset |-> IF n # 0 /\ v[n] > index THEN index - v[n - 1] ELSE 0]
<1>1. findPos(s, t, index) = p
  BY DEF findPos
<1>2. /\ s \in StoreType /\ ListOf(s, t, l) /\ l \in Seq(Id) /\ m \in Nat /\ DOMAIN l = 1 .. m
      /\ ToSet(l) = {x \in DOMAIN s.heap : s.heap[x].parent = t}
      /\ s.start[t] = IF l = <<>> THEN Nil ELSE l[1]
      /\ \A i \in 1 .. m : /\ l[i] \in DOMAIN s.heap /\ s.heap[l[i]].parent = t
                           /\ s.heap[l[i]].right = IF i = m THEN Nil ELSE l[i + 1]
  BY DEF Sound, Runs, Linked, ListOf, ToSet
<1>3. \A x \in DOMAIN s.heap : /\ s.heap[x].len \in Nat \ {0} /\ spends(s, x) \in Nat
                               /\ spends(s, x) <= s.heap[x].len /\ x # Nil
  <2> TAKE x \in DOMAIN s.heap
  <2>1. s.heap[x] \in Node /\ s.heap[x].len \in Nat \ {0} /\ Nil \notin DOMAIN s.heap
    BY <1>2, HeapFacts
  <2>2. spends(s, x) = IF s.heap[x].deleted THEN 0 ELSE s.heap[x].len
    BY DEF spends
  <2> QED BY <2>1, <2>2
<1>4. Spent(s, l, v)
  BY <1>2, <1>3, SpentIs
<1> HIDE DEF l, v
<1>5. /\ v \in [0 .. m -> Nat] /\ v[0] = 0
      /\ \A i \in 1 .. m : v[i] = v[i - 1] + spends(s, l[i])
  BY <1>4 DEF Spent
<1> HIDE DEF m
<1>6. \A i \in 1 .. m : i - 1 \in 0 .. m /\ v[i - 1] \in Nat /\ v[i] \in Nat /\ v[i - 1] <= v[i]
  <2> TAKE i \in 1 .. m
  <2>1. i - 1 \in 0 .. m /\ i \in 0 .. m
    BY <1>2
  <2>2. spends(s, l[i]) \in Nat
    BY <1>2, <1>3
  <2>3. v[i - 1] \in Nat /\ v[i] = v[i - 1] + spends(s, l[i])
    BY <1>5, <2>1
  <2> QED BY <2>1, <2>2, <2>3
<1>7. \A i \in 1 .. m : i - 1 >= 1 /\ i \in passed => i - 1 \in passed
  <2> TAKE i \in 1 .. m
  <2> HAVE i - 1 >= 1 /\ i \in passed
  <2>1. i - 1 \in 1 .. m
    BY <1>2
  <2>2. v[i - 1] <= v[i] /\ v[i - 1] \in Nat /\ v[i] \in Nat /\ v[i - 1 - 1] <= v[i - 1] /\ v[i - 1 - 1] \in Nat
    BY <1>6, <2>1
  <2>3. v[i] = 0 \/ v[i - 1] < index
    OBVIOUS
  <2>4. v[i - 1] = 0 \/ v[i - 1 - 1] < index
    BY <2>2, <2>3
  <2> QED BY <1>2, <2>1, <2>4
<1>8. passed \in SUBSET (1 .. m)
  BY <1>2
<1>9. n \in 0 .. m /\ passed = 1 .. n
  <2>1. CASE passed = {}
    <3>1. n = 0
      BY <2>1, FS_EmptySet
    <3>2. 1 .. 0 = {}
      OBVIOUS
    <3> HIDE DEF n, passed
    <3>3. passed = 1 .. n
      BY <2>1, <3>1, <3>2
    <3>4. n \in 0 .. m
      BY <3>1, <1>2
    <3> QED BY <3>3, <3>4
  <2>2. CASE passed # {}
    <3> DEFINE k == Max(passed)
    <3>1. k \in passed /\ \A j \in passed : k >= j
      <4> HIDE DEF passed
      <4> QED BY <1>2, <1>8, <2>2, MaxIn
    <3> HIDE DEF k, passed
    <3>2. k \in 1 .. m /\ k \in Nat
      BY <1>2, <1>8, <3>1
    <3> DEFINE T == {i \in 0 .. k - 1 : k - i \in passed}
    <3>3. 0 \in T
      BY <3>1, <3>2
    <3>4. \A i \in 0 .. (k - 1) - 1 : i \in T => i + 1 \in T
      <4> TAKE i \in 0 .. (k - 1) - 1
      <4> HAVE i \in T
      <4>1. k - i \in 1 .. m /\ (k - i) - 1 >= 1 /\ k - i \in passed
        BY <3>2, <1>2
      <4>2. (k - i) - 1 \in passed
        BY <4>1, <1>7
      <4>3. (k - i) - 1 = k - (i + 1) /\ i + 1 \in 0 .. k - 1
        BY <3>2
      <4> QED BY <4>2, <4>3
    <3> HIDE DEF T
    <3>5. \A i \in 0 .. k - 1 : i \in T
      <4>1. k - 1 \in Nat
        BY <3>2
      <4> QED BY <4>1, <3>3, <3>4, UpTo
    <3>6. \A j \in 1 .. k : j \in passed
      <4> TAKE j \in 1 .. k
      <4>1. k - j \in 0 .. k - 1 /\ k - (k - j) = j
        BY <3>2
      <4>2. k - j \in T
        BY <4>1, <3>5
      <4> QED BY <4>1, <4>2 DEF T
    <3>7. passed = 1 .. k
      <4>1. \A j \in passed : j \in 1 .. k
        BY <3>1, <3>2, <1>8
      <4> QED BY <4>1, <3>6
    <3>8. Cardinality(1 .. k) = k
      <4>1. 1 \in Int /\ k \in Int
        BY <3>2
      <4>2. Cardinality(1 .. k) = IF 1 > k THEN 0 ELSE k - 1 + 1
        BY <4>1, FS_Interval
      <4> QED BY <4>2, <3>2
    <3> QED BY <3>2, <3>7, <3>8, <1>2
  <2> QED BY <2>1, <2>2
<1>10. n # 0 => n \in 1 .. m /\ (v[n] = 0 \/ v[n - 1] < index)
  <2> HAVE n # 0
  <2>1. n \in 1 .. m /\ n \in passed
    <3> HIDE DEF passed, n
    <3> QED BY <1>9, <1>2
  <2>2. \A i \in passed : v[i] = 0 \/ v[i - 1] < index
    OBVIOUS
  <2> QED BY <2>1, <2>2
<1>11. n # m => ~(v[n + 1] = 0) /\ ~(v[n] < index)
  <2> SUFFICES ASSUME n # m PROVE ~(v[n + 1] = 0) /\ ~(v[n] < index)
    OBVIOUS
  <2>1. n + 1 \in 1 .. m /\ n + 1 \notin passed /\ (n + 1) - 1 = n
    <3> HIDE DEF passed, n
    <3> QED BY <1>2, <1>9
  <2>2. \A i \in 1 .. m : i \notin passed => ~(v[i] = 0 \/ v[i - 1] < index)
    BY <1>2
  <2>3. ~(v[n + 1] = 0 \/ v[(n + 1) - 1] < index)
    <3> HIDE DEF passed, n
    <3> QED BY <2>1, <2>2
  <2> HIDE DEF passed, n
  <2> QED BY <2>1, <2>3
<1> HIDE DEF n, passed
<1>12. p.offset = IF n # 0 /\ v[n] > index THEN index - v[n - 1] ELSE 0
  OBVIOUS
<1>13. Spends(s, l, index, p)
  <2>1. p.left = NodeAt(l, n)
    BY DEF NodeAt
  <2>2. n \in 0 .. m /\ m = Len(l) /\ v[n] \in Nat /\ m \in Nat
    BY <1>2, <1>5, <1>9 DEF m
  <2>3. ASSUME index <= v[m], p.offset = 0
        PROVE  v[n] = index
    <3>1. v[n] <= index
      <4>1. CASE n = 0
        BY <4>1, <1>5
      <4>2. CASE n # 0
        <5> SUFFICES ASSUME v[n] > index PROVE FALSE
          BY <2>2
        <5>1. index = v[n - 1]
          <6>1. index - v[n - 1] = 0
            BY <1>12, <2>3, <4>2
          <6>2. v[n - 1] \in Nat
            BY <1>6, <1>10, <4>2
          <6> QED BY <6>1, <6>2
        <5>2. v[n] = 0 \/ v[n - 1] < index
          BY <1>10, <4>2
        <5> QED BY <5>1, <5>2, <2>2
      <4> QED BY <4>1, <4>2
    <3>2. ~(v[n] < index)
      <4>1. CASE n = m
        BY <2>2, <2>3, <4>1
      <4>2. CASE n # m
        BY <1>11, <4>2
      <4> QED BY <4>1, <4>2
    <3> QED BY <3>1, <3>2, <2>2
  <2>4. ASSUME p.offset # 0
        PROVE  n # 0 /\ v[n - 1] + p.offset = index /\ ~s.heap[l[n]].deleted
    <3>1. n # 0 /\ v[n] > index /\ p.offset = index - v[n - 1]
      BY <1>12, <2>4
    <3>2. n \in 1 .. m /\ v[n - 1] \in Nat /\ v[n] = v[n - 1] + spends(s, l[n])
      BY <1>5, <1>6, <1>10, <3>1
    <3>3. v[n - 1] + p.offset = index
      BY <3>1, <3>2
    <3>4. v[n - 1] < index
      <4>1. v[n] # 0
        BY <2>2, <3>1
      <4> QED BY <4>1, <1>10, <3>1
    <3>5. spends(s, l[n]) # 0
      <4> SUFFICES ASSUME spends(s, l[n]) = 0 PROVE FALSE
        OBVIOUS
      <4>1. v[n] = v[n - 1]
        BY <3>2
      <4> QED BY <4>1, <3>1, <3>2, <3>4
    <3>6. ~s.heap[l[n]].deleted
      BY <3>5 DEF spends
    <3> QED BY <3>1, <3>3, <3>6
  <2> HIDE DEF p
  <2> QED BY <1>4, <2>1, <2>2, <2>3, <2>4 DEF Spends
<1>14. p.left = (IF n = 0 THEN Nil ELSE l[n]) /\ p.right = (IF n = m THEN Nil ELSE l[n + 1])
  <2>1. m = Len(l)
    BY DEF m
  <2> QED BY <2>1
<1>15. p.left # Nil => p.left \in DOMAIN s.heap /\ s.heap[p.left].parent = t
  BY <1>2, <1>9, <1>10, <1>14
<1>16. p.right = rightOf(s, t, p.left)
  <2>1. CASE n = 0
    <3>1. l = <<>> <=> m = 0
      <4>1. \A w \in Seq(Id) : w = <<>> <=> Len(w) = 0
        OBVIOUS
      <4> QED BY <4>1, <1>2 DEF m
    <3> QED BY <2>1, <3>1, <1>2, <1>14 DEF rightOf
  <2>2. CASE n # 0
    <3>1. p.left = l[n] /\ l[n] # Nil /\ n \in 1 .. m
      BY <2>2, <1>2, <1>3, <1>10, <1>14
    <3> HIDE DEF p
    <3> QED BY <3>1, <1>2, <1>14 DEF rightOf
  <2> QED BY <2>1, <2>2
<1>17. p.offset # 0 => p.left # Nil /\ p.offset \in 1 .. s.heap[p.left].len - 1
  <2> HAVE p.offset # 0
  <2>1. n # 0 /\ v[n] > index /\ p.offset = index - v[n - 1]
    OBVIOUS
  <2>2. n \in 1 .. m /\ v[n - 1] < index
    <3>1. ~(0 > index)
      OBVIOUS
    <3> QED BY <2>1, <3>1, <1>10
  <2>3. p.left = l[n] /\ l[n] \in DOMAIN s.heap
    BY <2>1, <2>2, <1>2, <1>14
  <2>4. v[n - 1] \in Nat /\ v[n] \in Nat /\ v[n] = v[n - 1] + spends(s, l[n])
    BY <2>2, <1>5, <1>6
  <2>5. spends(s, l[n]) \in Nat /\ s.heap[l[n]].len \in Nat /\ spends(s, l[n]) <= s.heap[l[n]].len
    BY <2>3, <1>3
  <2>6. index - v[n - 1] \in 1 .. s.heap[l[n]].len - 1
    BY <2>1, <2>2, <2>4, <2>5
  <2> QED BY <2>1, <2>3, <2>6, <1>3
<1> HIDE DEF p
<1> QED BY <1>1, <1>15, <1>16, <1>17, <1>13 DEF Found, l

\* A place between two nodes of a list of a store with a node of it cut.
Placed(s, t, p) ==
  /\ Cut(s, p.store)
  /\ p.left # Nil => p.left \in DOMAIN p.store.heap /\ p.store.heap[p.left].parent = t
  /\ p.right = rightOf(p.store, t, p.left)

\* position cuts the node its index lands in, if any.
LEMMA Positioned ==
  ASSUME NEW s, Sound(s), NEW t \in Root, NEW index \in Nat
  PROVE  Placed(s, t, position(s, t, index))
<1> DEFINE p == findPos(s, t, index)
           q == splitNode(s, p.left, p.offset)
           y == Add(p.left, p.offset)
<1>1. Found(s, t, p)
  BY FindPos
<1>2. position(s, t, index) = IF p.offset = 0
        THEN [store |-> s, left |-> p.left, right |-> p.right]
        ELSE [store |-> q, left |-> p.left, right |-> y]
  BY DEF position
<1> HIDE DEF p
<1>3. CASE p.offset = 0
  <2>1. Placed(s, t, [store |-> s, left |-> p.left, right |-> p.right])
    BY <1>1, <1>3, NotCut DEF Placed, Found
  <2> QED BY <1>2, <1>3, <2>1
<1>4. CASE p.offset # 0
  <2>1. p.left # Nil /\ p.left \in DOMAIN s.heap /\ p.offset \in 1 .. s.heap[p.left].len - 1
        /\ s.heap[p.left].parent = t
    BY <1>1, <1>4 DEF Found
  <2>2. Cut(s, q) /\ p.left \in DOMAIN q.heap /\ q.heap[p.left].right = y
    BY <2>1, SplitCuts
  <2>3. q.heap[p.left].parent = t
    BY <2>1, <2>2 DEF Cut
  <2> HIDE DEF q
  <2>4. Placed(s, t, [store |-> q, left |-> p.left, right |-> y])
    BY <2>1, <2>2, <2>3 DEF Placed, rightOf
  <2> QED BY <1>2, <1>4, <2>4
<1> QED BY <1>3, <1>4

\* Sets apart are counted one after the other.
LEMMA CountApart ==
  ASSUME NEW A, NEW B, IsFiniteSet(A), IsFiniteSet(B), A \cap B = {}
  PROVE  IsFiniteSet(A \cup B) /\ Cardinality(A \cup B) = Cardinality(A) + Cardinality(B)
<1>1. /\ IsFiniteSet(A \cup B)
      /\ Cardinality(A \cup B) = Cardinality(A) + Cardinality(B) - Cardinality(A \cap B)
  BY FS_Union
<1>2. Cardinality(A \cap B) = 0
  BY FS_EmptySet
<1>3. Cardinality(A) \in Nat /\ Cardinality(B) \in Nat
  BY FS_CardinalityType
<1> QED BY <1>1, <1>2, <1>3

\* A part of a set and how many there are of it.
Counts(S, n) == IsFiniteSet(S) /\ Cardinality(S) = n

\* What the first nodes of a list spend of an index is the number of units they
\* show.
LEMMA AheadShows ==
  ASSUME NEW s, Sound(s), NEW t \in Root, NEW v, Spent(s, Chain(s, t), v)
  PROVE  \A i \in 0 .. Len(Chain(s, t)) :
           Counts(Ahead(s, Chain(s, t), i) \cap Live(s, t), v[i])
<1> DEFINE l == Chain(s, t)
           m == Len(l)
           shown(i) == Ahead(s, l, i) \cap Live(s, t)
           T == {i \in 0 .. m : Counts(shown(i), v[i])}
<1>1. /\ Ahead(s, l, 0) = {}
      /\ \A i \in 1 .. m :
           /\ l[i] \in DOMAIN s.heap /\ s.heap[l[i]].parent = t
           /\ Ahead(s, l, i) = Ahead(s, l, i - 1) \cup Units(s, l[i])
           /\ Units(s, l[i]) \cap Ahead(s, l, i - 1) = {}
  BY ListOrder
<1>2. m \in Nat /\ s \in StoreType
  BY DEF Sound, Runs, Linked, ListOf
<1>3. /\ v \in [0 .. m -> Nat] /\ v[0] = 0
      /\ \A i \in 1 .. m : v[i] = v[i - 1] + spends(s, l[i])
  BY DEF Spent
<1> HIDE DEF l, m
<1>4. 0 \in T
  <2>1. shown(0) = {}
    BY <1>1
  <2>2. Counts({}, 0)
    BY FS_EmptySet DEF Counts
  <2>3. 0 \in 0 .. m
    BY <1>2
  <2> HIDE DEF shown
  <2>4. Counts(shown(0), v[0])
    BY <1>3, <2>1, <2>2
  <2> QED BY <2>3, <2>4
<1>5. \A k \in 0 .. m - 1 : k \in T => k + 1 \in T
  <2> TAKE k \in 0 .. m - 1
  <2> HAVE k \in T
  <2> DEFINE x == l[k + 1]
             new == Units(s, x) \cap Live(s, t)
  <2>1. k + 1 \in 1 .. m /\ k + 1 \in 0 .. m /\ (k + 1) - 1 = k
    BY <1>2
  <2>2. x \in DOMAIN s.heap /\ s.heap[x].parent = t
    BY <1>1, <2>1
  <2>3. x \in Id /\ s.heap[x].len \in Nat
    BY <1>2, <2>2, HeapFacts
  <2>4. shown(k + 1) = shown(k) \cup new /\ shown(k) \cap new = {}
    <3>1. Ahead(s, l, k + 1) = Ahead(s, l, k) \cup Units(s, x) /\ Units(s, x) \cap Ahead(s, l, k) = {}
      BY <1>1, <2>1
    <3> QED BY <3>1
  <2>5. v[k + 1] = v[k] + spends(s, x)
    BY <1>3, <2>1
  <2> HIDE DEF x
  <2>6. Counts(new, spends(s, x))
    <3>1. CASE s.heap[x].deleted
      <4>1. new = {}
        BY <2>2, <3>1, ShownUnits
      <4> QED BY <3>1, <4>1, FS_EmptySet DEF Counts, spends
    <3>2. CASE ~s.heap[x].deleted
      <4>1. new = Units(s, x)
        BY <2>2, <3>2, ShownUnits
      <4> QED BY <2>3, <3>2, <4>1, IdsCount DEF Counts, spends, Units
    <3> QED BY <3>1, <3>2
  <2>7. Counts(shown(k), v[k])
    OBVIOUS
  <2> HIDE DEF new, shown
  <2>8. Counts(shown(k + 1), v[k + 1])
    BY <2>4, <2>5, <2>6, <2>7, CountApart DEF Counts
  <2> QED BY <2>1, <2>8
<1> HIDE DEF T
<1>6. \A i \in 0 .. m : i \in T
  BY <1>2, <1>4, <1>5, UpTo
<1> QED BY <1>6 DEF T, l, m

\* As many units are shown up to the left neighbour as the index says, unless all
\* are fewer.
Reaches(s, t, index, p) ==
  index <= Cardinality(Live(s, t)) =>
    Counts(Till(p.store, t, p.left) \cap Live(s, t), index)

\* The place of an index has that many visible units before it.
LEMMA Reached ==
  ASSUME NEW s, Sound(s), NEW t \in Root, NEW index \in Nat
  PROVE  Reaches(s, t, index, position(s, t, index))
<1> DEFINE p == findPos(s, t, index)
           l == Chain(s, t)
           m == Len(l)
           x == p.left
           d == p.offset
           q == splitNode(s, x, d)
           L == Live(s, t)
<1>1. Found(s, t, p) /\ Spends(s, l, index, p)
  BY FindPos
<1>2. position(s, t, index) = IF d = 0
        THEN [store |-> s, left |-> x, right |-> p.right]
        ELSE [store |-> q, left |-> x, right |-> Add(x, d)]
  BY DEF position
<1> SUFFICES ASSUME index <= Cardinality(L)
             PROVE  Counts(Till(position(s, t, index).store, t, position(s, t, index).left) \cap L, index)
  BY DEF Reaches
<1> HIDE DEF p
<1>3. PICK v : \E i \in 0 .. m :
        /\ Spent(s, l, v) /\ x = NodeAt(l, i)
        /\ index <= v[m] =>
             \/ d = 0 /\ v[i] = index
             \/ d # 0 /\ i # 0 /\ v[i - 1] + d = index /\ ~s.heap[l[i]].deleted
  BY <1>1 DEF Spends
<1>4. PICK i \in 0 .. m :
        /\ Spent(s, l, v) /\ x = NodeAt(l, i)
        /\ index <= v[m] =>
             \/ d = 0 /\ v[i] = index
             \/ d # 0 /\ i # 0 /\ v[i - 1] + d = index /\ ~s.heap[l[i]].deleted
  BY <1>3
<1>5. \A j \in 0 .. m : Counts(Ahead(s, l, j) \cap L, v[j])
  BY <1>4, AheadShows
<1>6. m \in Nat /\ s \in StoreType
  BY DEF Sound, Runs, Linked, ListOf
<1>7. index <= v[m]
  <2>1. L \subseteq Ahead(s, l, m)
    BY LiveListed, ListOrder
  <2>2. m \in 0 .. m
    <3> HIDE DEF m
    <3> QED BY <1>6
  <2>3. Ahead(s, l, m) \cap L = L
    BY <2>1
  <2> QED BY <1>5, <2>2, <2>3 DEF Counts
<1>8. CASE d = 0
  <2>1. Till(s, t, x) = Ahead(s, l, i)
    BY <1>4, TillIs
  <2>2. Counts(Ahead(s, l, i) \cap L, index)
    BY <1>4, <1>5, <1>7, <1>8
  <2>3. position(s, t, index).store = s /\ position(s, t, index).left = x
    BY <1>2, <1>8
  <2> QED BY <2>1, <2>2, <2>3
<1>9. CASE d # 0
  <2>1. i # 0 /\ v[i - 1] + d = index /\ ~s.heap[l[i]].deleted /\ x = l[i]
    BY <1>4, <1>7, <1>9 DEF NodeAt
  <2>2. i \in 1 .. m /\ i - 1 \in 0 .. m
    <3>1. i \in 0 .. m
      OBVIOUS
    <3> HIDE DEF m
    <3> QED BY <1>6, <2>1, <3>1
  <2>3. /\ x \in DOMAIN s.heap /\ s.heap[x].parent = t /\ d \in 1 .. s.heap[x].len - 1
    <3>1. x # Nil
      BY <1>1, <1>9 DEF Found
    <3> QED BY <1>1, <1>9, <3>1 DEF Found
  <2>4. Cut(s, q) /\ q.heap[x].len = d
    BY <2>3, SplitCuts
  <2>5. Before(q, t) = Before(s, t)
    BY <2>4, SameOrder
  <2>6. d \in 1 .. s.heap[x].len /\ d \in Nat /\ x \in Id
    <3>1. x \in Id /\ s.heap[x].len \in Nat
      BY <1>6, <2>3, HeapFacts
    <3> QED BY <2>3, <3>1
  <2> HIDE DEF q
  <2>7. /\ i \in 1 .. Len(l) /\ x = l[i] /\ d \in Nat /\ 0 < d /\ d <= s.heap[x].len
        /\ q.heap[x].len = d
    BY <2>1, <2>2, <2>4, <2>6
  <2>8. /\ Till(q, t, x) = Ahead(s, l, i - 1) \cup Ids(x, d)
        /\ Ids(x, d) \subseteq Units(s, x) /\ Ids(x, d) \cap Ahead(s, l, i - 1) = {}
    <3> HIDE DEF x, d, m
    <3>1. Till(q, t, x) = Ahead(s, l, i - 1) \cup Ids(x, d)
      BY <2>7, <2>5, TillCut
    <3>2. Ids(x, d) \subseteq Units(s, x)
      BY <2>7, <2>5, TillCut
    <3>3. Ids(x, d) \cap Ahead(s, l, i - 1) = {}
      BY <2>7, <2>5, TillCut
    <3> QED BY <3>1, <3>2, <3>3
  <2>9. Ids(x, d) \subseteq L
    <3>1. Units(s, x) \cap L = Units(s, x)
      BY <2>1, <2>3, ShownUnits
    <3> QED BY <2>8, <3>1
  <2>10. Counts(Ids(x, d), d)
    BY <2>6, IdsCount DEF Counts
  <2> DEFINE old == Ahead(s, l, i - 1) \cap L
             new == Ids(x, d)
  <2>11. Till(q, t, x) \cap L = old \cup new /\ old \cap new = {}
    BY <2>8, <2>9
  <2>12. Counts(old, v[i - 1])
    BY <1>5, <2>2
  <2> HIDE DEF old, new
  <2>13. Counts(old \cup new, v[i - 1] + d)
    BY <2>10, <2>11, <2>12, CountApart DEF Counts, new
  <2>14. position(s, t, index).store = q /\ position(s, t, index).left = x
    BY <1>2, <1>9 DEF q
  <2>15. Counts(Till(q, t, x) \cap L, index)
    BY <2>1, <2>11, <2>13
  <2> QED BY <2>14, <2>15
<1> QED BY <1>8, <1>9

\* The number of units of a client, from the units there are.
LEMMA SizeIs ==
  ASSUME NEW s, Runs(s), NEW c \in Client, NEW n \in Nat,
         \A m \in Nat : newId(c, m) \in Integrated(s) <=> m < n
  PROVE  Size(s, c) = n
<1>1. Size(s, c) \in Nat
  BY Holds
<1>2. \A m \in Nat : m < Size(s, c) <=> m < n
  <2> TAKE m \in Nat
  <2>1. newId(c, m) \in Id /\ clientOf(newId(c, m)) = c /\ clockOf(newId(c, m)) = m
    BY DEF newId, Id, clientOf, clockOf
  <2> QED BY <2>1, Holds
<1>3. ~(n < Size(s, c)) /\ ~(Size(s, c) < n)
  BY <1>1, <1>2
<1> QED BY <1>1, <1>3

\* A store with its clock set.
LEMMA ClockKeeps ==
  ASSUME NEW s \in StoreType, Sound(s), NEW m \in Nat
  PROVE  LET r == [s EXCEPT !.clock = m]
         IN  /\ r \in StoreType /\ Sound(r) /\ Keeps(s, r)
             /\ r.client = s.client /\ r.clock = m /\ r.heap = s.heap
             /\ r.pending = s.pending /\ r.pendingDeletes = s.pendingDeletes
             /\ Integrated(r) = Integrated(s) /\ Tombstones(r) = Tombstones(s)
             /\ \A c \in Client : Size(r, c) = Size(s, c)
<1> DEFINE r == [s EXCEPT !.clock = m]
<1>1. /\ r \in StoreType /\ r.items = s.items /\ r.heap = s.heap /\ r.start = s.start
      /\ r.len = s.len /\ r.client = s.client /\ r.clock = m
      /\ r.pending = s.pending /\ r.pendingDeletes = s.pendingDeletes
  BY DEF StoreType
<1> HIDE DEF r
<1>2. Keeps(s, r)
  BY <1>1, SameLists
<1>3. \A x : Units(r, x) = Units(s, x)
  BY <1>1 DEF Units
<1>4. Integrated(r) = Integrated(s) /\ Tombstones(r) = Tombstones(s)
  BY <1>1, <1>3 DEF Integrated, Tombstones
<1>5. \A c \in Client : Size(r, c) = Size(s, c)
  BY <1>1 DEF Size
<1> QED BY <1>1, <1>2, <1>4, <1>5 DEF Keeps, r

\* One unit of an insertion, typed to the right of the last.
typeUnit(t, st) ==
  LET s == st.tr.store
      x == newId(s.client, s.clock)
      originLeft == IF st.left = Nil THEN Nil ELSE LastId(s, st.left)
      it == [newItem(originLeft, st.right, 1) EXCEPT
               !.left = st.left, !.right = st.right, !.parent = t]
  IN  [st EXCEPT !.tr = integrate([@ EXCEPT !.store.clock = (s.clock + 1) % ClockMod], x, it),
                 !.left = x]

\* Store r, with the units X of root type t more, is part of a greater world than
\* store s is.
Grows(s, r, X, t) ==
  \A w : IsWorld(w) /\ Agrees(s, w) /\ X \cap w.made = {} =>
           \E v : Extends(w, v, X, t) /\ Agrees(r, v)

\* Store r is store s with the units X put behind the units P of root type t.
Behind(s, r, t, P, X) ==
  Spliced(Before(s, t), Before(r, t), P, X) /\ Live(r, t) = Live(s, t) \cup X

\* And they end with node x.
BehindTo(s, r, t, P, X, x) == Behind(s, r, t, P, X) /\ Till(r, t, x) = P \cup X

\* A unit typed behind those typed before is one more of them.
LEMMA BehindMore ==
  ASSUME NEW s, NEW t \in Root, NEW P \in SUBSET Field(Before(s, t)), NEW X \in SUBSET Id,
         NEW q, Sound(q), NEW it, Typeable(q, t, it),
         NEW x \in Id, clockOf(x) = Size(q, clientOf(x)),
         X \cap Field(Before(s, t)) = {}, \A u \in X : clockOf(u) < clockOf(x),
         Behind(s, q, t, P, X), Till(q, t, it.left) = P \cup X
  PROVE  BehindTo(s, Integrate(q, x, it), t, P, X \cup {x}, x)
<1> DEFINE r == Integrate(q, x, it)
           B == Before(s, t)
           C == Before(q, t)
           D == Before(r, t)
<1>1. /\ Spliced(C, D, P \cup X, {x}) /\ Till(r, t, x) = (P \cup X) \cup {x}
      /\ Live(r, t) = Live(q, t) \cup {x}
  BY TypedSplices
<1>2. Spliced(B, C, P, X) /\ Live(q, t) = Live(s, t) \cup X
  BY DEF Behind
<1>3. \A u \in X : clockOf(u) <= clockOf(x) /\ ~(clockOf(x) <= clockOf(u))
  <2>1. \A u \in Id : clockOf(u) \in Nat
    BY IdFacts
  <2> QED BY <2>1
<1>4. Field(C) = Field(B) \cup X
  <2>1. \A u \in Id : Le(C, u, u) <=> Le(B, u, u) \/ u \in X
    <3> TAKE u \in Id
    <3>1. u \in OptId
      BY DEF OptId
    <3>2. u \in P => Le(B, u, u)
      BY DEF Field
    <3>3. clockOf(u) <= clockOf(u)
      BY IdFacts
    <3> QED BY <1>2, <3>1, <3>2, <3>3 DEF Spliced
  <2> QED BY <2>1 DEF Field
<1> HIDE DEF B, C, D, r
<1>5. Spliced(B, D, P, X \cup {x})
  <2>1. P \in SUBSET Field(B) /\ X \cap Field(B) = {}
    BY DEF B
  <2> QED BY <1>1, <1>2, <1>3, <1>4, <2>1, SplicedMore
<1>6. Till(r, t, x) = P \cup (X \cup {x})
  BY <1>1
<1> QED BY <1>1, <1>2, <1>5, <1>6 DEF BehindTo, Behind, B, D, r

\* The state of an insertion into root type t behind the units P, begun in store s,
\* after k units.
Typed(s, t, P, k, st) ==
  LET r == st.tr.store
      new == newId(s.client, s.clock)
  IN  /\ st \in [tr : Tr, left : OptId, right : OptId]
      /\ Keeps(s, r) /\ r.clock = s.clock + k
      /\ r.pending = s.pending /\ r.pendingDeletes = s.pendingDeletes
      /\ Integrated(r) = Integrated(s) \cup Ids(new, k)
      /\ Tombstones(r) = Tombstones(s)
      /\ st.left # Nil => st.left \in DOMAIN r.heap /\ r.heap[st.left].parent = t
      /\ st.right = rightOf(r, t, st.left)
      /\ st.right # Nil => st.right \in DOMAIN r.heap
      /\ Grows(s, r, Ids(new, k), t)
      /\ BehindTo(s, r, t, P, Ids(new, k), st.left)
      /\ \A i \in 1 .. k : /\ Add(new, i - 1) \in DOMAIN r.heap
                           /\ r.heap[Add(new, i - 1)].len = 1
                           /\ r.heap[Add(new, i - 1)].parent = t
      /\ st.tr.insertSet = [i \in 1 .. k |-> idSpan(Add(new, i - 1), 1)]
      /\ st.tr.deleteSet = <<>>

\* A store in which the clock is the number of the client's own units, and stays
\* one for n units more.
Typing(s, n) == Sound(s) /\ s.clock = Size(s, s.client) /\ s.clock + n < ClockMod

\* One unit more of a run.
LEMMA IdsMore ==
  ASSUME NEW x \in Id, NEW k \in Nat
  PROVE  Ids(x, k + 1) = Ids(x, k) \cup Ids(Add(x, k), 1)
<1>1. Add(x, k) = newId(clientOf(x), clockOf(x) + k) /\ x = newId(clientOf(x), clockOf(x))
  BY IdFacts DEF Add, newId, clientOf, clockOf, Id
<1>2. clientOf(x) \in Client /\ clockOf(x) \in Nat
  BY IdFacts
<1> DEFINE c == clientOf(x)
           a == clockOf(x)
<1>3. a \in Nat /\ a + k \in Nat /\ a + k + 1 \in Nat /\ a <= a + k /\ a + k <= a + k + 1
      /\ (a + k + 1) - a = k + 1 /\ (a + k) - a = k /\ (a + k + 1) - (a + k) = 1
  BY <1>2
<1>4. Ids(newId(c, a), (a + k + 1) - a)
        = Ids(newId(c, a), (a + k) - a) \cup Ids(newId(c, a + k), (a + k + 1) - (a + k))
  <2>1. c \in Client
    BY <1>2
  <2> DEFINE b == a + k
             e == a + k + 1
  <2>2. a \in Nat /\ b \in Nat /\ e \in Nat /\ a <= b /\ b <= e
    BY <1>3
  <2> HIDE DEF a, c, b, e
  <2>3. Ids(newId(c, a), e - a) = Ids(newId(c, a), b - a) \cup Ids(newId(c, b), e - b)
    BY <2>1, <2>2, IdsJoin
  <2> QED BY <2>3 DEF b, e
<1> QED BY <1>1, <1>3, <1>4

\* A sequence with one element more.
LEMMA AppendIs ==
  ASSUME NEW A, NEW s \in Seq(A), NEW e \in A, NEW n \in Nat, Len(s) = n,
         NEW f \in [1 .. n + 1 -> A],
         \A i \in 1 .. n : s[i] = f[i], f[n + 1] = e
  PROVE  Append(s, e) = f
<1> DEFINE r == Append(s, e)
<1>1. r \in Seq(A) /\ Len(r) = n + 1 /\ r[n + 1] = e /\ \A i \in 1 .. n : r[i] = s[i]
  OBVIOUS
<1> HIDE DEF r
<1>2. DOMAIN r = 1 .. n + 1 /\ r = [i \in DOMAIN r |-> r[i]]
  BY <1>1
<1>3. \A i \in 1 .. n + 1 : r[i] = f[i]
  <2> TAKE i \in 1 .. n + 1
  <2>1. i \in 1 .. n \/ i = n + 1
    OBVIOUS
  <2> QED BY <1>1, <2>1
<1> QED BY <1>2, <1>3 DEF r

\* A unit typed is one more unit typed.
LEMMA TypeOne ==
  ASSUME NEW s, NEW n \in Nat, Typing(s, n), NEW t \in Root, NEW P \in SUBSET Field(Before(s, t)),
         NEW k \in 0 .. n - 1, NEW st, Typed(s, t, P, k, st)
  PROVE  Typed(s, t, P, k + 1, typeUnit(t, st))
<1> DEFINE r == st.tr.store
           c == s.client
           k0 == s.clock
           new == newId(c, k0)
           x == newId(r.client, r.clock)
           ol == IF st.left = Nil THEN Nil ELSE LastId(r, st.left)
           it == [newItem(ol, st.right, 1) EXCEPT
                    !.left = st.left, !.right = st.right, !.parent = t]
           m == (r.clock + 1) % ClockMod
           q == [r EXCEPT !.clock = m]
           tq == [st.tr EXCEPT !.store.clock = m]
           p == Integrate(q, x, it)
           w == integrate(tq, x, it)
           spans == [i \in 1 .. k |-> idSpan(Add(new, i - 1), 1)]
<1>0. /\ st \in [tr : Tr, left : OptId, right : OptId]
      /\ Keeps(s, r) /\ r.clock = s.clock + k
      /\ r.pending = s.pending /\ r.pendingDeletes = s.pendingDeletes
      /\ Integrated(r) = Integrated(s) \cup Ids(new, k)
      /\ Tombstones(r) = Tombstones(s)
      /\ st.left # Nil => st.left \in DOMAIN r.heap /\ r.heap[st.left].parent = t
      /\ st.right = rightOf(r, t, st.left)
      /\ st.right # Nil => st.right \in DOMAIN r.heap
      /\ Grows(s, r, Ids(new, k), t)
      /\ BehindTo(s, r, t, P, Ids(new, k), st.left)
      /\ \A i \in 1 .. k : /\ Add(new, i - 1) \in DOMAIN r.heap
                           /\ r.heap[Add(new, i - 1)].len = 1
                           /\ r.heap[Add(new, i - 1)].parent = t
      /\ st.tr.insertSet = spans
      /\ st.tr.deleteSet = <<>>
  BY DEF Typed
<1>1. /\ s \in StoreType /\ Runs(s) /\ c \in Client /\ k0 \in Nat /\ k0 = Size(s, c)
      /\ k \in Nat /\ k0 + k + 1 < ClockMod /\ r.client = c
      /\ r \in StoreType /\ Sound(r) /\ Runs(r)
  <2>1. /\ s \in StoreType /\ Runs(s) /\ k0 = Size(s, c) /\ k0 + n < ClockMod
        /\ r.client = c /\ r \in StoreType /\ Sound(r) /\ Runs(r)
    BY <1>0 DEF Typing, Keeps, Sound, Runs
  <2>2. c \in Client /\ k0 \in Nat
    BY <2>1 DEF StoreType
  <2> HIDE DEF c, k0, r
  <2>3. k \in Nat /\ k0 + k + 1 < ClockMod
    BY <2>1, <2>2, ClockModAssumption
  <2> QED BY <2>1, <2>2, <2>3
<1>2. m = k0 + k + 1 /\ m \in Nat
  <2>1. \A a \in Nat, b \in Nat : a < b => a % b = a
    BY SMT
  <2>2. r.clock = k0 + k
    BY <1>0
  <2> HIDE DEF c, k0
  <2> QED BY <2>1, <2>2, <1>1, ClockModAssumption
<1>3. /\ new \in Id /\ clientOf(new) = c /\ clockOf(new) = k0
      /\ x = newId(c, k0 + k) /\ x = Add(new, k)
      /\ x \in Id /\ clientOf(x) = c /\ clockOf(x) = k0 + k
  BY <1>0, <1>1 DEF newId, Id, clientOf, clockOf, Add
<1>4. Size(r, c) = k0 + k
  <2>1. \A a \in Nat : newId(c, a) \in Integrated(r) <=> a < k0 + k
    <3> TAKE a \in Nat
    <3>1. newId(c, a) \in Id /\ clientOf(newId(c, a)) = c /\ clockOf(newId(c, a)) = a
      BY <1>1 DEF newId, Id, clientOf, clockOf
    <3>2. newId(c, a) \in Integrated(s) <=> a < k0
      BY <1>1, <3>1, Holds
    <3>3. newId(c, a) \in Ids(new, k) <=> k0 <= a /\ a < k0 + k
      BY <1>1, <1>3, <3>1, IdsAre
    <3> HIDE DEF c, k0, new
    <3> QED BY <3>2, <3>3, <1>0, <1>1
  <2> HIDE DEF c, k0, new
  <2> QED BY <2>1, <1>1, SizeIs
<1> HIDE DEF c, k0, new, m, x
<1>5. /\ q \in StoreType /\ Sound(q) /\ Keeps(r, q) /\ q.client = c /\ q.clock = m
      /\ q.heap = r.heap /\ q.pending = s.pending /\ q.pendingDeletes = s.pendingDeletes
      /\ Integrated(q) = Integrated(r) /\ Tombstones(q) = Tombstones(s)
      /\ Size(q, c) = k0 + k
  <2>1. /\ r.pending = s.pending /\ r.pendingDeletes = s.pendingDeletes
        /\ Tombstones(r) = Tombstones(s)
    BY <1>0
  <2> QED BY <2>1, <1>1, <1>2, <1>4, ClockKeeps
<1>6. tq \in Tr /\ tq.store = q /\ tq.insertSet = spans /\ tq.deleteSet = <<>> /\ tq.changed \in SUBSET Root
  BY <1>0, <1>5 DEF Tr
<1> HIDE DEF q
<1>7. /\ st.left \in OptId /\ st.right \in OptId
      /\ \A z \in DOMAIN r.heap : z \in Integrated(r) /\ LastId(r, z) \in Integrated(r)
                                  /\ LastId(r, z) \in Id
  <2>1. ASSUME NEW z \in DOMAIN r.heap
        PROVE  z \in Integrated(r) /\ LastId(r, z) \in Integrated(r) /\ LastId(r, z) \in Id
    <3>1. z \in Id /\ r.heap[z].len \in Nat \ {0}
      BY <1>1, HeapFacts
    <3>2. 0 \in 0 .. r.heap[z].len - 1 /\ r.heap[z].len - 1 \in 0 .. r.heap[z].len - 1
          /\ r.heap[z].len - 1 \in Nat
      BY <3>1
    <3>3. Add(z, 0) = z
      BY <3>1 DEF Add, Id
    <3>4. LastId(r, z) \in Units(r, z) /\ z \in Units(r, z)
      BY <3>2, <3>3 DEF LastId, Units, Ids
    <3>5. LastId(r, z) \in Id
      BY <3>1, <3>2, IdFacts DEF LastId
    <3> QED BY <3>4, <3>5 DEF Integrated
  <2> QED BY <2>1, <1>0
<1>8. ol \in OptId /\ {ol, st.right} \subseteq Integrated(r) \cup {Nil}
  BY <1>0, <1>7 DEF OptId
<1> HIDE DEF ol
<1>9. /\ it \in Struct /\ it.left = st.left /\ it.parent = t /\ it.len = 1
      /\ it.originLeftId = ol /\ it.originRightId = st.right /\ t # Nil
  <2>1. t # Nil
    BY NilAssumption
  <2> DEFINE base == newItem(ol, st.right, 1)
  <2>2. base \in Struct /\ base.len = 1 /\ base.originLeftId = ol /\ base.originRightId = st.right
    BY <1>7, <1>8 DEF newItem, Struct, OptId
  <2>3. it = [base EXCEPT !.left = st.left, !.right = st.right, !.parent = t]
    OBVIOUS
  <2> HIDE DEF it, base
  <2> QED BY <2>1, <2>2, <2>3, <1>7 DEF Struct
<1>10. it.right = st.right
  <2>1. /\ newItem(ol, st.right, 1) \in Struct
    BY <1>7, <1>8 DEF newItem, Struct, OptId
  <2> QED BY <2>1 DEF Struct
<1> HIDE DEF it
<1>11. /\ Adds(q, p, t, x, 1)
       /\ p.heap[x].originLeftId = ol /\ p.heap[x].originRightId = st.right
  BY <1>0, <1>3, <1>5, <1>9, IntegrateKeeps
<1>12. Keeps(s, p)
  <2>1. 1 \in Nat
    OBVIOUS
  <2>2. Keeps(q, p)
    BY <2>1, <1>3, <1>5, <1>8, <1>11, AddsKeep
  <2> QED BY <2>2, <1>0, <1>5, KeepsAgain
<1>13. /\ p \in StoreType /\ p.clock = k0 + (k + 1) /\ p.pending = s.pending
       /\ p.pendingDeletes = s.pendingDeletes /\ Tombstones(p) = Tombstones(s)
       /\ DOMAIN p.heap = DOMAIN r.heap \cup {x}
       /\ p.heap[x].parent = t /\ p.heap[x].len = 1
       /\ \A z \in DOMAIN r.heap : p.heap[z].parent = r.heap[z].parent /\ p.heap[z].len = r.heap[z].len
  BY <1>1, <1>2, <1>5, <1>11 DEF Adds, Frame, Sound, Runs
<1>14. Integrated(p) = Integrated(s) \cup Ids(new, k + 1)
  <2>1. Ids(new, k + 1) = Ids(new, k) \cup Ids(x, 1)
    BY <1>1, <1>3, IdsMore
  <2> QED BY <2>1, <1>0, <1>5, <1>11 DEF Adds
<1> HIDE DEF p, tq
<1>15. w = [tq EXCEPT !.store = p, !.insertSet = Append(spans, idSpan(x, 1)),
                      !.changed = tq.changed \cup {t}]
  BY <1>6, <1>9 DEF integrate, p
<1>16. Append(spans, idSpan(x, 1)) = [i \in 1 .. k + 1 |-> idSpan(Add(new, i - 1), 1)]
  <2> DEFINE more == [i \in 1 .. k + 1 |-> idSpan(Add(new, i - 1), 1)]
  <2> DEFINE B == {idSpan(Add(new, i - 1), 1) : i \in 1 .. k + 1}
  <2>1. more[k + 1] = idSpan(x, 1) /\ idSpan(x, 1) \in B
    <3>1. k + 1 \in 1 .. k + 1 /\ (k + 1) - 1 = k
      BY <1>1
    <3> QED BY <3>1, <1>3
  <2>2. spans \in Seq(B) /\ Len(spans) = k /\ \A i \in 1 .. k : spans[i] = more[i]
    <3>1. \A i \in 1 .. k : i \in 1 .. k + 1
      BY <1>1
    <3>2. spans \in [1 .. k -> B]
      BY <3>1
    <3> HIDE DEF B
    <3> QED BY <1>1, <3>1, <3>2
  <2>3. more \in [1 .. k + 1 -> B]
    OBVIOUS
  <2> HIDE DEF more, B, spans
  <2>4. k \in Nat
    BY <1>1
  <2>5. Append(spans, idSpan(x, 1)) = more
    BY <2>1, <2>2, <2>3, <2>4, AppendIs
  <2> QED BY <2>5 DEF more
<1>17. Append(spans, idSpan(x, 1)) \in Seq(Span)
  <2>1. spans \in Seq(Span)
    BY <1>0 DEF Tr
  <2>2. idSpan(x, 1) \in Span
    BY <1>3 DEF idSpan, Span
  <2> HIDE DEF spans
  <2> QED BY <2>1, <2>2
<1> HIDE DEF spans, w
<1>18. /\ w \in Tr /\ w.store = p /\ w.insertSet = [i \in 1 .. k + 1 |-> idSpan(Add(new, i - 1), 1)]
       /\ w.deleteSet = <<>>
  BY <1>6, <1>13, <1>15, <1>16, <1>17 DEF Tr
<1>19. \A i \in 1 .. k + 1 : /\ Add(new, i - 1) \in DOMAIN p.heap
                             /\ p.heap[Add(new, i - 1)].len = 1
                             /\ p.heap[Add(new, i - 1)].parent = t
  <2> TAKE i \in 1 .. k + 1
  <2>1. CASE i = k + 1
    <3>1. i - 1 = k
      BY <1>1, <2>1
    <3> QED BY <3>1, <1>3, <1>13
  <2>2. CASE i \in 1 .. k
    BY <2>2, <1>0, <1>13
  <2> QED BY <2>1, <2>2, <1>1
<1> DEFINE v == [st EXCEPT !.tr = w, !.left = x]
<1>20. /\ v \in [tr : Tr, left : OptId, right : OptId] /\ v.tr = w /\ v.left = x
       /\ v.right = st.right
  BY <1>0, <1>3, <1>18 DEF OptId
<1>21. typeUnit(t, st) = v
  <2>1. [st.tr EXCEPT !.store.clock = (r.clock + 1) % ClockMod] = tq
    BY DEF tq, m
  <2> QED BY <2>1 DEF typeUnit, w, it, ol, x
<1> HIDE DEF v
<1>22. Typeable(q, t, it)
  <2>1. /\ it.right = st.right /\ st.right = rightOf(q, t, st.left)
        /\ ol = IF st.left = Nil THEN Nil ELSE LastId(q, st.left)
    <3>1. q.start = r.start /\ it.right = st.right
      BY <1>1, <1>10 DEF q, StoreType
    <3> QED BY <3>1, <1>0, <1>5 DEF rightOf, ol, LastId
  <2> QED BY <2>1, <1>0, <1>5, <1>9 DEF Typeable
<1>23. x \in DOMAIN p.heap /\ p.heap[x].right = st.right /\ rightOf(p, t, x) = st.right
  <2>1. p.heap[x].right = it.right
    BY <1>3, <1>5, <1>22, TypedBeside DEF p
  <2>2. x # Nil
    BY <1>3, IdNotNil
  <2> QED BY <2>1, <2>2, <1>10, <1>13 DEF rightOf
<1>24. Ids(new, k + 1) = Ids(new, k) \cup {x} /\ x \notin Ids(new, k)
  <2>1. Ids(new, k + 1) = Ids(new, k) \cup Ids(x, 1)
    BY <1>1, <1>3, IdsMore
  <2>2. 0 .. 1 - 1 = {0} /\ Add(x, 0) = x
    BY <1>3 DEF Add, Id
  <2>3. x \notin Ids(new, k)
    BY <1>1, <1>3, IdsAre
  <2> QED BY <2>1, <2>2, <2>3 DEF Ids
<1>25. Grows(s, p, Ids(new, k + 1), t)
  <2> SUFFICES ASSUME NEW u, IsWorld(u), Agrees(s, u), Ids(new, k + 1) \cap u.made = {}
               PROVE  \E z : Extends(u, z, Ids(new, k + 1), t) /\ Agrees(p, z)
    BY DEF Grows
  <2>1. Ids(new, k + 1) = Ids(new, k) \cup {x}
    BY <1>24
  <2>2. PICK y : Extends(u, y, Ids(new, k), t) /\ Agrees(r, y)
    BY <2>1, <1>0 DEF Grows
  <2>3. IsWorld(y) /\ x \notin y.made /\ Agrees(q, y)
    BY <1>24, <2>1, <2>2, <1>5 DEF Extends, Keeps
  <2>4. PICK z : Extends(y, z, {x}, t) /\ Agrees(p, z)
    BY <2>3, <1>3, <1>5, <1>22, TypedArranges DEF p
  <2>5. Extends(u, z, Ids(new, k + 1), t)
    BY <2>1, <2>2, <2>4, ExtendsAgain
  <2> QED BY <2>4, <2>5
<1>26. BehindTo(s, p, t, P, Ids(new, k + 1), x)
  <2> DEFINE X == Ids(new, k)
  <2>1. X \in SUBSET Id /\ \A u \in X : clientOf(u) = c /\ k0 <= clockOf(u) /\ clockOf(u) < k0 + k
    BY <1>1, <1>3, IdsAre
  <2>2. X \cap Field(Before(s, t)) = {}
    <3>1. Field(Before(s, t)) \subseteq Integrated(s)
      BY FieldIs DEF Integrated, Typing
    <3>2. \A u \in Id : clockOf(u) \in Nat
      BY IdFacts
    <3>3. ASSUME NEW u \in X PROVE u \notin Integrated(s)
      <4>1. clientOf(u) = c /\ k0 <= clockOf(u) /\ clockOf(u) \in Nat /\ u \in Id
        BY <2>1, <3>2
      <4>2. u \in Integrated(s) => clockOf(u) < k0
        BY <1>1, <4>1, Holds
      <4> QED BY <1>1, <4>1, <4>2
    <3> QED BY <3>1, <3>3
  <2>3. Behind(s, q, t, P, X) /\ Till(q, t, it.left) = P \cup X
    <3>1. Before(q, t) = Before(r, t)
      <4>1. q.start = r.start /\ q.heap = r.heap
        BY <1>1, <1>5 DEF q, StoreType
      <4>2. Chain(q, t) = Chain(r, t) /\ \A z : Units(q, z) = Units(r, z)
        BY <4>1 DEF Chain, From, Units
      <4> QED BY <4>2 DEF Before, OrderOf
    <3>2. Live(q, t) = Live(r, t)
      BY <1>5 DEF Live, Units
    <3>3. Till(q, t, st.left) = Till(r, t, st.left)
      BY <3>1, <1>5 DEF Till, LastId
    <3> QED BY <3>1, <3>2, <3>3, <1>0, <1>9 DEF Behind, BehindTo
  <2>4. \A u \in X : clockOf(u) < clockOf(x)
    BY <2>1, <1>3
  <2>5. P \in SUBSET Field(Before(s, t))
    OBVIOUS
  <2>6. x \in Id /\ clockOf(x) = Size(q, clientOf(x)) /\ Sound(q)
    BY <1>3, <1>5
  <2> HIDE DEF X
  <2> DEFINE after == Integrate(q, x, it)
  <2>7. BehindTo(s, after, t, P, X \cup {x}, x)
    BY <2>1, <2>2, <2>3, <2>4, <2>5, <2>6, <1>22, BehindMore
  <2>8. Till(after, t, x) = P \cup (X \cup {x})
    BY <2>7 DEF BehindTo
  <2> QED BY <2>7, <2>8, <1>24 DEF X, p, BehindTo
<1>27. Typed(s, t, P, k + 1, v)
  BY <1>0, <1>1, <1>12, <1>13, <1>14, <1>18, <1>19, <1>20, <1>23, <1>25, <1>26 DEF Typed, new, c, k0
<1> QED BY <1>21, <1>27

\* A fold whose state after the first k elements is in R[k]: its function exists.
LEMMA GradedFold ==
  ASSUME NEW n \in Nat, NEW U, NEW R \in [0 .. n -> SUBSET U], NEW base \in R[0],
         \A j \in 1 .. n : R[j - 1] \subseteq R[j],
         NEW g, \A j \in 1 .. n : \A a \in R[j - 1] : g[<<a, j>>] \in R[j]
  PROVE  \E F \in [SUBSET (1 .. n) -> R[n]] :
            /\ FoldsBy(n, base, g, F)
            /\ \A m \in 0 .. n : \A S \in SUBSET (1 .. m) : F[S] \in R[m]
<1> DEFINE e == [p \in R[n] \X (1 .. n) |-> IF p[1] \in R[p[2] - 1] THEN g[p] ELSE base]
           Up == {j \in 0 .. n : \A i \in 0 .. j : R[i] \subseteq R[j]}
<1>1. \A j \in 0 .. n : \A i \in 0 .. j : R[i] \subseteq R[j]
  <2>1. 0 \in Up
    OBVIOUS
  <2>2. \A j \in 0 .. n - 1 : j \in Up => j + 1 \in Up
    <3> TAKE j \in 0 .. n - 1
    <3> HAVE j \in Up
    <3>1. R[j] \subseteq R[j + 1]
      <4>1. j + 1 \in 1 .. n /\ (j + 1) - 1 = j
        OBVIOUS
      <4> QED BY <4>1
    <3>2. \A i \in 0 .. j + 1 : i \in 0 .. j \/ i = j + 1
      OBVIOUS
    <3>3. j + 1 \in 0 .. n
      OBVIOUS
    <3> QED BY <3>1, <3>2, <3>3
  <2> HIDE DEF Up
  <2>3. \A j \in 0 .. n : j \in Up
    BY <2>1, <2>2, UpTo
  <2> QED BY <2>3 DEF Up
<1>2. base \in R[n] /\ \A j \in 0 .. n : R[j] \subseteq R[n]
  BY <1>1
<1>3. /\ e \in [R[n] \X (1 .. n) -> R[n]]
      /\ \A j \in 1 .. n : \A a \in R[n] :
           e[<<a, j>>] = IF a \in R[j - 1] THEN g[<<a, j>>] ELSE base
  <2>1. \A j \in 1 .. n : \A a \in R[n] : a \in R[j - 1] => g[<<a, j>>] \in R[n]
    BY <1>2
  <2> QED BY <2>1, <1>2
<1> HIDE DEF e
<1>4. PICK F \in [SUBSET (1 .. n) -> R[n]] : FoldsBy(n, base, e, F)
  BY <1>2, <1>3, FoldExists
<1> DEFINE T == {m \in 0 .. n : \A S \in SUBSET (1 .. m) : F[S] \in R[m]}
<1>5. 0 \in T
  <2>1. \A S \in SUBSET (1 .. 0) : S = {}
    OBVIOUS
  <2>2. F[{}] = base
    <3>1. {} \in SUBSET (1 .. n)
      OBVIOUS
    <3> QED BY <3>1, <1>4 DEF FoldsBy
  <2>3. \A S \in SUBSET (1 .. 0) : F[S] \in R[0]
    BY <2>1, <2>2
  <2>4. 0 \in 0 .. n
    OBVIOUS
  <2> QED BY <2>3, <2>4
<1>6. \A m \in 0 .. n - 1 : m \in T => m + 1 \in T
  <2> TAKE m \in 0 .. n - 1
  <2> HAVE m \in T
  <2>1. m \in Nat /\ m + 1 \in 1 .. n /\ m + 1 \in 0 .. n /\ (m + 1) - 1 = m
    OBVIOUS
  <2>2. ASSUME NEW S \in SUBSET (1 .. m + 1) PROVE F[S] \in R[m + 1]
    <3>1. CASE m + 1 \notin S
      <4>1. S \in SUBSET (1 .. m)
        BY <3>1, <2>1
      <4> QED BY <4>1, <2>1
    <3>2. CASE m + 1 \in S
      <4>1. Max(S) = m + 1
        BY <2>1, <3>2, MaxIs
      <4>2. S \in SUBSET (1 .. n) /\ S \ {m + 1} \in SUBSET (1 .. m) /\ S # {}
        <5>1. \A i \in S : i \in 1 .. n
          BY <2>1
        <5>2. \A i \in S \ {m + 1} : i \in 1 .. m
          BY <2>1
        <5> QED BY <5>1, <5>2, <3>2
      <4>3. F[S \ {m + 1}] \in R[m]
        BY <4>2
      <4>4. F[S] = e[<<F[S \ {m + 1}], m + 1>>]
        BY <4>1, <4>2, <1>4 DEF FoldsBy
      <4>5. F[S \ {m + 1}] \in R[n]
        BY <4>3, <1>2
      <4> QED BY <4>3, <4>4, <4>5, <1>3, <2>1
    <3> QED BY <3>1, <3>2
  <2> QED BY <2>1, <2>2
<1> HIDE DEF T
<1>7. \A m \in 0 .. n : m \in T
  BY <1>5, <1>6, UpTo
<1>8. \A m \in 0 .. n : \A S \in SUBSET (1 .. m) : F[S] \in R[m]
  BY <1>7 DEF T
<1>9. FoldsBy(n, base, g, F)
  <2> SUFFICES ASSUME NEW S \in SUBSET (1 .. n), S # {}
               PROVE  F[S] = g[<<F[S \ {Max(S)}], Max(S)>>]
    BY <1>4 DEF FoldsBy
  <2> DEFINE k == Max(S)
  <2>0. k \in S /\ \A j \in S : k >= j
    BY MaxIn
  <2> HIDE DEF k
  <2>1. k \in 1 .. n /\ S \ {k} \in SUBSET (1 .. k - 1) /\ k - 1 \in 0 .. n
    BY <2>0
  <2>2. F[S] = e[<<F[S \ {k}], k>>]
    BY <1>4 DEF FoldsBy, k
  <2>3. F[S \ {k}] \in R[k - 1] /\ F[S \ {k}] \in R[n]
    BY <2>1, <1>2, <1>8
  <2> QED BY <2>1, <2>2, <2>3, <1>3 DEF k
<1> QED BY <1>8, <1>9

\* The neighbour at a place is a node.
LEMMA RightIn ==
  ASSUME NEW s, Sound(s), NEW t \in Root, NEW left,
         left # Nil => left \in DOMAIN s.heap /\ s.heap[left].parent = t,
         rightOf(s, t, left) # Nil
  PROVE  rightOf(s, t, left) \in DOMAIN s.heap
<1> DEFINE l == Chain(s, t)
           m == Len(l)
           right == rightOf(s, t, left)
<1>1. PICK i \in 0 .. m : right = IF i = m THEN Nil ELSE l[i + 1]
  BY Place
<1>2. ListOf(s, t, l)
  BY DEF Sound, Linked
<1>3. \A j \in 1 .. m : l[j] \in DOMAIN s.heap
  <2>1. \A j \in 1 .. m : l[j] \in ToSet(l)
    BY <1>2 DEF ListOf, ToSet
  <2> QED BY <2>1, <1>2 DEF ListOf
<1>4. i # m => i + 1 \in 1 .. m
  <2>1. m \in Nat
    BY <1>2 DEF ListOf
  <2> HIDE DEF m
  <2> QED BY <2>1
<1> HIDE DEF l, m, right
<1> QED BY <1>1, <1>3, <1>4 DEF right

\* What an insertion of n units makes of a transaction begun in store s.
Grown(s, n, r) ==
  LET new == newId(s.client, s.clock)
      q == r.store
  IN  /\ r \in Tr /\ Keeps(s, q)
      /\ q.clock = s.clock + n /\ q.clock < ClockMod
      /\ q.pending = s.pending /\ q.pendingDeletes = s.pendingDeletes
      /\ Integrated(q) = Integrated(s) \cup Ids(new, n)
      /\ Tombstones(q) = Tombstones(s)
      /\ \A i \in 1 .. n : Add(new, i - 1) \in DOMAIN q.heap /\ q.heap[Add(new, i - 1)].len = 1
      /\ \E t \in Root : /\ Grows(s, q, Ids(new, n), t)
                         /\ \A i \in 1 .. n : q.heap[Add(new, i - 1)].parent = t
      /\ r.insertSet = [i \in 1 .. n |-> idSpan(Add(new, i - 1), 1)]
      /\ r.deleteSet = <<>>

\* Store q is store s with n units of its own behind those units of root type t of
\* which index are shown.
GrownAt(s, t, index, n, q) ==
  /\ index <= s.len[t]
  /\ \E P : /\ First(Before(s, t), P)
            /\ index <= Cardinality(Live(s, t)) => Counts(P \cap Live(s, t), index)
            /\ Behind(s, q, t, P, Ids(newId(s.client, s.clock), n))

\* InsertIn types n units of the client's own, from its clock on, at the index it is
\* given, or is refused and changes nothing.
THEOREM InsertionTyped ==
  ASSUME NEW tr \in Tr, tr.insertSet = <<>>, tr.deleteSet = <<>>,
         NEW n \in Nat, n < ClockMod, Typing(tr.store, 0),
         NEW t \in Root, NEW index \in Nat
  PROVE  LET r == InsertIn(tr, t, index, n)
         IN  \/ refused(tr.store, t, index, n) /\ r = tr
             \/ Grown(tr.store, n, r) /\ GrownAt(tr.store, t, index, n, r.store)
<1> DEFINE s0 == tr.store
           pos == position(s0, t, index)
           s == pos.store
           st0 == [tr |-> [tr EXCEPT !.store = s], left |-> pos.left, right |-> pos.right]
           seq == [k \in 1 .. n |-> k]
           type(st, k) ==
             LET q == st.tr.store
                 x == newId(q.client, q.clock)
                 originLeft == IF st.left = Nil THEN Nil ELSE LastId(q, st.left)
                 it == [newItem(originLeft, st.right, 1) EXCEPT
                          !.left = st.left, !.right = st.right, !.parent = t]
             IN  [st EXCEPT !.tr = integrate([@ EXCEPT !.store.clock = (q.clock + 1) % ClockMod],
                                             x, it),
                            !.left = x]
           E(F) == F = [S \in SUBSET DOMAIN seq |->
                          IF S = {} THEN st0 ELSE type(F[S \ {Max(S)}], seq[Max(S)])]
           fold == CHOOSE F : E(F)
           done == fold[DOMAIN seq]
<1>1. InsertIn(tr, t, index, n) = IF refused(s0, t, index, n) THEN tr ELSE done.tr
  BY DEF InsertIn, FoldLeft, MapThenFoldSet
<1> SUFFICES ASSUME ~refused(s0, t, index, n)
             PROVE  Grown(s0, n, done.tr) /\ GrownAt(s0, t, index, n, done.tr.store)
  BY <1>1
<1>2. DOMAIN seq = 1 .. n /\ n \in Nat
  OBVIOUS
<1>3. \A st, k : type(st, k) = typeUnit(t, st)
  BY DEF typeUnit
<1> HIDE DEF type, st0, seq
<1>4. \A F : E(F) <=> F = [S \in SUBSET DOMAIN seq |->
                     IF S = {} THEN st0 ELSE typeUnit(t, F[S \ {Max(S)}])]
  BY <1>3
<1> HIDE DEF E, fold
<1> USE DEF st0
<1>5. Placed(s0, t, pos) /\ Sound(s0)
  BY Positioned DEF Typing
<1>6. Cut(s0, s) /\ Sound(s) /\ s \in StoreType /\ s.clock = s0.clock /\ s.client = s0.client
      /\ s.pending = s0.pending /\ s.pendingDeletes = s0.pendingDeletes /\ Runs(s) /\ Runs(s0)
      /\ Integrated(s) = Integrated(s0) /\ Tombstones(s) = Tombstones(s0)
      /\ s0 \in StoreType
  BY <1>5 DEF Placed, Cut, Frame, Sound, Runs
<1>7. s0.client \in Client /\ s0.clock \in Nat /\ s0.clock < ClockMod
  BY <1>6 DEF Typing, StoreType
<1>8. s0.clock + n < ClockMod
  <2> DEFINE a == s0.clock
             b == a + n
  <2>1. ~(b % ClockMod < a)
    BY DEF refused
  <2>2. a \in Nat /\ a < ClockMod /\ b \in Nat
    BY <1>7
  <2> SUFFICES ASSUME ~(b < ClockMod) PROVE FALSE
    OBVIOUS
  <2>3. b - ClockMod \in 0 .. ClockMod - 1 /\ b - ClockMod < a /\ b = 1 * ClockMod + (b - ClockMod)
    BY <2>2, ClockModAssumption
  <2>4. \A m \in Nat \ {0} : \A d \in 0 .. m - 1 : (m + d) % m = d
    BY SMT
  <2>5. b % ClockMod = b - ClockMod
    <3> DEFINE d == b - ClockMod
    <3>1. d \in 0 .. ClockMod - 1 /\ b = ClockMod + d
      BY <2>2, <2>3, ClockModAssumption
    <3>2. (ClockMod + d) % ClockMod = d
      <4> HIDE DEF d
      <4> QED BY <3>1, <2>4, ClockModAssumption
    <3> HIDE DEF d, b
    <3> QED BY <3>1, <3>2 DEF d
  <2> QED BY <2>1, <2>3, <2>5
<1>9. Typing(s, n)
  <2>1. Size(s, s.client) = s0.clock
    <3> DEFINE c == s0.client
    <3>1. \A m \in Nat : newId(c, m) \in Integrated(s) <=> m < s0.clock
      <4> TAKE m \in Nat
      <4>1. newId(c, m) \in Id /\ clientOf(newId(c, m)) = c /\ clockOf(newId(c, m)) = m
        BY <1>7 DEF newId, Id, clientOf, clockOf
      <4>2. newId(c, m) \in Integrated(s0) <=> m < Size(s0, c)
        BY <1>6, <4>1, Holds
      <4> QED BY <4>2, <1>6 DEF Typing
    <3> QED BY <3>1, <1>6, <1>7, SizeIs
  <2> QED BY <2>1, <1>6, <1>8 DEF Typing
<1> DEFINE P == Till(s, t, pos.left)
<1>10. P \in SUBSET Field(Before(s, t)) /\ First(Before(s, t), P)
  <2>1. pos.left # Nil => pos.left \in DOMAIN s.heap /\ s.heap[pos.left].parent = t
    BY <1>5 DEF Placed
  <2> HIDE DEF s, pos
  <2>2. First(Before(s, t), P)
    BY <2>1, <1>6, TillFirst
  <2> QED BY <2>2 DEF First
<1>11. Typed(s, t, P, 0, st0)
  <2> DEFINE tq == [tr EXCEPT !.store = s]
  <2>1. tq \in Tr /\ tq.store = s /\ tq.insertSet = <<>> /\ tq.deleteSet = <<>>
    BY <1>6 DEF Tr
  <2>2. \A z \in DOMAIN s.heap : z \in Id
    BY <1>6, HeapFacts
  <2>3. /\ pos.left # Nil => pos.left \in DOMAIN s.heap /\ s.heap[pos.left].parent = t
        /\ pos.right # Nil => pos.right \in DOMAIN s.heap
        /\ pos.left \in OptId /\ pos.right \in OptId
        /\ pos.right = rightOf(s, t, pos.left)
    <3>0. /\ pos.left # Nil => pos.left \in DOMAIN s.heap /\ s.heap[pos.left].parent = t
          /\ pos.right = rightOf(s, t, pos.left)
      BY <1>5 DEF Placed
    <3>1. pos.right # Nil => pos.right \in DOMAIN s.heap
      BY <3>0, <1>6, RightIn
    <3> HIDE DEF pos
    <3> QED BY <3>0, <3>1, <2>2 DEF OptId
  <2>4. Ids(newId(s.client, s.clock), 0) = {}
    <3>1. 0 .. 0 - 1 = {}
      OBVIOUS
    <3> QED BY <3>1 DEF Ids
  <2>5. Keeps(s, s) /\ s.clock = s.clock + 0
    BY <1>6, <1>7, KeepsItself
  <2>6. \A A : [i \in 1 .. 0 |-> A[i]] = <<>>
    OBVIOUS
  <2>7. [i \in 1 .. 0 |-> idSpan(Add(newId(s.client, s.clock), i - 1), 1)] = <<>>
    OBVIOUS
  <2>8. st0.tr = tq /\ st0.left = pos.left /\ st0.right = pos.right
    OBVIOUS
  <2>9. st0 \in [tr : Tr, left : OptId, right : OptId]
    BY <2>1, <2>3
  <2>10. 1 .. 0 = {}
    OBVIOUS
  <2>11. Grows(s, s, {}, t)
    <3>1. \A u : IsWorld(u) => Extends(u, u, {}, t)
      BY DEF Extends
    <3> QED BY <3>1 DEF Grows
  <2>12. BehindTo(s, s, t, P, {}, st0.left)
    <3> HIDE DEF s, pos
    <3>1. Spliced(Before(s, t), Before(s, t), P, {})
      BY DEF Spliced
    <3> QED BY <3>1 DEF Behind, BehindTo
  <2> HIDE DEF st0, tq, s, pos, P
  <2> QED BY <2>1, <2>3, <2>4, <2>5, <2>7, <2>8, <2>9, <2>10, <2>11, <2>12 DEF Typed
<1> DEFINE U == [tr : Tr, left : OptId, right : OptId]
           R == [k \in 0 .. n |-> {st \in U : \E i \in 0 .. k : Typed(s, t, P, i, st)}]
           g == [p \in U \X (1 .. n) |-> typeUnit(t, p[1])]
<1> HIDE DEF st0, s, P
<1>12. st0 \in R[0] /\ R \in [0 .. n -> SUBSET U]
  <2>1. st0 \in U
    BY <1>11 DEF Typed
  <2> QED BY <2>1, <1>11
<1>13. \A j \in 1 .. n : R[j - 1] \subseteq R[j]
  <2> TAKE j \in 1 .. n
  <2>1. j - 1 \in 0 .. n /\ j \in 0 .. n /\ \A i \in 0 .. j - 1 : i \in 0 .. j
    OBVIOUS
  <2> HIDE DEF U
  <2> QED BY <2>1
<1>14. \A j \in 1 .. n : \A a \in R[j - 1] : g[<<a, j>>] = typeUnit(t, a) /\ g[<<a, j>>] \in R[j]
  <2> TAKE j \in 1 .. n
  <2> TAKE a \in R[j - 1]
  <2>1. j - 1 \in 0 .. n /\ j \in 0 .. n
    OBVIOUS
  <2>2. PICK i \in 0 .. j - 1 : a \in U /\ Typed(s, t, P, i, a)
    BY <2>1
  <2>3. i \in 0 .. n - 1 /\ i + 1 \in 0 .. j
    OBVIOUS
  <2>4. Typed(s, t, P, i + 1, typeUnit(t, a))
    BY <2>2, <2>3, <1>9, <1>10, TypeOne
  <2>5. typeUnit(t, a) \in U
    BY <2>4 DEF Typed
  <2> HIDE DEF U
  <2>6. g[<<a, j>>] = typeUnit(t, a)
    BY <2>2
  <2> QED BY <2>1, <2>3, <2>4, <2>5, <2>6
<1> HIDE DEF R, g, U
<1>15. \E F : E(F)
  <2>1. PICK F \in [SUBSET (1 .. n) -> R[n]] :
            /\ FoldsBy(n, st0, g, F)
            /\ \A m \in 0 .. n : \A S \in SUBSET (1 .. m) : F[S] \in R[m]
    BY <1>2, <1>12, <1>13, <1>14, GradedFold
  <2>2. \A S \in SUBSET (1 .. n) : S # {} => F[S] = typeUnit(t, F[S \ {Max(S)}])
    <3> TAKE S \in SUBSET (1 .. n)
    <3> HAVE S # {}
    <3> DEFINE k == Max(S)
    <3>1. k \in S /\ \A i \in S : k >= i
      BY MaxIn
    <3> HIDE DEF k
    <3>2. k \in 1 .. n /\ S \ {k} \in SUBSET (1 .. k - 1) /\ k - 1 \in 0 .. n
      BY <3>1
    <3>3. F[S \ {k}] \in R[k - 1]
      BY <2>1, <3>2
    <3>4. F[S] = g[<<F[S \ {k}], k>>]
      BY <2>1 DEF FoldsBy, k
    <3> QED BY <3>2, <3>3, <3>4, <1>14 DEF k
  <2>3. {} \in SUBSET (1 .. n)
    OBVIOUS
  <2>4. F = [S \in SUBSET DOMAIN seq |-> IF S = {} THEN st0 ELSE typeUnit(t, F[S \ {Max(S)}])]
    BY <2>1, <2>2, <2>3, <1>2 DEF FoldsBy
  <2> QED BY <2>4, <1>4
<1>16. fold = [S \in SUBSET (1 .. n) |-> IF S = {} THEN st0 ELSE typeUnit(t, fold[S \ {Max(S)}])]
  <2>1. E(fold)
    BY <1>15 DEF fold
  <2> QED BY <2>1, <1>4, <1>2
<1> DEFINE T == {k \in 0 .. n : Typed(s, t, P, k, fold[1 .. k])}
<1>17. 0 \in T
  <2>1. 1 .. 0 = {} /\ {} \in SUBSET (1 .. n)
    OBVIOUS
  <2>2. fold[1 .. 0] = st0
    BY <2>1, <1>16
  <2> QED BY <2>2, <1>11
<1>18. \A k \in 0 .. n - 1 : k \in T => k + 1 \in T
  <2> TAKE k \in 0 .. n - 1
  <2> HAVE k \in T
  <2>1. k \in Nat /\ k + 1 \in 0 .. n /\ 1 .. k + 1 \in SUBSET (1 .. n)
    OBVIOUS
  <2>2. fold[1 .. k + 1] = typeUnit(t, fold[1 .. k])
    <3>1. Max(1 .. k + 1) = k + 1 /\ (1 .. k + 1) \ {k + 1} = 1 .. k /\ 1 .. k + 1 # {}
      BY <2>1, Prefix
    <3> QED BY <2>1, <3>1, <1>16
  <2>3. Typed(s, t, P, k + 1, typeUnit(t, fold[1 .. k]))
    BY <1>9, <1>10, TypeOne
  <2> QED BY <2>1, <2>2, <2>3
<1> HIDE DEF T
<1>19. Typed(s, t, P, n, done)
  <2>1. n \in T
    BY <1>17, <1>18, UpTo, SMTT(30)
  <2> QED BY <2>1, <1>2 DEF T
<1> HIDE DEF done
<1>20. Keeps(s0, s)
  BY <1>5, <1>6, CutsKeep
<1>21. Grows(s0, done.tr.store, Ids(newId(s.client, s.clock), n), t)
  <2>1. \A u : Agrees(s0, u) => Agrees(s, u)
    BY <1>6, <1>20 DEF Keeps
  <2> QED BY <2>1, <1>19 DEF Typed, Grows
<1>22. \E u \in Root : /\ Grows(s0, done.tr.store, Ids(newId(s0.client, s0.clock), n), u)
                       /\ \A i \in 1 .. n :
                            done.tr.store.heap[Add(newId(s0.client, s0.clock), i - 1)].parent = u
  BY <1>6, <1>19, <1>21 DEF Typed
<1>23. Keeps(s0, done.tr.store)
  BY <1>19, <1>20, KeepsAgain DEF Typed
<1>24. Grown(s0, n, done.tr)
  BY <1>6, <1>8, <1>19, <1>22, <1>23 DEF Typed, Grown
<1>25. GrownAt(s0, t, index, n, done.tr.store)
  <2>1. index <= s0.len[t]
    BY <1>6 DEF refused, StoreType
  <2>2. Before(s, t) = Before(s0, t) /\ Live(s, t) = Live(s0, t)
    <3>1. Cut(s0, s) /\ Sound(s0)
      BY <1>5, <1>6
    <3> QED BY <3>1, SameOrder DEF Cut
  <2>3. First(Before(s0, t), P)
    BY <1>10, <2>2
  <2>4. index <= Cardinality(Live(s0, t)) => Counts(P \cap Live(s0, t), index)
    <3>1. Reaches(s0, t, index, pos)
      BY <1>5, Reached
    <3> HIDE DEF pos
    <3> QED BY <3>1 DEF Reaches, P, s
  <2>5. Behind(s0, done.tr.store, t, P, Ids(newId(s0.client, s0.clock), n))
    <3>1. Behind(s, done.tr.store, t, P, Ids(newId(s.client, s.clock), n))
      BY <1>19 DEF Typed, BehindTo
    <3> QED BY <3>1, <2>2, <1>6 DEF Behind
  <2> QED BY <2>1, <2>3, <2>4, <2>5 DEF GrownAt
<1> QED BY <1>24, <1>25

\* The units of one span more.
LEMMA SpansMore ==
  ASSUME NEW A, NEW ds \in Seq(A), NEW d \in A
  PROVE  SpanIds(Append(ds, d)) = SpanIds(ds) \cup Ids(d.id, d.len)
<1> DEFINE n == Len(ds)
           es == Append(ds, d)
<1>1. /\ n \in Nat /\ DOMAIN ds = 1 .. n /\ DOMAIN es = 1 .. n + 1
      /\ es[n + 1] = d /\ \A i \in 1 .. n : es[i] = ds[i]
  OBVIOUS
<1>2. \A i \in 1 .. n + 1 : i \in 1 .. n \/ i = n + 1
  BY <1>1
<1>3. n + 1 \in 1 .. n + 1 /\ \A i \in 1 .. n : i \in 1 .. n + 1
  BY <1>1
<1> HIDE DEF es, n
<1>4. ASSUME NEW u
      PROVE  (\E i \in DOMAIN es : u \in Ids(es[i].id, es[i].len))
               <=> (\E i \in DOMAIN ds : u \in Ids(ds[i].id, ds[i].len)) \/ u \in Ids(d.id, d.len)
  BY <1>1, <1>2, <1>3
<1> QED BY <1>4 DEF SpanIds, es

\* The walk of a deletion begun in store s: what it recorded is hidden, and nothing
\* else is.
Erased(s, st) ==
  LET r == st.tr.store
  IN  /\ st \in [tr : Tr, remaining : Nat, cur : OptId]
      /\ Keeps(s, r) /\ Frame(s, r) /\ Integrated(r) = Integrated(s)
      /\ Tombstones(r) = Tombstones(s) \cup SpanIds(st.tr.deleteSet)
      /\ SpanIds(st.tr.deleteSet) \subseteq Integrated(s) \ Tombstones(s)
      /\ st.tr.insertSet = <<>>
      /\ st.cur # Nil => st.cur \in DOMAIN r.heap

\* One turn of the walk.
eraseNext(st) ==
  LET s == endSplit(st.tr.store, st.cur, st.remaining)
  IN  IF st.remaining = 0 \/ st.cur = Nil THEN st
      ELSE IF st.tr.store.heap[st.cur].deleted
        THEN [st EXCEPT !.cur = st.tr.store.heap[@].right]
      ELSE [tr |-> trDeleteNode([st.tr EXCEPT !.store = s], st.cur),
            remaining |-> st.remaining - s.heap[st.cur].len,
            cur |-> s.heap[st.cur].right]

\* The right neighbour of a node is a node.
LEMMA NextIn ==
  ASSUME NEW s, Sound(s), NEW x \in DOMAIN s.heap
  PROVE  s.heap[x].right \in DOMAIN s.heap \cup {Nil} /\ s.heap[x].right \in OptId
<1>1. s \in StoreType /\ x \in Id /\ s.heap[x].parent \in Root /\ x # Nil
      /\ \A z \in DOMAIN s.heap : z \in Id
  BY HeapFacts DEF Sound, Runs
<1>2. s.heap[x].right = rightOf(s, s.heap[x].parent, x)
  BY <1>1 DEF rightOf
<1>3. s.heap[x].right # Nil => s.heap[x].right \in DOMAIN s.heap
  BY <1>1, <1>2, RightIn
<1> QED BY <1>1, <1>3 DEF OptId

\* A turn of the walk of a deletion keeps what was said of the walk.
LEMMA EraseOne ==
  ASSUME NEW s, Sound(s), NEW st, Erased(s, st)
  PROVE  Erased(s, eraseNext(st))
<1> DEFINE r == st.tr.store
           x == st.cur
           n == st.remaining
           q == endSplit(r, x, n)
           tq == [st.tr EXCEPT !.store = q]
           w == trDeleteNode(tq, x)
           v == [tr |-> w, remaining |-> n - q.heap[x].len, cur |-> q.heap[x].right]
           ds == st.tr.deleteSet
<1>0. /\ st \in [tr : Tr, remaining : Nat, cur : OptId]
      /\ Keeps(s, r) /\ Frame(s, r) /\ Integrated(r) = Integrated(s)
      /\ Tombstones(r) = Tombstones(s) \cup SpanIds(ds)
      /\ SpanIds(ds) \subseteq Integrated(s) \ Tombstones(s)
      /\ st.tr.insertSet = <<>>
      /\ x # Nil => x \in DOMAIN r.heap
  BY DEF Erased
<1>1. Sound(r) /\ r \in StoreType
  BY <1>0 DEF Keeps, Sound, Runs
<1>2. CASE n = 0 \/ x = Nil
  <2>1. eraseNext(st) = st
    BY <1>2 DEF eraseNext
  <2> QED BY <2>1
<1>3. CASE n # 0 /\ x # Nil /\ r.heap[x].deleted
  <2> DEFINE u == [st EXCEPT !.cur = r.heap[x].right]
  <2>1. eraseNext(st) = u
    BY <1>3 DEF eraseNext
  <2>2. r.heap[x].right \in DOMAIN r.heap \cup {Nil} /\ r.heap[x].right \in OptId
    BY <1>0, <1>1, <1>3, NextIn
  <2>3. /\ u \in [tr : Tr, remaining : Nat, cur : OptId] /\ u.tr = st.tr
        /\ u.cur = r.heap[x].right
    BY <1>0, <2>2
  <2> HIDE DEF u
  <2>4. Erased(s, u)
    BY <1>0, <2>2, <2>3 DEF Erased
  <2> QED BY <2>1, <2>4
<1>4. CASE n # 0 /\ x # Nil /\ ~r.heap[x].deleted
  <2>0. eraseNext(st) = v
    BY <1>4 DEF eraseNext
  <2>1. n \in Nat \ {0} /\ x \in DOMAIN r.heap /\ r.heap[x].len \in Nat \ {0}
    BY <1>0, <1>1, <1>4, HeapFacts
  <2>2. Cut(r, q) /\ x \in DOMAIN q.heap /\ q.heap[x].len <= n /\ q.heap[x].len \in Nat \ {0}
    <3>1. CASE n < r.heap[x].len
      <4>1. n \in 1 .. r.heap[x].len - 1
        BY <2>1, <3>1
      <4>2. q = splitNode(r, x, n)
        BY <3>1 DEF endSplit
      <4>3. Cut(r, q) /\ x \in DOMAIN q.heap /\ q.heap[x].len = n
        BY <1>1, <2>1, <4>1, <4>2, SplitCuts
      <4> QED BY <2>1, <4>3
    <3>2. CASE ~(n < r.heap[x].len)
      <4>1. q = r
        BY <3>2 DEF endSplit
      <4> QED BY <1>1, <2>1, <3>2, <4>1, NotCut
    <3> QED BY <3>1, <3>2
  <2> HIDE DEF q
  <2>3. /\ Sound(q) /\ q \in StoreType /\ Frame(r, q) /\ Integrated(q) = Integrated(r)
        /\ Tombstones(q) = Tombstones(r)
    BY <2>2 DEF Cut, Sound, Runs
  <2>4. /\ tq \in Tr /\ tq.store = q /\ tq.insertSet = <<>> /\ tq.deleteSet = ds
        /\ ds \in Seq(Span)
    BY <1>0, <2>3 DEF Tr
  <2> HIDE DEF tq, ds
  <2>5. /\ w \in Tr /\ w.store = deleteNode(q, x) /\ w.insertSet = <<>>
        /\ w.deleteSet = IF q.heap[x].deleted THEN ds ELSE Append(ds, idSpan(x, q.heap[x].len))
    BY <2>2, <2>3, <2>4, TrDeletes
  <2>6. Hides(q, w.store, x)
    BY <2>2, <2>3, <2>5, DeleteKeeps
  <2> HIDE DEF w
  <2>7. /\ Keeps(s, w.store) /\ Frame(s, w.store) /\ Integrated(w.store) = Integrated(s)
        /\ Tombstones(w.store) = Tombstones(r) \cup Units(q, x)
        /\ DOMAIN w.store.heap = DOMAIN q.heap
    <3>1. Keeps(r, q)
      BY <1>1, <2>2, CutsKeep
    <3>2. Keeps(q, w.store)
      BY <2>2, <2>3, <2>6, HidesKeep
    <3>3. Keeps(s, w.store)
      BY <1>0, <3>1, <3>2, KeepsAgain
    <3>4. /\ Frame(q, w.store) /\ Integrated(w.store) = Integrated(q)
          /\ Tombstones(w.store) = Tombstones(q) \cup Units(q, x)
          /\ DOMAIN w.store.heap = DOMAIN q.heap
      BY <2>6 DEF Hides
    <3>5. Frame(s, w.store)
      BY <1>0, <2>3, <3>4 DEF Frame
    <3> QED BY <1>0, <2>3, <3>3, <3>4, <3>5
  <2>8. /\ Tombstones(w.store) = Tombstones(s) \cup SpanIds(w.deleteSet)
        /\ SpanIds(w.deleteSet) \subseteq Integrated(s) \ Tombstones(s)
    <3>1. Units(q, x) \subseteq Integrated(s)
      BY <1>0, <2>2, <2>3 DEF Integrated
    <3>2. CASE q.heap[x].deleted
      <4>1. Units(q, x) \subseteq Tombstones(q)
        BY <2>2, <3>2 DEF Tombstones
      <4> QED BY <1>0, <2>3, <2>5, <2>7, <3>2, <4>1 DEF ds
    <3>3. CASE ~q.heap[x].deleted
      <4>1. idSpan(x, q.heap[x].len) \in Span
        <5>1. x \in Id
          BY <2>2, <2>3, HeapFacts
        <5> QED BY <5>1, <2>2 DEF idSpan, Span
      <4>2. SpanIds(w.deleteSet) = SpanIds(ds) \cup Units(q, x)
        <5>1. idSpan(x, q.heap[x].len).id = x /\ idSpan(x, q.heap[x].len).len = q.heap[x].len
          BY DEF idSpan
        <5> QED BY <2>4, <2>5, <3>3, <4>1, <5>1, SpansMore DEF Units
      <4>3. Units(q, x) \cap Tombstones(q) = {}
        <5> SUFFICES ASSUME NEW y \in DOMAIN q.heap, q.heap[y].deleted, NEW u,
                            u \in Units(q, x), u \in Units(q, y)
                     PROVE  FALSE
          BY DEF Tombstones
        <5>1. x = y
          BY <2>2, <2>3, NodesApart DEF Sound
        <5> QED BY <3>3, <5>1
      <4>4. Tombstones(s) \subseteq Tombstones(q)
        BY <1>0, <2>3
      <4> QED BY <1>0, <2>7, <3>1, <4>2, <4>3, <4>4 DEF ds
    <3> QED BY <3>2, <3>3
  <2>9. q.heap[x].right \in DOMAIN q.heap \cup {Nil} /\ q.heap[x].right \in OptId
    BY <2>2, <2>3, NextIn
  <2>10. /\ v \in [tr : Tr, remaining : Nat, cur : OptId] /\ v.tr = w
         /\ v.cur = q.heap[x].right
    BY <2>1, <2>2, <2>5, <2>9
  <2> HIDE DEF v
  <2>11. Erased(s, v)
    BY <2>5, <2>7, <2>8, <2>9, <2>10 DEF Erased
  <2> QED BY <2>0, <2>11
<1> QED BY <1>2, <1>3, <1>4

\* More units that are shown taken out of what is shown.
LEMMA TakenMore ==
  ASSUME NEW L, NEW P, NEW Q, NEW X, P \subseteq Q, X \subseteq L, X \cap Q = {},
         NEW a \in Nat, NEW d \in Nat, Counts((Q \ P) \cap L, a), Counts(X, d)
  PROVE  /\ (L \ (Q \ P)) \ X = L \ ((Q \cup X) \ P)
         /\ Counts(((Q \cup X) \ P) \cap L, a + d)
<1>1. X \cap P = {}
  OBVIOUS
<1>2. (L \ (Q \ P)) \ X = L \ ((Q \cup X) \ P)
  BY <1>1
<1>3. ((Q \cup X) \ P) \cap L = ((Q \ P) \cap L) \cup X /\ ((Q \ P) \cap L) \cap X = {}
  BY <1>1
<1> DEFINE A == (Q \ P) \cap L
<1>4. Counts(A, a) /\ Counts(X, d) /\ A \cap X = {}
  BY <1>3
<1> HIDE DEF A
<1>5. Counts(A \cup X, a + d)
  BY <1>4, CountApart DEF Counts
<1> QED BY <1>2, <1>3, <1>5 DEF A

\* Store r is store s in which the units of root type t that are in Q and not in P
\* are hidden, which are d of those shown.
Swept(s, r, t, P, Q, d) ==
  /\ First(Before(s, t), Q) /\ P \subseteq Q
  /\ Before(r, t) = Before(s, t) /\ Live(r, t) = Live(s, t) \ (Q \ P)
  /\ Counts((Q \ P) \cap Live(s, t), d)

\* The list of t is as in s, and from its j-th node on shows what it shows there.
AsBehind(s, r, t, j) ==
  /\ Chain(r, t) = Chain(s, t)
  /\ \A k \in 1 .. Len(Chain(s, t)) :
       /\ r.heap[Chain(s, t)[k]].len = s.heap[Chain(s, t)[k]].len
       /\ k >= j => (r.heap[Chain(s, t)[k]].deleted <=> s.heap[Chain(s, t)[k]].deleted)

\* The walk of a deletion of length units from behind the i-th node of store s, after
\* k turns: it is at the node behind i + k nodes, and has swept those it passed, or
\* it has spent its length.
SweepAt(s, t, i, length, k, st) ==
  LET r == st.tr.store
      l == Chain(s, t)
      P == Ahead(s, l, i)
  IN  \E Q : /\ st.remaining <= length
             /\ Swept(s, r, t, P, Q, length - st.remaining)
             /\ st.remaining # 0 =>
                  /\ Q = Ahead(s, l, i + k) /\ AsBehind(s, r, t, i + k + 1)
                  /\ st.cur = IF i + k = Len(l) THEN Nil ELSE l[i + k + 1]

\* A turn of the walk takes it one node further.
LEMMA SweepOne ==
  ASSUME NEW s, Sound(s), NEW t \in Root, NEW i \in 0 .. Len(Chain(s, t)), NEW length \in Nat,
         NEW k \in 0 .. Len(Chain(s, t)) - i - 1, NEW st, Erased(s, st),
         SweepAt(s, t, i, length, k, st)
  PROVE  SweepAt(s, t, i, length, k + 1, eraseNext(st))
<1> DEFINE r == st.tr.store
           l == Chain(s, t)
           m == Len(l)
           j == i + k + 1
           x == l[j]
           n == st.remaining
           P == Ahead(s, l, i)
           L == Live(s, t)
           U == Units(s, x)
<1>0. /\ st \in [tr : Tr, remaining : Nat, cur : OptId] /\ n \in Nat
      /\ Sound(s) /\ Sound(r) /\ r \in StoreType /\ s \in StoreType
  BY DEF Erased, Keeps, Sound, Runs
<1>1. /\ m \in Nat /\ j \in 1 .. m /\ j \in 0 .. m /\ j - 1 = i + k /\ i + (k + 1) = j
      /\ i + k # m /\ i + k \in 0 .. m
  <2>1. m \in Nat /\ i \in 0 .. m /\ k \in 0 .. m - i - 1
    BY DEF Sound, Linked, ListOf
  <2> HIDE DEF m
  <2> QED BY <2>1
<1>2. PICK Q : /\ n <= length
               /\ Swept(s, r, t, P, Q, length - n)
               /\ n # 0 =>
                    /\ Q = Ahead(s, l, i + k) /\ AsBehind(s, r, t, j)
                    /\ st.cur = IF i + k = m THEN Nil ELSE x
  BY DEF SweepAt
<1>3. CASE n = 0
  <2>1. eraseNext(st) = st
    BY <1>3 DEF eraseNext
  <2> QED BY <2>1, <1>2, <1>3 DEF SweepAt
<1>4. CASE n # 0
  <2>1. /\ Q = Ahead(s, l, j - 1) /\ AsBehind(s, r, t, j) /\ st.cur = x /\ Chain(r, t) = l
        /\ n <= length
    BY <1>1, <1>2, <1>4 DEF AsBehind
  <2>2. /\ x \in DOMAIN s.heap /\ s.heap[x].parent = t
        /\ Ahead(s, l, j) = Q \cup U /\ U \cap Q = {}
    BY <1>0, <1>1, <2>1, ListOrder
  <2>3. First(Before(s, t), Ahead(s, l, j))
    BY <1>0, <1>1, AheadFirst
  <2>4. /\ x \in DOMAIN r.heap /\ x # Nil /\ x \in Id
        /\ r.heap[x].right = IF j = m THEN Nil ELSE l[j + 1]
    <3>1. ListOf(r, t, l) /\ l \in Seq(Id)
      BY <1>0, <2>1 DEF Sound, Linked, ListOf
    <3>2. l[j] \in ToSet(l) /\ j \in DOMAIN l
      BY <1>1, <3>1 DEF ToSet
    <3>3. x \in DOMAIN r.heap /\ r.heap[x].right = IF j = m THEN Nil ELSE l[j + 1]
      BY <3>1, <3>2 DEF ListOf
    <3> HIDE DEF x
    <3> QED BY <1>0, <3>3, HeapFacts
  <2>5. /\ r.heap[x].len = s.heap[x].len /\ (r.heap[x].deleted <=> s.heap[x].deleted)
        /\ \A z \in 1 .. m : r.heap[l[z]].len = s.heap[l[z]].len
    <3>1. j >= j
      BY <1>1
    <3> QED BY <1>1, <2>1, <3>1 DEF AsBehind
  <2>6. U \cap L = IF s.heap[x].deleted THEN {} ELSE U
    BY <2>2, ShownUnits
  <2>7. /\ P \subseteq Q /\ Before(r, t) = Before(s, t) /\ Live(r, t) = L \ (Q \ P)
        /\ Counts((Q \ P) \cap L, length - n)
    BY <1>2 DEF Swept
  <2>8. length - n \in Nat
    BY <1>0, <2>1
  <2>9. CASE r.heap[x].deleted
    <3> DEFINE u == [st EXCEPT !.cur = r.heap[x].right]
    <3>1. eraseNext(st) = u
      BY <1>4, <2>1, <2>4, <2>9 DEF eraseNext
    <3>2. u.tr = st.tr /\ u.remaining = n /\ u.cur = r.heap[x].right
      BY <1>0
    <3> HIDE DEF u
    <3>3. Swept(s, r, t, P, Q \cup U, length - n)
      <4>1. U \cap L = {}
        BY <2>5, <2>6, <2>9
      <4>2. L \ ((Q \cup U) \ P) = L \ (Q \ P) /\ ((Q \cup U) \ P) \cap L = (Q \ P) \cap L
        BY <4>1
      <4> HIDE DEF L, P, U
      <4> QED BY <2>2, <2>3, <2>7, <4>2 DEF Swept, L
    <3>4. AsBehind(s, r, t, j + 1)
      <4>1. \A z \in 1 .. m : z >= j + 1 => z >= j
        BY <1>1
      <4> QED BY <2>1, <4>1 DEF AsBehind
    <3> HIDE DEF j, x, m, n
    <3> QED BY <1>1, <2>1, <2>2, <2>4, <3>1, <3>2, <3>3, <3>4 DEF SweepAt, n, m, j
  <2>10. CASE ~r.heap[x].deleted
    <3> DEFINE q == endSplit(r, x, n)
               tq == [st.tr EXCEPT !.store = q]
               w == trDeleteNode(tq, x)
               X == Ids(x, q.heap[x].len)
    <3>1. eraseNext(st) = [tr |-> w, remaining |-> n - q.heap[x].len, cur |-> q.heap[x].right]
      BY <1>4, <2>1, <2>4, <2>10 DEF eraseNext
    <3>2. U \subseteq L
      BY <2>5, <2>6, <2>10
    <3>3. r.heap[x].len \in Nat \ {0}
      BY <1>0, <2>4, HeapFacts
    <3>4. n < r.heap[x].len =>
            /\ q = splitNode(r, x, n) /\ Cut(r, q) /\ x \in DOMAIN q.heap /\ q.heap[x].len = n
      <4> HAVE n < r.heap[x].len
      <4>1. n \in 1 .. r.heap[x].len - 1
        BY <1>0, <1>4, <3>3
      <4>2. q = splitNode(r, x, n)
        BY DEF endSplit
      <4> QED BY <1>0, <2>4, <4>1, <4>2, SplitCuts
    <3>5. ~(n < r.heap[x].len) => q = r /\ Cut(r, q)
      BY <1>0, NotCut DEF endSplit
    <3>6. Cut(r, q) /\ x \in DOMAIN q.heap /\ Sound(q) /\ q \in StoreType
      BY <3>4, <3>5, <2>4 DEF Cut, Sound, Runs
    <3> HIDE DEF q
    <3>7. tq \in Tr /\ tq.store = q
      BY <1>0, <3>6 DEF Tr
    <3>8. w.store = deleteNode(q, x) /\ Hides(q, w.store, x)
      <4> HIDE DEF x, tq
      <4>1. w.store = deleteNode(q, x)
        BY <3>6, <3>7, TrDeletes
      <4>2. Hides(q, deleteNode(q, x), x)
        BY <3>6, DeleteKeeps
      <4> QED BY <4>1, <4>2
    <3> HIDE DEF w, tq
    <3>9. /\ Before(w.store, t) = Before(s, t) /\ Live(w.store, t) = (L \ (Q \ P)) \ X
          /\ Chain(w.store, t) = Chain(q, t)
      <4>1. Before(q, t) = Before(r, t)
        BY <1>0, <3>6, SameOrder
      <4>2. Live(q, t) = Live(r, t)
        BY <3>6 DEF Cut
      <4>3. Before(w.store, t) = Before(q, t) /\ Chain(w.store, t) = Chain(q, t)
        BY <3>8 DEF Hides
      <4>4. Live(w.store, t) = Live(q, t) \ X
        BY <3>8 DEF Hides, Units
      <4> QED BY <4>1, <4>2, <4>3, <4>4, <2>7
    <3> DEFINE v == [tr |-> w, remaining |-> n - q.heap[x].len, cur |-> q.heap[x].right]
    <3>10. v.tr = w /\ v.remaining = n - q.heap[x].len /\ v.cur = q.heap[x].right
      OBVIOUS
    <3> HIDE DEF v
    <3>11. CASE n < r.heap[x].len
      <4>1. q.heap[x].len = n /\ q.heap[x].parent = t
        <5>1. r.heap[x].parent = t
          BY <1>0, <1>1, <2>1, ListOrder
        <5> QED BY <3>4, <3>6, <3>11, <2>4, <5>1 DEF Cut
      <4>2. \A z \in 1 .. m : Units(r, l[z]) = Units(s, l[z])
        BY <2>5 DEF Units
      <4>3. Ahead(r, l, j - 1) = Q
        <5>1. \A z \in 1 .. j - 1 : z \in 1 .. m
          BY <1>1
        <5> HIDE DEF l, m, j
        <5> QED BY <2>1, <4>2, <5>1 DEF Ahead
      <4>4. Before(q, t) = Before(r, t)
        BY <1>0, <3>6, SameOrder
      <4>5. n \in Nat /\ 0 < n /\ n <= r.heap[x].len
        BY <1>0, <1>4, <3>3, <3>11
      <4>6. j \in 1 .. Len(Chain(r, t)) /\ x = Chain(r, t)[j]
        BY <1>1, <2>1
      <4> HIDE DEF x, j
      <4>7. Till(q, t, x) = Ahead(r, Chain(r, t), j - 1) \cup Ids(x, n)
        BY <1>0, <4>1, <4>4, <4>5, <4>6, TillCut
      <4>8. Ids(x, n) \subseteq Units(r, x)
        BY <1>0, <4>1, <4>4, <4>5, <4>6, TillCut
      <4>9. X = Ids(x, n) /\ X \subseteq U /\ Till(q, t, x) = Q \cup X
        BY <2>1, <2>5, <4>1, <4>3, <4>7, <4>8 DEF Units
      <4>10. First(Before(s, t), Q \cup X)
        <5>1. First(Before(q, t), Till(q, t, x))
          BY <3>6, <4>1, TillFirst
        <5> QED BY <2>7, <4>4, <4>9, <5>1
      <4>11. Counts(X, n)
        BY <2>4, <4>5, <4>9, IdsCount DEF Counts
      <4> HIDE DEF X, L, P, U, n
      <4>12. X \subseteq L /\ X \cap Q = {} /\ n \in Nat
        BY <2>2, <3>2, <4>5, <4>9
      <4>13. /\ (L \ (Q \ P)) \ X = L \ ((Q \cup X) \ P)
             /\ Counts(((Q \cup X) \ P) \cap L, (length - n) + n)
        BY <2>7, <2>8, <4>11, <4>12, TakenMore
      <4>14. (length - n) + n = length - 0 /\ n - n = 0
        BY <4>5
      <4>15. Swept(s, w.store, t, P, Q \cup X, length - 0)
        BY <2>7, <3>9, <4>10, <4>13, <4>14 DEF Swept, L
      <4>16. v.remaining = 0 /\ 0 <= length
        BY <3>10, <4>1, <4>14
      <4> QED BY <3>1, <3>10, <4>15, <4>16 DEF SweepAt, v, P, n
    <3>12. CASE ~(n < r.heap[x].len)
      <4> DEFINE d == s.heap[x].len
      <4>1. q = r /\ q.heap[x].len = d /\ X = U
        BY <2>5, <3>5, <3>12 DEF Units
      <4>2. d \in Nat /\ d <= n /\ n - d \in Nat /\ n - d <= length
            /\ (length - n) + d = length - (n - d)
        <5>1. r.heap[x].len = d
          BY <2>5
        <5>2. d \in Nat /\ ~(n < d) /\ n \in Nat /\ n <= length
          BY <1>0, <2>1, <3>3, <3>12, <5>1
        <5> HIDE DEF d, n
        <5> QED BY <5>2
      <4>3. Counts(U, d)
        BY <2>4, <4>2, IdsCount DEF Counts, Units
      <4>4. /\ (L \ (Q \ P)) \ U = L \ ((Q \cup U) \ P)
            /\ Counts(((Q \cup U) \ P) \cap L, (length - n) + d)
        <5> HIDE DEF L, P, U, n, d
        <5> QED BY <2>2, <2>7, <2>8, <3>2, <4>2, <4>3, TakenMore
      <4>5. Swept(s, w.store, t, P, Q \cup U, length - (n - d))
        <5> HIDE DEF L, P, U, n, d, X
        <5> QED BY <2>2, <2>3, <2>7, <3>9, <4>1, <4>2, <4>4 DEF Swept, L
      <4>6. AsBehind(s, w.store, t, j + 1)
        <5>1. Chain(w.store, t) = l
          BY <2>1, <3>9, <4>1
        <5>2. ASSUME NEW z \in 1 .. m
              PROVE  /\ w.store.heap[l[z]].len = s.heap[l[z]].len
                     /\ z >= j + 1 => (w.store.heap[l[z]].deleted <=> s.heap[l[z]].deleted)
          <6>1. ListOf(r, t, l)
            BY <1>0, <2>1 DEF Sound, Linked
          <6>2. l[z] \in DOMAIN r.heap
            BY <1>0, <2>1, ListOrder
          <6>3. /\ w.store.heap[l[z]].len = r.heap[l[z]].len
                /\ w.store.heap[l[z]].deleted <=> r.heap[l[z]].deleted \/ l[z] = x
            BY <3>8, <4>1, <6>2 DEF Hides
          <6>4. z >= j + 1 => l[z] # x
            <7> HAVE z >= j + 1
            <7>1. z # j /\ z \in DOMAIN l /\ j \in DOMAIN l
              BY <1>1, <6>1 DEF ListOf
            <7> HIDE DEF l, j
            <7> QED BY <6>1, <7>1 DEF ListOf, IsInjective
          <6>5. z >= j + 1 => (r.heap[l[z]].deleted <=> s.heap[l[z]].deleted)
            <7> HAVE z >= j + 1
            <7>1. z >= j
              BY <1>1
            <7> QED BY <2>1, <7>1 DEF AsBehind
          <6> QED BY <2>5, <6>3, <6>4, <6>5
        <5> QED BY <5>1, <5>2 DEF AsBehind
      <4>7. v.remaining = n - d /\ v.cur = IF j = m THEN Nil ELSE l[j + 1]
        BY <2>4, <3>10, <4>1
      <4> HIDE DEF x, m, n, U, d
      <4>8. \E R : /\ v.remaining <= length
                   /\ Swept(s, w.store, t, P, R, length - v.remaining)
                   /\ v.remaining # 0 =>
                        /\ R = Ahead(s, l, j) /\ AsBehind(s, w.store, t, j + 1)
                        /\ v.cur = IF j = m THEN Nil ELSE l[j + 1]
        BY <2>2, <4>2, <4>5, <4>6, <4>7
      <4> HIDE DEF j
      <4>9. SweepAt(s, t, i, length, k + 1, v)
        BY <1>1, <3>10, <4>8 DEF SweepAt, m, l, P
      <4> QED BY <3>1, <4>9 DEF v, x, n
    <3> QED BY <3>11, <3>12
  <2> QED BY <2>9, <2>10
<1> QED BY <1>3, <1>4

\* A walk that has not taken a turn is where it began, and has swept nothing.
LEMMA WalkStarts ==
  ASSUME NEW s, Sound(s), NEW t \in Root, NEW i \in 0 .. Len(Chain(s, t)), NEW length \in Nat,
         NEW st, st.tr.store = s, st.remaining = length,
         st.cur = IF i = Len(Chain(s, t)) THEN Nil ELSE Chain(s, t)[i + 1]
  PROVE  SweepAt(s, t, i, length, 0, st)
<1> DEFINE P == Ahead(s, Chain(s, t), i)
<1>1. First(Before(s, t), P)
  BY AheadFirst
<1>2. Live(s, t) \ (P \ P) = Live(s, t) /\ (P \ P) \cap Live(s, t) = {}
  OBVIOUS
<1>3. Counts({}, 0)
  BY FS_EmptySet DEF Counts
<1>4. length - length = 0 /\ length <= length /\ i + 0 = i
  OBVIOUS
<1>5. AsBehind(s, s, t, i + 0 + 1)
  BY DEF AsBehind
<1> HIDE DEF P
<1>6. Swept(s, s, t, P, P, 0)
  BY <1>1, <1>2, <1>3 DEF Swept
<1> QED BY <1>4, <1>5, <1>6 DEF SweepAt, P

\* Store r is store s with the units of root type t behind P hidden of which length
\* are shown, or all of them when fewer are.
SweptTo(s, r, t, P, length) ==
  \E Q : \E d \in 0 .. length :
    Swept(s, r, t, P, Q, d) /\ (d = length \/ Live(s, t) \subseteq Q)

\* A walk that has taken a turn for every node behind its beginning has spent its
\* length or swept the rest of the list.
LEMMA WalkEnds ==
  ASSUME NEW s, Sound(s), NEW t \in Root, NEW i \in 0 .. Len(Chain(s, t)), NEW length \in Nat,
         NEW st, st.remaining \in Nat, SweepAt(s, t, i, length, Len(Chain(s, t)) - i, st)
  PROVE  SweptTo(s, st.tr.store, t, Ahead(s, Chain(s, t), i), length)
<1> DEFINE l == Chain(s, t)
           m == Len(l)
           n == st.remaining
           P == Ahead(s, l, i)
           r == st.tr.store
<1>1. PICK Q : /\ n <= length /\ Swept(s, r, t, P, Q, length - n)
               /\ n # 0 => Q = Ahead(s, l, i + (m - i))
  BY DEF SweepAt
<1>2. i + (m - i) = m
  <2>1. m \in Nat /\ i \in 0 .. m
    BY DEF Sound, Linked, ListOf
  <2> HIDE DEF m
  <2> QED BY <2>1
<1>3. length - n \in 0 .. length /\ (n = 0 => length - n = length)
  BY <1>1
<1>4. n # 0 => Live(s, t) \subseteq Q
  BY <1>1, <1>2, LiveListed, ListOrder
<1> HIDE DEF r, P, n
<1> QED BY <1>1, <1>3, <1>4 DEF SweptTo, r, P

\* Nodes left and right are neighbours in the list of t, of which n nodes are behind left.
Abreast(s, t, left, right, n) ==
  \E i \in 0 .. Len(Chain(s, t)) :
    /\ left = NodeAt(Chain(s, t), i)
    /\ right = IF i = Len(Chain(s, t)) THEN Nil ELSE Chain(s, t)[i + 1]
    /\ n = Len(Chain(s, t)) - i

\* So are a node and the one rightOf finds.
LEMMA PlaceIs ==
  ASSUME NEW s, Sound(s), NEW t \in Root, NEW left,
         left # Nil => left \in DOMAIN s.heap /\ s.heap[left].parent = t
  PROVE  Abreast(s, t, left, rightOf(s, t, left), Len(From(s, rightOf(s, t, left))))
<1>1. \E i \in 0 .. Len(Chain(s, t)) :
        /\ left = IF i = 0 THEN Nil ELSE Chain(s, t)[i]
        /\ rightOf(s, t, left) = IF i = Len(Chain(s, t)) THEN Nil ELSE Chain(s, t)[i + 1]
        /\ Len(From(s, rightOf(s, t, left))) = Len(Chain(s, t)) - i
  BY Place
<1> QED BY <1>1 DEF Abreast, NodeAt

\* What a deletion makes of a transaction begun in store s: the units it records
\* were there and shown, they are hidden, and nothing else has changed.
Shrunk(s, r) ==
  LET q == r.store
  IN  /\ r \in Tr /\ Keeps(s, q) /\ Frame(s, q)
      /\ Integrated(q) = Integrated(s)
      /\ Tombstones(q) = Tombstones(s) \cup SpanIds(r.deleteSet)
      /\ SpanIds(r.deleteSet) \subseteq Integrated(s) \ Tombstones(s)
      /\ r.insertSet = <<>>

\* Store q is store s with length units hidden behind those units of root type t of
\* which index are shown, or all that are there when they are fewer.
ShrunkAt(s, t, index, length, q) ==
  \E P : /\ First(Before(s, t), P)
         /\ index <= Cardinality(Live(s, t)) => Counts(P \cap Live(s, t), index)
         /\ SweptTo(s, q, t, P, length)

\* DeleteIn hides the units it records, and no others: those at the index it is given.
THEOREM DeletionRecorded ==
  ASSUME NEW tr \in Tr, tr.insertSet = <<>>, tr.deleteSet = <<>>, Sound(tr.store),
         NEW t \in Root, NEW index \in Nat, NEW length \in Nat
  PROVE  LET r == DeleteIn(tr, t, index, length)
         IN  Shrunk(tr.store, r) /\ ShrunkAt(tr.store, t, index, length, r.store)
<1> DEFINE s0 == tr.store
           pos == position(s0, t, index)
           s == pos.store
           ts == [tr EXCEPT !.store = s]
           st0 == [tr |-> ts, remaining |-> length, cur |-> pos.right]
           walk == From(s, pos.right)
           n == Len(walk)
           seq == [k \in 1 .. n |-> k]
           take(st, q) ==
             [tr |-> trDeleteNode([st.tr EXCEPT !.store = q], st.cur),
              remaining |-> st.remaining - q.heap[st.cur].len,
              cur |-> q.heap[st.cur].right]
           step(st, k) ==
             IF st.remaining = 0 \/ st.cur = Nil THEN st
             ELSE IF st.tr.store.heap[st.cur].deleted
               THEN [st EXCEPT !.cur = st.tr.store.heap[@].right]
             ELSE take(st, endSplit(st.tr.store, st.cur, st.remaining))
           E(F) == F = [S \in SUBSET DOMAIN seq |->
                          IF S = {} THEN st0 ELSE step(F[S \ {Max(S)}], seq[Max(S)])]
           A == {st \in [tr : Tr, remaining : Nat, cur : OptId] : Erased(s, st)}
           g == [p \in A \X (1 .. n) |-> eraseNext(p[1])]
           fold == CHOOSE F : E(F)
           done == fold[DOMAIN seq]
<1>1. DeleteIn(tr, t, index, length) = done.tr
  BY DEF DeleteIn, FoldLeft, MapThenFoldSet
<1>2. Placed(s0, t, pos)
  BY Positioned
<1>3. \A st, k : step(st, k) = eraseNext(st)
  BY DEF eraseNext
<1> HIDE DEF step, st0, seq
<1>4. \A F : E(F) <=> F = [S \in SUBSET DOMAIN seq |->
                     IF S = {} THEN st0 ELSE eraseNext(F[S \ {Max(S)}])]
  BY <1>3
<1> HIDE DEF E, fold
<1> USE DEF st0, seq
<1>5. Cut(s0, s) /\ Sound(s) /\ s \in StoreType /\ Frame(s0, s)
      /\ Integrated(s) = Integrated(s0) /\ Tombstones(s) = Tombstones(s0)
  BY <1>2 DEF Placed, Cut, Sound, Runs
<1>6. /\ pos.left # Nil => pos.left \in DOMAIN s.heap /\ s.heap[pos.left].parent = t
      /\ pos.right = rightOf(s, t, pos.left)
  BY <1>2 DEF Placed
<1> DEFINE l == Chain(s, t)
           m == Len(l)
<1>7. walk \in Seq(Id) /\ n \in Nat
  BY <1>5, <1>6, Place
<1>8. PICK i \in 0 .. m : /\ pos.left = NodeAt(l, i)
                          /\ pos.right = IF i = m THEN Nil ELSE l[i + 1]
                          /\ n = m - i
  <2> HIDE DEF s, pos
  <2>1. Abreast(s, t, pos.left, pos.right, n)
    BY <1>5, <1>6, PlaceIs
  <2> QED BY <2>1 DEF Abreast
<1> DEFINE W(k, st) == SweepAt(s, t, i, length, k, st)
           P == Ahead(s, l, i)
<1>9. /\ pos.right # Nil => pos.right \in DOMAIN s.heap
      /\ pos.right \in OptId
  <2>1. pos.right # Nil => pos.right \in DOMAIN s.heap
    BY <1>5, <1>6, RightIn
  <2>2. \A z \in DOMAIN s.heap : z \in Id
    BY <1>5, HeapFacts DEF Sound
  <2> HIDE DEF pos
  <2> QED BY <2>1, <2>2 DEF OptId
<1>10. P = Till(s, t, pos.left)
  <2> HIDE DEF s, pos
  <2> QED BY <1>5, <1>8, TillIs
<1> HIDE DEF walk, n, pos
<1>11. Erased(s, st0)
  <2>1. ts \in Tr /\ ts.store = s /\ ts.insertSet = <<>> /\ ts.deleteSet = <<>>
    BY <1>5 DEF Tr
  <2>2. SpanIds(<<>>) = {}
    BY DEF SpanIds
  <2>3. Keeps(s, s) /\ Frame(s, s)
    BY <1>5, KeepsItself DEF Frame
  <2> HIDE DEF ts, s
  <2>4. st0 \in [tr : Tr, remaining : Nat, cur : OptId] /\ st0.tr = ts /\ st0.cur = pos.right
    BY <2>1, <1>9
  <2> HIDE DEF st0
  <2> QED BY <2>1, <2>2, <2>3, <2>4, <1>9 DEF Erased
<1>12. W(0, st0)
  <2>1. ts.store = s /\ st0.tr = ts /\ st0.remaining = length /\ st0.cur = pos.right
    BY <1>5 DEF Tr
  <2> HIDE DEF st0, s, ts, pos
  <2> QED BY <2>1, <1>5, <1>8, WalkStarts
<1> HIDE DEF st0, s, W
<1>13. st0 \in A
  BY <1>11 DEF Erased
<1>14. \A a \in A : eraseNext(a) \in A
  <2> TAKE a \in A
  <2>1. Erased(s, eraseNext(a))
    BY <1>5, EraseOne
  <2> QED BY <2>1 DEF Erased
<1> HIDE DEF A
<1>15. g \in [A \X (1 .. n) -> A] /\ \A a \in A, k \in 1 .. n : g[<<a, k>>] = eraseNext(a)
  BY <1>14
<1>16. DOMAIN seq = 1 .. n
  OBVIOUS
<1> HIDE DEF g, seq
<1>17. \E F : E(F)
  <2>1. PICK F \in [SUBSET (1 .. n) -> A] : FoldsBy(n, st0, g, F)
    BY <1>7, <1>13, <1>15, FoldExists
  <2>2. \A S \in SUBSET (1 .. n) : S # {} => Max(S) \in 1 .. n /\ F[S \ {Max(S)}] \in A
    BY <1>7, <2>1, MaxIn
  <2>3. \A S \in SUBSET (1 .. n) :
          F[S] = IF S = {} THEN st0 ELSE eraseNext(F[S \ {Max(S)}])
    BY <2>1, <2>2, <1>15 DEF FoldsBy
  <2>4. F = [S \in SUBSET DOMAIN seq |-> IF S = {} THEN st0 ELSE eraseNext(F[S \ {Max(S)}])]
    BY <2>1, <2>3, <1>16
  <2> QED BY <2>4, <1>4
<1>18. fold = [S \in SUBSET (1 .. n) |-> IF S = {} THEN st0 ELSE eraseNext(fold[S \ {Max(S)}])]
  <2>1. E(fold)
    BY <1>17 DEF fold
  <2> QED BY <2>1, <1>4, <1>16
<1>19. FoldsIn(n, A, st0, g, fold)
  <2>1. \A S \in SUBSET (1 .. n) : S # {} => Max(S) \in 1 .. n
    BY <1>7, MaxIn
  <2>2. {} \in SUBSET (1 .. n)
    OBVIOUS
  <2> QED BY <2>1, <2>2, <1>7, <1>13, <1>15, <1>18 DEF FoldsIn
<1> DEFINE T == {k \in 0 .. n : fold[1 .. k] \in A /\ W(k, fold[1 .. k])}
<1>20. 0 \in T
  <2>1. 1 .. 0 = {} /\ {} \in SUBSET (1 .. n)
    OBVIOUS
  <2>2. fold[1 .. 0] = st0
    BY <2>1, <1>18
  <2> QED BY <2>2, <1>7, <1>12, <1>13
<1>21. \A k \in 0 .. n - 1 : k \in T => k + 1 \in T
  <2> TAKE k \in 0 .. n - 1
  <2> HAVE k \in T
  <2> DEFINE st == fold[1 .. k]
  <2>1. k \in Nat /\ k + 1 \in 0 .. n /\ 1 .. k + 1 \in SUBSET (1 .. n)
    BY <1>7
  <2>2. fold[1 .. k + 1] = eraseNext(st)
    <3>1. Max(1 .. k + 1) = k + 1 /\ (1 .. k + 1) \ {k + 1} = 1 .. k /\ 1 .. k + 1 # {}
      BY <2>1, Prefix
    <3> QED BY <2>1, <3>1, <1>18
  <2>3. st \in A /\ W(k, st)
    OBVIOUS
  <2>4. k \in 0 .. m - i - 1
    <3>1. k \in 0 .. n - 1
      OBVIOUS
    <3> QED BY <3>1, <1>8
  <2> HIDE DEF st
  <2>5. W(k + 1, eraseNext(st))
    <3>1. Erased(s, st) /\ SweepAt(s, t, i, length, k, st)
      BY <2>3 DEF A, W
    <3> HIDE DEF m
    <3>2. SweepAt(s, t, i, length, k + 1, eraseNext(st))
      BY <1>5, <2>4, <3>1, SweepOne DEF m, l
    <3> QED BY <3>2 DEF W
  <2> QED BY <1>14, <2>1, <2>2, <2>3, <2>5
<1> HIDE DEF T
<1>22. done \in A /\ W(n, done)
  <2>1. n \in T
    <3>1. \A k \in 0 .. n : k \in T
      BY <1>7, <1>20, <1>21, UpTo
    <3> QED BY <1>7, <3>1
  <2> QED BY <2>1, <1>16 DEF T
<1> HIDE DEF done
<1>23. Erased(s, done)
  BY <1>22 DEF A
<1>24. Keeps(s0, s)
  BY <1>5, CutsKeep
<1>25. ShrunkAt(s0, t, index, length, done.tr.store)
  <2>1. SweptTo(s, done.tr.store, t, P, length)
    <3>1. SweepAt(s, t, i, length, m - i, done) /\ done.remaining \in Nat
      BY <1>8, <1>22, <1>23 DEF W, Erased
    <3> HIDE DEF m
    <3> QED BY <3>1, <1>5, WalkEnds DEF m, l, P
  <2>2. Before(s, t) = Before(s0, t) /\ Live(s, t) = Live(s0, t)
    BY <1>5, SameOrder DEF Cut
  <2>3. First(Before(s0, t), P)
    BY <1>5, <1>8, <2>2, AheadFirst
  <2>4. index <= Cardinality(Live(s0, t)) => Counts(P \cap Live(s0, t), index)
    <3>1. Reaches(s0, t, index, pos)
      BY Reached DEF pos
    <3> HIDE DEF P, s0
    <3> QED BY <1>10, <3>1 DEF Reaches, s
  <2>5. SweptTo(s0, done.tr.store, t, P, length)
    BY <2>1, <2>2 DEF SweptTo, Swept
  <2> HIDE DEF P, s0
  <2> QED BY <2>3, <2>4, <2>5 DEF ShrunkAt
<1> HIDE DEF s0
<1> QED BY <1>1, <1>5, <1>23, <1>24, <1>25, KeepsAgain DEF Erased, Shrunk, Frame, s0

-----------------------------------------------------------------------------
\* ApplySyncUpdate: the structs are applied, then the delete spans, to the store
\* they left.
LEMMA SyncApplied ==
  ASSUME NEW tr \in Tr, Sound(tr.store),
         NEW structs \in Seq(Item), NEW spans \in Seq(NoWrap),
         tr.store.pending \in Seq(Item), tr.store.pendingDeletes \in Seq(NoWrap)
  PROVE  LET r == applySyncUpdate(tr, structs, spans)
         IN  /\ r \in Tr
             /\ \E s : Updated(tr.store, structs, s) /\ DeletesApplied(s, spans, r.store)
<1> DEFINE q == applyUpdate(tr, structs)
<1>1. q \in Tr /\ Updated(tr.store, structs, q.store)
  BY UpdateApplied
<1>2. applySyncUpdate(tr, structs, spans) = applyDeleteSpans(q, spans)
  BY DEF applySyncUpdate
<1> HIDE DEF q
<1>3. Sound(q.store) /\ q.store.pendingDeletes = tr.store.pendingDeletes
  BY <1>1 DEF Updated, Keeps
<1>4. /\ applyDeleteSpans(q, spans) \in Tr
      /\ DeletesApplied(q.store, spans, applyDeleteSpans(q, spans).store)
  BY <1>1, <1>3, DeletesLandThere
<1> QED BY <1>1, <1>2, <1>4
=============================================================================
