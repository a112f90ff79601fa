---------------------------- MODULE Store_proofs ----------------------------
(***************************************************************************)
(* What the operations of Store do to a store, for any documents, root     *)
(* types and lengths of nodes.                                             *)
(*                                                                         *)
(* Sound is the invariant of a store: a linked list for each root type,    *)
(* a gapless run list for each client, and every node in one of each.      *)
(* Each operation is shown to keep it, and to do to the units of the       *)
(* document what its name says and nothing else.                           *)
(*                                                                         *)
(* The place of a unit is a matter of all documents.  A World has all that *)
(* was ever inserted, with origins; Yata says of the order of one list     *)
(* that the origins of its units justify it.  Two such orders agree on the *)
(* units they share (OneArrangement), and Integrate keeps a list in such   *)
(* an order, whatever it has and has not received (IntegrateArranges).     *)
(*                                                                         *)
(* Recursive functions and folds are reasoned about by induction (UpTo):   *)
(* a set of numbers that holds 0 and with each number the next.  That a    *)
(* fold's function exists is FoldExists; it then has the value of its      *)
(* definition at every set of positions, the first k of them in turn.      *)
(***************************************************************************)
EXTENDS Store, Selection_proofs, FiniteSetTheorems

Id == Client \X Nat
OptId == Id \cup {Nil}

Node == [originLeftId : OptId, originRightId : OptId, left : OptId, right : OptId,
         parent : Root, len : Nat \ {0}, deleted : BOOLEAN]

Heap == UNION {[D -> Node] : D \in SUBSET Id}

UpdateItem == [id : Id, len : Nat \ {0}, originLeftId : OptId, originRightId : OptId,
               parentName : Root \cup {Nil}]
DeleteSpan == [client : Client, clock : Nat, length : Nat \ {0}]

StoreType ==
  [client : Client, clock : Nat, items : [Client -> Seq(Id)], heap : Heap,
   start : [Root -> OptId], len : [Root -> Int],
   pending : Seq(UpdateItem), pendingDeletes : Seq(DeleteSpan)]

\* The sequence l is the linked list of root type t.
ListOf(s, t, l) ==
  /\ l \in Seq(Id) /\ IsInjective(l)
  /\ ToSet(l) = {x \in DOMAIN s.heap : s.heap[x].parent = t}
  /\ s.start[t] = IF l = <<>> THEN Nil ELSE l[1]
  /\ \A i \in DOMAIN l :
       /\ s.heap[l[i]].left = IF i = 1 THEN Nil ELSE l[i - 1]
       /\ s.heap[l[i]].right = IF i = Len(l) THEN Nil ELSE l[i + 1]

\* The run list of client c holds its nodes, from clock 0 on and without a gap.
RunOf(s, c) ==
  LET run == s.items[c] IN
  /\ run \in Seq(Id)
  /\ ToSet(run) = {x \in DOMAIN s.heap : clientOf(x) = c}
  /\ \A i \in DOMAIN run :
       clockOf(run[i]) = IF i = 1 THEN 0
                         ELSE clockOf(run[i - 1]) + s.heap[run[i - 1]].len

Runs(s) == s \in StoreType /\ \A c \in Client : RunOf(s, c)

Linked(s) == \A t \in Root : ListOf(s, t, Chain(s, t))

\* The lists of a store agree with one another.
Sound(s) == Runs(s) /\ Linked(s)

\* What no operation on nodes touches.
Frame(s, r) == /\ r.client = s.client /\ r.clock = s.clock
               /\ r.pending = s.pending /\ r.pendingDeletes = s.pendingDeletes

\* The units a root type shows.
Live(s, t) ==
  UNION {Units(s, x) : x \in {y \in DOMAIN s.heap : s.heap[y].parent = t /\ ~s.heap[y].deleted}}

\* The units of a list in pairs, the first no later than the second.
OrderOf(s, l) ==
  {p \in Id \X Id :
     \E i, j \in DOMAIN l :
       /\ p[1] \in Units(s, l[i]) /\ p[2] \in Units(s, l[j])
       /\ i < j \/ (i = j /\ clockOf(p[1]) <= clockOf(p[2]))}

Before(s, t) == OrderOf(s, Chain(s, t))

\* The origins of every node are there.
Anchored(s) ==
  \A x \in DOMAIN s.heap :
    {s.heap[x].originLeftId, s.heap[x].originRightId} \subseteq Integrated(s) \cup {Nil}

-----------------------------------------------------------------------------
\* Orders of units, as sets of pairs, the first no later than the second.
Le(B, a, b) == <<a, b>> \in B
Field(B) == {a \in Id : Le(B, a, a)}

IsOrder(B) ==
  /\ \A a, b \in OptId : Le(B, a, b) => a \in Field(B) /\ b \in Field(B)
  /\ \A a, b \in Field(B) : Le(B, a, b) \/ Le(B, b, a)
  /\ \A a, b \in Field(B) : Le(B, a, b) /\ Le(B, b, a) => a = b
  /\ \A a, b, c \in Field(B) : Le(B, a, b) /\ Le(B, b, c) => Le(B, a, c)

\* Origin a lies before origin b; Nil, the head, before all others.
Lower(B, a, b) == a # b /\ (a = Nil \/ Le(B, a, b))

\* All that was ever inserted: the units, their origins and root types, and a
\* rank by which each unit comes after its origins and its author's last unit.
World ==
  [made : SUBSET Id, left : [Id -> OptId], right : [Id -> OptId],
   parent : [Id -> Root \cup {Nil}], rank : [Id -> Nat]]

IsWorld(w) ==
  /\ w \in World
  /\ \A u \in w.made :
       /\ \A o \in {w.left[u], w.right[u]} \ {Nil} :
            o \in w.made /\ w.rank[o] < w.rank[u] /\ w.parent[o] = w.parent[u]
       /\ clockOf(u) > 0 => Sub(u, 1) \in w.made /\ w.rank[Sub(u, 1)] < w.rank[u]

\* A unit lies between its origins.
Between(B, w) ==
  \A x \in Field(B) :
    /\ w.left[x] # Nil => w.left[x] # x /\ Le(B, w.left[x], x)
    /\ w.right[x] # Nil => w.right[x] # x /\ Le(B, x, w.right[x])

\* Why x may stand before y: it stands before y's left origin, its right origin
\* before y, y's left origin before its own, or its author has the smaller id.
Reason(B, w, x, y) ==
  \/ w.left[y] # Nil /\ Le(B, x, w.left[y])
  \/ w.right[x] # Nil /\ Le(B, w.right[x], y)
  \/ Lower(B, w.left[y], w.left[x])
  \/ w.left[x] = w.left[y] /\ clientOf(x) < clientOf(y)

\* Nothing stands before anything else without a reason.
Justified(B, w) ==
  \A x, y \in Field(B) : Le(B, x, y) /\ x # y => Reason(B, w, x, y)

\* The left origin of a right origin is no later than the unit's own.
NoCross(B, w) ==
  \A x \in Field(B) :
    w.right[x] # Nil =>
      w.left[w.right[x]] = w.left[x] \/ Lower(B, w.left[w.right[x]], w.left[x])

\* Unit x was inserted on one side of y: y is no later than its left origin, or
\* no earlier than its right one.
Apart(B, w, x, y) ==
  \/ w.left[x] # Nil /\ Le(B, y, w.left[x])
  \/ w.right[x] # Nil /\ Le(B, w.right[x], y)

\* Its author had all its own earlier units when it inserted x.
Own(B, w) ==
  \A x, y \in Field(B) :
    clientOf(x) = clientOf(y) /\ clockOf(y) < clockOf(x) => Apart(B, w, x, y)

\* B is an order of units of w as their origins justify it.
Yata(B, w) ==
  /\ IsOrder(B) /\ Field(B) \subseteq w.made
  /\ Between(B, w) /\ Justified(B, w) /\ NoCross(B, w) /\ Own(B, w)

\* The nodes of store s are units of w with the origins and the type they have
\* there; a node's units after its first were typed on behind one another.
Follows(s, w) ==
  \A z \in DOMAIN s.heap :
    /\ Units(s, z) \subseteq w.made
    /\ s.heap[z].originLeftId = w.left[z]
    /\ \A u \in Units(s, z) : /\ w.right[u] = s.heap[z].originRightId
                              /\ w.parent[u] = s.heap[z].parent
                              /\ u # z => w.left[u] = Sub(u, 1)

\* A store arranged as its units' origins justify.
Arranged(s, w) == \A t \in Root : Yata(Before(s, t), w)

\* The store is one part of world w.
Agrees(s, w) == Follows(s, w) /\ Arranged(s, w)

-----------------------------------------------------------------------------
\* Store r is store s with some of its nodes cut.
Cut(s, r) ==
  /\ Sound(r) /\ Frame(s, r) /\ r.len = s.len
  /\ Integrated(r) = Integrated(s) /\ Tombstones(r) = Tombstones(s)
  /\ Anchored(s) => Anchored(r)
  /\ \A t \in Root : Live(r, t) = Live(s, t) /\ Before(s, t) \subseteq Before(r, t)
  /\ \A z \in DOMAIN s.heap : z \in DOMAIN r.heap /\ r.heap[z].parent = s.heap[z].parent
  /\ \A w : Follows(s, w) => Follows(r, w)

\* How many units of client c there are.
Size(s, c) ==
  LET run == s.items[c]
  IN  IF run = <<>> THEN 0 ELSE clockOf(run[Len(run)]) + s.heap[run[Len(run)]].len

-----------------------------------------------------------------------------
\* Induction up to n, on the set of the numbers for which it holds.
LEMMA UpTo ==
  ASSUME NEW n \in Nat, NEW T, 0 \in T, \A k \in 0 .. n - 1 : k \in T => k + 1 \in T
  PROVE  \A k \in 0 .. n : k \in T
<1> DEFINE M == {k \in 0 .. n : k \notin T}
<1> SUFFICES ASSUME M # {} PROVE FALSE
  OBVIOUS
<1>1. PICK k \in M : \A m \in M : k <= m
  <2>1. M \in SUBSET Nat
    OBVIOUS
  <2> HIDE DEF M
  <2> QED BY <2>1, Least
<1>2. k # 0 /\ k - 1 \in 0 .. n - 1 /\ k - 1 \notin M
  BY <1>1
<1>3. (k - 1) + 1 \in T
  BY <1>2
<1> QED BY <1>1, <1>3

\* The elements from the i-th on.
LEMMA SubSeqFrom ==
  ASSUME NEW A, NEW l \in Seq(A), NEW i \in 1 .. Len(l)
  PROVE  /\ l[i] \in A
         /\ SubSeq(l, i, Len(l)) = <<l[i]>> \o (IF i = Len(l) THEN <<>> ELSE SubSeq(l, i + 1, Len(l)))
<1>1. CASE i = Len(l)
  <2> DEFINE a == SubSeq(l, i, Len(l))
             c == <<l[i]>> \o <<>>
  <2>1. a \in Seq(A) /\ Len(a) = 1 /\ a[1] = l[i] /\ l[i] \in A
    BY <1>1
  <2>2. c \in Seq(A) /\ Len(c) = 1 /\ c[1] = l[i]
    BY <2>1
  <2> HIDE DEF a, c
  <2>3. a = c
    BY <2>1, <2>2
  <2> QED BY <2>1, <2>3, <1>1 DEF a, c
<1>2. CASE i < Len(l)
  <2> DEFINE a == SubSeq(l, i, Len(l))
             b == SubSeq(l, i + 1, Len(l))
             n == Len(l)
  <2>1. n \in Nat /\ a \in Seq(A) /\ b \in Seq(A) /\ Len(a) = n - i + 1 /\ Len(b) = n - i
    BY <1>2
  <2>2. /\ \A k \in 1 .. n - i + 1 : a[k] = l[k + i - 1]
        /\ \A k \in 1 .. n - i : b[k] = l[k + i]
    BY <1>2
  <2>3. l[i] \in A
    OBVIOUS
  <2> DEFINE c == <<l[i]>> \o b
  <2>4. c \in Seq(A) /\ Len(c) = n - i + 1 /\ c[1] = l[i] /\ \A k \in 1 .. n - i : c[k + 1] = b[k]
    BY <2>1, <2>3
  <2> HIDE DEF a, b, c, n
  <2>5. \A k \in 1 .. n - i + 1 : a[k] = c[k]
    <3> TAKE k \in 1 .. n - i + 1
    <3>1. CASE k = 1
      BY <3>1, <2>2, <2>4
    <3>2. CASE k # 1
      <4>1. k - 1 \in 1 .. n - i
        BY <3>2, <2>1
      <4>2. c[(k - 1) + 1] = b[k - 1] /\ b[k - 1] = l[(k - 1) + i]
        BY <4>1, <2>2, <2>4
      <4> QED BY <4>2, <2>1, <2>2
    <3> QED BY <3>1, <3>2
  <2>6. a = c
    BY <2>1, <2>4, <2>5
  <2> QED BY <2>6, <2>3, <1>2 DEF a, b, c, n
<1> QED BY <1>1, <1>2

-----------------------------------------------------------------------------
\* The largest of a set of numbers up to k that k is in.
LEMMA MaxIs ==
  ASSUME NEW k \in Nat, NEW S \in SUBSET (1 .. k), k \in S
  PROVE  Max(S) = k
<1> DEFINE m == Max(S)
<1>1. \A y \in S : k >= y
  OBVIOUS
<1>2. m \in S /\ \A y \in S : m >= y
  BY <1>1 DEF Max
<1> HIDE DEF m
<1>3. m \in 1 .. k /\ m >= k
  BY <1>2
<1> QED BY <1>3 DEF m

\* The largest of a set of numbers up to n is one of them, and none is larger.
LEMMA MaxIn ==
  ASSUME NEW n \in Nat, NEW S \in SUBSET (1 .. n), S # {}
  PROVE  Max(S) \in S /\ \A y \in S : Max(S) >= y
<1> DEFINE M == {n - y : y \in S}
<1>1. PICK k \in M : \A m \in M : k <= m
  <2>1. \A y \in S : n - y \in Nat
    OBVIOUS
  <2>2. M \in SUBSET Nat /\ M # {}
    BY <2>1
  <2> HIDE DEF M
  <2> QED BY <2>2, Least
<1>2. PICK y \in S : k = n - y
  OBVIOUS
<1>3. \A z \in S : y >= z
  <2> TAKE z \in S
  <2>1. n - z \in M
    OBVIOUS
  <2> HIDE DEF M
  <2>2. n - y <= n - z
    BY <2>1, <1>1, <1>2
  <2> QED BY <2>2
<1> QED BY <1>3 DEF Max

\* The last of the first k + 1 positions, and the positions before it.
LEMMA Prefix ==
  ASSUME NEW k \in Nat
  PROVE  Max(1 .. k + 1) = k + 1 /\ (1 .. k + 1) \ {k + 1} = 1 .. k /\ 1 .. k + 1 # {}
<1>1. k + 1 \in 1 .. k + 1 /\ k + 1 \in Nat
  OBVIOUS
<1> QED BY <1>1, MaxIs

\* A fold from the left over n elements: the function that folds every set of
\* positions exists.
FoldsBy(n, base, g, F) ==
  \A S \in SUBSET (1 .. n) :
    F[S] = IF S = {} THEN base ELSE g[<<F[S \ {Max(S)}], Max(S)>>]

\* A fold over n elements by a function on a set of states has its function: the
\* step for one more position is added to the function for those before it.
LEMMA FoldExists ==
  ASSUME NEW n \in Nat, NEW A, NEW base \in A, NEW g \in [A \X (1 .. n) -> A]
  PROVE  \E F \in [SUBSET (1 .. n) -> A] : FoldsBy(n, base, g, F)
<1> DEFINE T == {k \in 0 .. n : \E F \in [SUBSET (1 .. k) -> A] :
                   \A S \in SUBSET (1 .. k) :
                     F[S] = IF S = {} THEN base ELSE g[<<F[S \ {Max(S)}], Max(S)>>]}
<1>1. 0 \in T
  <2> DEFINE F == [S \in SUBSET (1 .. 0) |-> base]
  <2>1. F \in [SUBSET (1 .. 0) -> A]
    OBVIOUS
  <2>2. \A S \in SUBSET (1 .. 0) : S = {}
    OBVIOUS
  <2>3. \A S \in SUBSET (1 .. 0) :
          F[S] = IF S = {} THEN base ELSE g[<<F[S \ {Max(S)}], Max(S)>>]
    BY <2>2
  <2> HIDE DEF F
  <2>4. 0 \in 0 .. n
    OBVIOUS
  <2> QED BY <2>1, <2>3, <2>4, Zenon
<1>2. \A k \in 0 .. n - 1 : k \in T => k + 1 \in T
  <2> SUFFICES ASSUME NEW k \in 0 .. n - 1, k \in T PROVE k + 1 \in T
    OBVIOUS
  <2>1. PICK F \in [SUBSET (1 .. k) -> A] :
          \A S \in SUBSET (1 .. k) :
            F[S] = IF S = {} THEN base ELSE g[<<F[S \ {Max(S)}], Max(S)>>]
    OBVIOUS
  <2>2. /\ k + 1 \in 1 .. n /\ k \in Nat /\ k + 1 \in 0 .. n /\ k + 1 \in Nat
        /\ \A S \in SUBSET (1 .. k + 1) : /\ S \ {k + 1} \in SUBSET (1 .. k)
                                          /\ k + 1 \notin S => S \in SUBSET (1 .. k)
    OBVIOUS
  <2> DEFINE G == [S \in SUBSET (1 .. k + 1) |->
                     IF k + 1 \in S THEN g[<<F[S \ {k + 1}], k + 1>>] ELSE F[S]]
  <2>3. G \in [SUBSET (1 .. k + 1) -> A]
    <3>1. ASSUME NEW S \in SUBSET (1 .. k + 1)
          PROVE  (IF k + 1 \in S THEN g[<<F[S \ {k + 1}], k + 1>>] ELSE F[S]) \in A
      <4>1. CASE k + 1 \in S
        <5>1. F[S \ {k + 1}] \in A
          BY <2>2
        <5>2. <<F[S \ {k + 1}], k + 1>> \in A \X (1 .. n)
          BY <5>1, <2>2
        <5> QED BY <4>1, <5>2
      <4>2. CASE k + 1 \notin S
        BY <4>2, <2>2
      <4> QED BY <4>1, <4>2
    <3> QED BY <3>1
  <2>4. ASSUME NEW S \in SUBSET (1 .. k + 1)
        PROVE  G[S] = IF S = {} THEN base ELSE g[<<G[S \ {Max(S)}], Max(S)>>]
    <3>1. CASE k + 1 \in S
      <4>1. Max(S) = k + 1
        BY <3>1, <2>2, MaxIs
      <4>2. G[S] = g[<<F[S \ {k + 1}], k + 1>>]
        BY <3>1
      <4>3. G[S \ {k + 1}] = F[S \ {k + 1}]
        OBVIOUS
      <4> HIDE DEF G
      <4> QED BY <3>1, <4>1, <4>2, <4>3
    <3>2. CASE k + 1 \notin S
      <4>1. S \in SUBSET (1 .. k) /\ G[S] = F[S]
        BY <3>2, <2>2
      <4>2. G[S \ {Max(S)}] = F[S \ {Max(S)}]
        BY <3>2
      <4> HIDE DEF G
      <4> QED BY <4>1, <4>2, <2>1
    <3> QED BY <3>1, <3>2
  <2> HIDE DEF G
  <2> QED BY <2>2, <2>3, <2>4
<1> HIDE DEF T
<1>3. \A k \in 0 .. n : k \in T
  BY <1>1, <1>2, UpTo
<1>4. n \in T
  BY <1>3
<1> QED BY <1>4 DEF T, FoldsBy

-----------------------------------------------------------------------------
\* The step of the walk from node y, given the walks of the others.
walkFrom(h, f, y) == IF y = Nil THEN <<>> ELSE <<y>> \o f[h[y].right]

Walks(h, f) == f = [y \in DOMAIN h \cup {Nil} |-> walkFrom(h, f, y)]

\* The walk from a node goes through what is left of its list.
LEMMA Walk ==
  ASSUME NEW s, DOMAIN s.heap \subseteq Id,
         NEW L \in [Root -> Seq(Id)], \A t \in Root : ListOf(s, t, L[t]),
         \A x \in DOMAIN s.heap : s.heap[x].parent \in Root
  PROVE  /\ From(s, Nil) = <<>>
         /\ \A t \in Root : \A i \in DOMAIN L[t] :
               From(s, L[t][i]) = SubSeq(L[t], i, Len(L[t]))
<1> DEFINE h == s.heap
           D == DOMAIN h
           list(y) == L[h[y].parent]
           pos(y) == CHOOSE i \in DOMAIN list(y) : list(y)[i] = y
           g == [y \in D \cup {Nil} |->
                   IF y = Nil THEN <<>> ELSE SubSeq(list(y), pos(y), Len(list(y)))]
           F == CHOOSE f : Walks(h, f)
<1>0. Nil \notin D
  BY NilAssumption DEF Id
<1>1. \A x : From(s, x) = F[x]
  BY DEF From, Walks, walkFrom
<1>2. \A t \in Root : \A i \in DOMAIN L[t] :
         /\ L[t][i] \in D /\ L[t][i] # Nil /\ h[L[t][i]].parent = t
         /\ i \in 1 .. Len(L[t]) /\ Len(L[t]) \in Nat
         /\ h[L[t][i]].right = IF i = Len(L[t]) THEN Nil ELSE L[t][i + 1]
         /\ i # Len(L[t]) => i + 1 \in DOMAIN L[t]
  <2> TAKE t \in Root
  <2> TAKE i \in DOMAIN L[t]
  <2>1. L[t] \in Seq(Id) /\ ListOf(s, t, L[t])
    OBVIOUS
  <2>2. L[t][i] \in ToSet(L[t])
    BY DEF ToSet
  <2>3. L[t][i] \in D /\ h[L[t][i]].parent = t
    BY <2>1, <2>2 DEF ListOf
  <2> QED BY <2>1, <2>3, <1>0 DEF ListOf
<1>3. \A y \in D : pos(y) \in DOMAIN list(y) /\ list(y)[pos(y)] = y
  <2> TAKE y \in D
  <2>1. ListOf(s, h[y].parent, list(y))
    OBVIOUS
  <2>2. y \in ToSet(list(y))
    BY <2>1 DEF ListOf
  <2> QED BY <2>2 DEF ToSet
<1>4. \A t \in Root : \A i \in DOMAIN L[t] : pos(L[t][i]) = i
  BY <1>2, <1>3 DEF ListOf, IsInjective
<1>5. \A t \in Root : \A i \in DOMAIN L[t] : g[L[t][i]] = SubSeq(L[t], i, Len(L[t]))
  BY <1>2, <1>4
<1>6. Walks(h, g)
  <2> SUFFICES ASSUME NEW y \in D \cup {Nil} PROVE g[y] = walkFrom(h, g, y)
    BY ZenonT(30) DEF Walks
  <2>1. CASE y = Nil
    BY <2>1 DEF walkFrom
  <2>2. CASE y # Nil
    <3> DEFINE t == h[y].parent
               i == pos(y)
    <3>1. t \in Root /\ i \in DOMAIN L[t] /\ L[t][i] = y
      BY <2>2, <1>3
    <3>2. g[y] = <<y>> \o (IF i = Len(L[t]) THEN <<>> ELSE SubSeq(L[t], i + 1, Len(L[t])))
      <4>1. L[t] \in Seq(Id)
        BY <3>1
      <4>2. \A j \in 1 .. Len(L[t]) :
              SubSeq(L[t], j, Len(L[t]))
                = <<L[t][j]>> \o (IF j = Len(L[t]) THEN <<>> ELSE SubSeq(L[t], j + 1, Len(L[t])))
        BY <4>1, SubSeqFrom
      <4> HIDE DEF i, t, g
      <4>3. g[y] = SubSeq(L[t], i, Len(L[t])) /\ i \in 1 .. Len(L[t])
        BY <3>1, <1>2, <1>5
      <4> QED BY <3>1, <4>2, <4>3
    <3>3. i # Len(L[t]) => g[h[y].right] = SubSeq(L[t], i + 1, Len(L[t]))
      <4> HIDE DEF i, t, g
      <4> QED BY SMTT(30), <3>1, <1>2, <1>5
    <3>4. i = Len(L[t]) => g[h[y].right] = <<>>
      <4>1. g[Nil] = <<>>
        OBVIOUS
      <4> HIDE DEF i, t, g
      <4> QED BY <3>1, <1>2, <4>1
    <3> HIDE DEF i, t, g
    <3> QED BY <2>2, <3>2, <3>3, <3>4 DEF walkFrom
  <2> QED BY <2>1, <2>2
<1>7. Walks(h, F)
  BY <1>6
<1> HIDE DEF F
<1>8. F[Nil] = <<>>
  BY <1>7 DEF Walks, walkFrom
<1>9. \A t \in Root : \A i \in DOMAIN L[t] : F[L[t][i]] = SubSeq(L[t], i, Len(L[t]))
  <2> TAKE t \in Root
  <2> DEFINE l == L[t]
             n == Len(l)
             T == {k \in Nat : k < n => F[l[n - k]] = SubSeq(l, n - k, n)}
  <2>1. l \in Seq(Id) /\ n \in Nat /\ DOMAIN l = 1 .. n
    OBVIOUS
  <2>2. \A i \in 1 .. n :
          F[l[i]] = <<l[i]>> \o (IF i = n THEN <<>> ELSE F[l[i + 1]])
    <3> TAKE i \in 1 .. n
    <3>0. l[i] \in D /\ l[i] # Nil
      BY <1>2, <2>1
    <3>1. F[l[i]] = walkFrom(h, F, l[i])
      BY <1>7, <3>0 DEF Walks
    <3>2. F[l[i]] = <<l[i]>> \o F[h[l[i]].right]
      <4> HIDE DEF l
      <4> QED BY <3>0, <3>1 DEF walkFrom
    <3>3. h[l[i]].right = IF i = n THEN Nil ELSE l[i + 1]
      BY <1>2, <2>1
    <3> HIDE DEF F, l, n
    <3> QED BY <3>2, <3>3, <1>8
  <2>3. \A i \in 1 .. n :
          SubSeq(l, i, n) = <<l[i]>> \o (IF i = n THEN <<>> ELSE SubSeq(l, i + 1, n))
    BY <2>1, SubSeqFrom
  <2> HIDE DEF l, n
  <2>4. 0 \in T
    <3>1. n - 0 = n /\ (n > 0 => n \in 1 .. n)
      BY <2>1
    <3>2. 0 < n => F[l[n]] = SubSeq(l, n, n)
      BY <3>1, <2>1, <2>2, <2>3
    <3> QED BY <3>1, <3>2
  <2>5. \A k \in 0 .. n - 1 : k \in T => k + 1 \in T
    <3> TAKE k \in 0 .. n - 1
    <3> SUFFICES ASSUME k \in T, k + 1 < n PROVE F[l[n - (k + 1)]] = SubSeq(l, n - (k + 1), n)
      OBVIOUS
    <3> DEFINE i == n - (k + 1)
    <3>1. i \in 1 .. n /\ i # n /\ i + 1 = n - k /\ k < n
      BY <2>1
    <3>2. F[l[n - k]] = SubSeq(l, n - k, n)
      BY <3>1
    <3> HIDE DEF i
    <3>3. F[l[i]] = SubSeq(l, i, n)
      BY <3>1, <3>2, <2>2, <2>3
    <3> QED BY <3>3 DEF i
  <2> HIDE DEF T
  <2>6. \A k \in 0 .. n : k \in T
    BY <2>1, <2>4, <2>5, UpTo
  <2>7. SUFFICES ASSUME NEW i \in 1 .. n PROVE F[l[i]] = SubSeq(l, i, n)
    BY <2>1 DEF l, n
  <2>8. n - i \in 0 .. n /\ n - i < n /\ n - (n - i) = i
    BY <2>1
  <2> QED BY <2>6, <2>8 DEF T
<1> QED BY <1>1, <1>8, <1>9

\* A sequence that is the list of each root type is what Chain walks.
LEMMA ChainIs ==
  ASSUME NEW s, DOMAIN s.heap \subseteq Id,
         NEW L \in [Root -> Seq(Id)], \A t \in Root : ListOf(s, t, L[t]),
         \A x \in DOMAIN s.heap : s.heap[x].parent \in Root
  PROVE  \A t \in Root : Chain(s, t) = L[t]
<1> TAKE t \in Root
<1>1. L[t] \in Seq(Id) /\ ListOf(s, t, L[t])
  OBVIOUS
<1>w. /\ From(s, Nil) = <<>>
      /\ \A i \in DOMAIN L[t] : From(s, L[t][i]) = SubSeq(L[t], i, Len(L[t]))
  BY Walk
<1>c. Chain(s, t) = From(s, IF L[t] = <<>> THEN Nil ELSE L[t][1])
  BY <1>1 DEF Chain, ListOf
<1>2. CASE L[t] = <<>>
  BY <1>2, <1>w, <1>c
<1>3. CASE L[t] # <<>>
  <2>1. 1 \in DOMAIN L[t] /\ SubSeq(L[t], 1, Len(L[t])) = L[t]
    BY <1>1, <1>3
  <2> QED BY <1>3, <2>1, <1>w, <1>c
<1> QED BY <1>2, <1>3

-----------------------------------------------------------------------------
\* Intervals laid end to end from 0 on: [a[i], a[i] + w[i]) for i in 1 .. n.
Tiles(a, w, n) ==
  /\ a \in [1 .. n -> Nat] /\ w \in [1 .. n -> Nat \ {0}]
  /\ \A i \in 1 .. n : a[i] = IF i = 1 THEN 0 ELSE a[i - 1] + w[i - 1]

TileHas(a, w, i, k) == a[i] <= k /\ k < a[i] + w[i]

\* They are in order, and cover all that is before their end.
LEMMA TilesOrdered ==
  ASSUME NEW n \in Nat, NEW a, NEW w, Tiles(a, w, n)
  PROVE  \A i, j \in 1 .. n : i < j => a[i] + w[i] <= a[j]
<1> SUFFICES ASSUME NEW i \in 1 .. n PROVE \A j \in 1 .. n : i < j => a[i] + w[i] <= a[j]
  OBVIOUS
<1> DEFINE T == {j \in 0 .. n : i < j => a[i] + w[i] <= a[j]}
<1>1. 0 \in T
  OBVIOUS
<1>2. \A k \in 0 .. n - 1 : k \in T => k + 1 \in T
  <2> SUFFICES ASSUME NEW k \in 0 .. n - 1, k \in T, i < k + 1 PROVE a[i] + w[i] <= a[k + 1]
    OBVIOUS
  <2>1. k \in 1 .. n /\ k + 1 \in 1 .. n /\ k + 1 # 1 /\ (k + 1) - 1 = k
    OBVIOUS
  <2>2. a[k + 1] = a[k] + w[k] /\ a[k] \in Nat /\ w[k] \in Nat /\ a[i] \in Nat /\ w[i] \in Nat
    BY <2>1 DEF Tiles
  <2>3. CASE i = k
    BY <2>2, <2>3
  <2>4. CASE i < k
    BY <2>2, <2>4
  <2> QED BY <2>3, <2>4
<1> HIDE DEF T
<1>3. \A j \in 0 .. n : j \in T
  BY <1>1, <1>2, UpTo
<1> QED BY <1>3 DEF T

\* Some tile has k just when k is before the end of the last one.
LEMMA TilesCover ==
  ASSUME NEW n \in Nat, NEW a, NEW w, Tiles(a, w, n), NEW k \in Nat
  PROVE  (\E i \in 1 .. n : TileHas(a, w, i, k)) <=> (n # 0 /\ k < a[n] + w[n])
<1>1. ASSUME NEW i \in 1 .. n, TileHas(a, w, i, k) PROVE n # 0 /\ k < a[n] + w[n]
  <2>1. i = n \/ a[i] + w[i] <= a[n]
    BY TilesOrdered
  <2> QED BY <1>1, <2>1 DEF TileHas, Tiles
<1>2. ASSUME n # 0, k < a[n] + w[n] PROVE \E i \in 1 .. n : TileHas(a, w, i, k)
  <2> DEFINE M == {i \in 1 .. n : k < a[i] + w[i]}
  <2>1. M \in SUBSET Nat /\ n \in M
    BY <1>2
  <2>2. PICK i \in M : \A m \in M : i <= m
    <3> HIDE DEF M
    <3> QED BY <2>1, Least
  <2>3. i # 1 => a[i - 1] + w[i - 1] <= k
    BY <2>2 DEF Tiles
  <2>4. a[i] <= k
    BY <2>2, <2>3 DEF Tiles
  <2> QED BY <2>2, <2>4 DEF TileHas
<1> QED BY <1>1, <1>2

\* Halving an interval that is not empty.
LEMMA Middle ==
  ASSUME NEW l \in Nat, NEW r \in Nat, l < r
  PROVE  LET m == l + (r - l) \div 2 IN m \in Nat /\ l <= m /\ m < r
OBVIOUS

searchStep(nodes, h, clock, f, b) ==
  IF b[1] >= b[2] THEN 0
  ELSE LET m == b[1] + (b[2] - b[1]) \div 2
           first == clockOf(nodes[m])
       IN  IF clock < first THEN f[<<b[1], m>>]
           ELSE IF clock >= first + h[nodes[m]].len THEN f[<<m + 1, b[2]>>]
           ELSE m

Searches(nodes, h, clock, f) ==
  f = [b \in (1 .. Len(nodes) + 1) \X (1 .. Len(nodes) + 1)
         |-> searchStep(nodes, h, clock, f, b)]

\* The binary search finds the node whose run covers a clock, if there is one.
THEOREM NodeIndex ==
  ASSUME NEW s, NEW c, RunOf(s, c), NEW k \in Nat,
         \A x \in DOMAIN s.heap : s.heap[x].len \in Nat \ {0}
  PROVE  LET run == s.items[c]
             i == getNodeIndex(s, c, k)
         IN  \/ i \in DOMAIN run /\ clockOf(run[i]) <= k
                 /\ k < clockOf(run[i]) + s.heap[run[i]].len
             \/ i = 0 /\ \A j \in DOMAIN run : ~ (clockOf(run[j]) <= k
                                      /\ k < clockOf(run[j]) + s.heap[run[j]].len)
<1> DEFINE run == s.items[c]
           h == s.heap
           n == Len(run)
           a == [i \in 1 .. n |-> clockOf(run[i])]
           w == [i \in 1 .. n |-> h[run[i]].len]
           B == 1 .. n + 1
           has(i) == TileHas(a, w, i, k)
           ans(b, v) == \/ v \in b[1] .. b[2] - 1 /\ has(v)
                        \/ v = 0 /\ \A i \in b[1] .. b[2] - 1 : ~has(i)
           g == [b \in B \X B |-> CHOOSE v \in 0 .. n : ans(b, v)]
           F == CHOOSE f : Searches(run, h, k, f)
<1>0. getNodeIndex(s, c, k) = F[<<1, n + 1>>]
  BY DEF getNodeIndex, Searches, searchStep
<1>1. run \in Seq(Id) /\ n \in Nat /\ DOMAIN run = 1 .. n
  BY DEF RunOf
<1>2. \A i \in 1 .. n : run[i] \in DOMAIN h /\ clockOf(run[i]) \in Nat /\ h[run[i]].len \in Nat \ {0}
  <2> TAKE i \in 1 .. n
  <2>1. run[i] \in Id /\ run[i] \in ToSet(run)
    BY <1>1 DEF ToSet
  <2>2. run[i] \in DOMAIN h
    BY <2>1 DEF RunOf
  <2> QED BY <2>1, <2>2 DEF Id, clockOf
<1>3. Tiles(a, w, n)
  <2>1. \A i \in 1 .. n : a[i] = IF i = 1 THEN 0 ELSE a[i - 1] + w[i - 1]
    <3> TAKE i \in 1 .. n
    <3>1. clockOf(run[i]) = IF i = 1 THEN 0 ELSE clockOf(run[i - 1]) + h[run[i - 1]].len
      BY <1>1 DEF RunOf
    <3>2. i # 1 => i - 1 \in 1 .. n
      BY <1>1
    <3> HIDE DEF run
    <3> QED BY <3>1, <3>2
  <2>2. a \in [1 .. n -> Nat] /\ w \in [1 .. n -> Nat \ {0}]
    BY <1>2
  <2> HIDE DEF a, w
  <2> QED BY <2>1, <2>2 DEF Tiles
<1>4. \A i, j \in 1 .. n : has(i) /\ has(j) => i = j
  <2> TAKE i, j \in 1 .. n
  <2> HAVE has(i) /\ has(j)
  <2>1. (i < j => a[i] + w[i] <= a[j]) /\ (j < i => a[j] + w[j] <= a[i])
    BY <1>1, <1>3, TilesOrdered
  <2>2. a[i] \in Nat /\ a[j] \in Nat /\ w[i] \in Nat /\ w[j] \in Nat
    BY <1>3 DEF Tiles
  <2> HIDE DEF a, w
  <2> QED BY <2>1, <2>2 DEF TileHas
<1>5. \A i \in 1 .. n : has(i) <=> clockOf(run[i]) <= k /\ k < clockOf(run[i]) + h[run[i]].len
  BY DEF TileHas
<1>6. ASSUME NEW f, NEW b \in B \X B,
             \A p \in B \X B : p[2] - p[1] < b[2] - b[1] => ans(p, f[p])
      PROVE  ans(b, searchStep(run, h, k, f, b))
  <2>0. b[1] \in B /\ b[2] \in B
    OBVIOUS
  <2>1. CASE b[1] >= b[2]
    <3>1. searchStep(run, h, k, f, b) = 0
      BY <2>1 DEF searchStep
    <3>2. \A i : i \notin b[1] .. b[2] - 1
      BY <2>0, <2>1, <1>1
    <3> QED BY <3>1, <3>2
  <2>2. CASE b[1] < b[2]
    <3> DEFINE m == b[1] + (b[2] - b[1]) \div 2
               p == <<b[1], m>>
               q == <<m + 1, b[2]>>
    <3>1. m \in Nat /\ b[1] <= m /\ m < b[2]
      BY <2>0, <2>2, <1>1, Middle
    <3>0. ~(b[1] >= b[2])
      BY <2>0, <2>2
    <3>2. searchStep(run, h, k, f, b) =
            IF k < clockOf(run[m]) THEN f[p]
            ELSE IF k >= clockOf(run[m]) + h[run[m]].len THEN f[q] ELSE m
      BY <3>0 DEF searchStep
    <3> HIDE DEF m
    <3>3. m \in 1 .. n /\ p \in B \X B /\ q \in B \X B
      BY <2>0, <3>1, <1>1
    <3>4. ans(p, f[p]) /\ ans(q, f[q])
      <4>1. p[2] - p[1] < b[2] - b[1] /\ q[2] - q[1] < b[2] - b[1]
        BY <2>0, <3>1, <1>1
      <4> HIDE DEF ans, p, q
      <4> QED BY <3>3, <4>1, <1>6
    <3>5. /\ a[m] = clockOf(run[m]) /\ w[m] = h[run[m]].len
          /\ \A i \in 1 .. n : a[i] \in Nat /\ w[i] \in Nat /\ w[i] > 0
      <4>1. /\ a[m] = clockOf(run[m]) /\ w[m] = h[run[m]].len
        BY <3>3, <1>2
      <4>2. \A i \in 1 .. n : a[i] \in Nat /\ w[i] \in Nat /\ w[i] > 0
        BY <1>2
      <4> QED BY <4>1, <4>2
    <3>6. \A i \in 1 .. n : /\ i < m => a[i] + w[i] <= a[m]
                            /\ m < i => a[m] + w[m] <= a[i]
      <4> HIDE DEF a, w
      <4> QED BY <3>3, <1>1, <1>3, TilesOrdered
    <3>6a. \A i : i \in b[1] .. b[2] - 1 <=> i \in 1 .. n /\ b[1] <= i /\ i < b[2]
      BY <2>0, <1>1
    <3>6b. /\ \A i : i \in p[1] .. p[2] - 1 <=> i \in 1 .. n /\ b[1] <= i /\ i < m
           /\ \A i : i \in q[1] .. q[2] - 1 <=> i \in 1 .. n /\ m < i /\ i < b[2]
      BY <2>0, <1>1, <3>1, <3>3
    <3> HIDE DEF p, q, a, w
    <3>7. CASE k < a[m]
      <4>1. \A i \in 1 .. n : has(i) => i < m
        <5> TAKE i \in 1 .. n
        <5>1. /\ i < m => a[i] + w[i] <= a[m]
              /\ m < i => a[m] + w[m] <= a[i]
          BY <3>6
        <5>2. a[i] \in Nat /\ w[i] \in Nat /\ a[m] \in Nat /\ w[m] \in Nat /\ w[m] > 0
          BY <3>3, <3>5
        <5>3. CASE i < m
          BY <5>3
        <5>4. CASE i = m
          BY <5>2, <5>4, <3>7 DEF TileHas
        <5>5. CASE m < i
          BY <5>1, <5>2, <5>5, <3>7 DEF TileHas
        <5> QED BY <5>3, <5>4, <5>5, <3>3
      <4>2. ans(b, f[p])
        <5> HIDE DEF has
        <5>1. b[1] \in Nat
          BY <2>0, <1>1
        <5>2. \A i \in 1 .. n : i < m => i < b[2]
          BY <2>0, <3>1, <1>1
        <5>3. \A i \in 1 .. n : m < i => b[1] <= i
          BY <3>1, <5>1
        <5> HIDE DEF B
        <5> QED BY <3>4, <4>1, <3>6a, <3>6b, <3>3, <5>2, <5>3
      <4> QED BY <3>2, <3>5, <3>7, <4>2
    <3>8. CASE k >= a[m] + w[m]
      <4>1. \A i \in 1 .. n : has(i) => m < i
        <5> TAKE i \in 1 .. n
        <5>1. /\ i < m => a[i] + w[i] <= a[m]
              /\ m < i => a[m] + w[m] <= a[i]
          BY <3>6
        <5>2. a[i] \in Nat /\ w[i] \in Nat /\ a[m] \in Nat /\ w[m] \in Nat /\ w[m] > 0
          BY <3>3, <3>5
        <5>3. CASE i < m
          BY <5>1, <5>2, <5>3, <3>8 DEF TileHas
        <5>4. CASE i = m
          BY <5>2, <5>4, <3>8 DEF TileHas
        <5>5. CASE m < i
          BY <5>5
        <5> QED BY <5>3, <5>4, <5>5, <3>3
      <4>2. ans(b, f[q])
        <5> HIDE DEF has
        <5>1. b[1] \in Nat
          BY <2>0, <1>1
        <5>2. \A i \in 1 .. n : i < m => i < b[2]
          BY <2>0, <3>1, <1>1
        <5>3. \A i \in 1 .. n : m < i => b[1] <= i
          BY <3>1, <5>1
        <5> HIDE DEF B
        <5> QED BY <3>4, <4>1, <3>6a, <3>6b, <3>3, <5>2, <5>3
      <4>3. ~(k < a[m])
        BY <3>8, <3>5, <3>3
      <4> QED BY <3>2, <3>5, <3>8, <4>2, <4>3
    <3>9. CASE a[m] <= k /\ k < a[m] + w[m]
      <4>1. has(m) /\ m \in b[1] .. b[2] - 1
        BY <3>9, <3>6a, <3>1, <3>3 DEF TileHas
      <4>2. ~(k < a[m]) /\ ~(k >= a[m] + w[m])
        BY <3>9, <3>5, <3>3
      <4> HIDE DEF has
      <4> QED BY <3>2, <3>5, <4>1, <4>2
    <3> QED BY <3>5, <3>3, <3>7, <3>8, <3>9
  <2> QED BY <2>0, <2>1, <2>2
<1>7. \A b \in B \X B : \A u, v : ans(b, u) /\ ans(b, v) => u = v
  <2> TAKE b \in B \X B
  <2> TAKE u, v
  <2>1. \A i \in b[1] .. b[2] - 1 : i \in 1 .. n
    BY <1>1
  <2> HIDE DEF has
  <2> QED BY <2>1, <1>4
<1>8. \A b \in B \X B : ans(b, g[b])
  <2> TAKE b \in B \X B
  <2>1. \A i \in b[1] .. b[2] - 1 : i \in 0 .. n
    BY <1>1
  <2>2. \E v \in 0 .. n : ans(b, v)
    <3> HIDE DEF has
    <3> QED BY <2>1, <1>1
  <2> HIDE DEF ans
  <2> QED BY <2>2
<1>9. Searches(run, h, k, g)
  <2> SUFFICES ASSUME NEW b \in B \X B PROVE g[b] = searchStep(run, h, k, g, b)
    BY DEF Searches
  <2> HIDE DEF ans, g, B
  <2>1. ans(b, searchStep(run, h, k, g, b))
    BY <1>6, <1>8
  <2> QED BY <2>1, <1>7, <1>8
<1>10. Searches(run, h, k, F)
  BY <1>9
<1> HIDE DEF F
<1>11. \A b \in B \X B : F[b] = searchStep(run, h, k, F, b)
  BY <1>10 DEF Searches
<1>12. \A b \in B \X B : ans(b, F[b])
  <2> DEFINE T == {d \in Nat : \A b \in B \X B : b[2] - b[1] < d => ans(b, F[b])}
  <2>1. \A d \in 0 .. n : d \in T => d + 1 \in T
    <3> SUFFICES ASSUME NEW d \in 0 .. n, d \in T, NEW b \in B \X B, b[2] - b[1] < d + 1
                 PROVE  ans(b, F[b])
      <4> HIDE DEF ans, B
      <4> QED OBVIOUS
    <3>1. \A p \in B \X B : p[2] - p[1] < b[2] - b[1] => ans(p, F[p])
      <4> TAKE p \in B \X B
      <4>1. p[2] - p[1] \in Int /\ b[2] - b[1] \in Int
        BY <1>1
      <4> HIDE DEF ans, B
      <4> QED BY <4>1
    <3> HIDE DEF ans, B, T
    <3> QED BY <3>1, <1>6, <1>11
  <2>2. 0 \in T
    <3> SUFFICES ASSUME NEW b \in B \X B, b[2] - b[1] < 0 PROVE ans(b, F[b])
      OBVIOUS
    <3>1. b[1] >= b[2] /\ \A i : i \notin b[1] .. b[2] - 1
      BY <1>1
    <3>2. F[b] = 0
      BY <3>1, <1>11 DEF searchStep
    <3> QED BY <3>1, <3>2
  <2> HIDE DEF T
  <2>3. \A d \in 0 .. n + 1 : d \in T
    <3>1. n + 1 \in Nat /\ (n + 1) - 1 = n
      BY <1>1
    <3> QED BY <2>1, <2>2, <3>1, UpTo
  <2>4. n + 1 \in T
    BY <2>3, <1>1
  <2>5. \A b \in B \X B : b[2] - b[1] < n + 1
    BY <1>1
  <2> HIDE DEF B, ans
  <2> QED BY <2>4, <2>5 DEF T
<1>13. ans(<<1, n + 1>>, F[<<1, n + 1>>])
  <2>1. <<1, n + 1>> \in B \X B
    BY <1>1
  <2> HIDE DEF ans, B
  <2> QED BY <1>12, <2>1
<1>14. \A i : i \in 1 .. (n + 1) - 1 <=> i \in DOMAIN run
  BY <1>1
<1> QED BY <1>0, <1>5, <1>13, <1>14, <1>1

-----------------------------------------------------------------------------
\* An id is its client and its clock.
LEMMA IdFacts ==
  ASSUME NEW x \in Id
  PROVE  /\ clientOf(x) \in Client /\ clockOf(x) \in Nat /\ x = <<clientOf(x), clockOf(x)>>
         /\ \A n \in Nat : Add(x, n) \in Id /\ clientOf(Add(x, n)) = clientOf(x)
                        /\ clockOf(Add(x, n)) = clockOf(x) + n
BY DEF Id, clientOf, clockOf, Add

\* The ids of a run of n units from x on.
LEMMA IdsAre ==
  ASSUME NEW x \in Id, NEW n \in Nat, NEW u
  PROVE  u \in Ids(x, n) <=> /\ u \in Id /\ clientOf(u) = clientOf(x)
                            /\ clockOf(x) <= clockOf(u) /\ clockOf(u) < clockOf(x) + n
<1>1. ASSUME u \in Ids(x, n)
      PROVE  /\ u \in Id /\ clientOf(u) = clientOf(x)
             /\ clockOf(x) <= clockOf(u) /\ clockOf(u) < clockOf(x) + n
  <2>1. PICK k \in 0 .. n - 1 : u = Add(x, k)
    BY <1>1 DEF Ids
  <2> QED BY <2>1 DEF Id, clientOf, clockOf, Add
<1>2. ASSUME u \in Id, clientOf(u) = clientOf(x),
             clockOf(x) <= clockOf(u), clockOf(u) < clockOf(x) + n
      PROVE  u \in Ids(x, n)
  <2>1. clockOf(u) - clockOf(x) \in 0 .. n - 1
    <3>1. clockOf(u) \in Nat /\ clockOf(x) \in Nat
      BY <1>2, IdFacts
    <3> QED BY <3>1, <1>2
  <2>2. u = Add(x, clockOf(u) - clockOf(x))
    BY <1>2 DEF Id, clientOf, clockOf, Add
  <2> QED BY <2>1, <2>2 DEF Ids
<1> QED BY <1>1, <1>2

\* The nodes of a heap.
LEMMA HeapFacts ==
  ASSUME NEW s \in StoreType
  PROVE  /\ DOMAIN s.heap \subseteq Id /\ Nil \notin DOMAIN s.heap /\ Nil \notin Id
         /\ s.heap \in [DOMAIN s.heap -> Node]
         /\ \A x \in DOMAIN s.heap : s.heap[x] \in Node /\ s.heap[x].len \in Nat \ {0}
                                   /\ s.heap[x].parent \in Root
<1>1. s.heap \in Heap
  BY DEF StoreType
<1>2. PICK D \in SUBSET Id : s.heap \in [D -> Node]
  BY <1>1 DEF Heap
<1> QED BY <1>2, NilAssumption DEF Node, Id

\* A run list as intervals.
LEMMA RunTiles ==
  ASSUME NEW s, Runs(s), NEW c \in Client
  PROVE  LET run == s.items[c]
             a == [i \in 1 .. Len(run) |-> clockOf(run[i])]
             w == [i \in 1 .. Len(run) |-> s.heap[run[i]].len]
         IN  /\ run \in Seq(Id) /\ Len(run) \in Nat /\ DOMAIN run = 1 .. Len(run)
             /\ \A i \in 1 .. Len(run) : run[i] \in DOMAIN s.heap /\ clientOf(run[i]) = c
             /\ Tiles(a, w, Len(run))
<1> DEFINE run == s.items[c]
           h == s.heap
           n == Len(run)
           a == [i \in 1 .. n |-> clockOf(run[i])]
           w == [i \in 1 .. n |-> h[run[i]].len]
<1>0. s \in StoreType /\ RunOf(s, c)
  BY DEF Runs
<1>1. run \in Seq(Id) /\ n \in Nat /\ DOMAIN run = 1 .. n
  BY <1>0 DEF RunOf
<1>2. \A i \in 1 .. n : /\ run[i] \in DOMAIN h /\ clientOf(run[i]) = c
                        /\ clockOf(run[i]) \in Nat /\ h[run[i]].len \in Nat \ {0}
  <2> TAKE i \in 1 .. n
  <2>1. run[i] \in Id /\ run[i] \in ToSet(run)
    BY <1>1 DEF ToSet
  <2>2. run[i] \in DOMAIN h /\ clientOf(run[i]) = c
    BY <2>1, <1>0 DEF RunOf
  <2> QED BY <2>1, <2>2, <1>0, HeapFacts, IdFacts
<1>3. \A i \in 1 .. n : a[i] = IF i = 1 THEN 0 ELSE a[i - 1] + w[i - 1]
  <2> TAKE i \in 1 .. n
  <2>1. clockOf(run[i]) = IF i = 1 THEN 0 ELSE clockOf(run[i - 1]) + h[run[i - 1]].len
    BY <1>0, <1>1 DEF RunOf
  <2>2. i # 1 => i - 1 \in 1 .. n
    BY <1>1
  <2> HIDE DEF run
  <2> QED BY <2>1, <2>2
<1>4. a \in [1 .. n -> Nat] /\ w \in [1 .. n -> Nat \ {0}]
  BY <1>2
<1>5. Tiles(a, w, n)
  <2> HIDE DEF a, w
  <2> QED BY <1>3, <1>4 DEF Tiles
<1> QED BY <1>1, <1>2, <1>5

\* No two nodes share a unit.
LEMMA NodesApart ==
  ASSUME NEW s, Runs(s), NEW x \in DOMAIN s.heap, NEW y \in DOMAIN s.heap,
         NEW u \in Units(s, x), u \in Units(s, y)
  PROVE  x = y
<1> DEFINE c == clientOf(x)
           run == s.items[c]
           n == Len(run)
           a == [i \in 1 .. n |-> clockOf(run[i])]
           w == [i \in 1 .. n |-> s.heap[run[i]].len]
<1>0. s \in StoreType
  BY DEF Runs
<1>1. /\ x \in Id /\ y \in Id /\ s.heap[x].len \in Nat /\ s.heap[y].len \in Nat
      /\ clientOf(x) \in Client
  BY <1>0, HeapFacts, IdFacts
<1>2. /\ clientOf(u) = clientOf(x) /\ clientOf(u) = clientOf(y) /\ clockOf(u) \in Nat
      /\ clockOf(x) <= clockOf(u) /\ clockOf(u) < clockOf(x) + s.heap[x].len
      /\ clockOf(y) <= clockOf(u) /\ clockOf(u) < clockOf(y) + s.heap[y].len
  <2>1. u \in Ids(x, s.heap[x].len) /\ u \in Ids(y, s.heap[y].len)
    BY DEF Units
  <2>2. /\ u \in Id /\ clientOf(u) = clientOf(x)
        /\ clockOf(x) <= clockOf(u) /\ clockOf(u) < clockOf(x) + s.heap[x].len
    BY <2>1, <1>1, IdsAre
  <2>3. /\ clientOf(u) = clientOf(y)
        /\ clockOf(y) <= clockOf(u) /\ clockOf(u) < clockOf(y) + s.heap[y].len
    BY <2>1, <1>1, IdsAre
  <2> QED BY <2>2, <2>3, IdFacts
<1>3. RunOf(s, c)
  BY <1>1 DEF Runs
<1>4. PICK i \in DOMAIN run, j \in DOMAIN run : run[i] = x /\ run[j] = y
  <2>1. x \in ToSet(run) /\ y \in ToSet(run)
    BY <1>2, <1>3 DEF RunOf
  <2> QED BY <2>1 DEF ToSet
<1>5. /\ n \in Nat /\ i \in 1 .. n /\ j \in 1 .. n
      /\ Tiles(a, w, n)
  BY <1>1, <1>4, RunTiles
<1>6. (i < j => a[i] + w[i] <= a[j]) /\ (j < i => a[j] + w[j] <= a[i])
  BY <1>5, TilesOrdered
<1>7. a[i] = clockOf(x) /\ w[i] = s.heap[x].len /\ a[j] = clockOf(y) /\ w[j] = s.heap[y].len
  BY <1>4, <1>5
<1> HIDE DEF a, w, run, n, c
<1>8. i = j
  <2>1. clockOf(x) \in Nat /\ clockOf(y) \in Nat
    BY <1>1, IdFacts
  <2> QED BY <2>1, <1>1, <1>2, <1>5, <1>6, <1>7
<1> QED BY <1>4, <1>8

\* A store holds the units of its nodes: those of client c before Size(s, c).
LEMMA Holds ==
  ASSUME NEW s, Runs(s)
  PROVE  /\ \A u : u \in Integrated(s) <=>
                 u \in Id /\ \E x \in DOMAIN s.heap :
                   /\ clientOf(x) = clientOf(u) /\ clockOf(x) <= clockOf(u)
                   /\ clockOf(u) < clockOf(x) + s.heap[x].len
         /\ \A c \in Client : Size(s, c) \in Nat
         /\ \A u \in Id : u \in Integrated(s) <=> clockOf(u) < Size(s, clientOf(u))
<1>0. s \in StoreType
  BY DEF Runs
<1>1. ASSUME NEW u
      PROVE  u \in Integrated(s) <=>
                 u \in Id /\ \E x \in DOMAIN s.heap :
                   /\ clientOf(x) = clientOf(u) /\ clockOf(x) <= clockOf(u)
                   /\ clockOf(u) < clockOf(x) + s.heap[x].len
  <2>1. u \in Integrated(s) <=> \E x \in DOMAIN s.heap : u \in Ids(x, s.heap[x].len)
    BY DEF Integrated, Units
  <2>2. \A x \in DOMAIN s.heap :
          u \in Ids(x, s.heap[x].len) <=>
            /\ u \in Id /\ clientOf(u) = clientOf(x)
            /\ clockOf(x) <= clockOf(u) /\ clockOf(u) < clockOf(x) + s.heap[x].len
    <3> TAKE x \in DOMAIN s.heap
    <3>1. x \in Id /\ s.heap[x].len \in Nat
      BY <1>0, HeapFacts
    <3> QED BY <3>1, IdsAre
  <2> QED BY <2>1, <2>2
<1>2. ASSUME NEW c \in Client
      PROVE  /\ Size(s, c) \in Nat
             /\ \A k \in Nat : k < Size(s, c) <=>
                   \E x \in DOMAIN s.heap :
                     /\ clientOf(x) = c /\ clockOf(x) <= k
                     /\ k < clockOf(x) + s.heap[x].len
  <2> DEFINE run == s.items[c]
             n == Len(run)
             a == [i \in 1 .. n |-> clockOf(run[i])]
             w == [i \in 1 .. n |-> s.heap[run[i]].len]
  <2>1. /\ run \in Seq(Id) /\ n \in Nat /\ DOMAIN run = 1 .. n
        /\ \A i \in 1 .. n : run[i] \in DOMAIN s.heap /\ clientOf(run[i]) = c
        /\ Tiles(a, w, n)
    BY RunTiles
  <2>2. \A x \in DOMAIN s.heap : clientOf(x) = c => \E i \in 1 .. n : run[i] = x
    <3> TAKE x \in DOMAIN s.heap
    <3> HAVE clientOf(x) = c
    <3>1. x \in ToSet(run)
      BY DEF Runs, RunOf
    <3> QED BY <3>1, <2>1 DEF ToSet
  <2>3. \A i \in 1 .. n : /\ a[i] = clockOf(run[i]) /\ w[i] = s.heap[run[i]].len
                          /\ a[i] \in Nat /\ w[i] \in Nat
    BY <2>1 DEF Tiles
  <2>4. Size(s, c) = IF n = 0 THEN 0 ELSE a[n] + w[n]
    <3>1. Size(s, c) = IF run = <<>> THEN 0 ELSE clockOf(run[n]) + s.heap[run[n]].len
      BY DEF Size
    <3>2. run = <<>> <=> n = 0
      BY <2>1
    <3>3. n # 0 => n \in 1 .. n
      BY <2>1
    <3> QED BY <2>3, <3>1, <3>2, <3>3
  <2>5. Size(s, c) \in Nat
    <3>1. n = 0 \/ n \in 1 .. n
      BY <2>1
    <3> HIDE DEF n, a, w
    <3> QED BY <3>1, <2>3, <2>4
  <2>6. ASSUME NEW k \in Nat
        PROVE  k < Size(s, c) <=>
                   \E x \in DOMAIN s.heap :
                     /\ clientOf(x) = c /\ clockOf(x) <= k
                     /\ k < clockOf(x) + s.heap[x].len
    <3>1. k < Size(s, c) <=> \E i \in 1 .. n : TileHas(a, w, i, k)
      <4> HIDE DEF a, w, n, run
      <4>1. (\E i \in 1 .. n : TileHas(a, w, i, k)) <=> (n # 0 /\ k < a[n] + w[n])
        BY <2>1, TilesCover
      <4> QED BY <4>1, <2>4
    <3>2. \A i \in 1 .. n : TileHas(a, w, i, k) <=>
            clockOf(run[i]) <= k /\ k < clockOf(run[i]) + s.heap[run[i]].len
      <4> HIDE DEF n, a, w
      <4> QED BY <2>3 DEF TileHas
    <3> HIDE DEF n, a, w
    <3> QED BY <3>1, <3>2, <2>1, <2>2
  <2> QED BY <2>5, <2>6
<1>3. ASSUME NEW u \in Id
      PROVE  u \in Integrated(s) <=> clockOf(u) < Size(s, clientOf(u))
  <2>1. clientOf(u) \in Client /\ clockOf(u) \in Nat
    BY IdFacts
  <2> QED BY <2>1, <1>1, <1>2
<1> QED BY <1>1, <1>2, <1>3

\* The node GetNode finds is the one that has the unit.
THEOREM GetNodeIs ==
  ASSUME NEW s, Runs(s), NEW x \in Id
  PROVE  LET c == clientOf(x)
             i == getNodeIndex(s, c, clockOf(x))
             n == GetNode(s, x)
         IN  /\ hasNode(s, x) <=> x \in Integrated(s)
             /\ n = Nil => i = 0
             /\ n # Nil => /\ n \in DOMAIN s.heap /\ x \in Units(s, n)
                          /\ clientOf(n) = c /\ clockOf(n) <= clockOf(x)
                          /\ clockOf(x) < clockOf(n) + s.heap[n].len
                          /\ i \in DOMAIN s.items[c] /\ s.items[c][i] = n
<1> DEFINE c == clientOf(x)
           k == clockOf(x)
           run == s.items[c]
           i == getNodeIndex(s, c, k)
<1>0. s \in StoreType
  BY DEF Runs
<1>1. c \in Client /\ k \in Nat
  BY IdFacts
<1>2. RunOf(s, c)
  BY <1>1 DEF Runs
<1>3. \/ i \in DOMAIN run /\ clockOf(run[i]) <= k
         /\ k < clockOf(run[i]) + s.heap[run[i]].len
      \/ i = 0 /\ \A j \in DOMAIN run : ~ (clockOf(run[j]) <= k
                               /\ k < clockOf(run[j]) + s.heap[run[j]].len)
  <2>1. \A y \in DOMAIN s.heap : s.heap[y].len \in Nat \ {0}
    BY <1>0, HeapFacts
  <2> QED BY <1>1, <1>2, <2>1, NodeIndex
<1>4. GetNode(s, x) = IF i = 0 THEN Nil ELSE run[i]
  BY DEF GetNode
<1>5. /\ DOMAIN run = 1 .. Len(run)
      /\ \A j \in 1 .. Len(run) : run[j] \in DOMAIN s.heap /\ clientOf(run[j]) = c
  BY <1>1, RunTiles
<1>6. \A y \in DOMAIN s.heap : clientOf(y) = c => \E j \in DOMAIN run : run[j] = y
  <2> TAKE y \in DOMAIN s.heap
  <2> HAVE clientOf(y) = c
  <2>1. y \in ToSet(run)
    BY <1>2 DEF RunOf
  <2> QED BY <2>1 DEF ToSet
<1>7. x \in Integrated(s) <=> \E y \in DOMAIN s.heap :
         clientOf(y) = c /\ clockOf(y) <= k /\ k < clockOf(y) + s.heap[y].len
  BY Holds
<1>8. Nil \notin DOMAIN s.heap
  BY <1>0, HeapFacts
<1> HIDE DEF run, i
<1>9. CASE i = 0
  <2>1. GetNode(s, x) = Nil
    BY <1>9, <1>4
  <2>2. x \notin Integrated(s)
    BY <1>9, <1>3, <1>5, <1>6, <1>7
  <2> QED BY <1>9, <2>1, <2>2 DEF hasNode, run, i
<1>10. CASE i # 0
  <2> DEFINE n == run[i]
  <2>1. GetNode(s, x) = n
    BY <1>10, <1>4
  <2>2. /\ i \in DOMAIN run /\ n \in DOMAIN s.heap /\ clientOf(n) = c
        /\ clockOf(n) <= k /\ k < clockOf(n) + s.heap[n].len
    BY <1>10, <1>3, <1>5
  <2> HIDE DEF n
  <2>3. x \in Units(s, n)
    <3>1. n \in Id /\ s.heap[n].len \in Nat
      BY <2>2, <1>0, HeapFacts
    <3> QED BY <3>1, <2>2, IdsAre DEF Units
  <2>4. n # Nil /\ x \in Integrated(s)
    BY <2>2, <1>7, <1>8
  <2> QED BY <1>10, <2>1, <2>2, <2>3, <2>4 DEF hasNode, run, i, n
<1> QED BY <1>9, <1>10

-----------------------------------------------------------------------------
\* One more element, after the first i.
LEMMA Inserted ==
  ASSUME NEW A, NEW l \in Seq(A), NEW i \in 0 .. Len(l), NEW e \in A
  PROVE  LET m == InsertAt(l, i + 1, e)
         IN  /\ m \in Seq(A) /\ Len(m) = Len(l) + 1
             /\ \A j \in 1 .. Len(l) + 1 :
                   m[j] = IF j <= i THEN l[j] ELSE IF j = i + 1 THEN e ELSE l[j - 1]
             /\ ToSet(m) = ToSet(l) \cup {e}
             /\ IsInjective(l) /\ e \notin ToSet(l) => IsInjective(m)
<1> DEFINE n == Len(l)
           a == SubSeq(l, 1, i)
           b == SubSeq(l, i + 1, n)
           m == a \o <<e>> \o b
<1>1. n \in Nat /\ i \in Nat /\ i <= n /\ DOMAIN l = 1 .. n
  OBVIOUS
<1>2. a \in Seq(A) /\ Len(a) = i /\ \A j \in 1 .. i : a[j] = l[j]
  OBVIOUS
<1>3. b \in Seq(A) /\ Len(b) = n - i /\ \A j \in 1 .. n - i : b[j] = l[j + i]
  OBVIOUS
<1>4. InsertAt(l, i + 1, e) = m
  <2>1. (i + 1) - 1 = i
    BY <1>1
  <2> QED BY <2>1 DEF InsertAt
<1> HIDE DEF a, b
<1>5. /\ m \in Seq(A) /\ Len(m) = n + 1 /\ DOMAIN m = 1 .. n + 1
      /\ \A j \in 1 .. i : m[j] = a[j]
      /\ m[i + 1] = e
      /\ \A j \in 1 .. n - i : m[j + (i + 1)] = b[j]
  <2> DEFINE u == a \o <<e>>
  <2>1. u \in Seq(A) /\ Len(u) = i + 1 /\ u[i + 1] = e /\ \A j \in 1 .. i : u[j] = a[j]
    BY <1>1, <1>2
  <2>2. m = u \o b
    OBVIOUS
  <2> HIDE DEF u, m
  <2>3. m \in Seq(A) /\ Len(m) = (i + 1) + (n - i)
    <3>1. u \in Seq(A) /\ b \in Seq(A)
      BY <2>1, <1>3
    <3>2. u \o b \in Seq(A) /\ Len(u \o b) = Len(u) + Len(b)
      BY <3>1, ConcatProperties
    <3> QED BY <3>2, <2>1, <2>2, <1>3
  <2>4. Len(m) = n + 1 /\ DOMAIN m = 1 .. n + 1
    BY <2>3, <1>1
  <2>5. \A j \in 1 .. i : m[j] = a[j]
    BY <2>1, <2>2, <1>3, <1>1
  <2>6. m[i + 1] = e
    BY <2>1, <2>2, <1>3, <1>1
  <2>7. \A j \in 1 .. n - i : m[j + (i + 1)] = b[j]
    BY <2>1, <2>2, <1>3, <1>1
  <2> QED BY <2>3, <2>4, <2>5, <2>6, <2>7
<1> HIDE DEF m, n
<1>7. \A j \in 1 .. n + 1 :
         m[j] = IF j <= i THEN l[j] ELSE IF j = i + 1 THEN e ELSE l[j - 1]
  <2> TAKE j \in 1 .. n + 1
  <2>1. CASE j <= i
    BY <2>1, <1>1, <1>2, <1>5
  <2>2. CASE j = i + 1
    BY <2>2, <1>1, <1>5
  <2>3. CASE j > i + 1
    <3>1. j - (i + 1) \in 1 .. n - i /\ (j - (i + 1)) + (i + 1) = j
          /\ (j - (i + 1)) + i = j - 1
      BY <2>3, <1>1
    <3>2. m[(j - (i + 1)) + (i + 1)] = l[(j - (i + 1)) + i]
      BY <3>1, <1>5, <1>3
    <3>3. m[j] = l[j - 1]
      BY <3>1, <3>2
    <3> QED BY <2>3, <3>3, <1>1
  <2> QED BY <2>1, <2>2, <2>3, <1>1
<1>8. ToSet(m) = ToSet(l) \cup {e}
  <2>1. ToSet(m) = {m[j] : j \in 1 .. n + 1} /\ ToSet(l) = {l[j] : j \in 1 .. n}
    BY <1>1, <1>5 DEF ToSet
  <2>2. \A j \in 1 .. n + 1 : m[j] = e \/ \E k \in 1 .. n : m[j] = l[k]
    <3> TAKE j \in 1 .. n + 1
    <3>1. j <= i => j \in 1 .. n
      BY <1>1
    <3>2. j > i + 1 => j - 1 \in 1 .. n
      BY <1>1
    <3>3. j <= i \/ j = i + 1 \/ j > i + 1
      BY <1>1
    <3> QED BY <3>1, <3>2, <3>3, <1>7
  <2>3. \A k \in 1 .. n : \E j \in 1 .. n + 1 : m[j] = l[k]
    <3> TAKE k \in 1 .. n
    <3>1. CASE k <= i
      BY <3>1, <1>1, <1>7
    <3>2. CASE k > i
      <4>1. k + 1 \in 1 .. n + 1 /\ ~(k + 1 <= i) /\ k + 1 # i + 1 /\ (k + 1) - 1 = k
        BY <3>2, <1>1
      <4> QED BY <4>1, <1>7
    <3> QED BY <3>1, <3>2, <1>1
  <2>4. i + 1 \in 1 .. n + 1
    BY <1>1
  <2> QED BY <2>1, <2>2, <2>3, <2>4, <1>5
<1>9. ASSUME IsInjective(l), e \notin ToSet(l) PROVE IsInjective(m)
  <2>1. \A j, k \in 1 .. n : l[j] = l[k] => j = k
    BY <1>9, <1>1 DEF IsInjective
  <2>2. \A j \in 1 .. n : l[j] # e
    BY <1>9, <1>1 DEF ToSet
  <2> SUFFICES ASSUME NEW j \in 1 .. n + 1, NEW k \in 1 .. n + 1, m[j] = m[k] PROVE j = k
    BY <1>5 DEF IsInjective
  <2>3. /\ j <= i => j \in 1 .. n
        /\ j > i + 1 => j - 1 \in 1 .. n
        /\ k <= i => k \in 1 .. n
        /\ k > i + 1 => k - 1 \in 1 .. n
    BY <1>1
  <2>4. /\ j <= i \/ j = i + 1 \/ j > i + 1
        /\ k <= i \/ k = i + 1 \/ k > i + 1
    BY <1>1
  <2>5. CASE j <= i
    BY <2>1, <2>2, <2>3, <2>4, <2>5, <1>1, <1>7
  <2>6. CASE j = i + 1
    BY <2>1, <2>2, <2>3, <2>4, <2>6, <1>1, <1>7
  <2>7. CASE j > i + 1
    BY <2>1, <2>2, <2>3, <2>4, <2>7, <1>1, <1>7
  <2> QED BY <2>4, <2>5, <2>6, <2>7
<1> QED BY <1>4, <1>5, <1>7, <1>8, <1>9 DEF n

\* From store s to store r, node y was linked into list l of root type t, after
\* the first i nodes.
LinkedIn(s, r, t, l, i, y) ==
  LET a == IF i = 0 THEN Nil ELSE l[i]
      b == IF i = Len(l) THEN Nil ELSE l[i + 1]
  IN  /\ y \in Id /\ y \notin DOMAIN s.heap
      /\ DOMAIN r.heap = DOMAIN s.heap \cup {y}
      /\ r.heap[y].parent = t /\ r.heap[y].left = a /\ r.heap[y].right = b
      /\ \A z \in DOMAIN s.heap :
           /\ r.heap[z].parent = s.heap[z].parent
           /\ r.heap[z].left = IF z = b THEN y ELSE s.heap[z].left
           /\ r.heap[z].right = IF z = a THEN y ELSE s.heap[z].right
      /\ \A u \in Root : r.start[u] = IF u = t /\ i = 0 THEN y ELSE s.start[u]

\* A list one node was linked into is the list with that node inserted.
LEMMA ListGrows ==
  ASSUME NEW s \in StoreType, NEW r, NEW t \in Root, NEW l, ListOf(s, t, l),
         NEW i \in 0 .. Len(l), NEW y, LinkedIn(s, r, t, l, i, y)
  PROVE  ListOf(r, t, InsertAt(l, i + 1, y))
<1> DEFINE m == InsertAt(l, i + 1, y)
           n == Len(l)
           h == s.heap
           g == r.heap
<1>1. l \in Seq(Id) /\ n \in Nat /\ DOMAIN l = 1 .. n /\ i \in Nat /\ i <= n
  BY DEF ListOf
<1>2. /\ y \in Id /\ y \notin DOMAIN h /\ DOMAIN g = DOMAIN h \cup {y}
      /\ \A z \in DOMAIN h : g[z].parent = h[z].parent
      /\ g[y].parent = t
  BY DEF LinkedIn
<1>3. Nil \notin Id /\ Nil \notin DOMAIN h
  BY HeapFacts
<1>4. \A j \in 1 .. n : /\ l[j] \in DOMAIN h /\ l[j] \in Id /\ l[j] # y /\ l[j] # Nil
  <2> TAKE j \in 1 .. n
  <2>1. l[j] \in ToSet(l)
    BY <1>1 DEF ToSet
  <2> QED BY <2>1, <1>1, <1>2, <1>3 DEF ListOf
<1>5. y \notin ToSet(l)
  BY <1>2 DEF ListOf
<1>6. /\ m \in Seq(Id) /\ Len(m) = n + 1
      /\ \A j \in 1 .. n + 1 :
            m[j] = IF j <= i THEN l[j] ELSE IF j = i + 1 THEN y ELSE l[j - 1]
      /\ ToSet(m) = ToSet(l) \cup {y}
      /\ IsInjective(m)
  <2>1. l \in Seq(Id) /\ i \in 0 .. Len(l) /\ y \in Id
    BY <1>1, <1>2
  <2>2. /\ m \in Seq(Id) /\ Len(m) = n + 1
        /\ \A j \in 1 .. n + 1 :
              m[j] = IF j <= i THEN l[j] ELSE IF j = i + 1 THEN y ELSE l[j - 1]
        /\ ToSet(m) = ToSet(l) \cup {y}
        /\ IsInjective(l) /\ y \notin ToSet(l) => IsInjective(m)
    BY <2>1, Inserted
  <2>3. IsInjective(l)
    BY DEF ListOf
  <2> HIDE DEF m, n
  <2> QED BY <2>2, <2>3, <1>5
<1> HIDE DEF m, n, h, g
<1>7. ToSet(m) = {x \in DOMAIN g : g[x].parent = t}
  BY <1>2, <1>6 DEF ListOf, h
<1>8. m # <<>> /\ r.start[t] = m[1]
  <2>1. 1 \in 1 .. n + 1
    BY <1>1
  <2>2. m[1] = IF i = 0 THEN y ELSE l[1]
    BY <2>1, <1>1, <1>6
  <2>3. r.start[t] = IF i = 0 THEN y ELSE s.start[t]
    BY DEF LinkedIn
  <2>4. i # 0 => s.start[t] = l[1]
    BY <1>1 DEF ListOf, n
  <2>5. m # <<>>
    BY <1>1, <1>6
  <2> QED BY <2>2, <2>3, <2>4, <2>5
<1>9. ASSUME NEW j \in 1 .. n + 1
      PROVE  /\ g[m[j]].left = IF j = 1 THEN Nil ELSE m[j - 1]
             /\ g[m[j]].right = IF j = n + 1 THEN Nil ELSE m[j + 1]
  <2> DEFINE a == IF i = 0 THEN Nil ELSE l[i]
             b == IF i = n THEN Nil ELSE l[i + 1]
  <2>1. /\ g[y].left = a /\ g[y].right = b
        /\ \A z \in DOMAIN h : /\ g[z].left = IF z = b THEN y ELSE h[z].left
                               /\ g[z].right = IF z = a THEN y ELSE h[z].right
    BY DEF LinkedIn, n, g, h
  <2>2. \A k \in 1 .. n : /\ h[l[k]].left = IF k = 1 THEN Nil ELSE l[k - 1]
                          /\ h[l[k]].right = IF k = n THEN Nil ELSE l[k + 1]
    BY <1>1 DEF ListOf, n, h
  <2>3. \A k \in 1 .. n : (l[k] = a <=> k = i) /\ (l[k] = b <=> k = i + 1)
    <3>1. IsInjective(l)
      BY DEF ListOf
    <3>2. \A k, q \in 1 .. n : l[k] = l[q] => k = q
      BY <3>1, <1>1 DEF IsInjective
    <3>3. (i # 0 => i \in 1 .. n) /\ (i # n => i + 1 \in 1 .. n)
      BY <1>1
    <3> QED BY <3>2, <3>3, <1>1, <1>4
  <2> HIDE DEF a, b
  <2>4. /\ j - 1 # 0 => j - 1 \in 1 .. n + 1
        /\ j # n + 1 => j + 1 \in 1 .. n + 1
    BY <1>1
  <2>5. CASE j <= i
    <3>1. j \in 1 .. n /\ m[j] = l[j] /\ j # i + 1 /\ j # n + 1
      BY <2>5, <1>1, <1>6
    <3>2. g[m[j]].left = h[l[j]].left /\ g[m[j]].right = IF j = i THEN y ELSE h[l[j]].right
      BY <3>1, <1>4, <2>1, <2>3
    <3>3. j # 1 => m[j - 1] = l[j - 1]
      BY <2>5, <2>4, <1>1, <1>6
    <3>4. m[j + 1] = IF j = i THEN y ELSE l[j + 1]
      BY <2>5, <3>1, <2>4, <1>1, <1>6
    <3>5. j # i => j # n
      BY <2>5, <1>1
    <3> QED BY <3>1, <3>2, <3>3, <3>4, <3>5, <2>2
  <2>6. CASE j = i + 1
    <3>1. m[j] = y
      BY <2>6, <1>1, <1>6
    <3>2. j # 1 => m[j - 1] = l[i]
      BY <2>6, <2>4, <1>1, <1>6
    <3>3. j # n + 1 => m[j + 1] = l[i + 1]
      <4> HAVE j # n + 1
      <4>1. j + 1 \in 1 .. n + 1 /\ ~(j + 1 <= i) /\ j + 1 # i + 1 /\ (j + 1) - 1 = i + 1
        BY <2>6, <2>4, <1>1
      <4> QED BY <4>1, <1>6
    <3>4. (j = 1 <=> i = 0) /\ (j = n + 1 <=> i = n)
      BY <2>6, <1>1
    <3> QED BY <3>1, <3>2, <3>3, <3>4, <2>1 DEF a, b
  <2>7. CASE j > i + 1
    <3> DEFINE k == j - 1
    <3>1. k \in 1 .. n /\ m[j] = l[k] /\ k # i /\ k > i /\ j # 1
      BY <2>7, <1>1, <1>6
    <3>2. g[l[k]].right = h[l[k]].right /\ g[l[k]].left = IF k = i + 1 THEN y ELSE h[l[k]].left
      BY <3>1, <1>4, <2>1, <2>3
    <3>3. m[j - 1] = IF k = i + 1 THEN y ELSE l[k - 1]
      BY <2>7, <3>1, <2>4, <1>1, <1>6
    <3>4. j # n + 1 => m[j + 1] = l[k + 1]
      <4> HAVE j # n + 1
      <4>1. j + 1 \in 1 .. n + 1 /\ ~(j + 1 <= i) /\ j + 1 # i + 1 /\ (j + 1) - 1 = k + 1
        BY <2>7, <2>4, <1>1
      <4> QED BY <4>1, <1>6
    <3>5. (k # i + 1 => k # 1) /\ (k = n <=> j = n + 1)
      BY <2>7, <3>1, <1>1
    <3> HIDE DEF k
    <3> QED BY <3>1, <3>2, <3>3, <3>4, <3>5, <2>2
  <2> QED BY <2>5, <2>6, <2>7, <1>1
<1>10. DOMAIN m = 1 .. n + 1
  BY <1>6
<1> QED BY <1>6, <1>7, <1>8, <1>9, <1>10, SMTT(30) DEF ListOf, g, m

\* A node linked into one list leaves the others as they are.
LEMMA OtherLists ==
  ASSUME NEW s \in StoreType, NEW r, NEW t \in Root, NEW l, ListOf(s, t, l),
         NEW i \in 0 .. Len(l), NEW y, LinkedIn(s, r, t, l, i, y),
         NEW u \in Root, u # t, NEW m, ListOf(s, u, m)
  PROVE  ListOf(r, u, m)
<1> DEFINE h == s.heap
           g == r.heap
           a == IF i = 0 THEN Nil ELSE l[i]
           b == IF i = Len(l) THEN Nil ELSE l[i + 1]
<1>1. /\ y \in Id /\ y \notin DOMAIN h /\ DOMAIN g = DOMAIN h \cup {y}
      /\ g[y].parent = t
      /\ \A z \in DOMAIN h :
           /\ g[z].parent = h[z].parent
           /\ g[z].left = IF z = b THEN y ELSE h[z].left
           /\ g[z].right = IF z = a THEN y ELSE h[z].right
      /\ r.start[u] = s.start[u]
  <2>1. \A v \in Root : r.start[v] = IF v = t /\ i = 0 THEN y ELSE s.start[v]
    BY DEF LinkedIn
  <2>2. r.start[u] = s.start[u]
    BY <2>1
  <2>3. /\ y \in Id /\ y \notin DOMAIN h /\ DOMAIN g = DOMAIN h \cup {y}
        /\ g[y].parent = t
    BY DEF LinkedIn
  <2>4. \A z \in DOMAIN h : /\ g[z].parent = h[z].parent
                            /\ g[z].left = IF z = b THEN y ELSE h[z].left
                            /\ g[z].right = IF z = a THEN y ELSE h[z].right
    BY Zenon DEF LinkedIn
  <2> HIDE DEF a, b, g, h
  <2> QED BY <2>2, <2>3, <2>4
<1>2. \A j \in 1 .. Len(l) : l[j] \in DOMAIN h /\ h[l[j]].parent = t
  <2> TAKE j \in 1 .. Len(l)
  <2>1. l[j] \in ToSet(l)
    BY DEF ToSet, ListOf
  <2> QED BY <2>1 DEF ListOf
<1>3. a \in DOMAIN h \cup {Nil} /\ b \in DOMAIN h \cup {Nil}
      /\ (a # Nil => h[a].parent = t) /\ (b # Nil => h[b].parent = t)
  <2>1. (i # 0 => i \in 1 .. Len(l)) /\ (i # Len(l) => i + 1 \in 1 .. Len(l))
    BY DEF ListOf
  <2> QED BY <2>1, <1>2
<1>4. Nil \notin DOMAIN h
  BY HeapFacts
<1> HIDE DEF a, b
<1>5. \A j \in DOMAIN m : /\ m[j] \in DOMAIN h
                          /\ g[m[j]].left = h[m[j]].left
                          /\ g[m[j]].right = h[m[j]].right
  <2> TAKE j \in DOMAIN m
  <2>1. m[j] \in ToSet(m)
    BY DEF ToSet
  <2>2. m[j] \in DOMAIN h /\ h[m[j]].parent = u
    BY <2>1 DEF ListOf
  <2>3. m[j] # a /\ m[j] # b
    BY <2>2, <1>3, <1>4
  <2> HIDE DEF h, g
  <2> QED BY <2>2, <2>3, <1>1
<1>6. ToSet(m) = {x \in DOMAIN g : g[x].parent = u}
  BY <1>1 DEF ListOf
<1>7. m \in Seq(Id) /\ IsInjective(m) /\ s.start[u] = IF m = <<>> THEN Nil ELSE m[1]
  BY DEF ListOf
<1>8. \A j \in DOMAIN m : /\ h[m[j]].left = IF j = 1 THEN Nil ELSE m[j - 1]
                          /\ h[m[j]].right = IF j = Len(m) THEN Nil ELSE m[j + 1]
  BY DEF ListOf
<1>9. \A j \in DOMAIN m : /\ g[m[j]].left = IF j = 1 THEN Nil ELSE m[j - 1]
                          /\ g[m[j]].right = IF j = Len(m) THEN Nil ELSE m[j + 1]
  <2> HIDE DEF g, h
  <2> QED BY <1>5, <1>8
<1>10. r.start[u] = IF m = <<>> THEN Nil ELSE m[1]
  BY <1>1, <1>7
<1> QED BY <1>6, <1>7, <1>9, <1>10 DEF ListOf

-----------------------------------------------------------------------------
\* What splitNode does to the fields of a store.
LEMMA SplitFields ==
  ASSUME NEW s, Runs(s), NEW x \in DOMAIN s.heap, NEW d \in 1 .. s.heap[x].len - 1
  PROVE  LET y == Add(x, d)
             h == s.heap
             r == splitNode(s, x, d)
             g == r.heap
             c == clientOf(x)
         IN  /\ y \in Id /\ y \notin DOMAIN h /\ x # y
             /\ clientOf(y) = c /\ clockOf(y) = clockOf(x) + d
             /\ r \in StoreType /\ Frame(s, r) /\ r.start = s.start /\ r.len = s.len
             /\ DOMAIN g = DOMAIN h \cup {y} /\ g \in Heap
             /\ g[y].originLeftId = Add(x, d - 1) /\ g[y].originRightId = h[x].originRightId
             /\ g[y].left = x /\ g[y].right = h[x].right
             /\ g[y].parent = h[x].parent /\ g[y].len = h[x].len - d
             /\ g[y].deleted = h[x].deleted
             /\ \A z \in DOMAIN h :
                  /\ g[z].originLeftId = h[z].originLeftId
                  /\ g[z].originRightId = h[z].originRightId
                  /\ g[z].left = IF z = h[x].right THEN y ELSE h[z].left
                  /\ g[z].right = IF z = x THEN y ELSE h[z].right
                  /\ g[z].parent = h[z].parent
                  /\ g[z].len = IF z = x THEN d ELSE h[z].len
                  /\ g[z].deleted = h[z].deleted
             /\ \E i \in DOMAIN s.items[c] :
                  /\ s.items[c][i] = x
                  /\ r.items = [s.items EXCEPT ![c] = InsertAt(s.items[c], i + 1, y)]
<1> DEFINE y == Add(x, d)
           h == s.heap
           r == splitNode(s, x, d)
           c == clientOf(x)
           rest == [h[x] EXCEPT !.originLeftId = Add(x, d - 1), !.left = x, !.len = h[x].len - d]
           kept == [h EXCEPT ![x].len = d, ![x].right = y]
           old == IF h[x].right = Nil THEN kept ELSE [kept EXCEPT ![h[x].right].left = y]
           g == alloc(old, y, rest)
           i == getNodeIndex(s, c, clockOf(x))
<1>0. s \in StoreType
  BY DEF Runs
<1>1. /\ x \in Id /\ h[x] \in Node /\ h[x].len \in Nat \ {0} /\ d \in Nat /\ d > 0 /\ d < h[x].len
      /\ c \in Client /\ clockOf(x) \in Nat
  <2>1. x \in Id /\ h[x] \in Node /\ h[x].len \in Nat \ {0}
    BY <1>0, HeapFacts
  <2>2. c \in Client /\ clockOf(x) \in Nat
    BY <2>1, IdFacts
  <2> QED BY <2>1, <2>2
<1>2. y \in Id /\ clientOf(y) = c /\ clockOf(y) = clockOf(x) + d /\ x # y
  <2>1. y \in Id /\ clientOf(y) = c /\ clockOf(y) = clockOf(x) + d
    BY <1>1, IdFacts
  <2> HIDE DEF y
  <2> QED BY <2>1, <1>1
<1>3. y \notin DOMAIN h
  <2> SUFFICES ASSUME y \in DOMAIN h PROVE FALSE
    OBVIOUS
  <2> HIDE DEF y
  <2>1. y \in Units(s, x)
    BY <1>1, <1>2, IdsAre DEF Units
  <2>2. y \in Units(s, y)
    <3>1. h[y].len \in Nat \ {0} /\ clockOf(y) \in Nat
      BY <1>0, <1>2, HeapFacts, IdFacts
    <3> QED BY <3>1, <1>2, IdsAre DEF Units
  <2> QED BY <2>1, <2>2, <1>2, NodesApart
<1>4. r = [s EXCEPT !.heap = g, !.items = [s.items EXCEPT ![c] = InsertAt(s.items[c], i + 1, y)]]
  BY <1>0 DEF splitNode, splitItem, StoreType
<1>5. i \in DOMAIN s.items[c] /\ s.items[c][i] = x
  <2>1. x \in Units(s, x)
    BY <1>1, IdsAre DEF Units
  <2>2. GetNode(s, x) # Nil
    <3>1. x \in Integrated(s)
      BY <2>1 DEF Integrated
    <3> QED BY <3>1, <1>1, GetNodeIs DEF hasNode
  <2>3. GetNode(s, x) \in DOMAIN h /\ x \in Units(s, GetNode(s, x))
        /\ i \in DOMAIN s.items[c] /\ s.items[c][i] = GetNode(s, x)
    BY <2>2, <1>1, GetNodeIs
  <2> QED BY <2>1, <2>3, NodesApart
<1>6. DOMAIN old = DOMAIN h
  OBVIOUS
<1>7. \A z \in DOMAIN h :
         /\ old[z] \in Node
         /\ old[z].originLeftId = h[z].originLeftId
         /\ old[z].originRightId = h[z].originRightId
         /\ old[z].left = IF z = h[x].right THEN y ELSE h[z].left
         /\ old[z].right = IF z = x THEN y ELSE h[z].right
         /\ old[z].parent = h[z].parent
         /\ old[z].len = IF z = x THEN d ELSE h[z].len
         /\ old[z].deleted = h[z].deleted
  <2> TAKE z \in DOMAIN h
  <2>1. h[z] \in Node /\ Nil \notin DOMAIN h /\ y \in OptId /\ d \in Nat \ {0}
    BY <1>0, <1>1, <1>2, HeapFacts DEF OptId
  <2>2. kept[z] = IF z = x THEN [h[x] EXCEPT !.len = d, !.right = y] ELSE h[z]
    OBVIOUS
  <2>3. old[z] = IF z = h[x].right THEN [kept[z] EXCEPT !.left = y] ELSE kept[z]
    <3> HIDE DEF y
    <3> QED BY <2>1
  <2> HIDE DEF kept, old, y
  <2>4. /\ kept[z] \in Node
        /\ kept[z].originLeftId = h[z].originLeftId
        /\ kept[z].originRightId = h[z].originRightId
        /\ kept[z].left = h[z].left
        /\ kept[z].right = IF z = x THEN y ELSE h[z].right
        /\ kept[z].parent = h[z].parent
        /\ kept[z].len = IF z = x THEN d ELSE h[z].len
        /\ kept[z].deleted = h[z].deleted
    <3>1. CASE z = x
      BY <3>1, <2>1, <2>2 DEF Node
    <3>2. CASE z # x
      BY <3>2, <2>1, <2>2
    <3> QED BY <3>1, <3>2
  <2>5. CASE z = h[x].right
    <3>1. old[z] = [kept[z] EXCEPT !.left = y]
      BY <2>3, <2>5
    <3> QED BY <3>1, <2>1, <2>4, <2>5 DEF Node
  <2>6. CASE z # h[x].right
    BY <2>3, <2>4, <2>6
  <2> QED BY <2>5, <2>6
<1>7a. /\ rest \in Node
       /\ rest.originLeftId = Add(x, d - 1) /\ rest.originRightId = h[x].originRightId
       /\ rest.left = x /\ rest.right = h[x].right
       /\ rest.parent = h[x].parent /\ rest.len = h[x].len - d
       /\ rest.deleted = h[x].deleted
  <2>1. d - 1 \in Nat /\ h[x].len - d \in Nat \ {0}
    BY <1>1
  <2>2. Add(x, d - 1) \in OptId /\ x \in OptId
    BY <2>1, <1>1, IdFacts DEF OptId
  <2> QED BY <2>1, <2>2, <1>1 DEF Node
<1>8. /\ DOMAIN g = DOMAIN h \cup {y} /\ g[y] = rest /\ \A z \in DOMAIN h : g[z] = old[z]
      /\ g \in Heap
  <2> HIDE DEF rest, old, y
  <2>1. /\ DOMAIN g = DOMAIN h \cup {y} /\ g[y] = rest /\ \A z \in DOMAIN h : g[z] = old[z]
        /\ g = [z \in DOMAIN g |-> g[z]]
    BY <1>3, <1>6 DEF alloc
  <2>2. \A z \in DOMAIN g : g[z] \in Node
    BY <2>1, <1>7, <1>7a
  <2>3. DOMAIN g \in SUBSET Id
    BY <2>1, <1>0, <1>2, HeapFacts
  <2> HIDE DEF g
  <2>4. g \in [DOMAIN g -> Node]
    BY <2>1, <2>2
  <2> QED BY <2>1, <2>3, <2>4 DEF Heap
<1>9. r.heap = g /\ r.items = [s.items EXCEPT ![c] = InsertAt(s.items[c], i + 1, y)]
  <2> HIDE DEF g, y, i, c, r
  <2> QED BY <1>0, <1>4 DEF StoreType
<1> HIDE DEF g, y, i, c, r, old, rest
<1>10. r \in StoreType /\ Frame(s, r) /\ r.start = s.start /\ r.len = s.len
  <2> DEFINE items == [s.items EXCEPT ![c] = InsertAt(s.items[c], i + 1, y)]
  <2>1. items \in [Client -> Seq(Id)]
    <3>1. s.items \in [Client -> Seq(Id)]
      BY <1>0 DEF StoreType
    <3>2. i \in 0 .. Len(s.items[c]) /\ s.items[c] \in Seq(Id)
      BY <1>1, <1>5, <3>1
    <3>3. InsertAt(s.items[c], i + 1, y) \in Seq(Id)
      BY <3>2, <1>2, Inserted
    <3> QED BY <3>1, <3>3, <1>1
  <2> HIDE DEF items, g, r
  <2>2. r = [s EXCEPT !.heap = g, !.items = items]
    BY <1>4 DEF items
  <2> QED BY <2>1, <2>2, <1>0, <1>8 DEF StoreType, Frame
<1>11. /\ DOMAIN r.heap = DOMAIN h \cup {y} /\ r.heap[y] = rest
       /\ r.heap \in Heap /\ \A z \in DOMAIN h : r.heap[z] = old[z]
  BY <1>8, <1>9
<1> QED BY <1>2, <1>3, <1>5, <1>7, <1>7a, <1>9, <1>10, <1>11 DEF y, i, c, r

\* A store with a list for each of its root types.
LEMMA ListsAreChains ==
  ASSUME NEW s \in StoreType, \A t \in Root : \E l : ListOf(s, t, l)
  PROVE  Linked(s) /\ \A t \in Root : \A l : ListOf(s, t, l) => Chain(s, t) = l
<1> DEFINE f == [t \in Root |-> CHOOSE l : ListOf(s, t, l)]
<1>1. DOMAIN s.heap \subseteq Id /\ \A x \in DOMAIN s.heap : s.heap[x].parent \in Root
  BY HeapFacts
<1>2. ASSUME NEW g \in [Root -> Seq(Id)], \A t \in Root : ListOf(s, t, g[t])
      PROVE  \A t \in Root : Chain(s, t) = g[t]
  BY <1>1, <1>2, ChainIs
<1>3. \A t \in Root : ListOf(s, t, f[t])
  OBVIOUS
<1>4. f \in [Root -> Seq(Id)]
  BY <1>3 DEF ListOf
<1>5. ASSUME NEW t \in Root, NEW l, ListOf(s, t, l)
      PROVE  Chain(s, t) = l
  <2> DEFINE g == [f EXCEPT ![t] = l]
  <2>1. \A u \in Root : ListOf(s, u, g[u])
    BY <1>3, <1>4, <1>5
  <2>2. g \in [Root -> Seq(Id)] /\ g[t] = l
    BY <1>4, <1>5 DEF ListOf
  <2> HIDE DEF g
  <2> QED BY <2>1, <2>2, <1>2
<1> HIDE DEF f
<1>6. \A t \in Root : Chain(s, t) = f[t]
  BY <1>2, <1>3, <1>4
<1> QED BY <1>3, <1>5, <1>6 DEF Linked

\* The two parts of a run that is cut hold its units.
LEMMA CutIds ==
  ASSUME NEW x \in Id, NEW n \in Nat, NEW d \in 0 .. n
  PROVE  Ids(x, n) = Ids(x, d) \cup Ids(Add(x, d), n - d)
<1>1. /\ Add(x, d) \in Id /\ clientOf(Add(x, d)) = clientOf(x)
      /\ clockOf(Add(x, d)) = clockOf(x) + d /\ clockOf(x) \in Nat
      /\ n - d \in Nat /\ d \in Nat
  <2>1. n - d \in Nat /\ d \in Nat
    OBVIOUS
  <2> QED BY <2>1, IdFacts
<1> SUFFICES ASSUME NEW u PROVE u \in Ids(x, n) <=> u \in Ids(x, d) \/ u \in Ids(Add(x, d), n - d)
  OBVIOUS
<1>2. u \in Ids(x, n) <=> /\ u \in Id /\ clientOf(u) = clientOf(x)
                         /\ clockOf(x) <= clockOf(u) /\ clockOf(u) < clockOf(x) + n
  BY IdsAre
<1>3. u \in Ids(x, d) <=> /\ u \in Id /\ clientOf(u) = clientOf(x)
                         /\ clockOf(x) <= clockOf(u) /\ clockOf(u) < clockOf(x) + d
  BY <1>1, IdsAre
<1>4. u \in Ids(Add(x, d), n - d) <=>
        /\ u \in Id /\ clientOf(u) = clientOf(x)
        /\ clockOf(x) + d <= clockOf(u) /\ clockOf(u) < (clockOf(x) + d) + (n - d)
  BY <1>1, IdsAre
<1>5. u \in Id => clockOf(u) \in Nat
  BY IdFacts
<1> QED BY <1>1, <1>2, <1>3, <1>4, <1>5

\* Sequence m is sequence l with e after its first i elements.
Inserts(A, l, i, e, m) ==
  /\ m \in Seq(A) /\ Len(m) = Len(l) + 1
  /\ \A j \in 1 .. Len(l) + 1 :
        m[j] = IF j <= i THEN l[j] ELSE IF j = i + 1 THEN e ELSE l[j - 1]
  /\ ToSet(m) = ToSet(l) \cup {e}
  /\ IsInjective(l) /\ e \notin ToSet(l) => IsInjective(m)

\* InsertAt inserts.
LEMMA InsertedAs ==
  ASSUME NEW A, NEW l \in Seq(A), NEW i \in 0 .. Len(l), NEW e \in A
  PROVE  Inserts(A, l, i, e, InsertAt(l, i + 1, e))
BY Inserted DEF Inserts

\* One more node in a list leaves the order of the others as it is.
LEMMA InsertedOrder ==
  ASSUME NEW s, NEW r, NEW l \in Seq(Id), NEW i \in 0 .. Len(l), NEW y \in Id,
         \A j \in 1 .. Len(l) : Units(r, l[j]) = Units(s, l[j])
  PROVE  OrderOf(s, l) \subseteq OrderOf(r, InsertAt(l, i + 1, y))
<1> DEFINE m == InsertAt(l, i + 1, y)
           n == Len(l)
           at(k) == IF k <= i THEN k ELSE k + 1
<1>1. /\ m \in Seq(Id) /\ Len(m) = n + 1
      /\ \A j \in 1 .. n + 1 :
            m[j] = IF j <= i THEN l[j] ELSE IF j = i + 1 THEN y ELSE l[j - 1]
      /\ ToSet(m) = ToSet(l) \cup {y}
      /\ IsInjective(l) /\ y \notin ToSet(l) => IsInjective(m)
  BY Inserted
<1>2. n \in Nat /\ DOMAIN l = 1 .. n /\ i \in Nat
  OBVIOUS
<1> HIDE DEF m, n
<1>3. \A k \in 1 .. n : at(k) \in 1 .. n + 1 /\ m[at(k)] = l[k]
  <2> TAKE k \in 1 .. n
  <2>1. CASE k <= i
    <3>1. k \in 1 .. n + 1
      BY <1>2
    <3> QED BY <2>1, <3>1, <1>1
  <2>2. CASE ~(k <= i)
    <3>1. k + 1 \in 1 .. n + 1 /\ ~(k + 1 <= i) /\ k + 1 # i + 1 /\ (k + 1) - 1 = k
      BY <2>2, <1>2
    <3> QED BY <2>2, <3>1, <1>1
  <2> QED BY <2>1, <2>2
<1>4. \A j, k \in 1 .. n : j < k => at(j) < at(k)
  BY <1>2
<1> HIDE DEF at
<1>5. DOMAIN m = 1 .. n + 1
  BY <1>1, <1>2
<1>6. \A j \in 1 .. n : Units(r, m[at(j)]) = Units(s, l[j])
  BY <1>3 DEF n
<1> SUFFICES ASSUME NEW p \in OrderOf(s, l) PROVE p \in OrderOf(r, m)
  BY DEF m
<1>7. PICK j \in 1 .. n, k \in 1 .. n :
        /\ p[1] \in Units(s, l[j]) /\ p[2] \in Units(s, l[k])
        /\ j < k \/ (j = k /\ clockOf(p[1]) <= clockOf(p[2]))
  BY <1>2 DEF OrderOf
<1>8. p \in Id \X Id
  BY DEF OrderOf
<1>9. /\ p[1] \in Units(r, m[at(j)]) /\ p[2] \in Units(r, m[at(k)])
      /\ at(j) < at(k) \/ (at(j) = at(k) /\ clockOf(p[1]) <= clockOf(p[2]))
  BY <1>4, <1>6, <1>7
<1> QED BY <1>3, <1>5, <1>8, <1>9 DEF OrderOf

\* A node cut in a list leaves the order of the units as it is.
LEMMA CutOrder ==
  ASSUME NEW s, NEW r, NEW l \in Seq(Id), NEW i \in 1 .. Len(l), NEW y \in Id,
         NEW x \in Id, l[i] = x, NEW n \in Nat, NEW d \in 0 .. n, y = Add(x, d),
         Units(s, x) = Ids(x, n), Units(r, x) = Ids(x, d), Units(r, y) = Ids(y, n - d),
         \A j \in 1 .. Len(l) : j # i => Units(r, l[j]) = Units(s, l[j])
  PROVE  OrderOf(s, l) \subseteq OrderOf(r, InsertAt(l, i + 1, y))
<1> DEFINE m == InsertAt(l, i + 1, y)
           e == Len(l)
<1>0. e \in Nat /\ DOMAIN l = 1 .. e /\ i \in Nat /\ i \in 0 .. e
  OBVIOUS
<1>1. /\ m \in Seq(Id) /\ Len(m) = e + 1
      /\ \A j \in 1 .. e + 1 :
            m[j] = IF j <= i THEN l[j] ELSE IF j = i + 1 THEN y ELSE l[j - 1]
      /\ ToSet(m) = ToSet(l) \cup {y}
      /\ IsInjective(l) /\ y \notin ToSet(l) => IsInjective(m)
  <2>1. l \in Seq(Id) /\ i \in 0 .. Len(l) /\ y \in Id
    BY <1>0
  <2>2. Inserts(Id, l, i, y, InsertAt(l, i + 1, y))
    BY <2>1, InsertedAs
  <2> QED BY <2>2 DEF Inserts
<1> HIDE DEF m, e
<1>2. DOMAIN m = 1 .. e + 1
  BY <1>1, <1>0
<1>3. \A u \in Units(s, x) : u \in Units(r, x) \/ u \in Units(r, y)
  BY CutIds
<1>4. ASSUME NEW u \in Units(r, y), NEW v \in Units(r, x)
      PROVE  ~(clockOf(u) <= clockOf(v))
  <2>1. /\ d \in Nat /\ n - d \in Nat /\ clockOf(x) \in Nat /\ clockOf(y) = clockOf(x) + d
    <3>1. d \in Nat /\ n - d \in Nat
      OBVIOUS
    <3> QED BY <3>1, IdFacts
  <2>2. v \in Id /\ clockOf(v) < clockOf(x) + d
    BY <2>1, IdsAre
  <2>3. u \in Id /\ clockOf(y) <= clockOf(u)
    BY <2>1, IdsAre
  <2>4. clockOf(u) \in Nat /\ clockOf(v) \in Nat
    BY <2>2, <2>3, IdFacts
  <2> QED BY <2>1, <2>2, <2>3, <2>4
\* Where unit u of the k-th node of l is in m.
<1> DEFINE at(k, u) == IF k < i THEN k ELSE IF k > i THEN k + 1
                       ELSE IF u \in Units(r, x) THEN i ELSE i + 1
<1>5. ASSUME NEW k \in 1 .. e, NEW u \in Units(s, l[k])
      PROVE  at(k, u) \in 1 .. e + 1 /\ u \in Units(r, m[at(k, u)])
  <2>1. CASE k < i
    <3>1. k \in 1 .. e + 1 /\ k <= i /\ k # i
      BY <2>1, <1>0
    <3>2. m[k] = l[k] /\ Units(r, l[k]) = Units(s, l[k])
      BY <3>1, <1>1 DEF e
    <3> QED BY <2>1, <3>1, <3>2
  <2>2. CASE k > i
    <3>1. k + 1 \in 1 .. e + 1 /\ ~(k + 1 <= i) /\ k + 1 # i + 1 /\ (k + 1) - 1 = k /\ ~(k < i) /\ k # i
      BY <2>2, <1>0
    <3>2. m[k + 1] = l[k] /\ Units(r, l[k]) = Units(s, l[k])
      BY <3>1, <1>1 DEF e
    <3> QED BY <2>2, <3>1, <3>2
  <2>3. CASE k = i
    <3>1. i \in 1 .. e + 1 /\ i + 1 \in 1 .. e + 1 /\ i <= i /\ ~(i + 1 <= i) /\ ~(i < i) /\ ~(i > i)
      BY <2>3, <1>0
    <3>2. m[i] = x /\ m[i + 1] = y
      BY <3>1, <1>1
    <3> QED BY <2>3, <3>1, <3>2, <1>3
  <2> QED BY <2>1, <2>2, <2>3, <1>0
<1> SUFFICES ASSUME NEW p \in OrderOf(s, l) PROVE p \in OrderOf(r, m)
  BY DEF m
<1>6. PICK j \in 1 .. e, k \in 1 .. e :
        /\ p[1] \in Units(s, l[j]) /\ p[2] \in Units(s, l[k])
        /\ j < k \/ (j = k /\ clockOf(p[1]) <= clockOf(p[2]))
  BY <1>0 DEF OrderOf
<1>7. p \in Id \X Id
  BY DEF OrderOf
<1>8. \/ at(j, p[1]) < at(k, p[2])
      \/ at(j, p[1]) = at(k, p[2]) /\ clockOf(p[1]) <= clockOf(p[2])
  <2>1. CASE j < k
    BY <2>1, <1>0
  <2>2. CASE j = k /\ clockOf(p[1]) <= clockOf(p[2]) /\ j # i
    BY <2>2, <1>0
  <2>3. CASE j = k /\ clockOf(p[1]) <= clockOf(p[2]) /\ j = i
    <3>1. p[1] \notin Units(r, x) => p[1] \in Units(r, y)
      BY <2>3, <1>3, <1>6
    <3>2. p[1] \notin Units(r, x) => p[2] \notin Units(r, x)
      BY <2>3, <3>1, <1>4
    <3> QED BY <2>3, <3>2, <1>0
  <2> QED BY <2>1, <2>2, <2>3, <1>6
<1> DEFINE a == at(j, p[1])
           b == at(k, p[2])
<1>9. /\ a \in 1 .. e + 1 /\ b \in 1 .. e + 1
      /\ p[1] \in Units(r, m[a]) /\ p[2] \in Units(r, m[b])
      /\ a < b \/ (a = b /\ clockOf(p[1]) <= clockOf(p[2]))
  BY <1>5, <1>6, <1>8
<1> HIDE DEF a, b
<1> QED BY <1>2, <1>7, <1>9 DEF OrderOf

\* A split changes no unit and keeps the lists.
THEOREM SplitKeeps ==
  ASSUME NEW s, Sound(s), NEW x \in DOMAIN s.heap, NEW d \in 1 .. s.heap[x].len - 1
  PROVE  LET y == Add(x, d)
             r == splitNode(s, x, d)
         IN  /\ Sound(r)
             /\ Frame(s, r) /\ r.len = s.len
             /\ Integrated(r) = Integrated(s) /\ Tombstones(r) = Tombstones(s)
             /\ \A t \in Root : Live(r, t) = Live(s, t)
             /\ \A t \in Root : Before(s, t) \subseteq Before(r, t)
             /\ y \in Id /\ y \notin DOMAIN s.heap
             /\ DOMAIN r.heap = DOMAIN s.heap \cup {y}
             /\ r.heap[x].len = d /\ r.heap[y].len = s.heap[x].len - d
             /\ r.heap[x].right = y
             /\ r.heap[y].parent = s.heap[x].parent
             /\ \A z \in DOMAIN s.heap : /\ r.heap[z].parent = s.heap[z].parent
                                         /\ z # x => r.heap[z].len = s.heap[z].len
<1> DEFINE y == Add(x, d)
           h == s.heap
           r == splitNode(s, x, d)
           g == r.heap
           c == clientOf(x)
           t == h[x].parent
           n == h[x].len
           l == Chain(s, t)
<1>0. s \in StoreType /\ Runs(s) /\ Linked(s)
  BY DEF Sound, Runs
<1>1. /\ x \in Id /\ h[x] \in Node /\ n \in Nat \ {0} /\ t \in Root
      /\ d \in Nat /\ 0 < d /\ d < n /\ n - d \in Nat \ {0} /\ c \in Client /\ clockOf(x) \in Nat
  <2>1. x \in Id /\ h[x] \in Node /\ n \in Nat \ {0} /\ t \in Root
    BY <1>0, HeapFacts
  <2>2. c \in Client /\ clockOf(x) \in Nat
    BY <2>1, IdFacts
  <2> QED BY <2>1, <2>2
<1>2. /\ y \in Id /\ y \notin DOMAIN h /\ x # y
      /\ clientOf(y) = c /\ clockOf(y) = clockOf(x) + d
      /\ r \in StoreType /\ Frame(s, r) /\ r.start = s.start /\ r.len = s.len
      /\ DOMAIN g = DOMAIN h \cup {y} /\ g \in Heap
      /\ g[y].parent = t /\ g[y].deleted = h[x].deleted /\ g[y].len = n - d
      /\ g[y].left = x /\ g[y].right = h[x].right
      /\ \A z \in DOMAIN h :
           /\ g[z].parent = h[z].parent /\ g[z].deleted = h[z].deleted
           /\ g[z].len = IF z = x THEN d ELSE h[z].len
           /\ g[z].left = IF z = h[x].right THEN y ELSE h[z].left
           /\ g[z].right = IF z = x THEN y ELSE h[z].right
  BY <1>0, SplitFields
<1>3. PICK k \in DOMAIN s.items[c] :
         /\ s.items[c][k] = x
         /\ r.items = [s.items EXCEPT ![c] = InsertAt(s.items[c], k + 1, y)]
  BY <1>0, SplitFields
<1> HIDE DEF y, r, g, h, c, t, n, l
<1>4. /\ g[y].len = n - d /\ x \in DOMAIN h
      /\ \A z \in DOMAIN h : g[z].len = IF z = x THEN d ELSE h[z].len
  BY <1>2 DEF h
<1>6. ASSUME NEW e \in Client PROVE RunOf(r, e)
  <2> DEFINE run == s.items[e]
             new == r.items[e]
             m == Len(run)
  <2>1. RunOf(s, e) /\ run \in Seq(Id) /\ m \in Nat /\ DOMAIN run = 1 .. m
    <3>1. RunOf(s, e)
      BY <1>0 DEF Runs
    <3> QED BY <3>1 DEF RunOf
  <2>2. \A j \in 1 .. m : run[j] \in DOMAIN h /\ clientOf(run[j]) = e
    BY <1>0, RunTiles DEF h
  <2>3. \A j \in 1 .. m : clockOf(run[j]) = IF j = 1 THEN 0
                               ELSE clockOf(run[j - 1]) + h[run[j - 1]].len
    BY <2>1 DEF RunOf, h
  <2>4. ToSet(run) = {z \in DOMAIN h : clientOf(z) = e}
    BY <2>1 DEF RunOf, h
  <2>5. s.items \in [Client -> Seq(Id)]
    BY <1>0 DEF StoreType
  <2>6. CASE e # c
    <3>1. new = run
      BY <2>5, <2>6, <1>3
    <3>2. ToSet(new) = {z \in DOMAIN g : clientOf(z) = e}
      <4>1. y \notin {z \in DOMAIN g : clientOf(z) = e}
        BY <2>6, <1>2
      <4> HIDE DEF new, run
      <4> QED BY <4>1, <3>1, <2>4, <1>2
    <3>3. \A j \in 1 .. m : g[run[j]].len = h[run[j]].len
      BY <2>2, <2>6, <1>4 DEF c
    <3>4. \A j \in 1 .. m : j # 1 => j - 1 \in 1 .. m
      BY <2>1
    <3> HIDE DEF run, new, m
    <3>5. \A j \in 1 .. m : clockOf(new[j]) = IF j = 1 THEN 0
                               ELSE clockOf(new[j - 1]) + g[new[j - 1]].len
      BY <3>1, <3>3, <3>4, <2>3
    <3> QED BY <3>1, <3>2, <3>5, <2>1 DEF RunOf, run, new, g
  <2>7. CASE e = c
    <3>1. new = InsertAt(run, k + 1, y) /\ k \in 1 .. m /\ run[k] = x
      BY <2>1, <2>5, <2>7, <1>3
    <3>2. /\ new \in Seq(Id) /\ Len(new) = m + 1 /\ DOMAIN new = 1 .. m + 1
          /\ \A j \in 1 .. m + 1 :
                new[j] = IF j <= k THEN run[j] ELSE IF j = k + 1 THEN y ELSE run[j - 1]
          /\ ToSet(new) = ToSet(run) \cup {y}
      <4>1. k \in 0 .. Len(run)
        BY <3>1
      <4>2. /\ InsertAt(run, k + 1, y) \in Seq(Id)
            /\ Len(InsertAt(run, k + 1, y)) = Len(run) + 1
            /\ \A j \in 1 .. Len(run) + 1 :
                  InsertAt(run, k + 1, y)[j]
                    = IF j <= k THEN run[j] ELSE IF j = k + 1 THEN y ELSE run[j - 1]
            /\ ToSet(InsertAt(run, k + 1, y)) = ToSet(run) \cup {y}
        <5>1. run \in Seq(Id) /\ k \in 0 .. Len(run) /\ y \in Id
          BY <2>1, <1>2, <4>1
        <5> HIDE DEF run
        <5> DEFINE q == InsertAt(run, k + 1, y)
        <5>2. /\ q \in Seq(Id) /\ Len(q) = Len(run) + 1
              /\ \A j \in 1 .. Len(run) + 1 :
                    q[j] = IF j <= k THEN run[j] ELSE IF j = k + 1 THEN y ELSE run[j - 1]
              /\ ToSet(q) = ToSet(run) \cup {y}
              /\ IsInjective(run) /\ y \notin ToSet(run) => IsInjective(q)
          BY <5>1, Inserted
        <5> QED BY <5>2
      <4> HIDE DEF new
      <4> QED BY <4>2, <3>1
    <3>3. ToSet(new) = {z \in DOMAIN g : clientOf(z) = e}
      BY <3>2, <2>4, <2>7, <1>2
    <3>4. \A i, j \in 1 .. m : run[i] = run[j] => i = j
      <4> DEFINE a == [j \in 1 .. m |-> clockOf(run[j])]
                 w == [j \in 1 .. m |-> s.heap[run[j]].len]
      <4>1. Tiles(a, w, m)
        BY <1>0, RunTiles
      <4>2. \A i, j \in 1 .. m : i < j => a[i] + w[i] <= a[j]
        <5> HIDE DEF a, w
        <5> QED BY <2>1, <4>1, TilesOrdered
      <4>3. \A j \in 1 .. m : a[j] = clockOf(run[j]) /\ a[j] \in Nat /\ w[j] \in Nat \ {0}
        BY <4>1 DEF Tiles
      <4> HIDE DEF a, w
      <4>4. \A i, j \in 1 .. m : i < j => clockOf(run[i]) # clockOf(run[j])
        BY <4>2, <4>3
      <4> TAKE i, j \in 1 .. m
      <4> QED BY <4>4, <2>1
    <3>5. \A j \in 1 .. m : g[run[j]].len = IF j = k THEN d ELSE h[run[j]].len
      BY <3>1, <3>4, <2>2, <1>4
    <3>6. \A j \in 1 .. m : clockOf(run[j]) \in Nat /\ h[run[j]].len \in Nat
      <4> TAKE j \in 1 .. m
      <4>1. run[j] \in Id /\ run[j] \in DOMAIN h
        BY <2>1, <2>2
      <4> QED BY <4>1, <1>0, IdFacts, HeapFacts DEF h
    <3> HIDE DEF run, new, m
    <3>7. ASSUME NEW j \in 1 .. m + 1
          PROVE  clockOf(new[j]) = IF j = 1 THEN 0
                               ELSE clockOf(new[j - 1]) + g[new[j - 1]].len
      <4>0. j # 1 => j - 1 \in 1 .. m + 1
        BY <2>1
      <4>1. CASE j <= k
        <5>1. new[j] = run[j] /\ j \in 1 .. m
          BY <4>1, <3>1, <3>2, <2>1
        <5>2. CASE j = 1
          BY <5>1, <5>2, <2>3
        <5>3. CASE j # 1
          <6>1. j - 1 \in 1 .. m /\ j - 1 # k /\ j - 1 <= k
            BY <5>3, <4>1, <3>1, <2>1
          <6>2. new[j - 1] = run[j - 1] /\ g[run[j - 1]].len = h[run[j - 1]].len
            BY <6>1, <3>2, <3>5, <2>1
          <6> QED BY <5>1, <5>3, <6>2, <2>3
        <5> QED BY <5>2, <5>3
      <4>2. CASE j = k + 1
        <5>1. new[j] = y /\ j # 1 /\ j - 1 = k
          BY <4>2, <3>1, <3>2, <2>1
        <5>2. new[j - 1] = x /\ g[x].len = d
          <6>1. k \in 1 .. m + 1 /\ k <= k
            BY <3>1, <2>1
          <6> QED BY <5>1, <6>1, <3>1, <3>2, <1>4
        <5>3. clockOf(y) = clockOf(x) + d
          BY <1>2
        <5> QED BY <5>1, <5>2, <5>3
      <4>3. CASE j = k + 2
        <5>1. k + 1 \in 1 .. m /\ k + 1 \in 1 .. m + 1 /\ ~(k + 1 <= k) /\ ~(j <= k) /\ j # k + 1
              /\ j - 1 = k + 1 /\ j # 1 /\ k + 1 # 1 /\ (k + 1) - 1 = k
          BY <4>3, <3>1, <2>1
        <5>2. new[j] = run[k + 1] /\ new[j - 1] = y
          BY <5>1, <3>2
        <5>3. clockOf(run[k + 1]) = clockOf(x) + n
          BY <5>1, <2>3, <3>1 DEF n, h
        <5>4. clockOf(y) + g[y].len = clockOf(x) + n
          <6>1. clockOf(y) = clockOf(x) + d /\ g[y].len = n - d
            BY <1>2, <1>4
          <6> QED BY <6>1, <1>1
        <5> QED BY <5>1, <5>2, <5>3, <5>4
      <4>4. CASE j > k + 2
        <5>1. j - 1 \in 1 .. m /\ j - 1 \in 1 .. m + 1 /\ ~(j - 1 <= k) /\ ~(j <= k) /\ j # k + 1
              /\ j - 1 # k + 1 /\ j # 1 /\ j - 1 # 1 /\ (j - 1) - 1 \in 1 .. m /\ (j - 1) - 1 # k
          BY <4>4, <3>1, <2>1
        <5>2. new[j] = run[j - 1] /\ new[j - 1] = run[(j - 1) - 1]
          BY <5>1, <3>2
        <5>3. g[run[(j - 1) - 1]].len = h[run[(j - 1) - 1]].len
          BY <5>1, <3>5
        <5> QED BY <5>1, <5>2, <5>3, <2>3
      <4> QED BY <4>1, <4>2, <4>3, <4>4, <3>1, <2>1
    <3> QED BY <3>2, <3>3, <3>7 DEF RunOf, new, g
  <2> QED BY <2>6, <2>7
<1>7. PICK i \in 1 .. Len(l) : l[i] = x
  <2>1. ListOf(s, t, l) /\ x \in ToSet(l)
    BY <1>0, <1>1 DEF Linked, ListOf, l, t, h
  <2>2. l \in Seq(Id)
    BY <2>1 DEF ListOf
  <2> QED BY <2>1, <2>2 DEF ToSet
<1>8. ListOf(s, t, l) /\ l \in Seq(Id) /\ i \in 0 .. Len(l) /\ Len(l) \in Nat
  <2>1. ListOf(s, t, l)
    BY <1>0, <1>1 DEF Linked, l
  <2>2. l \in Seq(Id)
    BY <2>1 DEF ListOf
  <2> QED BY <2>1, <2>2
<1>9. LinkedIn(s, r, t, l, i, y)
  <2>1. h[x].right = IF i = Len(l) THEN Nil ELSE l[i + 1]
    <3>1. i \in DOMAIN l
      BY <1>8
    <3> QED BY <3>1, <1>7, <1>8 DEF ListOf, h
  <2>2. i # 0
    BY <1>7
  <2> QED BY <2>1, <2>2, <1>2, <1>7 DEF LinkedIn, g, h
<1>10. \A u \in Root : \E m : ListOf(r, u, m)
  <2> TAKE u \in Root
  <2>1. CASE u = t
    BY <2>1, <1>0, <1>1, <1>8, <1>9, ListGrows
  <2>2. CASE u # t
    <3>1. ListOf(s, u, Chain(s, u))
      BY <1>0 DEF Linked
    <3> QED BY <2>2, <3>1, <1>0, <1>1, <1>8, <1>9, OtherLists
  <2> QED BY <2>1, <2>2
<1>11. Sound(r)
  BY <1>2, <1>6, <1>10, ListsAreChains DEF Sound, Runs
<1>12. /\ Units(s, x) = Units(r, x) \cup Units(r, y)
       /\ \A z \in DOMAIN h : z # x => Units(r, z) = Units(s, z)
  <2>1. Ids(x, n) = Ids(x, d) \cup Ids(y, n - d)
    <3>1. d \in 0 .. n /\ n \in Nat
      BY <1>1
    <3> QED BY <3>1, <1>1, CutIds DEF y
  <2>2. h[x].len = n /\ g[x].len = d /\ g[y].len = n - d
    BY <1>4 DEF n
  <2>3. \A z \in DOMAIN h : z # x => g[z].len = h[z].len
    BY <1>4
  <2> QED BY <2>1, <2>2, <2>3 DEF Units, g, h
<1>13. /\ DOMAIN g = DOMAIN h \cup {y} /\ x \in DOMAIN h /\ y \notin DOMAIN h
       /\ g[y].parent = t /\ h[x].parent = t /\ g[y].deleted = h[x].deleted
       /\ \A z \in DOMAIN h : g[z].parent = h[z].parent /\ g[z].deleted = h[z].deleted
  BY <1>2, <1>4 DEF t
<1>14. Integrated(r) = Integrated(s)
  BY <1>12, <1>13 DEF Integrated, g, h
<1>15. Tombstones(r) = Tombstones(s)
  BY <1>12, <1>13 DEF Tombstones, g, h
<1>16. \A u \in Root : Live(r, u) = Live(s, u)
  BY <1>12, <1>13 DEF Live, g, h
<1>17. \A u \in Root : Before(s, u) \subseteq Before(r, u)
  <2> TAKE u \in Root
  <2>0. ListOf(s, u, Chain(s, u)) /\ Chain(s, u) \in Seq(Id)
    BY <1>0 DEF Linked, ListOf
  <2>1. \A v \in Root : \A m : ListOf(r, v, m) => Chain(r, v) = m
    BY <1>2, <1>10, ListsAreChains
  <2>2. CASE u = t
    <3>1. Chain(r, u) = InsertAt(l, i + 1, y)
      BY <2>1, <2>2, <1>0, <1>1, <1>8, <1>9, ListGrows
    <3>2. Units(s, x) = Ids(x, n) /\ Units(r, x) = Ids(x, d) /\ Units(r, y) = Ids(y, n - d)
      BY <1>4 DEF Units, g, h, n
    <3>3. \A j \in 1 .. Len(l) : j # i => Units(r, l[j]) = Units(s, l[j])
      <4> TAKE j \in 1 .. Len(l)
      <4> HAVE j # i
      <4>1. l[j] \in ToSet(l) /\ l[j] # x
        BY <1>7, <1>8 DEF ListOf, ToSet, IsInjective
      <4>2. l[j] \in DOMAIN h
        BY <4>1, <1>8 DEF ListOf, h
      <4> QED BY <4>1, <4>2, <1>12
    <3>4. OrderOf(s, l) \subseteq OrderOf(r, InsertAt(l, i + 1, y))
      <4>1. /\ l \in Seq(Id) /\ i \in 1 .. Len(l) /\ y \in Id /\ x \in Id /\ l[i] = x
            /\ n \in Nat /\ d \in 0 .. n /\ y = Add(x, d)
        BY <1>1, <1>2, <1>7, <1>8 DEF y
      <4> QED BY <4>1, <3>2, <3>3, CutOrder
    <3> QED BY <2>2, <3>1, <3>4 DEF Before, l
  <2>3. CASE u # t
    <3>1. Chain(r, u) = Chain(s, u)
      <4>1. ListOf(r, u, Chain(s, u))
        BY <2>0, <2>3, <1>0, <1>1, <1>8, <1>9, OtherLists
      <4> QED BY <4>1, <2>1
    <3> DEFINE m == Chain(s, u)
    <3>2. \A j \in DOMAIN m : Units(r, m[j]) = Units(s, m[j])
      <4> TAKE j \in DOMAIN m
      <4>1. m[j] \in ToSet(m)
        BY DEF ToSet
      <4>2. m[j] \in DOMAIN h /\ h[m[j]].parent = u
        BY <2>0, <4>1 DEF ListOf, h
      <4> QED BY <2>3, <4>2, <1>12, <1>13
    <3> QED BY <3>1, <3>2 DEF Before, OrderOf
  <2> QED BY <2>2, <2>3
<1> QED BY <1>2, <1>4, <1>11, <1>14, <1>15, <1>16, <1>17 DEF y, r, g, h, n, t

\* A node that splitNode cuts: the left part keeps its name and is followed by the
\* right part.
LEMMA SplitCuts ==
  ASSUME NEW s, Sound(s), NEW x \in DOMAIN s.heap, NEW d \in 1 .. s.heap[x].len - 1
  PROVE  LET r == splitNode(s, x, d)
         IN  /\ Cut(s, r) /\ x \in DOMAIN r.heap /\ Add(x, d) \in DOMAIN r.heap
             /\ r.heap[x].len = d /\ r.heap[x].right = Add(x, d)
             /\ r.heap[Add(x, d)].len = s.heap[x].len - d
             /\ r.heap[Add(x, d)].parent = s.heap[x].parent
             /\ \A z \in DOMAIN s.heap : z # x => r.heap[z].len = s.heap[z].len
<1> DEFINE y == Add(x, d)
           r == splitNode(s, x, d)
           n == s.heap[x].len
<1>1. /\ Sound(r)
      /\ Frame(s, r) /\ r.len = s.len
      /\ Integrated(r) = Integrated(s) /\ Tombstones(r) = Tombstones(s)
      /\ \A t \in Root : Live(r, t) = Live(s, t)
      /\ \A t \in Root : Before(s, t) \subseteq Before(r, t)
      /\ y \in Id /\ y \notin DOMAIN s.heap
      /\ DOMAIN r.heap = DOMAIN s.heap \cup {y}
      /\ r.heap[x].len = d /\ r.heap[y].len = s.heap[x].len - d
      /\ r.heap[x].right = y
      /\ r.heap[y].parent = s.heap[x].parent
      /\ \A z \in DOMAIN s.heap : /\ r.heap[z].parent = s.heap[z].parent
                                  /\ z # x => r.heap[z].len = s.heap[z].len
  BY SplitKeeps
<1>f. /\ r.heap[y].originLeftId = Add(x, d - 1)
      /\ r.heap[y].originRightId = s.heap[x].originRightId
      /\ \A z \in DOMAIN s.heap : /\ r.heap[z].originLeftId = s.heap[z].originLeftId
                                  /\ r.heap[z].originRightId = s.heap[z].originRightId
  BY SplitFields DEF Sound
<1>n. x \in Id /\ clockOf(x) \in Nat /\ n \in Nat /\ d \in Nat \ {0} /\ d < n
  <2>1. x \in Id /\ n \in Nat
    BY HeapFacts DEF Sound, Runs
  <2>2. clockOf(x) \in Nat
    BY <2>1, IdFacts
  <2>3. d \in 1 .. n - 1
    OBVIOUS
  <2> HIDE DEF n
  <2> QED BY <2>1, <2>2, <2>3
<1>2. Anchored(s) => Anchored(r)
  <2> HAVE Anchored(s)
  <2>2. Add(x, d - 1) \in Integrated(s)
    <3>1. s.heap[x].len \in Nat
      BY HeapFacts DEF Sound, Runs
    <3>2. d - 1 \in 0 .. s.heap[x].len - 1
      BY <3>1
    <3>3. Add(x, d - 1) \in Units(s, x)
      BY <3>2 DEF Units, Ids
    <3> QED BY <3>3 DEF Integrated
  <2> HIDE DEF y, r
  <2> QED BY <1>1, <1>f, <2>2 DEF Anchored
<1>y. clientOf(y) = clientOf(x) /\ clockOf(y) = clockOf(x) + d /\ Sub(y, 1) = Add(x, d - 1)
  BY <1>n DEF Add, Sub, clientOf, clockOf
<1> HIDE DEF y, r, n
<1>u. /\ Units(r, x) \subseteq Units(s, x) \ {y} /\ Units(r, y) \subseteq Units(s, x) \ {x}
      /\ y \in Units(s, x)
      /\ \A z \in DOMAIN s.heap : z # x => Units(r, z) = Units(s, z)
  <2>1. \A u : u \in Units(s, x) <=> u \in Id /\ clientOf(u) = clientOf(x)
                                   /\ clockOf(x) <= clockOf(u) /\ clockOf(u) < clockOf(x) + n
    BY <1>n, IdsAre DEF Units, n
  <2>2. \A u : u \in Units(r, x) <=> u \in Id /\ clientOf(u) = clientOf(x)
                                   /\ clockOf(x) <= clockOf(u) /\ clockOf(u) < clockOf(x) + d
    BY <1>n, <1>1, IdsAre DEF Units
  <2>3. n - d \in Nat
    BY <1>n
  <2>4. \A u : u \in Units(r, y) <=> u \in Id /\ clientOf(u) = clientOf(y)
                                   /\ clockOf(y) <= clockOf(u) /\ clockOf(u) < clockOf(y) + (n - d)
    BY <1>1, <2>3, IdsAre DEF Units, n
  <2>5. \A u \in Id : clockOf(u) \in Nat
    BY IdFacts
  <2>6. \A u \in Units(r, x) : u \in Units(s, x) \ {y}
    BY <1>n, <1>y, <2>1, <2>2, <2>5
  <2>7. \A u \in Units(r, y) : u \in Units(s, x) \ {x}
    BY <1>n, <1>y, <2>1, <2>4, <2>5
  <2>8. y \in Units(s, x)
    BY <1>n, <1>y, <1>1, <2>1
  <2> QED BY <2>6, <2>7, <2>8, <1>1 DEF Units
<1>w. ASSUME NEW w, Follows(s, w) PROVE Follows(r, w)
  <2> SUFFICES ASSUME NEW z \in DOMAIN r.heap
               PROVE  /\ Units(r, z) \subseteq w.made
                      /\ r.heap[z].originLeftId = w.left[z]
                      /\ \A u \in Units(r, z) : /\ w.right[u] = r.heap[z].originRightId
                                                /\ w.parent[u] = r.heap[z].parent
                                                /\ u # z => w.left[u] = Sub(u, 1)
    BY DEF Follows
  <2>1. CASE z = y
    <3>1. y # x
      BY <1>1
    <3> QED BY <2>1, <3>1, <1>1, <1>f, <1>y, <1>u, <1>w DEF Follows
  <2>2. CASE z = x
    BY <2>2, <1>1, <1>f, <1>u, <1>w DEF Follows
  <2>3. CASE z # x /\ z \in DOMAIN s.heap
    BY <2>3, <1>1, <1>f, <1>u, <1>w DEF Follows
  <2> QED BY <2>1, <2>2, <2>3, <1>1
<1>3. Cut(s, r)
  BY <1>1, <1>2, <1>w DEF Cut
<1> QED BY <1>1, <1>3 DEF y, r

\* What is cut twice is cut.
LEMMA CutAgain ==
  ASSUME NEW s, NEW r, NEW q, Cut(s, r), Cut(r, q)
  PROVE  Cut(s, q)
BY DEF Cut, Frame

\* What is not cut is cut at no node.
LEMMA NotCut ==
  ASSUME NEW s, Sound(s)
  PROVE  Cut(s, s)
BY DEF Cut, Frame

\* splitAtAndGetLeft cuts the node that covers x after x, and gives the left part.
LEMMA AtLeft ==
  ASSUME NEW s, Sound(s), NEW x \in Id
  PROVE  LET r == splitAtAndGetLeft(s, x)
         IN  /\ Cut(s, r.store)
             /\ r.node = Nil <=> x \notin Integrated(s)
             /\ r.node # Nil => /\ r.node \in DOMAIN s.heap /\ r.node \in DOMAIN r.store.heap
                               /\ LastId(r.store, r.node) = x
<1> DEFINE n == GetNode(s, x)
           d == clockOf(x) - clockOf(n) + 1
<1>0. Runs(s) /\ s \in StoreType
  BY DEF Sound, Runs
<1>1. CASE n = Nil
  <2>1. splitAtAndGetLeft(s, x) = [store |-> s, node |-> Nil]
    BY <1>1 DEF splitAtAndGetLeft
  <2>2. x \notin Integrated(s)
    BY <1>0, <1>1, GetNodeIs DEF hasNode
  <2> QED BY <2>1, <2>2, NotCut
<1>2. CASE n # Nil
  <2>1. /\ n \in DOMAIN s.heap /\ clientOf(n) = clientOf(x) /\ clockOf(n) <= clockOf(x)
        /\ clockOf(x) < clockOf(n) + s.heap[n].len /\ x \in Integrated(s)
    BY <1>0, <1>2, GetNodeIs DEF hasNode
  <2>2. n \in Id /\ s.heap[n].len \in Nat /\ Nil \notin DOMAIN s.heap
    BY <1>0, <2>1, HeapFacts
  <2>3. clockOf(n) \in Nat /\ clockOf(x) \in Nat
    BY <2>2, IdFacts
  <2> HIDE DEF n
  <2>4. \A k \in Nat : k > 0 => Add(n, k - 1) = <<clientOf(n), clockOf(n) + (k - 1)>>
    BY <2>2 DEF Add, clientOf, clockOf
  <2>5. x = <<clientOf(n), clockOf(x)>>
    BY <2>1, IdFacts
  <2>6. CASE x = LastId(s, n)
    <3>1. splitAtAndGetLeft(s, x) = [store |-> s, node |-> n]
      BY <1>2, <2>6 DEF splitAtAndGetLeft, n
    <3> QED BY <1>2, <3>1, <2>1, <2>6, NotCut
  <2>7. CASE x # LastId(s, n)
    <3>1. splitAtAndGetLeft(s, x) = [store |-> splitNode(s, n, d), node |-> n]
      BY <1>2, <2>7 DEF splitAtAndGetLeft, n
    <3>2. d \in 1 .. s.heap[n].len - 1
      <4>1. d # s.heap[n].len
        <5> SUFFICES ASSUME d = s.heap[n].len PROVE x = LastId(s, n)
          BY <2>7
        <5>1. clockOf(x) = clockOf(n) + (s.heap[n].len - 1) /\ s.heap[n].len > 0
          BY <2>1, <2>2, <2>3
        <5> QED BY <5>1, <2>2, <2>4, <2>5 DEF LastId
      <4> QED BY <4>1, <2>1, <2>2, <2>3
    <3>3. /\ Cut(s, splitNode(s, n, d)) /\ n \in DOMAIN splitNode(s, n, d).heap
          /\ splitNode(s, n, d).heap[n].len = d
      <4> HIDE DEF d
      <4> QED BY <2>1, <3>2, SplitCuts
    <3>4. LastId(splitNode(s, n, d), n) = x
      <4>1. clockOf(n) + (d - 1) = clockOf(x) /\ d \in Nat /\ d > 0
        BY <2>1, <2>3
      <4> HIDE DEF d
      <4> QED BY <4>1, <3>3, <2>4, <2>5 DEF LastId
    <3> QED BY <1>2, <3>1, <3>3, <3>4, <2>1
  <2> QED BY <2>6, <2>7
<1> QED BY <1>1, <1>2

\* splitAtAndGetRight cuts the node that covers x before x, and gives the right part.
LEMMA AtRight ==
  ASSUME NEW s, Sound(s), NEW x \in Id
  PROVE  LET r == splitAtAndGetRight(s, x)
         IN  /\ Cut(s, r.store)
             /\ r.node = Nil <=> x \notin Integrated(s)
             /\ r.node # Nil => r.node = x /\ x \in DOMAIN r.store.heap
             /\ \A z \in DOMAIN s.heap :
                  x \in Units(s, z) \/ LastId(r.store, z) = LastId(s, z)
<1> DEFINE n == GetNode(s, x)
           d == clockOf(x) - clockOf(n)
<1>0. Runs(s) /\ s \in StoreType
  BY DEF Sound, Runs
<1>1. CASE n = Nil
  <2>1. splitAtAndGetRight(s, x) = [store |-> s, node |-> Nil]
    BY <1>1 DEF splitAtAndGetRight
  <2>2. x \notin Integrated(s)
    BY <1>0, <1>1, GetNodeIs DEF hasNode
  <2> QED BY <2>1, <2>2, NotCut
<1>2. CASE n # Nil
  <2>1. /\ n \in DOMAIN s.heap /\ clientOf(n) = clientOf(x) /\ clockOf(n) <= clockOf(x)
        /\ clockOf(x) < clockOf(n) + s.heap[n].len /\ x \in Integrated(s)
    BY <1>0, <1>2, GetNodeIs DEF hasNode
  <2>2. n \in Id /\ s.heap[n].len \in Nat /\ Nil \notin DOMAIN s.heap /\ x # Nil
    BY <1>0, <2>1, HeapFacts
  <2>3. clockOf(n) \in Nat /\ clockOf(x) \in Nat
    BY <2>2, IdFacts
  <2> HIDE DEF n
  <2>4. CASE n = x
    <3>1. splitAtAndGetRight(s, x) = [store |-> s, node |-> n]
      BY <2>4 DEF splitAtAndGetRight, n
    <3> QED BY <1>2, <2>4, <3>1, <2>1, NotCut
  <2>5. CASE n # x
    <3>1. splitAtAndGetRight(s, x) = [store |-> splitNode(s, n, d), node |-> x]
      BY <1>2, <2>5 DEF splitAtAndGetRight, n
    <3>2. d \in 1 .. s.heap[n].len - 1
      <4>1. clockOf(n) # clockOf(x)
        <5>1. n = <<clientOf(n), clockOf(n)>> /\ x = <<clientOf(x), clockOf(x)>>
          BY <2>2, IdFacts
        <5> QED BY <5>1, <2>1, <2>5
      <4> QED BY <4>1, <2>1, <2>2, <2>3
    <3>3. /\ Cut(s, splitNode(s, n, d)) /\ Add(n, d) \in DOMAIN splitNode(s, n, d).heap
          /\ \A z \in DOMAIN s.heap : z # n => splitNode(s, n, d).heap[z].len = s.heap[z].len
      <4> HIDE DEF d
      <4> QED BY <2>1, <3>2, SplitCuts
    <3>4. Add(n, d) = x
      <4>1. d \in Nat /\ clockOf(n) + d = clockOf(x)
        BY <2>1, <2>3
      <4>2. x = <<clientOf(n), clockOf(x)>>
        BY <2>1, IdFacts
      <4> HIDE DEF d
      <4> QED BY <4>1, <4>2 DEF Add, clientOf, clockOf
    <3>5. x \in Units(s, n)
      BY <2>1, <2>2, IdsAre DEF Units
    <3> HIDE DEF d
    <3> QED BY <2>2, <3>1, <3>3, <3>4, <3>5, <2>1 DEF LastId
  <2> QED BY <2>4, <2>5
<1> QED BY <1>1, <1>2

-----------------------------------------------------------------------------
\* The scan over the concurrent nodes ends where it began or after one of them.
LEMMA ScanEndsAtNode ==
  ASSUME NEW s, NEW x, NEW it, NEW left, NEW conflict, NEW right,
         NEW seq \in Seq(Id), From(s, conflict) = seq
  PROVE  scanConflicts(s, x, it, left, conflict, right) \in {left} \cup ToSet(seq)
<1> DEFINE visit(st, c, before, conflicting) ==
             IF st.done \/ scanStops(s, x, it, c, right, before)
               THEN [st EXCEPT !.done = TRUE]
             ELSE IF scanMoves(s, x, it, c, conflicting)
               THEN [done |-> FALSE, left |-> c, before |-> before, conflicting |-> {}]
             ELSE [st EXCEPT !.before = before, !.conflicting = conflicting]
           scan(st, c) == visit(st, c, st.before \cup Units(s, c), st.conflicting \cup Units(s, c))
           st0 == [done |-> FALSE, left |-> left, before |-> {}, conflicting |-> {}]
           E(F) == F = [S \in SUBSET DOMAIN seq |->
                          IF S = {} THEN st0 ELSE scan(F[S \ {Max(S)}], seq[Max(S)])]
           n == Len(seq)
           U == UNION {Units(s, c) : c \in ToSet(seq)}
           A == [done : BOOLEAN, left : {left} \cup ToSet(seq), before : SUBSET U,
                 conflicting : SUBSET U]
           g == [p \in A \X (1 .. n) |-> scan(p[1], seq[p[2]])]
<1>1. scanConflicts(s, x, it, left, conflict, right) = (CHOOSE F : E(F))[DOMAIN seq].left
  BY DEF scanConflicts, FoldLeft, MapThenFoldSet
<1>2. n \in Nat /\ DOMAIN seq = 1 .. n /\ \A i \in 1 .. n : seq[i] \in ToSet(seq)
  BY DEF ToSet
<1>3. st0 \in A
  OBVIOUS
<1>4. ASSUME NEW st \in A, NEW c \in ToSet(seq) PROVE scan(st, c) \in A
  <2>1. st.before \cup Units(s, c) \in SUBSET U /\ st.conflicting \cup Units(s, c) \in SUBSET U
    OBVIOUS
  <2> HIDE DEF U
  <2> QED BY <2>1
<1> HIDE DEF A, scan, st0
<1>5. g \in [A \X (1 .. n) -> A]
  BY <1>2, <1>4
<1>6. \E F : E(F)
  <2>1. PICK F \in [SUBSET (1 .. n) -> A] : FoldsBy(n, st0, g, F)
    <3> HIDE DEF g, n
    <3>1. n \in Nat /\ st0 \in A /\ g \in [A \X (1 .. n) -> A]
      BY <1>2, <1>3, <1>5
    <3> QED BY <3>1, FoldExists, Zenon
  <2>2. \A S \in SUBSET (1 .. n) : S # {} => Max(S) \in 1 .. n /\ F[S \ {Max(S)}] \in A
    BY <1>2, MaxIn
  <2>3. \A a \in A, k \in 1 .. n : g[<<a, k>>] = scan(a, seq[k])
    OBVIOUS
  <2> HIDE DEF g, n
  <2>4. \A S \in SUBSET (1 .. n) :
          F[S] = IF S = {} THEN st0 ELSE scan(F[S \ {Max(S)}], seq[Max(S)])
    BY <2>1, <2>2, <2>3 DEF FoldsBy
  <2> QED BY <2>1, <2>4, <1>2
<1> DEFINE F == CHOOSE F : E(F)
<1>7. E(F)
  BY <1>6
<1>8. F[{}] = st0 /\ \A k \in 0 .. n - 1 : F[1 .. k + 1] = scan(F[1 .. k], seq[k + 1])
  <2> HIDE DEF F, n
  <2>0. F = [S \in SUBSET (1 .. n) |->
               IF S = {} THEN st0 ELSE scan(F[S \ {Max(S)}], seq[Max(S)])]
    BY <1>2, <1>7
  <2>1. {} \in SUBSET (1 .. n)
    OBVIOUS
  <2>2. \A k \in 0 .. n - 1 : 1 .. k + 1 \in SUBSET (1 .. n) /\ k \in Nat
    BY <1>2
  <2>3. F[{}] = st0
    BY <2>0, <2>1
  <2>4. ASSUME NEW k \in 0 .. n - 1
        PROVE  F[1 .. k + 1] = scan(F[1 .. k], seq[k + 1])
    <3>1. /\ Max(1 .. k + 1) = k + 1 /\ (1 .. k + 1) \ {k + 1} = 1 .. k
          /\ 1 .. k + 1 # {} /\ 1 .. k + 1 \in SUBSET (1 .. n)
      BY <2>2, Prefix
    <3> QED BY <2>0, <3>1
  <2> QED BY <2>3, <2>4
<1> HIDE DEF F, n, g
<1> DEFINE T == {k \in 0 .. n : F[1 .. k] \in A}
<1>9. 0 \in T
  <2>1. 1 .. 0 = {}
    OBVIOUS
  <2> QED BY <2>1, <1>2, <1>3, <1>8
<1>10. \A k \in 0 .. n - 1 : k \in T => k + 1 \in T
  <2> TAKE k \in 0 .. n - 1
  <2> HAVE k \in T
  <2>1. k + 1 \in 1 .. n /\ k + 1 \in 0 .. n
    BY <1>2
  <2> QED BY <2>1, <1>2, <1>4, <1>8
<1> HIDE DEF T
<1>11. \A k \in 0 .. n : k \in T
  BY <1>2, <1>9, <1>10, UpTo
<1>12. F[DOMAIN seq] \in A
  BY <1>2, <1>11 DEF T
<1> QED BY <1>1, <1>12 DEF A, F

\* A node before it is linked.
Struct == [originLeftId : OptId, originRightId : OptId, left : OptId, right : OptId,
           parent : Root \cup {Nil}, len : Nat \ {0}, deleted : {FALSE}]

\* Store r is store s with node x, made of it, linked into root type t between
\* two neighbours and listed under its client.
LinkedAs(s, r, t, x, it, left, right) ==
  LET h == s.heap
      g == r.heap
      c == clientOf(x)
  IN  /\ r \in StoreType /\ Frame(s, r)
      /\ DOMAIN g = DOMAIN h \cup {x} /\ g \in Heap
      /\ g[x].originLeftId = it.originLeftId /\ g[x].originRightId = it.originRightId
      /\ g[x].left = left /\ g[x].right = right
      /\ g[x].parent = t /\ g[x].len = it.len /\ ~g[x].deleted
      /\ \A z \in DOMAIN h :
           /\ g[z].originLeftId = h[z].originLeftId
           /\ g[z].originRightId = h[z].originRightId
           /\ g[z].left = IF z = right THEN x ELSE h[z].left
           /\ g[z].right = IF z = left THEN x ELSE h[z].right
           /\ g[z].parent = h[z].parent
           /\ g[z].len = h[z].len
           /\ g[z].deleted = h[z].deleted
      /\ r.start = [s.start EXCEPT ![t] = IF left = Nil THEN x ELSE s.start[t]]
      /\ r.len = [s.len EXCEPT ![t] = s.len[t] + it.len]
      /\ r.items = [s.items EXCEPT ![c] = Append(s.items[c], x)]

\* What link and addNode do to the fields of a store.
LEMMA LinkFields ==
  ASSUME NEW s \in StoreType, NEW t \in Root, NEW x \in Id, x \notin DOMAIN s.heap,
         NEW it \in Struct, it.parent = t,
         NEW left \in DOMAIN s.heap \cup {Nil}, NEW right \in DOMAIN s.heap \cup {Nil}
  PROVE  LinkedAs(s, addNode(link(s, t, x, it, left, right), x), t, x, it, left, right)
<1> DEFINE h == s.heap
           node == [it EXCEPT !.left = left, !.right = right]
           h1 == IF left = Nil THEN h ELSE [h EXCEPT ![left].right = x]
           h2 == IF right = Nil THEN h1 ELSE [h1 EXCEPT ![right].left = x]
           g == alloc(h2, x, node)
           r == addNode(link(s, t, x, it, left, right), x)
           c == clientOf(x)
           start == [s.start EXCEPT ![t] = IF left = Nil THEN x ELSE s.start[t]]
           len == [s.len EXCEPT ![t] = s.len[t] + it.len]
           items == [s.items EXCEPT ![c] = Append(s.items[c], x)]
<1>1. /\ h \in [DOMAIN h -> Node] /\ Nil \notin DOMAIN h /\ DOMAIN h \subseteq Id
      /\ c \in Client
  BY HeapFacts, IdFacts
<1>2. r = [s EXCEPT !.heap = g, !.start = start, !.len = len, !.items = items]
  BY DEF addNode, link, StoreType
<1>3. DOMAIN h1 = DOMAIN h /\ DOMAIN h2 = DOMAIN h
  OBVIOUS
<1>4. node \in Node /\ node.originLeftId = it.originLeftId /\ node.originRightId = it.originRightId
      /\ node.left = left /\ node.right = right /\ node.parent = t /\ node.len = it.len
      /\ ~node.deleted
  <2>1. left \in OptId /\ right \in OptId
    BY <1>1 DEF OptId
  <2> QED BY <2>1 DEF Struct, Node
<1>5. ASSUME NEW z \in DOMAIN h
      PROVE  /\ h2[z] \in Node
             /\ h2[z].originLeftId = h[z].originLeftId
             /\ h2[z].originRightId = h[z].originRightId
             /\ h2[z].left = IF z = right THEN x ELSE h[z].left
             /\ h2[z].right = IF z = left THEN x ELSE h[z].right
             /\ h2[z].parent = h[z].parent
             /\ h2[z].len = h[z].len
             /\ h2[z].deleted = h[z].deleted
  <2>1. h[z] \in Node /\ x \in OptId
    BY <1>1 DEF OptId
  <2>2. h1[z] = IF z = left THEN [h[z] EXCEPT !.right = x] ELSE h[z]
    BY <1>1
  <2>3. h2[z] = IF z = right THEN [h1[z] EXCEPT !.left = x] ELSE h1[z]
    <3> HIDE DEF h1
    <3> QED BY <1>1, <1>3
  <2> HIDE DEF h1, h2, h
  <2>4. /\ h1[z] \in Node
        /\ h1[z].originLeftId = h[z].originLeftId
        /\ h1[z].originRightId = h[z].originRightId
        /\ h1[z].left = h[z].left
        /\ h1[z].right = IF z = left THEN x ELSE h[z].right
        /\ h1[z].parent = h[z].parent
        /\ h1[z].len = h[z].len
        /\ h1[z].deleted = h[z].deleted
    <3>1. CASE z = left
      <4>1. h1[z] = [h[z] EXCEPT !.right = x]
        BY <3>1, <2>2
      <4> QED BY <4>1, <3>1, <2>1 DEF Node
    <3>2. CASE z # left
      BY <3>2, <2>1, <2>2
    <3> QED BY <3>1, <3>2
  <2>5. CASE z = right
    <3>1. h2[z] = [h1[z] EXCEPT !.left = x]
      BY <2>3, <2>5
    <3> QED BY <3>1, <2>1, <2>4, <2>5 DEF Node
  <2>6. CASE z # right
    BY <2>3, <2>4, <2>6
  <2> QED BY <2>5, <2>6
<1>6. /\ DOMAIN g = DOMAIN h \cup {x} /\ g[x] = node /\ \A z \in DOMAIN h : g[z] = h2[z]
      /\ g \in Heap
  <2> HIDE DEF node, h2
  <2>1. /\ DOMAIN g = DOMAIN h \cup {x} /\ g[x] = node /\ \A z \in DOMAIN h : g[z] = h2[z]
        /\ g = [z \in DOMAIN g |-> g[z]]
    BY <1>3 DEF alloc
  <2>2. \A z \in DOMAIN g : g[z] \in Node
    BY <2>1, <1>4, <1>5
  <2>3. DOMAIN g \in SUBSET Id
    BY <2>1, <1>1
  <2> HIDE DEF g
  <2>4. g \in [DOMAIN g -> Node]
    BY <2>1, <2>2
  <2> QED BY <2>1, <2>3, <2>4 DEF Heap
<1> HIDE DEF node, h1, h2, g
<1>7. /\ start \in [Root -> OptId] /\ len \in [Root -> Int] /\ items \in [Client -> Seq(Id)]
  <2>1. s.start \in [Root -> OptId] /\ s.len \in [Root -> Int] /\ s.items \in [Client -> Seq(Id)]
    BY DEF StoreType
  <2>2. s.len[t] + it.len \in Int
    BY <2>1 DEF Struct
  <2>3. Append(s.items[c], x) \in Seq(Id)
    BY <2>1, <1>1
  <2>4. x \in OptId /\ s.start[t] \in OptId
    BY <2>1 DEF OptId
  <2> QED BY <2>1, <2>2, <2>3, <2>4, <1>1
<1> HIDE DEF start, len, items, r
<1>8. /\ r \in StoreType /\ Frame(s, r) /\ r.heap = g /\ r.start = start /\ r.len = len
      /\ r.items = items
  BY <1>2, <1>6, <1>7 DEF StoreType, Frame
<1> QED BY <1>4, <1>5, <1>6, <1>8 DEF LinkedAs, r, start, len, items

\* A place in the list of a root type: after its first i nodes.
LEMMA Place ==
  ASSUME NEW s, Sound(s), NEW t \in Root, NEW left,
         left # Nil => left \in DOMAIN s.heap /\ s.heap[left].parent = t
  PROVE  LET l == Chain(s, t)
             right == rightOf(s, t, left)
         IN  /\ l \in Seq(Id)
             /\ \E i \in 0 .. Len(l) :
                   /\ left = IF i = 0 THEN Nil ELSE l[i]
                   /\ right = IF i = Len(l) THEN Nil ELSE l[i + 1]
                   /\ Len(From(s, right)) = Len(l) - i
             /\ From(s, right) \in Seq(Id) /\ ToSet(From(s, right)) \subseteq ToSet(l)
<1> DEFINE l == Chain(s, t)
           right == rightOf(s, t, left)
           n == Len(l)
           L == [u \in Root |-> Chain(s, u)]
<1>0. s \in StoreType /\ Linked(s)
  BY DEF Sound, Runs
<1>1. ListOf(s, t, l) /\ l \in Seq(Id) /\ n \in Nat /\ DOMAIN l = 1 .. n
  <2>1. ListOf(s, t, l)
    BY <1>0 DEF Linked
  <2>2. l \in Seq(Id)
    BY <2>1 DEF ListOf
  <2> QED BY <2>1, <2>2
<1>2. /\ From(s, Nil) = <<>>
      /\ \A i \in 1 .. n : From(s, l[i]) = SubSeq(l, i, n)
  <2>1. L \in [Root -> Seq(Id)] /\ \A u \in Root : ListOf(s, u, L[u])
    <3>1. \A u \in Root : ListOf(s, u, Chain(s, u)) /\ Chain(s, u) \in Seq(Id)
      BY <1>0 DEF Linked, ListOf
    <3> QED BY <3>1
  <2>2. /\ DOMAIN s.heap \subseteq Id
        /\ \A x \in DOMAIN s.heap : s.heap[x].parent \in Root
    BY <1>0, HeapFacts
  <2> HIDE DEF L
  <2>3. /\ From(s, Nil) = <<>>
        /\ \A u \in Root : \A i \in DOMAIN L[u] : From(s, L[u][i]) = SubSeq(L[u], i, Len(L[u]))
    BY <2>1, <2>2, Walk
  <2>4. L[t] = l
    BY DEF L
  <2> QED BY <1>1, <2>3, <2>4
<1>3. s.start[t] = IF n = 0 THEN Nil ELSE l[1]
  BY <1>1 DEF ListOf
<1>4. \A i \in 1 .. n : l[i] # Nil /\ s.heap[l[i]].right = IF i = n THEN Nil ELSE l[i + 1]
  <2> TAKE i \in 1 .. n
  <2>1. l[i] \in Id /\ Nil \notin Id
    BY <1>0, <1>1, HeapFacts
  <2> QED BY <2>1, <1>1 DEF ListOf
<1>5. \E i \in 0 .. n : /\ left = IF i = 0 THEN Nil ELSE l[i]
                        /\ right = IF i = n THEN Nil ELSE l[i + 1]
  <2>1. CASE left = Nil
    <3>1. 0 \in 0 .. n /\ right = s.start[t]
      BY <2>1, <1>1 DEF rightOf
    <3> HIDE DEF right, n, l
    <3> QED BY <3>1, <2>1, <1>3
  <2>2. CASE left # Nil
    <3>1. left \in ToSet(l)
      BY <2>2, <1>1 DEF ListOf
    <3>2. PICK i \in 1 .. n : l[i] = left
      BY <3>1, <1>1 DEF ToSet
    <3>3. right = s.heap[left].right
      BY <2>2 DEF rightOf
    <3>4. i \in 0 .. n /\ i # 0
      BY <1>1
    <3> HIDE DEF right, n, l
    <3> QED BY <3>2, <3>3, <3>4, <1>4
  <2> QED BY <2>1, <2>2
<1>6. ASSUME NEW i \in 0 .. n, right = IF i = n THEN Nil ELSE l[i + 1]
      PROVE  /\ From(s, right) \in Seq(Id) /\ ToSet(From(s, right)) \subseteq ToSet(l)
             /\ Len(From(s, right)) = n - i
  <2>1. right = IF i = n THEN Nil ELSE l[i + 1]
    BY <1>6
  <2> HIDE DEF right
  <2>2. CASE i = n
    <3>1. From(s, right) = <<>>
      BY <2>1, <2>2, <1>2
    <3>2. n - i = 0
      <4> HIDE DEF n
      <4>1. n \in Nat
        BY <1>1
      <4> QED BY <2>2, <4>1
    <3> QED BY <3>1, <3>2 DEF ToSet
  <2>3. CASE i # n
    <3>1. i + 1 \in 1 .. n
      <4> HIDE DEF n
      <4>1. n \in Nat
        BY <1>1
      <4> QED BY <2>3, <4>1
    <3>2. From(s, right) = SubSeq(l, i + 1, n)
      BY <2>1, <2>3, <3>1, <1>2
    <3> DEFINE m == SubSeq(l, i + 1, n)
    <3>3. m \in Seq(Id) /\ DOMAIN m = 1 .. n - i /\ \A k \in 1 .. n - i : m[k] = l[k + i]
      BY <3>1, <1>1
    <3>4. \A k \in 1 .. n - i : k + i \in 1 .. n
      BY <1>1
    <3>6. Len(m) = n - i
      BY <3>1, <1>1
    <3> HIDE DEF m, l, n
    <3>5. ToSet(m) \subseteq ToSet(l)
      BY <3>3, <3>4, <1>1 DEF ToSet
    <3> QED BY <3>2, <3>3, <3>5, <3>6 DEF m
  <2> QED BY <2>2, <2>3
<1>7. PICK i \in 0 .. n : /\ left = IF i = 0 THEN Nil ELSE l[i]
                          /\ right = IF i = n THEN Nil ELSE l[i + 1]
  BY <1>5
<1>8. /\ From(s, right) \in Seq(Id) /\ ToSet(From(s, right)) \subseteq ToSet(l)
      /\ Len(From(s, right)) = n - i
  BY <1>6, <1>7
<1> HIDE DEF right, n, l
<1>9. \E j \in 0 .. n : /\ left = IF j = 0 THEN Nil ELSE l[j]
                        /\ right = IF j = n THEN Nil ELSE l[j + 1]
                        /\ Len(From(s, right)) = n - j
  BY <1>7, <1>8
<1> QED BY <1>1, <1>8, <1>9 DEF right, n, l

\* findIntegrationLeft finds a place in the list of the type.
THEOREM IntegrationPlace ==
  ASSUME NEW s, Sound(s), NEW t \in Root, NEW x, NEW it,
         it.left # Nil => it.left \in DOMAIN s.heap /\ s.heap[it.left].parent = t
  PROVE  LET l == Chain(s, t)
             left == findIntegrationLeft(s, t, x, it)
         IN  \E i \in 0 .. Len(l) :
                /\ left = IF i = 0 THEN Nil ELSE l[i]
                /\ rightOf(s, t, left) = IF i = Len(l) THEN Nil ELSE l[i + 1]
<1> DEFINE l == Chain(s, t)
           left == findIntegrationLeft(s, t, x, it)
           conflict == rightOf(s, t, it.left)
<1>1. From(s, conflict) \in Seq(Id) /\ ToSet(From(s, conflict)) \subseteq ToSet(l)
  BY Place
<1>2. left \in {it.left} \cup ToSet(l)
  <2>1. CASE mustScan(s, it)
    <3>1. left = scanConflicts(s, x, it, it.left, conflict, it.right)
      BY <2>1 DEF findIntegrationLeft
    <3>2. scanConflicts(s, x, it, it.left, conflict, it.right)
            \in {it.left} \cup ToSet(From(s, conflict))
      <4> HIDE DEF conflict
      <4> QED BY <1>1, ScanEndsAtNode
    <3> QED BY <1>1, <3>1, <3>2
  <2>2. CASE ~mustScan(s, it)
    BY <2>2 DEF findIntegrationLeft
  <2> QED BY <2>1, <2>2
<1>3. \A z \in ToSet(l) : z \in DOMAIN s.heap /\ s.heap[z].parent = t
  BY DEF Sound, Linked, ListOf
<1> HIDE DEF left
<1>4. left # Nil => left \in DOMAIN s.heap /\ s.heap[left].parent = t
  BY <1>2, <1>3
<1>5. \E i \in 0 .. Len(l) :
         /\ left = IF i = 0 THEN Nil ELSE l[i]
         /\ rightOf(s, t, left) = IF i = Len(l) THEN Nil ELSE l[i + 1]
  BY <1>4, Place
<1> QED BY <1>5 DEF left

\* A node that begins where its client's units end lengthens the run list.
LEMMA RunGrows ==
  ASSUME NEW s, Runs(s), NEW x \in Id, clockOf(x) = Size(s, clientOf(x)), x \notin DOMAIN s.heap,
         NEW r \in StoreType, DOMAIN r.heap = DOMAIN s.heap \cup {x},
         \A z \in DOMAIN s.heap : r.heap[z].len = s.heap[z].len,
         r.items = [s.items EXCEPT ![clientOf(x)] = Append(s.items[clientOf(x)], x)]
  PROVE  Runs(r)
<1> DEFINE h == s.heap
           g == r.heap
           c == clientOf(x)
<1>0. s \in StoreType /\ c \in Client /\ s.items \in [Client -> Seq(Id)]
  BY IdFacts DEF Runs, StoreType
<1> SUFFICES ASSUME NEW e \in Client PROVE RunOf(r, e)
  BY DEF Runs
<1> DEFINE run == s.items[e]
           new == r.items[e]
           m == Len(run)
<1>1. /\ run \in Seq(Id) /\ m \in Nat /\ DOMAIN run = 1 .. m
      /\ \A j \in 1 .. m : run[j] \in DOMAIN h
  BY RunTiles
<1>2. /\ ToSet(run) = {z \in DOMAIN h : clientOf(z) = e}
      /\ \A j \in 1 .. m : clockOf(run[j]) = IF j = 1 THEN 0
                               ELSE clockOf(run[j - 1]) + h[run[j - 1]].len
  BY <1>1 DEF Runs, RunOf
<1>3. CASE e # c
  <2>1. new = run
    BY <1>0, <1>3
  <2>2. ToSet(new) = {z \in DOMAIN g : clientOf(z) = e}
    BY <2>1, <1>2, <1>3
  <2>3. \A j \in 1 .. m : j # 1 => j - 1 \in 1 .. m
    BY <1>1
  <2> HIDE DEF run, new, m
  <2>4. \A j \in 1 .. m : clockOf(new[j]) = IF j = 1 THEN 0
                               ELSE clockOf(new[j - 1]) + g[new[j - 1]].len
    BY <2>1, <2>3, <1>1, <1>2
  <2> QED BY <2>1, <2>2, <2>4, <1>1 DEF RunOf, new, run, m, g
<1>4. CASE e = c
  <2>1. new = Append(run, x)
    BY <1>0, <1>4
  <2>2. /\ new \in Seq(Id) /\ Len(new) = m + 1 /\ DOMAIN new = 1 .. m + 1
        /\ \A j \in 1 .. m : new[j] = run[j]
        /\ new[m + 1] = x
    <3> HIDE DEF new, run
    <3> QED BY <2>1, <1>1
  <2>3. ToSet(new) = ToSet(run) \cup {x}
    <3>1. \A j \in 1 .. m + 1 : j \in 1 .. m \/ j = m + 1
      BY <1>1
    <3>2. m + 1 \in 1 .. m + 1 /\ \A j \in 1 .. m : j \in 1 .. m + 1
      BY <1>1
    <3> HIDE DEF new, run, m
    <3> QED BY <3>1, <3>2, <2>2, <1>1 DEF ToSet
  <2>4. ToSet(new) = {z \in DOMAIN g : clientOf(z) = e}
    BY <2>3, <1>2, <1>4
  <2>5. clockOf(x) = IF m = 0 THEN 0 ELSE clockOf(run[m]) + h[run[m]].len
    BY <1>1, <1>4 DEF Size
  <2>6. ASSUME NEW j \in 1 .. m + 1
        PROVE  clockOf(new[j]) = IF j = 1 THEN 0
                                 ELSE clockOf(new[j - 1]) + g[new[j - 1]].len
    <3>1. j # 1 => j - 1 \in 1 .. m
      BY <1>1
    <3> HIDE DEF new, run, m
    <3>2. CASE j = m + 1
      <4>1. (m = 0 <=> j = 1) /\ j - 1 = m
        BY <3>2, <1>1
      <4> QED BY <3>1, <3>2, <4>1, <2>2, <2>5, <1>1
    <3>3. CASE j # m + 1
      <4>1. j \in 1 .. m
        BY <3>3, <1>1
      <4> QED BY <3>1, <4>1, <2>2, <1>1, <1>2
    <3> QED BY <3>2, <3>3
  <2> HIDE DEF new, m, run
  <2> QED BY <2>2, <2>4, <2>6 DEF RunOf, new, g
<1> QED BY <1>3, <1>4

\* Nothing begins where a client's units end.
LEMMA FreeId ==
  ASSUME NEW s, Runs(s), NEW x \in Id, clockOf(x) = Size(s, clientOf(x)), NEW n \in Nat
  PROVE  x \notin DOMAIN s.heap /\ Ids(x, n) \cap Integrated(s) = {}
<1>0. s \in StoreType /\ Size(s, clientOf(x)) \in Nat
  BY Holds, IdFacts DEF Runs
<1>1. Ids(x, n) \cap Integrated(s) = {}
  <2> SUFFICES ASSUME NEW u \in Ids(x, n), u \in Integrated(s) PROVE FALSE
    OBVIOUS
  <2>1. u \in Id /\ clientOf(u) = clientOf(x) /\ clockOf(x) <= clockOf(u)
    BY IdsAre
  <2>2. clockOf(u) < Size(s, clientOf(u)) /\ clockOf(u) \in Nat
    BY <2>1, Holds, IdFacts
  <2> QED BY <2>1, <2>2, <1>0
<1>2. x \notin Integrated(s)
  <2>1. ~(clockOf(x) < Size(s, clientOf(x)))
    BY <1>0
  <2> QED BY <2>1, Holds
<1>3. x \in DOMAIN s.heap => x \in Integrated(s)
  <2> SUFFICES ASSUME x \in DOMAIN s.heap PROVE x \in Units(s, x)
    BY DEF Integrated
  <2>1. s.heap[x].len \in Nat \ {0} /\ clockOf(x) \in Nat
    BY <1>0, HeapFacts, IdFacts
  <2> QED BY <2>1, IdsAre DEF Units
<1> QED BY <1>1, <1>2, <1>3

\* Store r is store s with a node of n visible units at x added to the list of root
\* type t.
Adds(s, r, t, x, n) ==
  /\ Sound(r) /\ Frame(s, r)
  /\ Integrated(r) = Integrated(s) \cup Ids(x, n)
  /\ Tombstones(r) = Tombstones(s)
  /\ r.len = [s.len EXCEPT ![t] = s.len[t] + n]
  /\ \A u \in Root : Live(r, u) = IF u = t THEN Live(s, t) \cup Ids(x, n) ELSE Live(s, u)
  /\ DOMAIN r.heap = DOMAIN s.heap \cup {x}
  /\ r.heap[x].parent = t /\ r.heap[x].len = n
  /\ \A z \in DOMAIN s.heap : /\ r.heap[z].parent = s.heap[z].parent
                              /\ r.heap[z].len = s.heap[z].len
                              /\ r.heap[z].originLeftId = s.heap[z].originLeftId
                              /\ r.heap[z].originRightId = s.heap[z].originRightId
  /\ \A u \in Root : u # t => Chain(r, u) = Chain(s, u)
  /\ \E i \in 0 .. Len(Chain(s, t)) : Chain(r, t) = InsertAt(Chain(s, t), i + 1, x)
  /\ \A u \in Root : Before(s, u) \subseteq Before(r, u)

\* A node that begins where its client's units end, integrated beside a node of
\* its type, is added, and the lists of the store stay as they should be.
THEOREM IntegrateKeeps ==
  ASSUME NEW s, Sound(s), NEW x \in Id, clockOf(x) = Size(s, clientOf(x)),
         NEW it \in Struct, it.parent # Nil,
         it.left # Nil => it.left \in DOMAIN s.heap /\ s.heap[it.left].parent = it.parent
  PROVE  LET r == Integrate(s, x, it)
         IN  /\ Adds(s, r, it.parent, x, it.len)
             /\ r.heap[x].originLeftId = it.originLeftId
             /\ r.heap[x].originRightId = it.originRightId
             /\ \E i \in 0 .. Len(Chain(s, it.parent)) :
                  /\ findIntegrationLeft(s, it.parent, x, it)
                       = IF i = 0 THEN Nil ELSE Chain(s, it.parent)[i]
                  /\ Chain(r, it.parent) = InsertAt(Chain(s, it.parent), i + 1, x)
<1> DEFINE t == it.parent
           r == Integrate(s, x, it)
           l == Chain(s, t)
           left == findIntegrationLeft(s, t, x, it)
           right == rightOf(s, t, left)
           h == s.heap
           g == r.heap
           n == it.len
<1>0. s \in StoreType /\ Runs(s) /\ Linked(s) /\ t \in Root /\ n \in Nat \ {0}
  BY DEF Sound, Runs, Struct
<1>1. x \notin DOMAIN h
  <2>1. 1 \in Nat
    OBVIOUS
  <2> QED BY <2>1, <1>0, FreeId
<1>2. PICK i \in 0 .. Len(l) : /\ left = IF i = 0 THEN Nil ELSE l[i]
                               /\ right = IF i = Len(l) THEN Nil ELSE l[i + 1]
  BY <1>0, IntegrationPlace
<1>3. ListOf(s, t, l) /\ l \in Seq(Id) /\ \A j \in 1 .. Len(l) : l[j] \in DOMAIN h
  <2>1. ListOf(s, t, l)
    BY <1>0 DEF Linked
  <2>2. \A j \in 1 .. Len(l) : l[j] \in ToSet(l)
    BY <2>1 DEF ListOf, ToSet
  <2> QED BY <2>1, <2>2 DEF ListOf
<1>4. left \in DOMAIN h \cup {Nil} /\ right \in DOMAIN h \cup {Nil}
  <2>1. /\ i # 0 => i \in 1 .. Len(l)
        /\ i # Len(l) => i + 1 \in 1 .. Len(l)
    BY <1>2, <1>3
  <2> HIDE DEF left, right, l
  <2> QED BY <2>1, <1>2, <1>3
<1>5. r = addNode(link(s, t, x, it, left, right), x)
  BY DEF Integrate, integrateCore
<1> HIDE DEF left, right, r, l
<1>6. /\ r \in StoreType /\ Frame(s, r)
      /\ DOMAIN g = DOMAIN h \cup {x} /\ g \in Heap
      /\ g[x].originLeftId = it.originLeftId /\ g[x].originRightId = it.originRightId
      /\ g[x].left = left /\ g[x].right = right
      /\ g[x].parent = t /\ g[x].len = it.len /\ ~g[x].deleted
      /\ \A z \in DOMAIN h :
           /\ g[z].originLeftId = h[z].originLeftId
           /\ g[z].originRightId = h[z].originRightId
           /\ g[z].left = IF z = right THEN x ELSE h[z].left
           /\ g[z].right = IF z = left THEN x ELSE h[z].right
           /\ g[z].parent = h[z].parent
           /\ g[z].len = h[z].len
           /\ g[z].deleted = h[z].deleted
      /\ r.start = [s.start EXCEPT ![t] = IF left = Nil THEN x ELSE s.start[t]]
      /\ r.len = [s.len EXCEPT ![t] = s.len[t] + it.len]
      /\ r.items = [s.items EXCEPT ![clientOf(x)] = Append(s.items[clientOf(x)], x)]
  <2>1. /\ s \in StoreType /\ t \in Root /\ x \notin DOMAIN s.heap /\ it.parent = t
        /\ left \in DOMAIN s.heap \cup {Nil} /\ right \in DOMAIN s.heap \cup {Nil}
    BY <1>0, <1>1, <1>4
  <2> HIDE DEF t, g, h
  <2>2. LinkedAs(s, r, t, x, it, left, right)
    BY <1>5, <2>1, LinkFields
  <2> QED BY <2>2 DEF LinkedAs, g, h
<1>7. Runs(r)
  <2> HIDE DEF t
  <2>1. /\ r \in StoreType /\ DOMAIN r.heap = DOMAIN s.heap \cup {x}
        /\ \A z \in DOMAIN s.heap : r.heap[z].len = s.heap[z].len
        /\ r.items = [s.items EXCEPT ![clientOf(x)] = Append(s.items[clientOf(x)], x)]
    BY <1>6
  <2> QED BY <2>1, <1>0, <1>1, RunGrows
<1>8. LinkedIn(s, r, t, l, i, x)
  <2>1. left = Nil <=> i = 0
    <3>1. i # 0 => l[i] \in DOMAIN h
      <4>1. i # 0 => i \in 1 .. Len(l)
        BY <1>2, <1>3
      <4> QED BY <4>1, <1>3
    <3>2. Nil \notin DOMAIN h
      BY <1>0, HeapFacts
    <3> QED BY <1>2, <3>1, <3>2
  <2>2. \A u \in Root : r.start[u] = IF u = t /\ i = 0 THEN x ELSE s.start[u]
    <3>1. s.start \in [Root -> OptId]
      BY <1>0 DEF StoreType
    <3> QED BY <3>1, <2>1, <1>0, <1>6
  <2> HIDE DEF t, g, h
  <2> QED BY <2>2, <1>1, <1>2, <1>6 DEF LinkedIn, g, h
<1>9. ListOf(r, t, InsertAt(l, i + 1, x))
  BY <1>0, <1>2, <1>3, <1>8, ListGrows
<1>10. \A u \in Root : u # t => ListOf(r, u, Chain(s, u))
  <2> TAKE u \in Root
  <2> HAVE u # t
  <2>1. ListOf(s, u, Chain(s, u))
    BY <1>0 DEF Linked
  <2> QED BY <2>1, <1>0, <1>2, <1>3, <1>8, OtherLists
<1>11. Linked(r) /\ \A u \in Root : \A m : ListOf(r, u, m) => Chain(r, u) = m
  <2>1. \A u \in Root : \E m : ListOf(r, u, m)
    BY <1>9, <1>10
  <2> QED BY <2>1, <1>6, ListsAreChains
<1>12. /\ Chain(r, t) = InsertAt(l, i + 1, x)
       /\ \A u \in Root : u # t => Chain(r, u) = Chain(s, u)
  BY <1>0, <1>9, <1>10, <1>11
<1>13. /\ Units(r, x) = Ids(x, n)
       /\ \A z \in DOMAIN h : Units(r, z) = Units(s, z)
  BY <1>6 DEF Units
<1>14. /\ Integrated(r) = Integrated(s) \cup Ids(x, n)
       /\ Tombstones(r) = Tombstones(s)
  BY <1>1, <1>6, <1>13 DEF Integrated, Tombstones
<1>15. \A u \in Root : Live(r, u) = IF u = t THEN Live(s, t) \cup Ids(x, n) ELSE Live(s, u)
  BY <1>1, <1>6, <1>13 DEF Live
<1>16. \A u \in Root : Before(s, u) \subseteq Before(r, u)
  <2> TAKE u \in Root
  <2>1. CASE u = t
    <3>1. \A j \in 1 .. Len(l) : Units(r, l[j]) = Units(s, l[j])
      BY <1>3, <1>13
    <3>2. OrderOf(s, l) \subseteq OrderOf(r, InsertAt(l, i + 1, x))
      BY <1>2, <1>3, <3>1, InsertedOrder
    <3> QED BY <2>1, <3>2, <1>12 DEF Before, l
  <2>2. CASE u # t
    <3> DEFINE m == Chain(s, u)
    <3>1. \A j \in DOMAIN m : Units(r, m[j]) = Units(s, m[j])
      <4> TAKE j \in DOMAIN m
      <4>1. m[j] \in ToSet(m) /\ ListOf(s, u, m)
        BY <1>0 DEF ToSet, Linked
      <4>2. m[j] \in DOMAIN h
        BY <4>1 DEF ListOf
      <4> QED BY <4>2, <1>13
    <3> QED BY <2>2, <3>1, <1>12 DEF Before, OrderOf
  <2> QED BY <2>1, <2>2
<1>17. \E j \in 0 .. Len(l) : /\ left = IF j = 0 THEN Nil ELSE l[j]
                            /\ Chain(r, t) = InsertAt(l, j + 1, x)
  BY <1>2, <1>12
<1>18. Adds(s, r, t, x, n)
  BY <1>2, <1>6, <1>7, <1>11, <1>12, <1>14, <1>15, <1>16 DEF Adds, Sound, r, l
<1> QED BY <1>6, <1>17, <1>18 DEF r, l, left

\* Store r is store s with the units of node x hidden.
Hides(s, r, x) ==
  /\ Sound(r) /\ Frame(s, r)
  /\ Integrated(r) = Integrated(s)
  /\ Tombstones(r) = Tombstones(s) \cup Units(s, x)
  /\ r.len = [s.len EXCEPT ![s.heap[x].parent] =
                s.len[s.heap[x].parent] - IF s.heap[x].deleted THEN 0 ELSE s.heap[x].len]
  /\ \A u \in Root : Live(r, u) = Live(s, u) \ Units(s, x)
  /\ DOMAIN r.heap = DOMAIN s.heap
  /\ \A z \in DOMAIN s.heap : /\ r.heap[z].parent = s.heap[z].parent
                              /\ r.heap[z].len = s.heap[z].len
                              /\ r.heap[z].right = s.heap[z].right
                              /\ r.heap[z].originLeftId = s.heap[z].originLeftId
                              /\ r.heap[z].originRightId = s.heap[z].originRightId
                              /\ r.heap[z].deleted <=> s.heap[z].deleted \/ z = x
  /\ \A u \in Root : Chain(r, u) = Chain(s, u) /\ Before(r, u) = Before(s, u)

\* A deletion of a node hides its units, all of them and no others, and leaves
\* the lists alone.
THEOREM DeleteKeeps ==
  ASSUME NEW s, Sound(s), NEW x \in DOMAIN s.heap
  PROVE  Hides(s, deleteNode(s, x), x)
<1> DEFINE h == s.heap
           r == deleteNode(s, x)
           g == r.heap
           t == h[x].parent
           len == [s.len EXCEPT ![t] = s.len[t] - IF h[x].deleted THEN 0 ELSE h[x].len]
<1>0. s \in StoreType /\ Runs(s) /\ Linked(s)
  BY DEF Sound, Runs
<1>1. /\ h \in [DOMAIN h -> Node] /\ DOMAIN h \subseteq Id /\ h[x] \in Node
      /\ t \in Root /\ h[x].len \in Nat /\ h[x].deleted \in BOOLEAN
  BY <1>0, HeapFacts DEF Node
<1>2. /\ r \in StoreType /\ Frame(s, r) /\ r.start = s.start /\ r.items = s.items /\ r.len = len
      /\ DOMAIN g = DOMAIN h
      /\ \A z \in DOMAIN h :
           /\ g[z].left = h[z].left /\ g[z].right = h[z].right
           /\ g[z].parent = h[z].parent /\ g[z].len = h[z].len
           /\ g[z].originLeftId = h[z].originLeftId
           /\ g[z].originRightId = h[z].originRightId
           /\ g[z].deleted <=> h[z].deleted \/ z = x
  <2>0. s.len \in [Root -> Int]
    BY <1>0 DEF StoreType
  <2>1. CASE h[x].deleted
    <3>1. r = s
      BY <2>1 DEF deleteNode
    <3>2. len = s.len
      <4>1. s.len[t] - 0 = s.len[t]
        BY <1>1, <2>0
      <4> QED BY <4>1, <2>0, <2>1
    <3> QED BY <2>1, <3>1, <3>2, <1>0 DEF Frame
  <2>2. CASE ~h[x].deleted
    <3> DEFINE dead == [h EXCEPT ![x].deleted = TRUE]
    <3>1. r = [s EXCEPT !.heap = dead, !.len = len]
      BY <2>2, <1>0 DEF deleteNode, StoreType
    <3>2. /\ DOMAIN dead = DOMAIN h
          /\ \A z \in DOMAIN h : dead[z] = IF z = x THEN [h[x] EXCEPT !.deleted = TRUE] ELSE h[z]
      BY <1>1
    <3> HIDE DEF dead
    <3>3. ASSUME NEW z \in DOMAIN h
          PROVE  /\ dead[z] \in Node
                 /\ dead[z].left = h[z].left /\ dead[z].right = h[z].right
                 /\ dead[z].parent = h[z].parent /\ dead[z].len = h[z].len
                 /\ dead[z].originLeftId = h[z].originLeftId
                 /\ dead[z].originRightId = h[z].originRightId
                 /\ dead[z].deleted <=> h[z].deleted \/ z = x
      <4>0. h[z] \in Node
        BY <1>1
      <4>1. CASE z = x
        <5>1. dead[z] = [h[x] EXCEPT !.deleted = TRUE]
          BY <4>1, <3>2
        <5> QED BY <4>1, <5>1, <1>1 DEF Node
      <4>2. CASE z # x
        <5>1. dead[z] = h[z]
          BY <4>2, <3>2
        <5> QED BY <4>0, <4>2, <5>1
      <4> QED BY <4>1, <4>2
    <3>4. dead \in Heap
      <4>1. dead = [z \in DOMAIN h |-> dead[z]]
        BY <3>2 DEF dead
      <4>2. dead \in [DOMAIN h -> Node]
        BY <3>3, <4>1
      <4> QED BY <4>2, <1>1 DEF Heap
    <3>5. len \in [Root -> Int]
      <4>1. s.len[t] - (IF h[x].deleted THEN 0 ELSE h[x].len) \in Int
        BY <1>1, <2>0
      <4> QED BY <4>1, <2>0
    <3> HIDE DEF len, r
    <3>6. r \in StoreType /\ Frame(s, r) /\ r.start = s.start /\ r.items = s.items /\ r.len = len
          /\ r.heap = dead
      BY <1>0, <3>1, <3>4, <3>5 DEF StoreType, Frame
    <3> QED BY <3>2, <3>3, <3>6
  <2> QED BY <2>1, <2>2
<1> HIDE DEF r, len
<1>3. Runs(r)
  <2> SUFFICES ASSUME NEW c \in Client PROVE RunOf(r, c)
    BY <1>2 DEF Runs
  <2> DEFINE run == s.items[c]
             m == Len(run)
  <2>1. RunOf(s, c)
    BY <1>0 DEF Runs
  <2>2. DOMAIN run = 1 .. m /\ m \in Nat /\ \A j \in 1 .. m : run[j] \in DOMAIN h
    BY <1>0, RunTiles
  <2>3. \A j \in 1 .. m : j # 1 => j - 1 \in 1 .. m
    BY <2>2
  <2>4. \A j \in 1 .. m : clockOf(run[j]) = IF j = 1 THEN 0
                               ELSE clockOf(run[j - 1]) + h[run[j - 1]].len
    BY <2>1, <2>2 DEF RunOf
  <2>5. run \in Seq(Id) /\ ToSet(run) = {z \in DOMAIN h : clientOf(z) = c}
    BY <2>1 DEF RunOf
  <2>6. ToSet(run) = {z \in DOMAIN g : clientOf(z) = c}
    BY <2>5, <1>2
  <2> HIDE DEF run, m, h, g
  <2>7. \A j \in 1 .. m : clockOf(run[j]) = IF j = 1 THEN 0
                               ELSE clockOf(run[j - 1]) + g[run[j - 1]].len
    BY <2>2, <2>3, <2>4, <1>2
  <2> QED BY <2>2, <2>5, <2>6, <2>7, <1>2 DEF RunOf, run, m, g
<1>4. \A u \in Root : ListOf(r, u, Chain(s, u))
  <2> TAKE u \in Root
  <2> DEFINE l == Chain(s, u)
  <2>1. ListOf(s, u, l)
    BY <1>0 DEF Linked
  <2> HIDE DEF l
  <2>2. \A i \in DOMAIN l : l[i] \in DOMAIN h
    <3> TAKE i \in DOMAIN l
    <3>1. l[i] \in ToSet(l)
      BY DEF ToSet
    <3> QED BY <2>1, <3>1 DEF ListOf
  <2>3. ToSet(l) = {z \in DOMAIN g : g[z].parent = u}
    BY <2>1, <1>2 DEF ListOf
  <2>4. \A i \in DOMAIN l :
         /\ g[l[i]].left = IF i = 1 THEN Nil ELSE l[i - 1]
         /\ g[l[i]].right = IF i = Len(l) THEN Nil ELSE l[i + 1]
    <3>1. \A i \in DOMAIN l :
            /\ h[l[i]].left = IF i = 1 THEN Nil ELSE l[i - 1]
            /\ h[l[i]].right = IF i = Len(l) THEN Nil ELSE l[i + 1]
      BY <2>1 DEF ListOf
    <3> HIDE DEF h, g
    <3> QED BY <3>1, <2>2, <1>2
  <2> QED BY <2>1, <2>3, <2>4, <1>2 DEF ListOf, l
<1>5. Linked(r) /\ \A u \in Root : Chain(r, u) = Chain(s, u)
  BY <1>2, <1>4, ListsAreChains
<1>6. \A z \in DOMAIN h : Units(r, z) = Units(s, z)
  BY <1>2 DEF Units
<1>7. Integrated(r) = Integrated(s) /\ Tombstones(r) = Tombstones(s) \cup Units(s, x)
  BY <1>2, <1>6 DEF Integrated, Tombstones
<1>8. \A u \in Root : Live(r, u) = Live(s, u) \ Units(s, x)
  <2> TAKE u \in Root
  <2>1. \A z \in DOMAIN h : z # x => Units(s, z) \cap Units(s, x) = {}
    BY <1>0, NodesApart
  <2>2. {z \in DOMAIN g : g[z].parent = u /\ ~g[z].deleted}
          = {z \in DOMAIN h : h[z].parent = u /\ ~h[z].deleted} \ {x}
    BY <1>2
  <2> QED BY <1>6, <2>1, <2>2 DEF Live
<1>9. \A u \in Root : Before(r, u) = Before(s, u)
  <2> TAKE u \in Root
  <2> DEFINE m == Chain(s, u)
  <2>1. \A j \in DOMAIN m : Units(r, m[j]) = Units(s, m[j])
    <3> TAKE j \in DOMAIN m
    <3>1. m[j] \in ToSet(m) /\ ListOf(s, u, m)
      BY <1>0 DEF ToSet, Linked
    <3>2. m[j] \in DOMAIN h
      BY <3>1 DEF ListOf
    <3> QED BY <3>2, <1>6
  <2> QED BY <2>1, <1>5 DEF Before, OrderOf
<1> QED BY <1>2, <1>3, <1>5, <1>7, <1>8, <1>9 DEF Hides, Sound, r, len

\* What repair makes of a struct in a store: the store with some nodes cut, and
\* the struct with neighbours in it and the parent they say.
Repaired(s, it, name, r) ==
  /\ Cut(s, r.store)
  /\ r.item \in Struct /\ r.item.len = it.len
  /\ r.item.originLeftId = it.originLeftId /\ r.item.originRightId = it.originRightId
  /\ r.item.left = Nil <=> it.originLeftId = Nil \/ it.originLeftId \notin Integrated(s)
  /\ r.item.left # Nil =>
       /\ r.item.left \in DOMAIN r.store.heap
       /\ r.item.parent = r.store.heap[r.item.left].parent
       /\ \/ LastId(r.store, r.item.left) = it.originLeftId
          \/ Le(Before(r.store, r.item.parent), it.originRightId, it.originLeftId)
  /\ r.item.right = Nil <=> it.originRightId = Nil \/ it.originRightId \notin Integrated(s)
  /\ r.item.right # Nil => r.item.right = it.originRightId /\ r.item.right \in DOMAIN r.store.heap
  /\ r.item.parent = parentOf(r.store.heap, r.item.left, r.item.right, name)
  /\ r.item.parent = Nil =>
       /\ name = Nil
       /\ it.originLeftId = Nil \/ it.originLeftId \notin Integrated(s)
       /\ it.originRightId = Nil \/ it.originRightId \notin Integrated(s)

\* repair of a struct that names its root only when it has no origins.
THEOREM RepairKeeps ==
  ASSUME NEW s, Sound(s), NEW it \in Struct, NEW name \in Root \cup {Nil},
         name # Nil => it.originLeftId = Nil /\ it.originRightId = Nil
  PROVE  Repaired(s, it, name, repair(s, it, name))
<1> DEFINE ol == it.originLeftId
           or == it.originRightId
           leftIn(st) == IF ol = Nil THEN [store |-> st, node |-> Nil]
                         ELSE splitAtAndGetLeft(st, ol)
           rightIn(st) == IF or = Nil THEN [store |-> st, node |-> Nil]
                          ELSE splitAtAndGetRight(st, or)
           l == leftIn(s)
           r == rightIn(l.store)
           a == l.node
           b == r.node
           q == r.store
           p == parentOf(q.heap, a, b, name)
           item == [it EXCEPT !.left = a, !.right = b, !.parent = p]
<1>1. repair(s, it, name) = [store |-> q, item |-> item]
  BY DEF repair
<1>2. ol \in OptId /\ or \in OptId
  BY DEF Struct
<1>3. /\ Cut(s, l.store)
      /\ a = Nil <=> ol = Nil \/ ol \notin Integrated(s)
      /\ a # Nil => a \in DOMAIN l.store.heap /\ LastId(l.store, a) = ol
  <2>1. CASE ol = Nil
    <3>1. l = [store |-> s, node |-> Nil]
      BY <2>1
    <3> QED BY <2>1, <3>1, NotCut
  <2>2. CASE ol # Nil
    <3>1. ol \in Id
      BY <1>2, <2>2 DEF OptId
    <3>2. l = splitAtAndGetLeft(s, ol)
      BY <2>2
    <3> HIDE DEF l, ol
    <3>3. /\ Cut(s, l.store)
          /\ l.node = Nil <=> ol \notin Integrated(s)
          /\ l.node # Nil => l.node \in DOMAIN l.store.heap /\ LastId(l.store, l.node) = ol
      BY <3>1, <3>2, AtLeft
    <3> QED BY <2>2, <3>3
  <2> QED BY <2>1, <2>2
<1> HIDE DEF l
<1>4. /\ Cut(l.store, q)
      /\ b = Nil <=> or = Nil \/ or \notin Integrated(s)
      /\ b # Nil => b \in DOMAIN q.heap /\ b = or
      /\ \A z \in DOMAIN l.store.heap :
           \/ or # Nil /\ or \in Units(l.store, z)
           \/ LastId(q, z) = LastId(l.store, z)
  <2>0. Sound(l.store) /\ Integrated(l.store) = Integrated(s)
    BY <1>3 DEF Cut
  <2>1. CASE or = Nil
    <3>1. r = [store |-> l.store, node |-> Nil]
      BY <2>1
    <3> QED BY <2>0, <2>1, <3>1, NotCut
  <2>2. CASE or # Nil
    <3>1. or \in Id
      BY <1>2, <2>2 DEF OptId
    <3>2. r = splitAtAndGetRight(l.store, or)
      BY <2>2
    <3> HIDE DEF r, or
    <3>3. /\ Cut(l.store, r.store)
          /\ r.node = Nil <=> or \notin Integrated(l.store)
          /\ r.node # Nil => r.node = or /\ or \in DOMAIN r.store.heap
          /\ \A z \in DOMAIN l.store.heap :
               or \in Units(l.store, z) \/ LastId(r.store, z) = LastId(l.store, z)
      BY <2>0, <3>1, <3>2, AtRight
    <3> QED BY <2>0, <2>2, <3>3
  <2> QED BY <2>1, <2>2
<1> HIDE DEF r, a, b, q
<1>5. Cut(s, q) /\ (a # Nil => a \in DOMAIN q.heap)
  <2>1. Cut(s, q)
    BY <1>3, <1>4, CutAgain
  <2>2. a # Nil => a \in DOMAIN q.heap
    BY <1>3, <1>4 DEF Cut, a
  <2> QED BY <2>1, <2>2
<1>6. /\ q \in StoreType /\ DOMAIN q.heap \subseteq Id
      /\ \A z \in DOMAIN q.heap : q.heap[z].parent \in Root
      /\ Nil \notin Root
  <2>1. q \in StoreType
    BY <1>5 DEF Cut, Sound, Runs
  <2> QED BY <2>1, HeapFacts, NilAssumption
<1>7. p \in Root \cup {Nil}
  BY <1>4, <1>5, <1>6 DEF parentOf
<1>8. p = Nil => name = Nil /\ a = Nil /\ b = Nil
  BY <1>4, <1>5, <1>6 DEF parentOf
<1>9. a # Nil => p = q.heap[a].parent
  <2>1. a # Nil => name = Nil
    BY <1>3
  <2> QED BY <2>1 DEF parentOf
<1>b. a # Nil => LastId(q, a) = ol \/ Le(Before(q, p), or, ol)
  <2> SUFFICES ASSUME a # Nil, or \in Units(l.store, a) PROVE Le(Before(q, p), or, ol)
    BY <1>3, <1>4
  <2> DEFINE v == l.store
             t == v.heap[a].parent
  <2>1. /\ Sound(v) /\ a \in DOMAIN v.heap /\ v \in StoreType /\ a \in Id
        /\ v.heap[a].len \in Nat \ {0} /\ t \in Root
    BY <1>3, HeapFacts DEF Cut, Sound, Runs
  <2>2. p = t /\ Before(v, t) \subseteq Before(q, t)
    BY <1>4, <1>9, <2>1 DEF Cut
  <2>3. ol \in Units(v, a) /\ clockOf(or) <= clockOf(ol) /\ or \in Id /\ ol \in Id
    <3> DEFINE n == v.heap[a].len
    <3>1. /\ ol = Add(a, n - 1) /\ n \in Nat \ {0}
      BY <1>3, <2>1 DEF LastId
    <3>2. clockOf(a) \in Nat /\ Units(v, a) = Ids(a, n)
      BY <2>1, IdFacts DEF Units
    <3> HIDE DEF n
    <3>3. n - 1 \in 0 .. n - 1 /\ n \in Nat
      BY <3>1
    <3>4. ol \in Ids(a, n)
      BY <3>1, <3>3 DEF Ids
    <3>5. clockOf(ol) = clockOf(a) + (n - 1)
      BY <3>1 DEF Add, clockOf
    <3>6. or \in Id /\ clockOf(or) < clockOf(a) + n /\ ol \in Id
      BY <2>1, <3>2, <3>3, <3>4, IdsAre
    <3>7. clockOf(or) \in Nat
      BY <3>6, IdFacts
    <3> QED BY <3>2, <3>1, <3>4, <3>5, <3>6, <3>7
  <2>4. ListOf(v, t, Chain(v, t))
    BY <2>1 DEF Sound, Linked
  <2>5. a \in ToSet(Chain(v, t))
    BY <2>1, <2>4 DEF ListOf
  <2>6. PICK i \in DOMAIN Chain(v, t) : Chain(v, t)[i] = a
    BY <2>5 DEF ToSet
  <2>7. <<or, ol>> \in OrderOf(v, Chain(v, t))
    BY <2>3, <2>6 DEF OrderOf
  <2> QED BY <2>2, <2>7 DEF Le, Before
<1> HIDE DEF p
<1>10. a \in OptId /\ b \in OptId
  BY <1>4, <1>5, <1>6 DEF OptId
<1>11. /\ item \in Struct /\ item.left = a /\ item.right = b /\ item.parent = p /\ item.len = it.len
       /\ item.originLeftId = ol /\ item.originRightId = or
  BY <1>7, <1>10 DEF Struct
<1>c. p = parentOf(q.heap, a, b, name)
  BY DEF p
<1> HIDE DEF item, ol, or
<1>12. \A w : w = [store |-> q, item |-> item] => Repaired(s, it, name, w)
  BY <1>3, <1>4, <1>5, <1>8, <1>9, <1>b, <1>c, <1>11 DEF Repaired, ol, or
<1> QED BY <1>1, <1>12

\* The visible length of each root type counts the units it shows.
Counted(s) ==
  \A t \in Root : IsFiniteSet(Live(s, t)) /\ s.len[t] = Cardinality(Live(s, t))

\* A run of n units has n units.
LEMMA IdsCount ==
  ASSUME NEW x \in Id, NEW n \in Nat
  PROVE  IsFiniteSet(Ids(x, n)) /\ Cardinality(Ids(x, n)) = n
<1> DEFINE f == [k \in 1 .. n |-> Add(x, k - 1)]
<1>1. IsFiniteSet(1 .. n) /\ Cardinality(1 .. n) = n
  <2>1. 1 \in Int /\ n \in Int
    OBVIOUS
  <2>2. /\ IsFiniteSet(1 .. n)
        /\ Cardinality(1 .. n) = IF 1 > n THEN 0 ELSE n - 1 + 1
    BY <2>1, FS_Interval
  <2> QED BY <2>2
<1>2. f \in Bijection(1 .. n, Ids(x, n))
  <2>1. \A k \in 1 .. n : f[k] \in Ids(x, n)
    <3> TAKE k \in 1 .. n
    <3>1. k - 1 \in 0 .. n - 1
      OBVIOUS
    <3> QED BY <3>1 DEF Ids
  <2>2. \A u \in Ids(x, n) : \E k \in 1 .. n : f[k] = u
    <3> TAKE u \in Ids(x, n)
    <3>1. PICK j \in 0 .. n - 1 : u = Add(x, j)
      BY DEF Ids
    <3>2. j + 1 \in 1 .. n /\ (j + 1) - 1 = j
      BY <3>1
    <3> QED BY <3>1, <3>2
  <2>3. \A i, j \in 1 .. n : f[i] = f[j] => i = j
    <3> TAKE i, j \in 1 .. n
    <3>1. clockOf(Add(x, i - 1)) = clockOf(x) + (i - 1) /\ clockOf(Add(x, j - 1)) = clockOf(x) + (j - 1)
      <4>1. i - 1 \in Nat /\ j - 1 \in Nat
        OBVIOUS
      <4> QED BY <4>1, IdFacts
    <3>2. clockOf(x) \in Nat
      BY IdFacts
    <3> QED BY <3>1, <3>2
  <2>4. f \in [1 .. n -> Ids(x, n)]
    BY <2>1
  <2> HIDE DEF f
  <2> QED BY <2>2, <2>3, <2>4 DEF Bijection, Injection, Surjection, IsInjective
<1>3. ExistsBijection(1 .. n, Ids(x, n))
  BY <1>2 DEF ExistsBijection
<1> QED BY <1>1, <1>3, FS_Bijection

\* What is cut shows as much as before.
LEMMA CutCounted ==
  ASSUME NEW s, NEW r, Cut(s, r), Counted(s)
  PROVE  Counted(r)
BY DEF Cut, Counted

\* What a root type shows is in the document.
LEMMA LiveIntegrated ==
  ASSUME NEW s, NEW t
  PROVE  Live(s, t) \subseteq Integrated(s)
BY DEF Live, Integrated

\* A new node of n visible units is counted: the visible length is still the number
\* of units shown.
THEOREM AddsCounted ==
  ASSUME NEW s, Sound(s), Counted(s), NEW x \in Id, clockOf(x) = Size(s, clientOf(x)),
         NEW t \in Root, NEW n \in Nat, NEW r, Adds(s, r, t, x, n)
  PROVE  Counted(r)
<1>0. s.len \in [Root -> Int] /\ Runs(s)
  BY DEF Sound, Runs, StoreType
<1> SUFFICES ASSUME NEW u \in Root
             PROVE  IsFiniteSet(Live(r, u)) /\ r.len[u] = Cardinality(Live(r, u))
  BY DEF Counted
<1>1. /\ r.len = [s.len EXCEPT ![t] = s.len[t] + n]
      /\ Live(r, u) = IF u = t THEN Live(s, t) \cup Ids(x, n) ELSE Live(s, u)
  BY DEF Adds
<1>2. IsFiniteSet(Live(s, u)) /\ s.len[u] = Cardinality(Live(s, u))
  BY DEF Counted
<1>3. CASE u # t
  BY <1>0, <1>1, <1>2, <1>3
<1>4. CASE u = t
  <2>1. IsFiniteSet(Ids(x, n)) /\ Cardinality(Ids(x, n)) = n
    BY IdsCount
  <2>2. Live(s, t) \cap Ids(x, n) = {}
    BY <1>0, FreeId, LiveIntegrated
  <2>3. /\ IsFiniteSet(Live(s, t) \cup Ids(x, n))
        /\ Cardinality(Live(s, t) \cup Ids(x, n))
             = Cardinality(Live(s, t)) + Cardinality(Ids(x, n)) - Cardinality(Live(s, t) \cap Ids(x, n))
    BY <1>2, <1>4, <2>1, FS_Union
  <2>4. Cardinality(Live(s, t) \cap Ids(x, n)) = 0
    BY <2>2, FS_EmptySet
  <2>5. s.len[t] + n = Cardinality(Live(s, t) \cup Ids(x, n))
    BY <1>0, <1>2, <1>4, <2>1, <2>3, <2>4
  <2> QED BY <1>0, <1>1, <1>4, <2>3, <2>5
<1> QED BY <1>3, <1>4

\* A deletion is counted once: a tombstone is not counted off again.
THEOREM HidesCounted ==
  ASSUME NEW s, Sound(s), Counted(s), NEW x \in DOMAIN s.heap, NEW r, Hides(s, r, x)
  PROVE  Counted(r)
<1> DEFINE t == s.heap[x].parent
           n == s.heap[x].len
           dead == s.heap[x].deleted
<1>0. s.len \in [Root -> Int] /\ Runs(s) /\ s \in StoreType
  BY DEF Sound, Runs, StoreType
<1>1. x \in Id /\ n \in Nat /\ t \in Root /\ dead \in BOOLEAN
  BY <1>0, HeapFacts DEF Node
<1> SUFFICES ASSUME NEW u \in Root
             PROVE  IsFiniteSet(Live(r, u)) /\ r.len[u] = Cardinality(Live(r, u))
  BY DEF Counted
<1>2. /\ r.len = [s.len EXCEPT ![t] = s.len[t] - IF dead THEN 0 ELSE n]
      /\ Live(r, u) = Live(s, u) \ Units(s, x)
  BY DEF Hides
<1>3. IsFiniteSet(Live(s, u)) /\ s.len[u] = Cardinality(Live(s, u))
  BY DEF Counted
<1>4. \A z \in DOMAIN s.heap : z # x => Units(s, z) \cap Units(s, x) = {}
  BY <1>0, NodesApart
<1>5. CASE u = t /\ ~dead
  <2>1. Units(s, x) \subseteq Live(s, t)
    BY <1>5 DEF Live
  <2>2. IsFiniteSet(Units(s, x)) /\ Cardinality(Units(s, x)) = n
    BY <1>1, IdsCount DEF Units
  <2> DEFINE rest == Live(s, t) \ Units(s, x)
  <2>3. IsFiniteSet(rest)
    <3>1. IsFiniteSet(Live(s, t)) /\ rest \in SUBSET Live(s, t)
      BY <1>3, <1>5
    <3> HIDE DEF rest
    <3> QED BY <3>1, FS_Subset
  <2>4. Live(s, t) = rest \cup Units(s, x) /\ rest \cap Units(s, x) = {}
    BY <2>1
  <2> HIDE DEF rest
  <2>5. Cardinality(Live(s, t)) = Cardinality(rest) + n - 0
    BY <2>2, <2>3, <2>4, FS_Union, FS_EmptySet
  <2>6. Cardinality(rest) \in Nat
    BY <2>3, FS_CardinalityType
  <2>7. s.len[t] - n = Cardinality(rest)
    BY <1>3, <1>5, <1>1, <2>5, <2>6
  <2>8. r.len[u] = s.len[t] - n
    BY <1>0, <1>2, <1>5
  <2> QED BY <1>2, <1>5, <2>3, <2>7, <2>8 DEF rest
<1>6. CASE ~(u = t /\ ~dead)
  <2>1. Live(s, u) \cap Units(s, x) = {}
    BY <1>4, <1>6 DEF Live
  <2>2. Live(r, u) = Live(s, u)
    BY <1>2, <2>1
  <2>3. r.len[u] = s.len[u]
    <3>1. CASE u # t
      BY <3>1, <1>0, <1>2
    <3>2. CASE u = t
      <4>1. r.len[u] = s.len[t] - 0
        BY <3>2, <1>0, <1>2, <1>6
      <4>2. s.len[t] \in Int
        BY <1>0, <1>1
      <4> QED BY <3>2, <4>1, <4>2
    <3> QED BY <3>1, <3>2
  <2> QED BY <2>2, <2>3, <1>3
<1> QED BY <1>5, <1>6

\* A new node beside its origins is anchored with the others.
LEMMA AddsAnchored ==
  ASSUME NEW s, NEW r, NEW t, NEW x, NEW n, Adds(s, r, t, x, n), Anchored(s),
         {r.heap[x].originLeftId, r.heap[x].originRightId} \subseteq Integrated(s) \cup {Nil}
  PROVE  Anchored(r)
<1>1. /\ DOMAIN r.heap = DOMAIN s.heap \cup {x} /\ Integrated(s) \subseteq Integrated(r)
      /\ \A z \in DOMAIN s.heap : /\ r.heap[z].originLeftId = s.heap[z].originLeftId
                                  /\ r.heap[z].originRightId = s.heap[z].originRightId
  BY DEF Adds
<1> QED BY <1>1 DEF Anchored

\* A deletion leaves the origins alone.
LEMMA HidesAnchored ==
  ASSUME NEW s, NEW r, NEW x, Hides(s, r, x), Anchored(s)
  PROVE  Anchored(r)
<1>1. /\ DOMAIN r.heap = DOMAIN s.heap /\ Integrated(s) = Integrated(r)
      /\ \A z \in DOMAIN s.heap : /\ r.heap[z].originLeftId = s.heap[z].originLeftId
                                  /\ r.heap[z].originRightId = s.heap[z].originRightId
  BY DEF Hides
<1> QED BY <1>1 DEF Anchored

-----------------------------------------------------------------------------
\* A unit of a world has origins of lower rank there.
LEMMA WorldFacts ==
  ASSUME NEW w, IsWorld(w), NEW u \in w.made
  PROVE  /\ u \in Id /\ w.rank[u] \in Nat /\ w.left[u] \in OptId /\ w.right[u] \in OptId
         /\ w.left[u] # Nil => w.left[u] \in w.made /\ w.rank[w.left[u]] < w.rank[u]
         /\ w.right[u] # Nil => w.right[u] \in w.made /\ w.rank[w.right[u]] < w.rank[u]
BY DEF IsWorld, World

\* A unit of an arranged list lies between its origins, which are in the list.
LEMMA YataFacts ==
  ASSUME NEW w, IsWorld(w), NEW B, Yata(B, w), NEW x \in Field(B)
  PROVE  /\ x \in w.made
         /\ w.left[x] # Nil => w.left[x] # x /\ Le(B, w.left[x], x) /\ w.left[x] \in Field(B)
         /\ w.right[x] # Nil => w.right[x] # x /\ Le(B, x, w.right[x]) /\ w.right[x] \in Field(B)
<1>1. x \in w.made
  BY DEF Yata
<1>2. x \in OptId /\ w.left[x] \in OptId /\ w.right[x] \in OptId
  BY <1>1, WorldFacts DEF OptId
<1> QED BY <1>1, <1>2 DEF Yata, Between, IsOrder

\* Nil is no id.
LEMMA IdNotNil ==
  ASSUME NEW x \in Id
  PROVE  x # Nil
BY NilAssumption, ClientAssumption DEF Id

-----------------------------------------------------------------------------
\* Two orders in which every unit stands where its origins justify agree on
\* the units they share.
THEOREM OneArrangement ==
  ASSUME NEW w, IsWorld(w), NEW B, NEW C, Yata(B, w), Yata(C, w),
         NEW x \in Field(B) \cap Field(C), NEW y \in Field(B) \cap Field(C),
         Le(B, x, y)
  PROVE  Le(C, x, y)
<1> DEFINE F == Field(B) \cap Field(C)
           P == {p \in F \X F : p[1] # p[2] /\ Le(B, p[1], p[2]) /\ ~Le(C, p[1], p[2])}
           N == {n \in Nat : \E p \in P : n = w.rank[p[1]] + w.rank[p[2]]}
<1>0. F \subseteq w.made
  BY DEF Yata
<1>1. \A a \in F : w.rank[a] \in Nat
  BY <1>0, WorldFacts
<1> SUFFICES ASSUME P # {} PROVE FALSE
  <2>1. \A a \in F : Le(C, a, a)
    BY DEF Field
  <2>2. x = y => Le(C, x, y)
    BY <2>1
  <2>3. <<x, y>> \notin P => x = y \/ Le(C, x, y)
    OBVIOUS
  <2> QED BY <2>2, <2>3
<1>2. N # {}
  <2>1. PICK p \in P : TRUE
    OBVIOUS
  <2>2. p[1] \in F /\ p[2] \in F
    BY <2>1
  <2>3. w.rank[p[1]] + w.rank[p[2]] \in Nat
    BY <2>2, <1>1
  <2> QED BY <2>1, <2>3
<1>3. PICK n \in N : \A m \in N : n <= m
  <2>1. N \in SUBSET Nat
    OBVIOUS
  <2> HIDE DEF N
  <2> QED BY <2>1, <1>2, Least
<1>4. PICK p \in P : n = w.rank[p[1]] + w.rank[p[2]]
  OBVIOUS
<1> DEFINE a == p[1]
           b == p[2]
<1>5. a \in F /\ b \in F /\ a # b /\ Le(B, a, b) /\ ~Le(C, a, b)
  BY <1>4
<1>6. \A c, d \in F : w.rank[c] + w.rank[d] < w.rank[a] + w.rank[b] /\ Le(B, c, d) => Le(C, c, d)
  <2> SUFFICES ASSUME NEW c \in F, NEW d \in F,
                      w.rank[c] + w.rank[d] < w.rank[a] + w.rank[b], Le(B, c, d), ~Le(C, c, d)
               PROVE FALSE
    OBVIOUS
  <2>1. c # d
    BY DEF Field
  <2>2. <<c, d>> \in P
    BY <2>1
  <2>3. w.rank[c] + w.rank[d] \in N
    BY <2>2, <1>1
  <2> QED BY <2>3, <1>3, <1>4, <1>1, <1>5
<1> HIDE DEF P, N, a, b
<1>7. Le(C, b, a)
  BY <1>5 DEF Yata, IsOrder
<1>8. \A c, d \in F : w.rank[c] + w.rank[d] < w.rank[a] + w.rank[b] /\ Le(C, c, d) => Le(B, c, d)
  <2> SUFFICES ASSUME NEW c \in F, NEW d \in F,
                      w.rank[c] + w.rank[d] < w.rank[a] + w.rank[b], Le(C, c, d), ~Le(B, c, d)
               PROVE FALSE
    OBVIOUS
  <2>1. c # d
    BY DEF Field
  <2>2. Le(B, d, c)
    BY DEF Yata, IsOrder
  <2>3. w.rank[d] + w.rank[c] < w.rank[a] + w.rank[b]
    BY <1>1, <1>5
  <2>4. Le(C, d, c)
    BY <1>6, <2>2, <2>3
  <2> QED BY <2>4, <2>1 DEF Yata, IsOrder
<1> DEFINE near(u, v) == w.rank[u] < w.rank[v]
<1>9. \A u \in F :
        /\ w.left[u] # Nil => /\ w.left[u] \in F /\ near(w.left[u], u)
                              /\ Le(B, w.left[u], u) /\ Le(C, w.left[u], u) /\ w.left[u] # u
        /\ w.right[u] # Nil => /\ w.right[u] \in F /\ near(w.right[u], u)
                               /\ Le(B, u, w.right[u]) /\ Le(C, u, w.right[u]) /\ w.right[u] # u
  BY <1>0, WorldFacts, YataFacts
<1>10. \A u, v, z \in F : /\ Le(B, u, v) /\ Le(B, v, z) => Le(B, u, z)
                          /\ Le(C, u, v) /\ Le(C, v, z) => Le(C, u, z)
  BY DEF Yata, IsOrder
<1>11. \A u, v \in F : /\ Le(B, u, v) /\ Le(B, v, u) => u = v
                       /\ Le(C, u, v) /\ Le(C, v, u) => u = v
  BY DEF Yata, IsOrder
<1> HIDE DEF F
<1>12. ~(w.left[b] # Nil /\ Le(B, a, w.left[b]))
  <2> SUFFICES ASSUME w.left[b] # Nil, Le(B, a, w.left[b]) PROVE FALSE
    OBVIOUS
  <2>1. w.left[b] \in F /\ w.rank[a] + w.rank[w.left[b]] < w.rank[a] + w.rank[b]
    BY <1>9, <1>5, <1>1
  <2>2. Le(C, a, w.left[b]) /\ Le(C, w.left[b], b)
    BY <2>1, <1>6, <1>5, <1>9
  <2> QED BY <2>1, <2>2, <1>10, <1>5
<1>13. ~(w.right[a] # Nil /\ Le(B, w.right[a], b))
  <2> SUFFICES ASSUME w.right[a] # Nil, Le(B, w.right[a], b) PROVE FALSE
    OBVIOUS
  <2>1. w.right[a] \in F /\ w.rank[w.right[a]] + w.rank[b] < w.rank[a] + w.rank[b]
    BY <1>9, <1>5, <1>1
  <2>2. Le(C, w.right[a], b) /\ Le(C, a, w.right[a])
    BY <2>1, <1>6, <1>5, <1>9
  <2> QED BY <2>1, <2>2, <1>10, <1>5
<1>14. ~(w.left[a] # Nil /\ Le(C, b, w.left[a]))
  <2> SUFFICES ASSUME w.left[a] # Nil, Le(C, b, w.left[a]) PROVE FALSE
    OBVIOUS
  <2>1. w.left[a] \in F /\ w.rank[b] + w.rank[w.left[a]] < w.rank[a] + w.rank[b]
    BY <1>9, <1>5, <1>1
  <2>2. Le(B, b, w.left[a]) /\ Le(B, w.left[a], a)
    BY <2>1, <1>8, <1>5, <1>9
  <2> QED BY <2>1, <2>2, <1>10, <1>5, <1>11
<1>15. ~(w.right[b] # Nil /\ Le(C, w.right[b], a))
  <2> SUFFICES ASSUME w.right[b] # Nil, Le(C, w.right[b], a) PROVE FALSE
    OBVIOUS
  <2>1. w.right[b] \in F /\ w.rank[w.right[b]] + w.rank[a] < w.rank[a] + w.rank[b]
    BY <1>9, <1>5, <1>1
  <2>2. Le(B, w.right[b], a) /\ Le(B, b, w.right[b])
    BY <2>1, <1>8, <1>5, <1>9
  <2> QED BY <2>1, <2>2, <1>10, <1>5, <1>11
<1>16. Lower(B, w.left[b], w.left[a]) \/ (w.left[a] = w.left[b] /\ clientOf(a) < clientOf(b))
  <2>1. Reason(B, w, a, b)
    BY <1>5 DEF Yata, Justified, F
  <2> QED BY <2>1, <1>12, <1>13 DEF Reason
<1>17. Lower(C, w.left[a], w.left[b]) \/ (w.left[a] = w.left[b] /\ clientOf(b) < clientOf(a))
  <2>1. Reason(C, w, b, a)
    BY <1>5, <1>7 DEF Yata, Justified, F
  <2> QED BY <2>1, <1>14, <1>15 DEF Reason
<1>18. clientOf(a) \in Nat /\ clientOf(b) \in Nat
  BY <1>5, ClientAssumption DEF F, Field, Id, clientOf
<1>19. CASE w.left[a] = w.left[b]
  BY <1>19, <1>16, <1>17, <1>18 DEF Lower
<1>20. CASE w.left[a] # w.left[b]
  <2>1. Lower(B, w.left[b], w.left[a]) /\ Lower(C, w.left[a], w.left[b])
    BY <1>20, <1>16, <1>17
  <2>2. w.left[a] # Nil /\ w.left[b] # Nil
    <3>1. w.left[a] \in OptId /\ w.left[b] \in OptId /\ Nil \in OptId
      BY <1>5, <1>0, WorldFacts DEF OptId, F
    <3>2. Nil \notin Field(B) /\ Nil \notin Field(C)
      BY IdNotNil DEF Field
    <3> QED BY <1>20, <2>1, <3>1, <3>2 DEF Lower, Yata, IsOrder
  <2>3. Le(B, w.left[b], w.left[a]) /\ Le(C, w.left[a], w.left[b])
    BY <2>1, <2>2 DEF Lower
  <2>4. /\ w.left[a] \in F /\ w.left[b] \in F
        /\ w.rank[w.left[b]] + w.rank[w.left[a]] < w.rank[a] + w.rank[b]
    BY <2>2, <1>9, <1>5, <1>1
  <2>5. Le(C, w.left[b], w.left[a])
    BY <2>3, <2>4, <1>6
  <2> QED BY <2>3, <2>4, <2>5, <1>11, <1>20
<1> QED BY <1>19, <1>20

\* A unit whose left origin comes before l keeps all that follow it from
\* hanging off what lies between: y's left origin is z or later, or before l.
LEMMA NoneHangs ==
  ASSUME NEW w, IsWorld(w), NEW B, Yata(B, w), NEW l \in OptId, NEW y \in Field(B), NEW z \in Field(B),
         Lower(B, w.left[z], l), Le(B, z, y)
  PROVE  (w.left[y] # Nil /\ Le(B, z, w.left[y])) \/ Lower(B, w.left[y], l)
<1> DEFINE F == Field(B)
           Good(u) == (w.left[y] # Nil /\ Le(B, u, w.left[y])) \/ Lower(B, w.left[y], l)
           P == {u \in F : Lower(B, w.left[u], l) /\ Le(B, u, y) /\ ~Good(u)}
           N == {n \in Nat : \E u \in P : n = w.rank[u]}
<1>0. F \subseteq w.made /\ F \subseteq Id /\ Nil \notin F
  BY IdNotNil DEF Yata, Field
<1>1. \A u \in F : w.rank[u] \in Nat
  BY <1>0, WorldFacts
<1> SUFFICES ASSUME P # {} PROVE FALSE
  OBVIOUS
<1>2. N # {}
  BY <1>1
<1>3. PICK n \in N : \A m \in N : n <= m
  <2>1. N \in SUBSET Nat
    OBVIOUS
  <2> HIDE DEF N
  <2> QED BY <2>1, <1>2, Least
<1>4. PICK u \in P : n = w.rank[u]
  OBVIOUS
<1>5. \A v \in F : Lower(B, w.left[v], l) /\ Le(B, v, y) /\ w.rank[v] < w.rank[u] => Good(v)
  BY <1>3, <1>4, <1>1
<1>6. u \in F /\ Lower(B, w.left[u], l) /\ Le(B, u, y) /\ ~Good(u)
  OBVIOUS
<1> HIDE DEF P, N
<1>7. \A a, b, c \in F : Le(B, a, b) /\ Le(B, b, c) => Le(B, a, c)
  BY DEF Yata, IsOrder
<1>8. \A a, b \in F : Le(B, a, b) /\ Le(B, b, a) => a = b
  BY DEF Yata, IsOrder
<1>9. \A a \in F : /\ w.left[a] # Nil => w.left[a] \in F
                   /\ w.right[a] # Nil => /\ w.right[a] \in F /\ w.rank[w.right[a]] < w.rank[a]
                                          /\ Le(B, a, w.right[a])
  BY <1>0, WorldFacts, YataFacts
<1>10. \A a, b \in OptId : Lower(B, a, b) /\ Lower(B, b, l) => Lower(B, a, l)
  BY <1>7, <1>8, <1>0 DEF Lower, Yata, IsOrder
<1>11. \A a \in F : w.left[a] \in OptId
  BY <1>0, WorldFacts
<1> HIDE DEF F
<1>12. u # y
  BY <1>6
<1>13. Reason(B, w, u, y)
  BY <1>6, <1>12 DEF Yata, Justified, F
<1>14. w.right[u] # Nil /\ Le(B, w.right[u], y)
  <2>1. ~Lower(B, w.left[y], w.left[u])
    BY <1>10, <1>11, <1>6, y \in F DEF F
  <2> QED BY <1>13, <2>1, <1>6 DEF Reason
<1> DEFINE d == w.right[u]
<1>15. d \in F /\ w.rank[d] < w.rank[u] /\ Le(B, u, d) /\ Le(B, d, y)
  BY <1>14, <1>9, <1>6
<1>16. Lower(B, w.left[d], l)
  <2>1. w.left[d] = w.left[u] \/ Lower(B, w.left[d], w.left[u])
    BY <1>14, <1>6 DEF Yata, NoCross, F
  <2> QED BY <2>1, <1>10, <1>11, <1>6, <1>15
<1>17. Good(d)
  BY <1>15, <1>16, <1>5
<1>18. Le(B, d, w.left[y]) => Le(B, u, w.left[y])
  <2> SUFFICES ASSUME Le(B, d, w.left[y]) PROVE Le(B, u, w.left[y])
    OBVIOUS
  <2>1. w.left[y] \in F
    <3>1. d \in OptId /\ w.left[y] \in OptId
      BY <1>15, <1>0, <1>11, y \in F DEF OptId, F
    <3> QED BY <3>1 DEF Yata, IsOrder, F
  <2> QED BY <2>1, <1>7, <1>15, <1>6
<1> QED BY <1>17, <1>18, <1>6

-----------------------------------------------------------------------------
\* A unit that may be inserted into order B: its origins are there, one before
\* the other, and it crosses none of them nor what its author inserted before.
Ready(B, w, x) ==
  /\ {w.left[x], w.right[x]} \subseteq Field(B) \cup {Nil}
  /\ w.left[x] # Nil /\ w.right[x] # Nil => Lower(B, w.left[x], w.right[x])
  /\ w.right[x] # Nil =>
       w.left[w.right[x]] = w.left[x] \/ Lower(B, w.left[w.right[x]], w.left[x])
  /\ \A y \in Field(B) : clientOf(y) = clientOf(x) => Apart(B, w, x, y)

\* A place for it: the units P to its left, all others to its right.
Fits(B, w, x, P) ==
  /\ P \subseteq Field(B)
  /\ \A a \in Field(B), b \in P : Le(B, a, b) => a \in P
  /\ w.left[x] # Nil => w.left[x] \in P
  /\ w.right[x] # Nil => w.right[x] \notin P
  /\ \A y \in P : \/ w.left[x] # Nil /\ Le(B, y, w.left[x])
                  \/ w.right[y] # Nil /\ w.right[y] \in P
                  \/ Lower(B, w.left[x], w.left[y])
                  \/ w.left[x] = w.left[y] /\ clientOf(y) < clientOf(x)
  /\ \A y \in Field(B) \ P : \/ w.left[y] # Nil /\ w.left[y] \notin P
                             \/ w.right[x] # Nil /\ Le(B, w.right[x], y)
                             \/ Lower(B, w.left[y], w.left[x])
                             \/ w.left[x] = w.left[y] /\ clientOf(x) < clientOf(y)

\* The run X of units typed one after the other from x on.
RunIn(w, x, X) ==
  /\ x \in X /\ X \subseteq w.made
  /\ \A u \in X : /\ clientOf(u) = clientOf(x) /\ clockOf(x) <= clockOf(u)
                  /\ w.right[u] = w.right[x]
                  /\ u # x => /\ w.left[u] \in X /\ clockOf(w.left[u]) = clockOf(u) - 1
                              /\ clockOf(x) < clockOf(u)

\* Order D is B with the run X between P and the rest.
Spliced(B, D, P, X) ==
  \A a, b \in OptId :
    Le(D, a, b) <=> \/ Le(B, a, b)
                    \/ a \in P /\ b \in X
                    \/ a \in X /\ b \in Field(B) \ P
                    \/ a \in X /\ b \in X /\ clockOf(a) <= clockOf(b)

\* A run of new units put behind the units P of an order makes an order.
LEMMA SplicedOrder ==
  ASSUME NEW B, IsOrder(B), NEW D, NEW P \in SUBSET Field(B), NEW X \in SUBSET Id,
         X \cap Field(B) = {}, \A u, v \in X : clockOf(u) = clockOf(v) => u = v,
         \A a \in Field(B), b \in P : Le(B, a, b) => a \in P, Spliced(B, D, P, X)
  PROVE  IsOrder(D) /\ Field(D) = Field(B) \cup X
<1> DEFINE F == Field(B)
           G == F \cup X
<1>1. Nil \notin F /\ F \subseteq Id /\ Nil \notin X /\ G \subseteq OptId
  BY IdNotNil DEF Field, OptId
<1>2. \A u \in X : clockOf(u) \in Nat
  BY DEF Id, clockOf
<1>3. /\ \A a, b \in OptId : Le(B, a, b) => a \in F /\ b \in F
      /\ \A a, b \in F : Le(B, a, b) \/ Le(B, b, a)
      /\ \A a, b \in F : Le(B, a, b) /\ Le(B, b, a) => a = b
      /\ \A a, b, c \in F : Le(B, a, b) /\ Le(B, b, c) => Le(B, a, c)
      /\ \A a \in F : Le(B, a, a)
  BY DEF IsOrder, Field
<1>4. \A a, b \in OptId :
        Le(D, a, b) <=> \/ a \in F /\ b \in F /\ Le(B, a, b)
                        \/ a \in P /\ b \in X
                        \/ a \in X /\ b \in F \ P
                        \/ a \in X /\ b \in X /\ clockOf(a) <= clockOf(b)
  BY <1>3 DEF Spliced
<1>5. Field(D) = G
  <2>1. \A a \in Id : a \in OptId
    BY DEF OptId
  <2>2. \A a \in Id : Le(D, a, a) <=> a \in G
    BY <2>1, <1>3, <1>4, <1>2, P \in SUBSET F, X \cap F = {}
  <2> QED BY <2>2, <1>1 DEF Field
<1>10. P \subseteq F /\ X \cap F = {}
  OBVIOUS
<1>11. \A a \in F, b \in P : Le(B, a, b) => a \in P
  OBVIOUS
<1>12. \A u, v \in X : clockOf(u) = clockOf(v) => u = v
  OBVIOUS
<1> HIDE DEF F
<1>6. \A a, b \in OptId : Le(D, a, b) => a \in G /\ b \in G
  BY <1>4, <1>10
<1>7. \A a, b \in G : Le(D, a, b) \/ Le(D, b, a)
  BY <1>4, <1>1, <1>3, <1>2, <1>10
<1>8. \A a, b \in G : Le(D, a, b) /\ Le(D, b, a) => a = b
  <2> SUFFICES ASSUME NEW a \in G, NEW b \in G, Le(D, a, b), Le(D, b, a) PROVE a = b
    OBVIOUS
  <2>1. CASE a \in F /\ b \in F
    BY <2>1, <1>4, <1>1, <1>3, <1>10
  <2>2. CASE a \in X /\ b \in X
    <3>1. clockOf(a) <= clockOf(b) /\ clockOf(b) <= clockOf(a)
      BY <2>2, <1>4, <1>1, <1>10
    <3> QED BY <3>1, <2>2, <1>2, <1>12
  <2>3. CASE a \in F /\ b \in X
    BY <2>3, <1>4, <1>1, <1>10
  <2>4. CASE a \in X /\ b \in F
    BY <2>4, <1>4, <1>1, <1>10
  <2> QED BY <2>1, <2>2, <2>3, <2>4
<1>9. \A a, b, c \in G : Le(D, a, b) /\ Le(D, b, c) => Le(D, a, c)
  <2> SUFFICES ASSUME NEW a \in G, NEW b \in G, NEW c \in G, Le(D, a, b), Le(D, b, c) PROVE Le(D, a, c)
    OBVIOUS
  <2>0. a \in OptId /\ b \in OptId /\ c \in OptId
    BY <1>1
  <2>1. CASE b \in X
    <3>1. a \in P \/ (a \in X /\ clockOf(a) <= clockOf(b))
      BY <2>1, <2>0, <1>4, <1>10
    <3>2. c \in F \ P \/ (c \in X /\ clockOf(b) <= clockOf(c))
      BY <2>1, <2>0, <1>4, <1>10
    <3>3. a \in P /\ c \in F \ P => Le(B, a, c)
      BY <1>3, <1>10, <1>11
    <3>4. a \in X /\ c \in X => clockOf(a) \in Nat /\ clockOf(b) \in Nat /\ clockOf(c) \in Nat
      BY <2>1, <1>2
    <3> QED BY <3>1, <3>2, <3>3, <3>4, <1>4, <2>0, <1>10
  <2>2. CASE b \in F
    <3>1. (a \in F /\ Le(B, a, b)) \/ (a \in X /\ b \notin P)
      BY <2>2, <2>0, <1>4, <1>10
    <3>2. (c \in F /\ Le(B, b, c)) \/ (c \in X /\ b \in P)
      BY <2>2, <2>0, <1>4, <1>10
    <3>3. CASE a \in F /\ c \in F
      BY <3>1, <3>2, <3>3, <1>3, <1>4, <2>0, <2>2, <1>10
    <3>4. CASE a \in F /\ c \in X
      BY <3>1, <3>2, <3>4, <1>11, <1>4, <2>0, <2>2, <1>10
    <3>5. CASE a \in X /\ c \in F
      <4>1. c \notin P
        BY <3>1, <3>2, <3>5, <1>11, <2>2, <1>10
      <4> QED BY <4>1, <3>5, <1>4, <2>0
    <3>6. CASE a \in X /\ c \in X
      BY <3>1, <3>2, <3>6, <1>10
    <3> QED BY <3>1, <3>2, <3>3, <3>4, <3>5, <3>6
  <2> QED BY <2>1, <2>2
<1> QED BY <1>5, <1>6, <1>7, <1>8, <1>9 DEF IsOrder, F

\* Inserted where it fits, a run keeps an order one that origins justify.
LEMMA SplicedYata ==
  ASSUME NEW w, IsWorld(w), NEW B, Yata(B, w), NEW D, NEW x, NEW X, NEW P,
         RunIn(w, x, X), X \cap Field(B) = {}, Ready(B, w, x), Fits(B, w, x, P),
         \A u, v \in X : clockOf(u) = clockOf(v) => u = v,
         \A y \in Field(B) : clientOf(y) = clientOf(x) => clockOf(y) < clockOf(x),
         Spliced(B, D, P, X)
  PROVE  Yata(D, w) /\ Field(D) = Field(B) \cup X
<1> DEFINE F == Field(B)
           G == F \cup X
<1>0. w.made \subseteq Id /\ X \subseteq Id /\ X \subseteq w.made /\ F \subseteq w.made /\ P \subseteq F
  BY DEF RunIn, IsWorld, World, Yata, Fits
<1>1. IsOrder(D) /\ Field(D) = G
  BY SplicedOrder, <1>0 DEF Yata, Fits
<1>2. Nil \notin F /\ F \subseteq Id /\ Nil \notin X /\ G \subseteq OptId /\ Nil \in OptId
  BY <1>0, IdNotNil DEF Field, OptId
<1>3. /\ \A a, b \in OptId : Le(B, a, b) => a \in F /\ b \in F
      /\ \A a, b \in F : Le(B, a, b) \/ Le(B, b, a)
      /\ \A a, b \in F : Le(B, a, b) /\ Le(B, b, a) => a = b
      /\ \A a, b, c \in F : Le(B, a, b) /\ Le(B, b, c) => Le(B, a, c)
      /\ \A a \in F : Le(B, a, a)
  BY DEF Yata, IsOrder, Field
<1>4. \A a, b \in OptId :
        Le(D, a, b) <=> \/ a \in F /\ b \in F /\ Le(B, a, b)
                        \/ a \in P /\ b \in X
                        \/ a \in X /\ b \in F \ P
                        \/ a \in X /\ b \in X /\ clockOf(a) <= clockOf(b)
  BY <1>3 DEF Spliced
<1>5. \A u \in w.made : clientOf(u) \in Nat /\ clockOf(u) \in Nat /\ w.left[u] \in OptId /\ w.right[u] \in OptId
  BY <1>0, WorldFacts, ClientAssumption DEF Id, clientOf, clockOf
<1>6. /\ x \in X
      /\ \A u \in X : /\ clientOf(u) = clientOf(x) /\ clockOf(x) <= clockOf(u)
                      /\ w.right[u] = w.right[x]
                      /\ u # x => /\ w.left[u] \in X /\ clockOf(w.left[u]) = clockOf(u) - 1
                                  /\ clockOf(x) < clockOf(u)
  BY DEF RunIn
<1>7. /\ w.left[x] \in F \cup {Nil} /\ w.right[x] \in F \cup {Nil}
      /\ w.left[x] # Nil => w.left[x] \in P
      /\ w.right[x] # Nil => w.right[x] \in F /\ w.right[x] \notin P
  BY DEF Ready, Fits
<1>8. \A u \in F : /\ w.left[u] # Nil => w.left[u] # u /\ Le(B, w.left[u], u) /\ w.left[u] \in F
                   /\ w.right[u] # Nil => w.right[u] # u /\ Le(B, u, w.right[u]) /\ w.right[u] \in F
  BY YataFacts
<1>9. X \cap F = {} /\ (\A u, v \in X : clockOf(u) = clockOf(v) => u = v)
  OBVIOUS
<1>10. \A a \in F, b \in P : Le(B, a, b) => a \in P
  BY DEF Fits
<1>11. \A y \in F : clientOf(y) = clientOf(x) => clockOf(y) < clockOf(x)
  OBVIOUS
<1>12. \A a, b \in OptId : Lower(B, a, b) => Lower(D, a, b)
  BY <1>3, <1>4 DEF Lower
<1>13. \A a, b \in OptId : Le(B, a, b) => Le(D, a, b)
  BY <1>3, <1>4
<1> HIDE DEF F
<1>14. Between(D, w)
  <2> SUFFICES ASSUME NEW u \in G
               PROVE  /\ w.left[u] # Nil => w.left[u] # u /\ Le(D, w.left[u], u)
                      /\ w.right[u] # Nil => w.right[u] # u /\ Le(D, u, w.right[u])
    BY <1>1 DEF Between, F
  <2>0. u \in OptId /\ w.left[u] \in OptId /\ w.right[u] \in OptId /\ u \in w.made
    BY <1>0, <1>2, <1>5
  <2>1. CASE u \in F
    BY <2>1, <2>0, <1>8, <1>13
  <2>2. CASE u \in X
    <3>1. w.right[u] # Nil => w.right[u] # u /\ Le(D, u, w.right[u])
      BY <2>2, <2>0, <1>6, <1>7, <1>4, <1>9
    <3>2. CASE u = x
      BY <3>1, <3>2, <2>2, <2>0, <1>7, <1>4, <1>9, <1>0
    <3>3. CASE u # x
      <4>1. w.left[u] \in X /\ clockOf(w.left[u]) = clockOf(u) - 1
        BY <3>3, <2>2, <1>6
      <4>2. clockOf(u) \in Nat
        BY <2>0, <1>5
      <4> QED BY <4>1, <4>2, <3>1, <1>4, <2>0, <2>2
    <3> QED BY <3>2, <3>3
  <2> QED BY <2>1, <2>2
<1>15. NoCross(D, w)
  <2> SUFFICES ASSUME NEW u \in G, w.right[u] # Nil
               PROVE  w.left[w.right[u]] = w.left[u] \/ Lower(D, w.left[w.right[u]], w.left[u])
    BY <1>1 DEF NoCross, F
  <2>1. CASE u \in F
    <3>1. w.left[w.right[u]] = w.left[u] \/ Lower(B, w.left[w.right[u]], w.left[u])
      BY <2>1 DEF Yata, NoCross, F
    <3>2. w.left[w.right[u]] \in OptId /\ w.left[u] \in OptId
      BY <2>1, <1>8, <1>5, <1>0
    <3> QED BY <3>1, <3>2, <1>12
  <2>2. CASE u \in X
    <3>0. w.right[u] = w.right[x] /\ w.right[x] \in F
      BY <2>2, <1>6, <1>7
    <3> DEFINE a == w.left[w.right[x]]
    <3>1. a = w.left[x] \/ Lower(B, a, w.left[x])
      BY <2>2, <3>0 DEF Ready
    <3>2. a \in OptId /\ w.left[x] \in OptId /\ w.left[u] \in OptId
      BY <3>0, <2>2, <1>5, <1>0, <1>6
    <3>3. a = w.left[x] \/ Lower(D, a, w.left[x])
      BY <3>1, <3>2, <1>12
    <3>4. CASE u = x
      BY <3>3, <3>4, <3>0
    <3>5. CASE u # x
      <4>1. w.left[u] \in X
        BY <3>5, <2>2, <1>6
      <4>2. a \in P \/ a = Nil
        BY <3>1, <3>2, <1>7, <1>10, <1>3, <1>2 DEF Lower
      <4>3. Lower(D, a, w.left[u])
        BY <4>1, <4>2, <3>2, <1>4, <1>0, <1>2, <1>9 DEF Lower
      <4> QED BY <4>3, <3>0
    <3> QED BY <3>4, <3>5
  <2> QED BY <2>1, <2>2
<1>16. Own(D, w)
  <2> SUFFICES ASSUME NEW u \in G, NEW y \in G, clientOf(u) = clientOf(y), clockOf(y) < clockOf(u)
               PROVE  Apart(D, w, u, y)
    BY <1>1 DEF Own, F
  <2>0. /\ u \in OptId /\ y \in OptId /\ w.left[u] \in OptId /\ w.right[u] \in OptId
        /\ clockOf(u) \in Nat /\ clockOf(y) \in Nat /\ clockOf(x) \in Nat
    BY <1>0, <1>2, <1>5, <1>6
  <2>1. CASE u \in F /\ y \in F
    <3>1. Apart(B, w, u, y)
      BY <2>1 DEF Yata, Own, F
    <3> QED BY <3>1, <2>0, <1>13 DEF Apart
  <2>2. CASE u \in F /\ y \in X
    BY <2>2, <1>6, <1>11, <2>0
  <2>3. CASE u \in X /\ y \in X
    <3>1. u # x
      BY <2>3, <1>6, <2>0
    <3>2. w.left[u] \in X /\ clockOf(w.left[u]) = clockOf(u) - 1
      BY <3>1, <2>3, <1>6
    <3>3. Le(D, y, w.left[u])
      BY <3>2, <2>0, <2>3, <1>4
    <3> QED BY <3>2, <3>3, <1>2 DEF Apart
  <2>4. CASE u \in X /\ y \in F
    <3>1. Apart(B, w, x, y)
      BY <2>4, <1>6 DEF Ready, F
    <3>2. w.left[x] \in OptId /\ w.right[x] \in OptId /\ w.right[u] = w.right[x]
      BY <1>6, <2>4, <1>5, <1>0
    <3>3. CASE w.right[x] # Nil /\ Le(B, w.right[x], y)
      BY <3>2, <3>3, <1>13, <2>0 DEF Apart
    <3>4. CASE w.left[x] # Nil /\ Le(B, y, w.left[x])
      <4>1. y \in P
        BY <3>4, <1>7, <1>10, <2>4
      <4>2. CASE u = x
        BY <4>2, <3>4, <1>13, <2>0 DEF Apart
      <4>3. CASE u # x
        <5>1. w.left[u] \in X
          BY <4>3, <2>4, <1>6
        <5>2. Le(D, y, w.left[u])
          BY <5>1, <4>1, <1>4, <2>0
        <5> QED BY <5>1, <5>2, <1>2 DEF Apart
      <4> QED BY <4>2, <4>3
    <3> QED BY <3>1, <3>3, <3>4 DEF Apart
  <2> QED BY <2>1, <2>2, <2>3, <2>4
<1>17. Justified(D, w)
  <2> SUFFICES ASSUME NEW u \in G, NEW y \in G, Le(D, u, y), u # y
               PROVE  Reason(D, w, u, y)
    BY <1>1 DEF Justified, F
  <2>0. /\ u \in OptId /\ y \in OptId /\ w.left[u] \in OptId /\ w.right[u] \in OptId
        /\ w.left[y] \in OptId /\ w.right[y] \in OptId /\ w.left[x] \in OptId /\ w.right[x] \in OptId
        /\ clockOf(u) \in Nat /\ clockOf(y) \in Nat /\ clockOf(x) \in Nat
    BY <1>0, <1>2, <1>5, <1>6
  <2>1. CASE u \in F /\ y \in F
    <3>1. Le(B, u, y)
      BY <2>1, <2>0, <1>4, <1>9, <1>0
    <3>2. Reason(B, w, u, y)
      BY <3>1, <2>1 DEF Yata, Justified, F
    <3> QED BY <3>2, <2>0, <1>12, <1>13 DEF Reason
  <2>2. CASE u \in X /\ y \in X
    <3>1. clockOf(u) <= clockOf(y) /\ clockOf(u) # clockOf(y)
      BY <2>0, <2>2, <1>4, <1>9, <1>0
    <3>2. y # x
      BY <3>1, <2>2, <1>6, <2>0
    <3>3. w.left[y] \in X /\ clockOf(w.left[y]) = clockOf(y) - 1
      BY <3>2, <2>2, <1>6
    <3>4. Le(D, u, w.left[y])
      BY <3>1, <3>3, <2>0, <2>2, <1>4
    <3> QED BY <3>3, <3>4, <1>2 DEF Reason
  <2>3. CASE u \in F /\ y \in X
    <3>1. u \in P
      BY <2>3, <2>0, <1>4, <1>9, <1>0
    <3>2. CASE y # x
      <4>1. w.left[y] \in X
        BY <3>2, <2>3, <1>6
      <4>2. Le(D, u, w.left[y])
        BY <4>1, <3>1, <1>4, <2>0
      <4> QED BY <4>1, <4>2, <1>2 DEF Reason
    <3>3. CASE y = x
      <4>1. \/ w.left[x] # Nil /\ Le(B, u, w.left[x])
            \/ w.right[u] # Nil /\ w.right[u] \in P
            \/ Lower(B, w.left[x], w.left[u])
            \/ w.left[x] = w.left[u] /\ clientOf(u) < clientOf(x)
        BY <3>1 DEF Fits
      <4>2. w.right[u] \in P => Le(D, w.right[u], x)
        BY <1>4, <2>0, <3>3, <2>3, <1>6
      <4> QED BY <4>1, <4>2, <3>3, <2>0, <1>12, <1>13 DEF Reason
    <3> QED BY <3>2, <3>3
  <2>4. CASE u \in X /\ y \in F
    <3>1. y \notin P
      BY <2>4, <2>0, <1>4, <1>9, <1>0
    <3>2. \/ w.left[y] # Nil /\ w.left[y] \notin P
          \/ w.right[x] # Nil /\ Le(B, w.right[x], y)
          \/ Lower(B, w.left[y], w.left[x])
          \/ w.left[x] = w.left[y] /\ clientOf(x) < clientOf(y)
      BY <3>1, <2>4 DEF Fits, F
    <3>3. CASE w.left[y] # Nil /\ w.left[y] \notin P
      <4>1. Le(D, u, w.left[y])
        BY <3>3, <2>4, <1>8, <1>4, <2>0
      <4> QED BY <4>1, <3>3 DEF Reason
    <3>4. CASE w.right[x] # Nil /\ Le(B, w.right[x], y)
      <4>1. w.right[u] = w.right[x]
        BY <2>4, <1>6
      <4> QED BY <3>4, <4>1, <1>13, <2>0 DEF Reason
    <3>5. CASE u = x /\ (Lower(B, w.left[y], w.left[x]) \/ (w.left[x] = w.left[y] /\ clientOf(x) < clientOf(y)))
      BY <3>5, <1>12, <2>0 DEF Reason
    <3>6. CASE u # x /\ (Lower(B, w.left[y], w.left[x]) \/ w.left[x] = w.left[y])
      <4>1. w.left[u] \in X
        BY <3>6, <2>4, <1>6
      <4>2. w.left[y] \in P \/ w.left[y] = Nil
        BY <3>6, <2>0, <1>7, <1>10, <1>3, <1>2 DEF Lower
      <4>3. Lower(D, w.left[y], w.left[u])
        BY <4>1, <4>2, <2>0, <1>4, <1>0, <1>2, <1>9 DEF Lower
      <4> QED BY <4>3 DEF Reason
    <3> QED BY <3>2, <3>3, <3>4, <3>5, <3>6
  <2> QED BY <2>1, <2>2, <2>3, <2>4
<1> QED BY <1>0, <1>1, <1>14, <1>15, <1>16, <1>17 DEF Yata, F

-----------------------------------------------------------------------------
\* The units of the first j nodes of a list.
Ahead(s, l, j) == UNION {Units(s, l[i]) : i \in 1 .. j}

\* A unit's node.
LEMMA UnitsAre ==
  ASSUME NEW s, Runs(s), NEW x \in DOMAIN s.heap
  PROVE  /\ x \in Units(s, x) /\ LastId(s, x) \in Units(s, x) /\ Units(s, x) \subseteq Id
         /\ \A u \in Units(s, x) : /\ clientOf(u) = clientOf(x) /\ clockOf(x) <= clockOf(u)
                                   /\ clockOf(u) <= clockOf(LastId(s, x))
                                   /\ u # x => Sub(u, 1) \in Units(s, x)
                                   /\ Sub(u, 1) = <<clientOf(u), clockOf(u) - 1>>
         /\ \A u, v \in Units(s, x) : clockOf(u) = clockOf(v) => u = v
<1>1. x \in Id /\ s.heap[x].len \in Nat \ {0}
  BY HeapFacts DEF Runs
<1> DEFINE n == s.heap[x].len
<1>2. \A u : u \in Units(s, x) <=> /\ u \in Id /\ clientOf(u) = clientOf(x)
                                   /\ clockOf(x) <= clockOf(u) /\ clockOf(u) < clockOf(x) + n
  BY <1>1, IdsAre DEF Units
<1> HIDE DEF n
<1>3. n \in Nat /\ n > 0 /\ clockOf(x) \in Nat /\ LastId(s, x) = Add(x, n - 1) /\ n - 1 \in Nat
  <2>1. n \in Nat /\ n > 0 /\ LastId(s, x) = Add(x, n - 1)
    BY <1>1 DEF n, LastId
  <2> QED BY <2>1, <1>1, IdFacts
<1>4. /\ LastId(s, x) \in Id /\ clientOf(LastId(s, x)) = clientOf(x)
      /\ clockOf(LastId(s, x)) = clockOf(x) + (n - 1)
  BY <1>3, <1>1, IdFacts
<1>5. x \in Units(s, x) /\ LastId(s, x) \in Units(s, x)
  BY <1>1, <1>2, <1>3, <1>4
<1>6. \A u \in Units(s, x) : u \in Id /\ clockOf(u) \in Nat /\ u = <<clientOf(u), clockOf(u)>>
  BY <1>2, IdFacts
<1>7. ASSUME NEW u \in Units(s, x)
      PROVE  /\ clockOf(u) <= clockOf(LastId(s, x))
             /\ u # x => Sub(u, 1) \in Units(s, x)
             /\ Sub(u, 1) = <<clientOf(u), clockOf(u) - 1>>
  <2>1. clockOf(u) <= clockOf(LastId(s, x))
    BY <1>2, <1>3, <1>4, <1>6
  <2>2. Sub(u, 1) = <<clientOf(u), clockOf(u) - 1>>
    BY DEF Sub, clientOf, clockOf
  <2>3. ASSUME u # x PROVE Sub(u, 1) \in Units(s, x)
    <3>1. clockOf(u) # clockOf(x)
      BY <2>3, <1>1, <1>2, <1>6, IdFacts
    <3>2. clockOf(u) - 1 \in Nat /\ clockOf(u) - 1 >= clockOf(x)
      BY <3>1, <1>2, <1>3, <1>6
    <3>3. Sub(u, 1) \in Id /\ clientOf(Sub(u, 1)) = clientOf(u) /\ clockOf(Sub(u, 1)) = clockOf(u) - 1
      BY <2>2, <3>2, <1>6, IdFacts DEF Id, clientOf, clockOf
    <3> QED BY <3>2, <3>3, <1>2, <1>3, <1>6
  <2> QED BY <2>1, <2>2, <2>3
<1>8. \A u, v \in Units(s, x) : clockOf(u) = clockOf(v) => u = v
  BY <1>2, <1>6
<1>9. Units(s, x) \subseteq Id /\ \A u \in Units(s, x) : clientOf(u) = clientOf(x) /\ clockOf(x) <= clockOf(u)
  BY <1>2
<1> QED BY <1>5, <1>7, <1>8, <1>9

\* The order of the units of a root type.
LEMMA ListOrder ==
  ASSUME NEW s, Sound(s), NEW t \in Root
  PROVE  LET l == Chain(s, t)
             B == Before(s, t)
         IN  /\ IsOrder(B) /\ Field(B) = Ahead(s, l, Len(l))
             /\ \A j \in 0 .. Len(l) : Ahead(s, l, j) \subseteq Field(B)
             /\ \A j \in 0 .. Len(l) : \A u \in Ahead(s, l, j), v \in Field(B) \ Ahead(s, l, j) :
                  Le(B, u, v) /\ ~Le(B, v, u)
             /\ \A j \in 1 .. Len(l) :
                  /\ l[j] \in DOMAIN s.heap /\ s.heap[l[j]].parent = t
                  /\ Ahead(s, l, j) = Ahead(s, l, j - 1) \cup Units(s, l[j])
                  /\ Units(s, l[j]) \cap Ahead(s, l, j - 1) = {}
                  /\ \A u, v \in Units(s, l[j]) : Le(B, u, v) <=> clockOf(u) <= clockOf(v)
             /\ \A i, j \in 0 .. Len(l) : i <= j => Ahead(s, l, i) \subseteq Ahead(s, l, j)
             /\ Ahead(s, l, 0) = {}
<1> DEFINE l == Chain(s, t)
           B == Before(s, t)
           n == Len(l)
<1>1. ListOf(s, t, l) /\ Runs(s) /\ s \in StoreType
  BY DEF Sound, Linked, Runs
<1>2. /\ n \in Nat /\ DOMAIN l = 1 .. n /\ l \in Seq(Id)
      /\ \A i, j \in 1 .. n : l[i] = l[j] => i = j
      /\ \A j \in 1 .. n : l[j] \in DOMAIN s.heap /\ s.heap[l[j]].parent = t
  <2>1. l \in Seq(Id) /\ n \in Nat /\ DOMAIN l = 1 .. n
    BY <1>1 DEF ListOf
  <2>2. \A j \in 1 .. n : l[j] \in ToSet(l)
    BY <2>1 DEF ToSet
  <2> HIDE DEF n, l
  <2> QED BY <2>1, <2>2, <1>1 DEF ListOf, IsInjective
<1>3. B = OrderOf(s, l)
  BY DEF Before
<1> HIDE DEF n, l, B
<1>4. \A j \in 1 .. n : /\ Units(s, l[j]) \subseteq Id
                        /\ \A u, v \in Units(s, l[j]) : clockOf(u) = clockOf(v) => u = v
                        /\ \A u \in Units(s, l[j]) : clockOf(u) \in Nat
  BY <1>1, <1>2, UnitsAre, IdFacts
<1>5. \A i, j \in 1 .. n : \A u : u \in Units(s, l[i]) /\ u \in Units(s, l[j]) => i = j
  BY <1>1, <1>2, NodesApart
<1>6. /\ \A u, v : Le(B, u, v) => \E i, j \in 1 .. n : /\ u \in Units(s, l[i]) /\ v \in Units(s, l[j])
                                                       /\ i < j \/ (i = j /\ clockOf(u) <= clockOf(v))
      /\ \A i, j \in 1 .. n : \A u \in Units(s, l[i]), v \in Units(s, l[j]) :
           i < j \/ (i = j /\ clockOf(u) <= clockOf(v)) => Le(B, u, v)
  <2>1. ASSUME NEW u, NEW v, Le(B, u, v)
        PROVE  \E i, j \in 1 .. n : /\ u \in Units(s, l[i]) /\ v \in Units(s, l[j])
                                    /\ i < j \/ (i = j /\ clockOf(u) <= clockOf(v))
    BY <2>1, <1>3, <1>2 DEF Le, OrderOf
  <2>2. ASSUME NEW i \in 1 .. n, NEW j \in 1 .. n, NEW u \in Units(s, l[i]), NEW v \in Units(s, l[j]),
               i < j \/ (i = j /\ clockOf(u) <= clockOf(v))
        PROVE  Le(B, u, v)
    <3> DEFINE p == <<u, v>>
    <3>1. p \in Id \X Id /\ p[1] = u /\ p[2] = v
      BY <2>2, <1>4
    <3> HIDE DEF p
    <3>2. p \in OrderOf(s, l)
      BY <3>1, <2>2, <1>2 DEF OrderOf
    <3> QED BY <3>2, <1>3 DEF Le, p
  <2> QED BY <2>1, <2>2
<1>7. \A i, j \in 1 .. n : \A u \in Units(s, l[i]), v \in Units(s, l[j]) :
         Le(B, u, v) <=> i < j \/ (i = j /\ clockOf(u) <= clockOf(v))
  <2> TAKE i, j \in 1 .. n
  <2> TAKE u \in Units(s, l[i]), v \in Units(s, l[j])
  <2>1. ASSUME Le(B, u, v) PROVE i < j \/ (i = j /\ clockOf(u) <= clockOf(v))
    <3>1. PICK a, b \in 1 .. n : /\ u \in Units(s, l[a]) /\ v \in Units(s, l[b])
                                 /\ a < b \/ (a = b /\ clockOf(u) <= clockOf(v))
      BY <2>1, <1>6, Zenon
    <3>2. a = i /\ b = j
      BY <3>1, <1>5
    <3> QED BY <3>1, <3>2
  <2>2. ASSUME i < j \/ (i = j /\ clockOf(u) <= clockOf(v)) PROVE Le(B, u, v)
    BY <2>2, <1>6
  <2> QED BY <2>1, <2>2
<1>8. \A u : u \in Field(B) <=> \E i \in 1 .. n : u \in Units(s, l[i])
  <2>1. \A u : Le(B, u, u) => \E i \in 1 .. n : u \in Units(s, l[i])
    <3> TAKE u
    <3> HAVE Le(B, u, u)
    <3>1. \E i, j \in 1 .. n : u \in Units(s, l[i]) /\ u \in Units(s, l[j])
      BY <1>6
    <3> QED BY <3>1
  <2>2. \A i \in 1 .. n : \A u \in Units(s, l[i]) : u \in Id /\ Le(B, u, u)
    BY <1>4, <1>7
  <2> QED BY <2>1, <2>2 DEF Field
<1>9. IsOrder(B)
  <2>1. \A a, b \in OptId : Le(B, a, b) => a \in Field(B) /\ b \in Field(B)
    <3> TAKE a, b \in OptId
    <3> HAVE Le(B, a, b)
    <3>1. \E i, j \in 1 .. n : a \in Units(s, l[i]) /\ b \in Units(s, l[j])
      BY <1>6
    <3> QED BY <3>1, <1>8
  <2>2. \A a, b \in Field(B) : Le(B, a, b) \/ Le(B, b, a)
    BY <1>7, <1>8, <1>4
  <2>3. \A a, b \in Field(B) : Le(B, a, b) /\ Le(B, b, a) => a = b
    <3> SUFFICES ASSUME NEW a \in Field(B), NEW b \in Field(B), Le(B, a, b), Le(B, b, a) PROVE a = b
      OBVIOUS
    <3>1. PICK i \in 1 .. n : a \in Units(s, l[i])
      BY <1>8
    <3>2. PICK j \in 1 .. n : b \in Units(s, l[j])
      BY <1>8
    <3>3. i = j /\ clockOf(a) <= clockOf(b) /\ clockOf(b) <= clockOf(a)
      BY <3>1, <3>2, <1>7, <1>2
    <3> QED BY <3>1, <3>2, <3>3, <1>4
  <2>4. \A a, b, c \in Field(B) : Le(B, a, b) /\ Le(B, b, c) => Le(B, a, c)
    <3> SUFFICES ASSUME NEW a \in Field(B), NEW b \in Field(B), NEW c \in Field(B), Le(B, a, b), Le(B, b, c)
                 PROVE  Le(B, a, c)
      OBVIOUS
    <3>1. PICK i \in 1 .. n : a \in Units(s, l[i])
      BY <1>8
    <3>2. PICK j \in 1 .. n : b \in Units(s, l[j])
      BY <1>8
    <3>3. PICK k \in 1 .. n : c \in Units(s, l[k])
      BY <1>8
    <3>4. i < j \/ (i = j /\ clockOf(a) <= clockOf(b))
      BY <3>1, <3>2, <1>7
    <3>5. j < k \/ (j = k /\ clockOf(b) <= clockOf(c))
      BY <3>2, <3>3, <1>7
    <3>6. clockOf(a) \in Nat /\ clockOf(b) \in Nat /\ clockOf(c) \in Nat
      BY <3>1, <3>2, <3>3, <1>4
    <3>7. i < k \/ (i = k /\ clockOf(a) <= clockOf(c))
      BY <3>4, <3>5, <3>6, <1>2
    <3> QED BY <3>7, <3>1, <3>3, <1>7
  <2> QED BY <2>1, <2>2, <2>3, <2>4 DEF IsOrder
<1>10. \A j \in 0 .. n : \A u : u \in Ahead(s, l, j) <=> \E i \in 1 .. n : i <= j /\ u \in Units(s, l[i])
  BY <1>2 DEF Ahead
<1>11. Field(B) = Ahead(s, l, n)
  <2>1. n \in 0 .. n /\ \A i \in 1 .. n : i <= n
    BY <1>2
  <2>2. \A u : u \in Field(B) <=> u \in Ahead(s, l, n)
    BY <2>1, <1>8, <1>10
  <2> QED BY <2>2
<1>12. \A j \in 0 .. n : Ahead(s, l, j) \subseteq Field(B)
  BY <1>8, <1>10
<1>13. ASSUME NEW j \in 0 .. n, NEW u \in Ahead(s, l, j), NEW v \in Field(B) \ Ahead(s, l, j)
       PROVE  Le(B, u, v) /\ ~Le(B, v, u)
  <2>1. PICK i \in 1 .. n : i <= j /\ u \in Units(s, l[i])
    BY <1>10
  <2>2. PICK k \in 1 .. n : v \in Units(s, l[k])
    BY <1>8
  <2>3. ~(k <= j)
    BY <2>2, <1>10
  <2>4. i < k
    BY <2>1, <2>2, <2>3, <1>2
  <2> QED BY <2>1, <2>2, <2>4, <1>7
<1>14. ASSUME NEW j \in 1 .. n
       PROVE  /\ Ahead(s, l, j) = Ahead(s, l, j - 1) \cup Units(s, l[j])
              /\ Units(s, l[j]) \cap Ahead(s, l, j - 1) = {}
  <2>1. j - 1 \in 0 .. n /\ j \in 0 .. n /\ \A i \in 1 .. n : i <= j <=> i <= j - 1 \/ i = j
    BY <1>2
  <2>2. \A u : u \in Ahead(s, l, j) <=> u \in Ahead(s, l, j - 1) \/ u \in Units(s, l[j])
    BY <2>1, <1>10
  <2>3. \A u \in Units(s, l[j]) : u \notin Ahead(s, l, j - 1)
    BY <2>1, <1>10, <1>5
  <2> QED BY <2>2, <2>3
<1>15. \A i, j \in 0 .. n : i <= j => Ahead(s, l, i) \subseteq Ahead(s, l, j)
  <2> TAKE i, j \in 0 .. n
  <2> HAVE i <= j
  <2>1. \A k \in 1 .. n : k <= i => k <= j
    BY <1>2
  <2> QED BY <2>1, <1>10
<1>16. Ahead(s, l, 0) = {}
  BY <1>10, <1>2
<1>17. \A j \in 1 .. n : \A u, v \in Units(s, l[j]) : Le(B, u, v) <=> clockOf(u) <= clockOf(v)
  BY <1>7, <1>2
<1> QED BY <1>2, <1>9, <1>11, <1>12, <1>13, <1>14, <1>15, <1>16, <1>17 DEF n, l, B

-----------------------------------------------------------------------------
NodeAt(l, i) == IF i = 0 THEN Nil ELSE l[i]

\* Struct it, for the units of w from x on, has the nodes of list l that end and
\* begin at its origins for neighbours, the left one the i-th.
Sited(s, l, w, x, it, i) ==
  /\ i \in 0 .. Len(l)
  /\ it.originLeftId = w.left[x] /\ it.originRightId = w.right[x]
  /\ it.left = NodeAt(l, i) /\ it.right = w.right[x]
  /\ w.left[x] = IF i = 0 THEN Nil ELSE LastId(s, l[i])
  /\ it.right # Nil => \E k \in 1 .. Len(l) : l[k] = it.right

\* What the scan has seen when it stands after the q-th node, having moved to the
\* m-th: none of the nodes is x's right origin or hangs off what was not scanned;
\* those it moved past go before x, those since then after it.
Scanned(s, l, w, x, it, i, m, q) ==
  /\ m \in i .. q /\ q \in i .. Len(l)
  /\ \A j \in i + 1 .. q :
       /\ l[j] # it.right
       /\ \/ w.left[l[j]] = w.left[x]
          \/ w.left[l[j]] \in Ahead(s, l, q) \ Ahead(s, l, i)
  /\ \A j \in i + 1 .. m :
       w.left[l[j]] = w.left[x] =>
         \/ clientOf(l[j]) < clientOf(x)
         \/ w.right[l[j]] \in Ahead(s, l, m)
  /\ \A j \in m + 1 .. q :
       \/ w.left[l[j]] = w.left[x] /\ clientOf(x) < clientOf(l[j])
       \/ w.left[l[j]] \in Ahead(s, l, q) \ Ahead(s, l, m)

\* A unit that may stand to the right of x.
Beyond(B, w, x, P, y) ==
  \/ w.left[y] # Nil /\ w.left[y] \notin P
  \/ w.right[x] # Nil /\ Le(B, w.right[x], y)
  \/ Lower(B, w.left[y], w.left[x])
  \/ w.left[x] = w.left[y] /\ clientOf(x) < clientOf(y)

\* What the place of a scan says of the units before and behind it.
LEMMA SiteFacts ==
  ASSUME NEW s, Sound(s), NEW t \in Root, NEW w, IsWorld(w), NEW x \in w.made, NEW it, NEW i,
         Follows(s, w), Yata(Before(s, t), w), Ready(Before(s, t), w, x),
         Sited(s, Chain(s, t), w, x, it, i)
  PROVE  LET l == Chain(s, t)
             B == Before(s, t)
             n == Len(l)
             L == w.left[x]
         IN  /\ n \in Nat /\ i \in 0 .. n
             /\ \A j \in 0 .. n : Ahead(s, l, j) \subseteq Field(B)
             /\ Field(B) = Ahead(s, l, n) /\ Ahead(s, l, 0) = {} /\ Nil \notin Field(B)
             /\ L # Nil => L \in Ahead(s, l, i)
             /\ \A y \in Ahead(s, l, i) : L # Nil /\ Le(B, y, L)
             /\ \A y \in Field(B) \ Ahead(s, l, i) : Lower(B, L, y) /\ (L # Nil => ~Le(B, y, L))
             /\ \A j \in 1 .. n : /\ l[j] \in Units(s, l[j]) /\ l[j] \in Field(B)
                                  /\ l[j] \in Ahead(s, l, j) \ Ahead(s, l, j - 1)
                                  /\ \A u \in Units(s, l[j]) \ {l[j]} :
                                       w.left[u] \in Units(s, l[j])
                                  /\ \A u \in Ahead(s, l, j) \ Ahead(s, l, j - 1) : u \in Units(s, l[j])
                                  /\ s.heap[l[j]].originLeftId = w.left[l[j]]
                                  /\ s.heap[l[j]].originRightId = w.right[l[j]]
             /\ w.right[x] # Nil => \E k \in i + 1 .. n : l[k] = w.right[x]
             /\ clientOf(x) \in Nat /\ \A u \in Field(B) : clientOf(u) \in Nat
<1> DEFINE l == Chain(s, t)
           B == Before(s, t)
           n == Len(l)
           L == w.left[x]
<1>0. Runs(s) /\ s \in StoreType /\ l \in Seq(Id) /\ n \in Nat
  BY DEF Sound, Linked, ListOf, Runs
<1>1. /\ IsOrder(B) /\ Field(B) = Ahead(s, l, n)
      /\ \A j \in 0 .. n : Ahead(s, l, j) \subseteq Field(B)
      /\ \A j \in 0 .. n : \A u \in Ahead(s, l, j), v \in Field(B) \ Ahead(s, l, j) :
           Le(B, u, v) /\ ~Le(B, v, u)
      /\ \A j \in 1 .. n :
           /\ l[j] \in DOMAIN s.heap /\ s.heap[l[j]].parent = t
           /\ Ahead(s, l, j) = Ahead(s, l, j - 1) \cup Units(s, l[j])
           /\ Units(s, l[j]) \cap Ahead(s, l, j - 1) = {}
           /\ \A u, v \in Units(s, l[j]) : Le(B, u, v) <=> clockOf(u) <= clockOf(v)
      /\ \A a, b \in 0 .. n : a <= b => Ahead(s, l, a) \subseteq Ahead(s, l, b)
      /\ Ahead(s, l, 0) = {}
  BY ListOrder
<1>2. /\ i \in 0 .. n /\ it.right = w.right[x]
      /\ L = IF i = 0 THEN Nil ELSE LastId(s, l[i])
      /\ it.right # Nil => \E k \in 1 .. n : l[k] = it.right
  BY DEF Sited
<1>3. Nil \notin Field(B)
  BY IdNotNil DEF Field
<1>4. \A j \in 1 .. n : /\ l[j] \in Units(s, l[j]) /\ LastId(s, l[j]) \in Units(s, l[j])
                        /\ \A u \in Units(s, l[j]) :
                             /\ clockOf(u) <= clockOf(LastId(s, l[j]))
                             /\ u # l[j] => Sub(u, 1) \in Units(s, l[j])
  BY <1>0, <1>1, UnitsAre
<1>5. \A j \in 1 .. n : /\ s.heap[l[j]].originLeftId = w.left[l[j]]
                        /\ \A u \in Units(s, l[j]) : /\ w.right[u] = s.heap[l[j]].originRightId
                                                     /\ u # l[j] => w.left[u] = Sub(u, 1)
  BY <1>1 DEF Follows
<1> HIDE DEF l, n, B, L
<1>6. \A j \in 1 .. n : /\ l[j] \in Units(s, l[j]) /\ l[j] \in Field(B)
                        /\ l[j] \in Ahead(s, l, j) \ Ahead(s, l, j - 1)
                        /\ \A u \in Units(s, l[j]) \ {l[j]} : w.left[u] \in Units(s, l[j])
                        /\ \A u \in Ahead(s, l, j) \ Ahead(s, l, j - 1) : u \in Units(s, l[j])
                        /\ s.heap[l[j]].originLeftId = w.left[l[j]]
                        /\ s.heap[l[j]].originRightId = w.right[l[j]]
  <2> TAKE j \in 1 .. n
  <2>1. j \in 0 .. n /\ j - 1 \in 0 .. n
    BY <1>0
  <2>2. l[j] \in Units(s, l[j]) /\ l[j] \in Ahead(s, l, j) /\ l[j] \notin Ahead(s, l, j - 1)
    BY <1>1, <1>4
  <2>3. l[j] \in Field(B)
    BY <2>1, <2>2, <1>1
  <2> QED BY <2>2, <2>3, <1>1, <1>4, <1>5
<1>7. L # Nil => i # 0 /\ i \in 1 .. n /\ L \in Units(s, l[i]) /\ L \in Ahead(s, l, i)
  <2>1. i # 0 => i \in 1 .. n
    BY <1>0, <1>2
  <2>2. i # 0 => LastId(s, l[i]) \in Units(s, l[i]) /\ LastId(s, l[i]) \in Ahead(s, l, i)
    BY <2>1, <1>1, <1>4
  <2> QED BY <2>1, <2>2, <1>2
<1>8. \A y \in Ahead(s, l, i) : L # Nil /\ Le(B, y, L)
  <2> TAKE y \in Ahead(s, l, i)
  <2>1. i # 0 /\ i \in 1 .. n /\ i - 1 \in 0 .. n
    BY <1>0, <1>1, <1>2
  <2>2. L \in Units(s, l[i]) /\ L \in Field(B) /\ L \notin Ahead(s, l, i - 1)
    <3>1. L = LastId(s, l[i])
      BY <2>1, <1>2
    <3>2. L \in Units(s, l[i])
      BY <2>1, <3>1, <1>4
    <3> QED BY <3>2, <2>1, <1>1, <1>2
  <2>3. CASE y \in Ahead(s, l, i - 1)
    BY <2>1, <2>2, <2>3, <1>1, <1>3
  <2>4. CASE y \in Units(s, l[i])
    <3>1. clockOf(y) <= clockOf(L)
      BY <2>1, <2>4, <1>2, <1>4
    <3> QED BY <3>1, <2>1, <2>2, <2>4, <1>1, <1>3
  <2> QED BY <2>1, <2>3, <2>4, <1>1
<1>9. \A y \in Field(B) \ Ahead(s, l, i) : Lower(B, L, y) /\ (L # Nil => ~Le(B, y, L))
  <2> TAKE y \in Field(B) \ Ahead(s, l, i)
  <2>1. L # Nil => Le(B, L, y) /\ ~Le(B, y, L)
    BY <1>1, <1>2, <1>7
  <2>2. L # y
    BY <1>3, <1>7
  <2> QED BY <2>1, <2>2 DEF Lower
<1>10. w.right[x] # Nil => \E k \in i + 1 .. n : l[k] = w.right[x]
  <2> HAVE w.right[x] # Nil
  <2>1. PICK k \in 1 .. n : l[k] = w.right[x]
    BY <1>2
  <2>2. L # Nil => Lower(B, L, w.right[x])
    BY DEF Ready, B, L
  <2>3. ASSUME k <= i PROVE FALSE
    <3>1. k \in 0 .. n
      BY <1>0
    <3>2. l[k] \in Ahead(s, l, i) /\ l[k] \in Field(B)
      BY <2>3, <3>1, <1>1, <1>2, <1>6
    <3>3. L # Nil /\ Le(B, l[k], L) /\ L \in Field(B)
      BY <3>2, <1>8, <1>7, <1>1, <1>2
    <3>4. Le(B, L, l[k]) /\ L # l[k]
      BY <3>3, <2>1, <2>2 DEF Lower
    <3> QED BY <3>2, <3>3, <3>4, <1>1 DEF IsOrder
  <2>4. k \in i + 1 .. n
    BY <2>3, <1>0, <1>2
  <2> QED BY <2>1, <2>4
<1>11. clientOf(x) \in Nat /\ \A u \in Field(B) : clientOf(u) \in Nat
  <2>1. \A u \in Id : clientOf(u) \in Nat
    BY IdFacts, ClientAssumption
  <2> QED BY <2>1, WorldFacts DEF Field
<1> QED BY <1>0, <1>1, <1>2, <1>3, <1>6, <1>7, <1>8, <1>9, <1>10, <1>11 DEF l, n, B, L

\* Where the scan ends, x fits right after the node it moved to last.
LEMMA ScannedFits ==
  ASSUME NEW s, Sound(s), NEW t \in Root, NEW w, IsWorld(w), NEW x \in w.made, NEW it, NEW i,
         Follows(s, w), Yata(Before(s, t), w), Ready(Before(s, t), w, x),
         Sited(s, Chain(s, t), w, x, it, i),
         NEW m, NEW q, Scanned(s, Chain(s, t), w, x, it, i, m, q),
         \A y \in Field(Before(s, t)) \ Ahead(s, Chain(s, t), q) :
           Beyond(Before(s, t), w, x, Ahead(s, Chain(s, t), m), y)
  PROVE  Fits(Before(s, t), w, x, Ahead(s, Chain(s, t), m))
<1> DEFINE l == Chain(s, t)
           B == Before(s, t)
           n == Len(l)
           L == w.left[x]
           P(j) == Ahead(s, l, j)
<1>1. /\ n \in Nat /\ i \in 0 .. n
      /\ \A j \in 0 .. n : P(j) \subseteq Field(B)
      /\ Field(B) = P(n) /\ P(0) = {} /\ Nil \notin Field(B)
      /\ L # Nil => L \in P(i)
      /\ \A y \in P(i) : L # Nil /\ Le(B, y, L)
      /\ \A y \in Field(B) \ P(i) : Lower(B, L, y) /\ (L # Nil => ~Le(B, y, L))
      /\ \A j \in 1 .. n : /\ l[j] \in Units(s, l[j]) /\ l[j] \in Field(B)
                           /\ l[j] \in P(j) \ P(j - 1)
                           /\ \A u \in Units(s, l[j]) \ {l[j]} : w.left[u] \in Units(s, l[j])
                           /\ \A u \in P(j) \ P(j - 1) : u \in Units(s, l[j])
      /\ w.right[x] # Nil => \E k \in i + 1 .. n : l[k] = w.right[x]
  BY SiteFacts
<1>2. /\ \A j \in 0 .. n : \A u \in P(j), v \in Field(B) \ P(j) : Le(B, u, v) /\ ~Le(B, v, u)
      /\ \A j \in 1 .. n : P(j) = P(j - 1) \cup Units(s, l[j]) /\ Units(s, l[j]) \cap P(j - 1) = {}
      /\ \A a, b \in 0 .. n : a <= b => P(a) \subseteq P(b)
  BY ListOrder
<1>3. /\ m \in i .. q /\ q \in i .. n
      /\ \A j \in i + 1 .. q :
           l[j] # it.right /\ (w.left[l[j]] = L \/ w.left[l[j]] \in P(q) \ P(i))
      /\ \A j \in i + 1 .. m :
           w.left[l[j]] = L => clientOf(l[j]) < clientOf(x) \/ w.right[l[j]] \in P(m)
      /\ \A j \in m + 1 .. q : \/ w.left[l[j]] = L /\ clientOf(x) < clientOf(l[j])
                               \/ w.left[l[j]] \in P(q) \ P(m)
  BY DEF Scanned
<1>4. \A y \in Field(B) \ P(q) : Beyond(B, w, x, P(m), y)
  OBVIOUS
<1>5. it.right = w.right[x]
  BY DEF Sited
<1> HIDE DEF l, B, n, L, P
<1>6. m \in 0 .. n /\ q \in 0 .. n /\ i <= m /\ m <= q
  BY <1>1, <1>3
<1>7. P(i) \subseteq P(m) /\ P(m) \subseteq P(q) /\ P(q) \subseteq Field(B)
  BY <1>1, <1>2, <1>6
\* The node of a unit between two places.
<1>8. \A a, b \in 0 .. n : \A y \in P(b) \ P(a) : a <= b => \E j \in a + 1 .. b : y \in Units(s, l[j])
  <2> TAKE a, b \in 0 .. n
  <2> TAKE y \in P(b) \ P(a)
  <2> HAVE a <= b
  <2> DEFINE J == {j \in 0 .. n : y \in P(j)}
  <2>1. PICK j \in J : \A k \in J : j <= k
    <3>1. J \in SUBSET Nat /\ b \in J
      BY <1>1
    <3> HIDE DEF J
    <3> QED BY <3>1, Least
  <2>2. j # 0
    BY <1>1
  <2>3. j \in 1 .. n /\ j - 1 \in 0 .. n /\ j - 1 \notin J
    BY <2>1, <2>2, <1>1
  <2>4. y \in Units(s, l[j])
    BY <2>1, <2>3, <1>2
  <2>5. ~(j <= a)
    BY <2>1, <1>2
  <2>6. j <= b
    BY <2>1
  <2> QED BY <2>3, <2>4, <2>5, <2>6, <1>1
<1>9. ASSUME NEW y \in P(m)
      PROVE  \/ L # Nil /\ Le(B, y, L)
             \/ w.right[y] # Nil /\ w.right[y] \in P(m)
             \/ Lower(B, L, w.left[y])
             \/ L = w.left[y] /\ clientOf(y) < clientOf(x)
  <2>1. CASE y \in P(i)
    BY <2>1, <1>1
  <2>2. CASE y \notin P(i)
    <3>1. PICK j \in i + 1 .. m : y \in Units(s, l[j])
      BY <2>2, <1>8, <1>1, <1>6
    <3>2. j \in 1 .. n /\ j - 1 \in 0 .. n /\ i <= j - 1 /\ j \in i + 1 .. q
      BY <3>1, <1>1, <1>6, <1>3
    <3>3. CASE y = l[j]
      <4>1. CASE w.left[y] = L
        BY <3>1, <3>3, <4>1, <1>3, <1>7, <1>1
      <4>2. CASE w.left[y] # L
        <5>1. w.left[y] \in Field(B) \ P(i)
          BY <4>2, <3>2, <3>3, <1>3, <1>7
        <5> QED BY <5>1, <1>1
      <4> QED BY <4>1, <4>2
    <3>4. CASE y # l[j]
      <4>1. w.left[y] \in Units(s, l[j])
        BY <3>1, <3>2, <3>4, <1>1
      <4>2. w.left[y] \in Field(B) \ P(i)
        BY <4>1, <3>2, <1>1, <1>2
      <4> QED BY <4>2, <1>1
    <3> QED BY <3>3, <3>4
  <2> QED BY <2>1, <2>2
<1>10. ASSUME NEW y \in Field(B) \ P(m)
       PROVE  Beyond(B, w, x, P(m), y)
  <2>1. CASE y \notin P(q)
    BY <2>1, <1>4
  <2>2. CASE y \in P(q)
    <3>1. PICK j \in m + 1 .. q : y \in Units(s, l[j])
      BY <2>2, <1>8, <1>6
    <3>2. j \in 1 .. n /\ j - 1 \in 0 .. n /\ m <= j - 1
      BY <3>1, <1>1, <1>6, <1>3
    <3>3. CASE y = l[j]
      BY <3>1, <3>3, <1>3, <1>7, <1>1 DEF Beyond, L
    <3>4. CASE y # l[j]
      <4>1. w.left[y] \in Units(s, l[j])
        BY <3>1, <3>2, <3>4, <1>1
      <4>2. w.left[y] \notin P(m) /\ w.left[y] \in Field(B)
        BY <4>1, <3>2, <1>1, <1>2, <1>6
      <4> QED BY <4>2, <1>1 DEF Beyond
    <3> QED BY <3>3, <3>4
  <2> QED BY <2>1, <2>2
<1>11. L # Nil => L \in P(m)
  BY <1>1, <1>7
<1>12. w.right[x] # Nil => w.right[x] \notin P(m)
  <2> HAVE w.right[x] # Nil
  <2>1. PICK k \in i + 1 .. n : l[k] = w.right[x]
    BY <1>1
  <2>2. k \notin i + 1 .. q /\ k \in 1 .. n /\ k - 1 \in 0 .. n
    BY <2>1, <1>3, <1>5, <1>1
  <2>3. q <= k - 1
    BY <2>1, <2>2, <1>3, <1>6, <1>1
  <2>4. P(q) \subseteq P(k - 1)
    BY <2>2, <2>3, <1>2, <1>6
  <2> QED BY <2>1, <2>2, <2>4, <1>1, <1>7
<1>13. \A a \in Field(B), b \in P(m) : Le(B, a, b) => a \in P(m)
  BY <1>2, <1>6
<1> QED BY <1>7, <1>9, <1>10, <1>11, <1>12, <1>13 DEF Fits, Beyond, l, B, L, P

\* The next node is one x may go to the right of; the place was found.
LEMMA StopFits ==
  ASSUME NEW s, Sound(s), NEW t \in Root, NEW w, IsWorld(w), NEW x \in w.made, NEW it, NEW i,
         Follows(s, w), Yata(Before(s, t), w), Ready(Before(s, t), w, x),
         Sited(s, Chain(s, t), w, x, it, i),
         NEW m, NEW q, Scanned(s, Chain(s, t), w, x, it, i, m, q), q + 1 \in 1 .. Len(Chain(s, t)),
         scanStops(s, x, it, Chain(s, t)[q + 1], it.right,
                   Ahead(s, Chain(s, t), q + 1) \ Ahead(s, Chain(s, t), i))
  PROVE  Fits(Before(s, t), w, x, Ahead(s, Chain(s, t), m))
<1> DEFINE l == Chain(s, t)
           B == Before(s, t)
           n == Len(l)
           L == w.left[x]
           P(j) == Ahead(s, l, j)
           c == l[q + 1]
<1>1. /\ n \in Nat /\ i \in 0 .. n
      /\ \A j \in 0 .. n : P(j) \subseteq Field(B)
      /\ Field(B) = P(n) /\ P(0) = {} /\ Nil \notin Field(B)
      /\ L # Nil => L \in P(i)
      /\ \A y \in P(i) : L # Nil /\ Le(B, y, L)
      /\ \A y \in Field(B) \ P(i) : Lower(B, L, y) /\ (L # Nil => ~Le(B, y, L))
      /\ \A j \in 1 .. n : /\ l[j] \in Units(s, l[j]) /\ l[j] \in Field(B)
                           /\ l[j] \in P(j) \ P(j - 1)
                           /\ \A u \in Units(s, l[j]) \ {l[j]} : w.left[u] \in Units(s, l[j])
                           /\ \A u \in P(j) \ P(j - 1) : u \in Units(s, l[j])
                           /\ s.heap[l[j]].originLeftId = w.left[l[j]]
                           /\ s.heap[l[j]].originRightId = w.right[l[j]]
      /\ w.right[x] # Nil => \E k \in i + 1 .. n : l[k] = w.right[x]
      /\ clientOf(x) \in Nat /\ \A u \in Field(B) : clientOf(u) \in Nat
  BY SiteFacts
<1>2. /\ \A j \in 0 .. n : \A u \in P(j), v \in Field(B) \ P(j) : Le(B, u, v) /\ ~Le(B, v, u)
      /\ \A j \in 1 .. n : P(j) = P(j - 1) \cup Units(s, l[j]) /\ Units(s, l[j]) \cap P(j - 1) = {}
      /\ \A a, b \in 0 .. n : a <= b => P(a) \subseteq P(b)
      /\ \A j \in 1 .. n : \A u, v \in Units(s, l[j]) : Le(B, u, v) <=> clockOf(u) <= clockOf(v)
  BY ListOrder
<1>3. m \in i .. q /\ q \in i .. n /\ q + 1 \in 1 .. n
  BY DEF Scanned
<1>4. /\ it.right = w.right[x] /\ it.originLeftId = L /\ it.originRightId = w.right[x]
  BY DEF Sited
<1>5. \/ c = it.right
      \/ /\ L = s.heap[c].originLeftId
         /\ clientOf(c) >= clientOf(x) /\ it.originRightId = s.heap[c].originRightId
      \/ L # s.heap[c].originLeftId /\ s.heap[c].originLeftId \notin P(q + 1) \ P(i)
  BY <1>4 DEF scanStops
<1>6. IsOrder(B) /\ Yata(B, w)
  BY DEF Yata
<1>7. c \in DOMAIN s.heap /\ Runs(s)
  BY <1>3, ListOrder DEF Sound
<1>8. SUFFICES \A y \in Field(B) \ P(q) : Beyond(B, w, x, P(m), y)
  BY ScannedFits
<1>9. \A y \in Field(B) : clientOf(y) = clientOf(x) => Apart(B, w, x, y)
  BY DEF Ready
<1> HIDE DEF l, B, n, L, P, c
<1>10. m \in 0 .. n /\ q \in 0 .. n /\ i <= m /\ m <= q /\ q + 1 \in 0 .. n /\ (q + 1) - 1 = q
  BY <1>1, <1>3
<1>11. /\ P(i) \subseteq P(m) /\ P(m) \subseteq P(q) /\ P(q) \subseteq P(q + 1)
       /\ P(q) \subseteq Field(B) /\ P(q + 1) \subseteq Field(B)
  BY <1>1, <1>2, <1>10
<1>12. /\ c \in Field(B) /\ c \notin P(q) /\ c \in Units(s, c)
       /\ P(q + 1) = P(q) \cup Units(s, c)
       /\ s.heap[c].originLeftId = w.left[c] /\ s.heap[c].originRightId = w.right[c]
  <2>1. /\ l[q + 1] \in Units(s, l[q + 1]) /\ l[q + 1] \in Field(B)
        /\ l[q + 1] \in P(q + 1) \ P((q + 1) - 1)
        /\ s.heap[l[q + 1]].originLeftId = w.left[l[q + 1]]
        /\ s.heap[l[q + 1]].originRightId = w.right[l[q + 1]]
    BY <1>1, <1>3
  <2>2. P(q + 1) = P((q + 1) - 1) \cup Units(s, l[q + 1])
    BY <1>2, <1>3
  <2> QED BY <2>1, <2>2, <1>10 DEF c
<1>13. \A y \in Field(B) \ P(q) : Le(B, c, y)
  <2> TAKE y \in Field(B) \ P(q)
  <2>1. CASE y \in P(q + 1)
    <3>1. y \in Units(s, c)
      BY <2>1, <1>12
    <3>2. clockOf(c) <= clockOf(y)
      BY <3>1, <1>7, UnitsAre
    <3> QED BY <3>1, <3>2, <1>2, <1>3, <1>12 DEF c
  <2>2. CASE y \notin P(q + 1)
    BY <2>2, <1>2, <1>10, <1>12
  <2> QED BY <2>1, <2>2
<1>14. \A y \in P(m) : ~Le(B, c, y)
  BY <1>2, <1>10, <1>11, <1>12
<1> TAKE y \in Field(B) \ P(q)
<1>15. CASE c = it.right
  BY <1>15, <1>13, <1>4, <1>1, <1>12 DEF Beyond
<1>16. CASE /\ c # it.right /\ L = w.left[c]
            /\ clientOf(c) >= clientOf(x) /\ w.right[x] = w.right[c]
  <2>1. clientOf(x) < clientOf(c)
    <3>1. clientOf(c) # clientOf(x)
      <4> SUFFICES ASSUME clientOf(c) = clientOf(x) PROVE FALSE
        OBVIOUS
      <4>1. Apart(B, w, x, c)
        BY <1>9, <1>12
      <4>2. c \notin P(i)
        BY <1>11, <1>12
      <4>3. w.right[x] # Nil /\ Le(B, w.right[x], c)
        BY <4>1, <4>2, <1>1, <1>12 DEF Apart, L
      <4>4. w.right[c] # c /\ Le(B, c, w.right[c]) /\ w.right[c] \in Field(B)
        BY <4>3, <1>6, <1>12, <1>16, YataFacts
      <4> QED BY <4>3, <4>4, <1>16, <1>6, <1>12 DEF IsOrder
    <3> QED BY <3>1, <1>16, <1>1, <1>12
  <2>2. CASE y = c
    BY <2>1, <2>2, <1>16 DEF Beyond, L
  <2>3. CASE y # c
    <3>1. Reason(B, w, c, y)
      BY <2>3, <1>6, <1>12, <1>13 DEF Yata, Justified
    <3>2. clientOf(x) \in Nat /\ clientOf(c) \in Nat /\ clientOf(y) \in Nat
      BY <1>1, <1>12
    <3>3. CASE w.left[y] # Nil /\ Le(B, c, w.left[y])
      BY <3>3, <1>14 DEF Beyond
    <3>4. CASE w.right[c] # Nil /\ Le(B, w.right[c], y)
      BY <3>4, <1>16 DEF Beyond
    <3>5. CASE Lower(B, w.left[y], w.left[c])
      BY <3>5, <1>16 DEF Beyond, L
    <3>6. CASE w.left[c] = w.left[y] /\ clientOf(c) < clientOf(y)
      BY <3>6, <3>2, <2>1, <1>16 DEF Beyond, L
    <3> QED BY <3>1, <3>3, <3>4, <3>5, <3>6 DEF Reason
  <2> QED BY <2>2, <2>3
<1>17. CASE L # w.left[c] /\ w.left[c] \notin P(q + 1) \ P(i)
  <2>1. Lower(B, w.left[c], L)
    <3>1. CASE w.left[c] = Nil
      BY <3>1, <1>17 DEF Lower
    <3>2. CASE w.left[c] # Nil
      <4>1. w.left[c] # c /\ Le(B, w.left[c], c) /\ w.left[c] \in Field(B)
        BY <3>2, <1>6, <1>12, YataFacts
      <4>2. w.left[c] \in P(q + 1)
        BY <4>1, <1>2, <1>10, <1>12
      <4>3. w.left[c] \in P(i)
        BY <4>2, <1>17
      <4> QED BY <4>3, <1>1, <1>17 DEF Lower
    <3> QED BY <3>1, <3>2
  <2>2. L \in OptId
    BY WorldFacts DEF L
  <2>3. (w.left[y] # Nil /\ Le(B, c, w.left[y])) \/ Lower(B, w.left[y], L)
    BY <2>1, <2>2, <1>6, <1>12, <1>13, NoneHangs
  <2> QED BY <2>3, <1>14 DEF Beyond, L
<1> QED BY <1>5, <1>4, <1>12, <1>15, <1>16, <1>17

\* The scan passes the next node and moves to it, or passes it and stays.
LEMMA ScanGoesOn ==
  ASSUME NEW s, Sound(s), NEW t \in Root, NEW w, IsWorld(w), NEW x \in w.made, NEW it, NEW i,
         Follows(s, w), Yata(Before(s, t), w), Ready(Before(s, t), w, x),
         Sited(s, Chain(s, t), w, x, it, i),
         NEW m, NEW q, Scanned(s, Chain(s, t), w, x, it, i, m, q), q + 1 \in 1 .. Len(Chain(s, t)),
         ~scanStops(s, x, it, Chain(s, t)[q + 1], it.right,
                    Ahead(s, Chain(s, t), q + 1) \ Ahead(s, Chain(s, t), i))
  PROVE  IF scanMoves(s, x, it, Chain(s, t)[q + 1], Ahead(s, Chain(s, t), q + 1) \ Ahead(s, Chain(s, t), m))
           THEN Scanned(s, Chain(s, t), w, x, it, i, q + 1, q + 1)
           ELSE Scanned(s, Chain(s, t), w, x, it, i, m, q + 1)
<1> DEFINE l == Chain(s, t)
           B == Before(s, t)
           n == Len(l)
           L == w.left[x]
           P(j) == Ahead(s, l, j)
           c == l[q + 1]
<1>1. /\ n \in Nat /\ i \in 0 .. n
      /\ \A j \in 0 .. n : P(j) \subseteq Field(B)
      /\ Field(B) = P(n) /\ P(0) = {} /\ Nil \notin Field(B)
      /\ L # Nil => L \in P(i)
      /\ \A y \in P(i) : L # Nil /\ Le(B, y, L)
      /\ \A y \in Field(B) \ P(i) : Lower(B, L, y) /\ (L # Nil => ~Le(B, y, L))
      /\ \A j \in 1 .. n : /\ l[j] \in Units(s, l[j]) /\ l[j] \in Field(B)
                           /\ l[j] \in P(j) \ P(j - 1)
                           /\ \A u \in Units(s, l[j]) \ {l[j]} : w.left[u] \in Units(s, l[j])
                           /\ \A u \in P(j) \ P(j - 1) : u \in Units(s, l[j])
                           /\ s.heap[l[j]].originLeftId = w.left[l[j]]
                           /\ s.heap[l[j]].originRightId = w.right[l[j]]
      /\ w.right[x] # Nil => \E k \in i + 1 .. n : l[k] = w.right[x]
      /\ clientOf(x) \in Nat /\ \A u \in Field(B) : clientOf(u) \in Nat
  BY SiteFacts
<1>2. /\ \A j \in 0 .. n : \A u \in P(j), v \in Field(B) \ P(j) : Le(B, u, v) /\ ~Le(B, v, u)
      /\ \A j \in 1 .. n : P(j) = P(j - 1) \cup Units(s, l[j]) /\ Units(s, l[j]) \cap P(j - 1) = {}
      /\ \A a, b \in 0 .. n : a <= b => P(a) \subseteq P(b)
      /\ \A j \in 1 .. n : \A u, v \in Units(s, l[j]) : Le(B, u, v) <=> clockOf(u) <= clockOf(v)
  BY ListOrder
<1>3. m \in i .. q /\ q \in i .. n /\ q + 1 \in 1 .. n
  BY DEF Scanned
<1>4. /\ it.right = w.right[x] /\ it.originLeftId = L /\ it.originRightId = w.right[x]
  BY DEF Sited
<1>5. /\ c # it.right
      /\ L = s.heap[c].originLeftId \/ s.heap[c].originLeftId \in P(q + 1) \ P(i)
  BY <1>4 DEF scanStops
<1>6. IsOrder(B) /\ Yata(B, w)
  BY DEF Yata
<1>7. c \in DOMAIN s.heap /\ Runs(s)
  BY <1>3, ListOrder DEF Sound
<1>8. /\ \A j \in i + 1 .. q :
           l[j] # it.right /\ (w.left[l[j]] = L \/ w.left[l[j]] \in P(q) \ P(i))
      /\ \A j \in i + 1 .. m :
           w.left[l[j]] = L => clientOf(l[j]) < clientOf(x) \/ w.right[l[j]] \in P(m)
      /\ \A j \in m + 1 .. q : \/ w.left[l[j]] = L /\ clientOf(x) < clientOf(l[j])
                               \/ w.left[l[j]] \in P(q) \ P(m)
  BY DEF Scanned
<1> DEFINE moves == scanMoves(s, x, it, c, P(q + 1) \ P(m))
<1>18. moves <=> IF L = s.heap[c].originLeftId THEN clientOf(c) < clientOf(x)
                ELSE s.heap[c].originLeftId \notin P(q + 1) \ P(m)
  BY <1>4 DEF scanMoves
<1> SUFFICES IF moves THEN Scanned(s, l, w, x, it, i, q + 1, q + 1) ELSE Scanned(s, l, w, x, it, i, m, q + 1)
  OBVIOUS
<1> HIDE DEF moves
<1>9. \A y \in Field(B) : clientOf(y) = clientOf(x) => Apart(B, w, x, y)
  BY DEF Ready
<1> HIDE DEF l, B, n, L, P, c
<1>10. m \in 0 .. n /\ q \in 0 .. n /\ i <= m /\ m <= q /\ q + 1 \in 0 .. n /\ (q + 1) - 1 = q
  BY <1>1, <1>3
<1>11. /\ P(i) \subseteq P(m) /\ P(m) \subseteq P(q) /\ P(q) \subseteq P(q + 1)
       /\ P(q) \subseteq Field(B) /\ P(q + 1) \subseteq Field(B)
  BY <1>1, <1>2, <1>10
<1>12. /\ c \in Field(B) /\ c \notin P(q) /\ c \in Units(s, c)
       /\ P(q + 1) = P(q) \cup Units(s, c)
       /\ s.heap[c].originLeftId = w.left[c] /\ s.heap[c].originRightId = w.right[c]
  <2>1. /\ l[q + 1] \in Units(s, l[q + 1]) /\ l[q + 1] \in Field(B)
        /\ l[q + 1] \in P(q + 1) \ P((q + 1) - 1)
        /\ s.heap[l[q + 1]].originLeftId = w.left[l[q + 1]]
        /\ s.heap[l[q + 1]].originRightId = w.right[l[q + 1]]
    BY <1>1, <1>3
  <2>2. P(q + 1) = P((q + 1) - 1) \cup Units(s, l[q + 1])
    BY <1>2, <1>3
  <2> QED BY <2>1, <2>2, <1>10 DEF c
<1>13. \A j \in 1 .. n : j <= q => Le(B, l[j], c) /\ l[j] # c
  <2> TAKE j \in 1 .. n
  <2> HAVE j <= q
  <2>1. l[j] \in P(q)
    BY <1>1, <1>2, <1>10
  <2> QED BY <2>1, <1>2, <1>10, <1>12
<1>14. \A j \in i + 1 .. q + 1 :
         /\ l[j] # it.right
         /\ w.left[l[j]] = L \/ w.left[l[j]] \in P(q + 1) \ P(i)
  <2> TAKE j \in i + 1 .. q + 1
  <2>1. CASE j = q + 1
    BY <2>1, <1>5, <1>12 DEF c
  <2>2. CASE j # q + 1
    <3>1. j \in i + 1 .. q
      BY <2>2, <1>1, <1>3, <1>10
    <3> QED BY <3>1, <1>8, <1>11
  <2> QED BY <2>1, <2>2
<1>15. /\ q + 1 \in i .. q + 1 /\ q + 1 \in i .. n /\ m \in i .. q + 1
       /\ \A j \in i + 1 .. q + 1 : j = q + 1 \/ j \in i + 1 .. m \/ j \in m + 1 .. q
       /\ \A j \in m + 1 .. q + 1 : j = q + 1 \/ j \in m + 1 .. q
       /\ \A j \in q + 2 .. q + 1 : FALSE
       /\ \A j \in m + 1 .. q : j \in 1 .. n /\ j <= q /\ j - 1 \in 0 .. n /\ m <= j - 1
  BY <1>1, <1>3, <1>10
<1>16. CASE moves
  <2>1. ASSUME NEW j \in m + 1 .. q, w.left[l[j]] = L
        PROVE  clientOf(l[j]) < clientOf(x) \/ w.right[l[j]] \in P(q + 1)
    <3>0. j \in 1 .. n /\ l[j] \in Field(B) /\ l[j] \notin P(m) /\ l[j] \notin P(i)
      <4>1. P(m) \subseteq P(j - 1)
        BY <1>15, <1>2, <1>10
      <4> QED BY <4>1, <1>15, <1>1, <1>11
    <3>1. Reason(B, w, l[j], c)
      BY <3>0, <1>13, <1>15, <1>6, <1>12 DEF Yata, Justified
    <3>2. CASE w.left[c] = L
      <4>1. clientOf(c) < clientOf(x) /\ L \in OptId
        BY <3>2, <1>16, <1>18, <1>12, WorldFacts DEF L
      <4>2. ~Lower(B, L, L)
        BY DEF Lower
      <4>3. L # Nil => ~Le(B, l[j], L)
        BY <3>0, <1>1
      <4>4. CASE w.right[l[j]] # Nil /\ Le(B, w.right[l[j]], c)
        <5>1. w.right[l[j]] \in Field(B)
          BY <4>4, <3>0, <1>6, YataFacts
        <5> QED BY <4>4, <5>1, <1>2, <1>10, <1>12
      <4>5. CASE clientOf(l[j]) < clientOf(c)
        BY <4>1, <4>5, <3>0, <1>1, <1>12
      <4> QED BY <3>1, <3>2, <4>2, <4>3, <4>4, <4>5, <2>1 DEF Reason
    <3>3. CASE w.left[c] # L
      <4>1. w.left[c] \in P(m) /\ w.left[c] \notin P(i) /\ w.left[c] \in Field(B)
        BY <3>3, <1>16, <1>18, <1>5, <1>11, <1>12
      <4>2. ~Le(B, l[j], w.left[c])
        BY <4>1, <3>0, <1>2, <1>10
      <4>3. ~Lower(B, w.left[c], L)
        <5>1. Lower(B, L, w.left[c])
          BY <4>1, <1>1
        <5>2. L # Nil => L \in Field(B)
          BY <1>1, <1>11
        <5>3. L \in OptId /\ w.left[c] \in OptId
          BY <4>1, <1>6, <1>12, WorldFacts DEF L, Yata, Field, OptId
        <5>4. ASSUME Lower(B, w.left[c], L) PROVE FALSE
          <6>1. Le(B, w.left[c], L) /\ w.left[c] # L
            BY <5>4, <4>1, <1>1 DEF Lower
          <6>2. L \in Field(B)
            BY <6>1, <5>3, <1>6 DEF IsOrder
          <6>3. Le(B, L, w.left[c])
            BY <6>2, <5>1, <1>1 DEF Lower
          <6> QED BY <6>1, <6>2, <6>3, <4>1, <1>6 DEF IsOrder
        <5> QED BY <5>4
      <4>4. CASE w.right[l[j]] # Nil /\ Le(B, w.right[l[j]], c)
        <5>1. w.right[l[j]] \in Field(B)
          BY <4>4, <3>0, <1>6, YataFacts
        <5> QED BY <4>4, <5>1, <1>2, <1>10, <1>12
      <4> QED BY <3>1, <3>3, <4>2, <4>3, <4>4, <2>1 DEF Reason
    <3> QED BY <3>2, <3>3
  <2>2. \A j \in i + 1 .. q + 1 :
          w.left[l[j]] = L => clientOf(l[j]) < clientOf(x) \/ w.right[l[j]] \in P(q + 1)
    <3> TAKE j \in i + 1 .. q + 1
    <3> HAVE w.left[l[j]] = L
    <3>1. CASE j = q + 1
      BY <3>1, <1>16, <1>18, <1>12 DEF c
    <3>2. CASE j \in i + 1 .. m
      BY <3>2, <1>8, <1>11
    <3>3. CASE j \in m + 1 .. q
      BY <3>3, <2>1
    <3> QED BY <3>1, <3>2, <3>3, <1>15
  <2>3. \A j \in (q + 1) + 1 .. q + 1 : FALSE
    BY <1>10
  <2>4. Scanned(s, l, w, x, it, i, q + 1, q + 1)
    BY <2>2, <2>3, <1>14, <1>15 DEF Scanned, L, P, n
  <2> QED BY <2>4, <1>16
<1>17. CASE ~moves
  <2>1. \/ w.left[c] = L /\ clientOf(x) < clientOf(c)
        \/ w.left[c] \in P(q + 1) \ P(m)
    <3>1. CASE w.left[c] # L
      BY <3>1, <1>17, <1>18, <1>12
    <3>2. CASE w.left[c] = L
      <4>1. ~(clientOf(c) < clientOf(x)) /\ clientOf(c) \in Nat /\ clientOf(x) \in Nat
        BY <3>2, <1>17, <1>18, <1>12, <1>1
      <4>2. ASSUME clientOf(c) = clientOf(x) PROVE FALSE
        <5>1. Apart(B, w, x, c)
          BY <4>2, <1>9, <1>12
        <5>2. c \notin P(i)
          BY <1>11, <1>12
        <5>3. w.right[x] # Nil /\ Le(B, w.right[x], c)
          BY <5>1, <5>2, <1>1, <1>12 DEF Apart, L
        <5>4. PICK k \in i + 1 .. n : l[k] = w.right[x]
          BY <5>3, <1>1
        <5>5. k \in 1 .. n /\ k - 1 \in 0 .. n
          BY <1>1
        <5>6. ~(k <= q + 1)
          BY <5>4, <1>14, <1>4, <1>1, <1>10
        <5>7. P(q + 1) \subseteq P(k - 1)
          BY <5>5, <5>6, <1>2, <1>10
        <5>8. l[k] \in Field(B) \ P(q + 1) /\ c \in P(q + 1)
          BY <5>5, <5>7, <1>1, <1>12
        <5> QED BY <5>3, <5>4, <5>8, <1>2, <1>10
      <4> QED BY <4>1, <4>2, <3>2
    <3> QED BY <3>1, <3>2
  <2>2. \A j \in m + 1 .. q + 1 : \/ w.left[l[j]] = L /\ clientOf(x) < clientOf(l[j])
                                  \/ w.left[l[j]] \in P(q + 1) \ P(m)
    <3> TAKE j \in m + 1 .. q + 1
    <3>1. CASE j = q + 1
      BY <3>1, <2>1 DEF c
    <3>2. CASE j \in m + 1 .. q
      BY <3>2, <1>8, <1>11
    <3> QED BY <3>1, <3>2, <1>15
  <2>3. Scanned(s, l, w, x, it, i, m, q + 1)
    BY <2>2, <1>8, <1>14, <1>15 DEF Scanned, L, P, n
  <2> QED BY <2>3, <1>17
<1> QED BY <1>16, <1>17

-----------------------------------------------------------------------------
\* One step of the scan.
scanStep(s, x, it, right, st, c) ==
  LET visit(before, conflicting) ==
        IF st.done \/ scanStops(s, x, it, c, right, before)
          THEN [st EXCEPT !.done = TRUE]
        ELSE IF scanMoves(s, x, it, c, conflicting)
          THEN [done |-> FALSE, left |-> c, before |-> before, conflicting |-> {}]
        ELSE [st EXCEPT !.before = before, !.conflicting = conflicting]
  IN  visit(st.before \cup Units(s, c), st.conflicting \cup Units(s, c))

scanStart(left) == [done |-> FALSE, left |-> left, before |-> {}, conflicting |-> {}]

ScanStates(s, left, seq) ==
  LET U == UNION {Units(s, c) : c \in ToSet(seq)}
  IN  [done : BOOLEAN, left : {left} \cup ToSet(seq), before : SUBSET U, conflicting : SUBSET U]

\* F has what was found after each number of steps.
ScanTrace(s, x, it, left, conflict, right, seq, F) ==
  /\ F[{}] = scanStart(left)
  /\ \A k \in 0 .. Len(seq) - 1 :
       F[1 .. k + 1] = scanStep(s, x, it, right, F[1 .. k], seq[k + 1])
  /\ \A k \in 0 .. Len(seq) : F[1 .. k] \in ScanStates(s, left, seq)
  /\ scanConflicts(s, x, it, left, conflict, right) = F[1 .. Len(seq)].left

\* The scan takes the nodes of a list one after the other.
LEMMA ScanSteps ==
  ASSUME NEW s, NEW x, NEW it, NEW left, NEW conflict, NEW right,
         NEW seq \in Seq(Id), From(s, conflict) = seq
  PROVE  \E F : ScanTrace(s, x, it, left, conflict, right, seq, F)
<1> DEFINE visit(st, c, before, conflicting) ==
             IF st.done \/ scanStops(s, x, it, c, right, before)
               THEN [st EXCEPT !.done = TRUE]
             ELSE IF scanMoves(s, x, it, c, conflicting)
               THEN [done |-> FALSE, left |-> c, before |-> before, conflicting |-> {}]
             ELSE [st EXCEPT !.before = before, !.conflicting = conflicting]
           scan(st, c) == visit(st, c, st.before \cup Units(s, c), st.conflicting \cup Units(s, c))
           st0 == [done |-> FALSE, left |-> left, before |-> {}, conflicting |-> {}]
           E(F) == F = [S \in SUBSET DOMAIN seq |->
                          IF S = {} THEN st0 ELSE scan(F[S \ {Max(S)}], seq[Max(S)])]
           n == Len(seq)
           U == UNION {Units(s, c) : c \in ToSet(seq)}
           A == [done : BOOLEAN, left : {left} \cup ToSet(seq), before : SUBSET U,
                 conflicting : SUBSET U]
           g == [p \in A \X (1 .. n) |-> scan(p[1], seq[p[2]])]
<1>0. st0 = scanStart(left) /\ \A st, c : scan(st, c) = scanStep(s, x, it, right, st, c)
  BY DEF scanStart, scanStep
<1>1. scanConflicts(s, x, it, left, conflict, right) = (CHOOSE F : E(F))[DOMAIN seq].left
  BY DEF scanConflicts, FoldLeft, MapThenFoldSet
<1>2. n \in Nat /\ DOMAIN seq = 1 .. n /\ \A i \in 1 .. n : seq[i] \in ToSet(seq)
  BY DEF ToSet
<1>3. st0 \in A
  OBVIOUS
<1>4. ASSUME NEW st \in A, NEW c \in ToSet(seq) PROVE scan(st, c) \in A
  <2>1. st.before \cup Units(s, c) \in SUBSET U /\ st.conflicting \cup Units(s, c) \in SUBSET U
    OBVIOUS
  <2> HIDE DEF U
  <2> QED BY <2>1
<1> HIDE DEF A, scan, st0
<1>5. g \in [A \X (1 .. n) -> A]
  BY <1>2, <1>4
<1>6. \E F : E(F)
  <2>1. PICK F \in [SUBSET (1 .. n) -> A] : FoldsBy(n, st0, g, F)
    <3> HIDE DEF g, n
    <3>1. n \in Nat /\ st0 \in A /\ g \in [A \X (1 .. n) -> A]
      BY <1>2, <1>3, <1>5
    <3> QED BY <3>1, FoldExists, Zenon
  <2>2. \A S \in SUBSET (1 .. n) : S # {} => Max(S) \in 1 .. n /\ F[S \ {Max(S)}] \in A
    BY <1>2, MaxIn
  <2>3. \A a \in A, k \in 1 .. n : g[<<a, k>>] = scan(a, seq[k])
    OBVIOUS
  <2> HIDE DEF g, n
  <2>4. \A S \in SUBSET (1 .. n) :
          F[S] = IF S = {} THEN st0 ELSE scan(F[S \ {Max(S)}], seq[Max(S)])
    BY <2>1, <2>2, <2>3 DEF FoldsBy
  <2> QED BY <2>1, <2>4, <1>2
<1> DEFINE F == CHOOSE F : E(F)
<1>7. E(F)
  BY <1>6
<1>8. F[{}] = st0 /\ \A k \in 0 .. n - 1 : F[1 .. k + 1] = scan(F[1 .. k], seq[k + 1])
  <2> HIDE DEF F, n
  <2>0. F = [S \in SUBSET (1 .. n) |->
               IF S = {} THEN st0 ELSE scan(F[S \ {Max(S)}], seq[Max(S)])]
    BY <1>2, <1>7
  <2>1. {} \in SUBSET (1 .. n)
    OBVIOUS
  <2>2. \A k \in 0 .. n - 1 : 1 .. k + 1 \in SUBSET (1 .. n) /\ k \in Nat
    BY <1>2
  <2>3. F[{}] = st0
    BY <2>0, <2>1
  <2>4. ASSUME NEW k \in 0 .. n - 1
        PROVE  F[1 .. k + 1] = scan(F[1 .. k], seq[k + 1])
    <3>1. /\ Max(1 .. k + 1) = k + 1 /\ (1 .. k + 1) \ {k + 1} = 1 .. k
          /\ 1 .. k + 1 # {} /\ 1 .. k + 1 \in SUBSET (1 .. n)
      BY <2>2, Prefix
    <3> QED BY <2>0, <3>1
  <2> QED BY <2>3, <2>4
<1> HIDE DEF F, n, g
<1> DEFINE T == {k \in 0 .. n : F[1 .. k] \in A}
<1>9. 0 \in T
  <2>1. 1 .. 0 = {}
    OBVIOUS
  <2> QED BY <2>1, <1>2, <1>3, <1>8
<1>10. \A k \in 0 .. n - 1 : k \in T => k + 1 \in T
  <2> TAKE k \in 0 .. n - 1
  <2> HAVE k \in T
  <2>1. k + 1 \in 1 .. n /\ k + 1 \in 0 .. n
    BY <1>2
  <2> QED BY <2>1, <1>2, <1>4, <1>8
<1> HIDE DEF T
<1>11. \A k \in 0 .. n : k \in T
  BY <1>2, <1>9, <1>10, UpTo
<1>12. \A k \in 0 .. n : F[1 .. k] \in A
  BY <1>11 DEF T
<1>13. scanConflicts(s, x, it, left, conflict, right) = F[1 .. n].left
  BY <1>1, <1>2 DEF F
<1>14. F[{}] = scanStart(left) /\ \A k \in 0 .. n - 1 :
         F[1 .. k + 1] = scanStep(s, x, it, right, F[1 .. k], seq[k + 1])
  BY <1>0, <1>8
<1>15. ScanTrace(s, x, it, left, conflict, right, seq, F)
  BY <1>12, <1>13, <1>14 DEF A, n, U, ScanStates, ScanTrace
<1> QED BY <1>15

\* The scan finds a place that fits.
LEMMA ScanFits ==
  ASSUME NEW s, Sound(s), NEW t \in Root, NEW w, IsWorld(w), NEW x \in w.made, NEW it, NEW i,
         Follows(s, w), Yata(Before(s, t), w), Ready(Before(s, t), w, x),
         Sited(s, Chain(s, t), w, x, it, i)
  PROVE  \E m \in 0 .. Len(Chain(s, t)) :
           /\ scanConflicts(s, x, it, it.left, rightOf(s, t, it.left), it.right) = NodeAt(Chain(s, t), m)
           /\ Fits(Before(s, t), w, x, Ahead(s, Chain(s, t), m))
<1> DEFINE l == Chain(s, t)
           B == Before(s, t)
           n == Len(l)
           P(j) == Ahead(s, l, j)
           conflict == rightOf(s, t, it.left)
           seq == From(s, conflict)
<1>1. /\ n \in Nat /\ i \in 0 .. n /\ l \in Seq(Id) /\ Runs(s) /\ s \in StoreType /\ ListOf(s, t, l)
      /\ Field(B) = P(n)
      /\ it.left = NodeAt(l, i)
  <2>1. n \in Nat /\ i \in 0 .. n /\ Field(B) = P(n)
    BY SiteFacts
  <2>2. ListOf(s, t, l) /\ Runs(s) /\ s \in StoreType
    BY DEF Sound, Runs, Linked
  <2>3. l \in Seq(Id)
    BY <2>2 DEF ListOf
  <2> QED BY <2>1, <2>2, <2>3 DEF Sited
<1>2. /\ \A j \in 1 .. n : l[j] \in DOMAIN s.heap /\ s.heap[l[j]].parent = t
      /\ \A j \in 1 .. n : P(j) = P(j - 1) \cup Units(s, l[j]) /\ Units(s, l[j]) \cap P(j - 1) = {}
      /\ \A a, b \in 0 .. n : a <= b => P(a) \subseteq P(b)
  BY ListOrder
\* The nodes scanned are those of the list after the i-th.
<1>3. /\ seq \in Seq(Id) /\ Len(seq) = n - i /\ \A k \in 1 .. n - i : seq[k] = l[i + k]
  <2>0. /\ \A j \in 1 .. n : l[j] # Nil /\ s.heap[l[j]].right = IF j = n THEN Nil ELSE l[j + 1]
        /\ s.start[t] = IF n = 0 THEN Nil ELSE l[1]
    <3>1. \A j \in 1 .. n : l[j] # Nil
      BY <1>1, <1>2, HeapFacts
    <3> QED BY <3>1, <1>1 DEF ListOf
  <2>1. conflict = IF i = n THEN Nil ELSE l[i + 1]
    <3>1. i # 0 => i \in 1 .. n
      BY <1>1
    <3> HIDE DEF l, n
    <3> QED BY <3>1, <2>0, <1>1 DEF rightOf, NodeAt
  <2>2. From(s, Nil) = <<>> /\ \A j \in 1 .. n : From(s, l[j]) = SubSeq(l, j, n)
    <3> DEFINE M == [u \in Root |-> Chain(s, u)]
    <3>1. M \in [Root -> Seq(Id)] /\ \A u \in Root : ListOf(s, u, M[u])
      <4>1. \A u \in Root : ListOf(s, u, Chain(s, u)) /\ Chain(s, u) \in Seq(Id)
        BY DEF Sound, Linked, ListOf
      <4> QED BY <4>1
    <3>2. DOMAIN s.heap \subseteq Id /\ \A z \in DOMAIN s.heap : s.heap[z].parent \in Root
      BY <1>1, HeapFacts
    <3> HIDE DEF M
    <3>3. /\ From(s, Nil) = <<>>
          /\ \A u \in Root : \A j \in DOMAIN M[u] : From(s, M[u][j]) = SubSeq(M[u], j, Len(M[u]))
      BY <3>1, <3>2, Walk
    <3>4. M[t] = l
      BY DEF M
    <3>5. DOMAIN l = 1 .. Len(l)
      BY <1>1
    <3> HIDE DEF l
    <3> QED BY <3>3, <3>4, <3>5
  <2> HIDE DEF l, n, conflict
  <2>3. CASE i = n
    <3>1. seq = <<>> /\ n - i = 0
      BY <2>1, <2>2, <2>3, <1>1
    <3> QED BY <3>1
  <2>4. CASE i # n
    <3>1. i + 1 \in 1 .. n
      BY <2>4, <1>1
    <3>2. seq = SubSeq(l, i + 1, n)
      BY <2>1, <2>2, <2>4, <3>1
    <3>3. Len(l) = n
      BY DEF n
    <3> QED BY <3>1, <3>2, <3>3, <1>1
  <2> QED BY <2>3, <2>4
<1>15. PICK F : ScanTrace(s, x, it, it.left, conflict, it.right, seq, F)
  <2>1. seq \in Seq(Id) /\ From(s, conflict) = seq
    BY <1>3
  <2> HIDE DEF conflict, seq
  <2> QED BY <2>1, ScanSteps
<1>4. /\ F[{}] = scanStart(it.left)
      /\ \A k \in 0 .. Len(seq) - 1 :
           F[1 .. k + 1] = scanStep(s, x, it, it.right, F[1 .. k], seq[k + 1])
      /\ \A k \in 0 .. Len(seq) : F[1 .. k] \in ScanStates(s, it.left, seq)
      /\ scanConflicts(s, x, it, it.left, conflict, it.right) = F[1 .. Len(seq)].left
  BY <1>15 DEF ScanTrace
<1> DEFINE N == n - i
           Done(k) == \E m \in i .. i + k : /\ F[1 .. k].left = NodeAt(l, m)
                                            /\ Fits(B, w, x, P(m))
           Going(k) == \E m \in i .. i + k : /\ F[1 .. k].left = NodeAt(l, m)
                                             /\ F[1 .. k].before = P(i + k) \ P(i)
                                             /\ F[1 .. k].conflicting = P(i + k) \ P(m)
                                             /\ Scanned(s, l, w, x, it, i, m, i + k)
           T == {k \in 0 .. N : IF F[1 .. k].done THEN Done(k) ELSE Going(k)}
<1> HIDE DEF seq, conflict
<1>14. \A k : k \in T <=> k \in 0 .. N /\ IF F[1 .. k].done THEN Done(k) ELSE Going(k)
  <2> HIDE DEF Done, Going, N
  <2> QED OBVIOUS
<1>5. N \in Nat /\ \A k \in 0 .. N : i + k \in i .. n
  BY <1>1
<1>6. \A k \in 0 .. N : F[1 .. k].done \in BOOLEAN
  BY <1>3, <1>4 DEF ScanStates
<1>7. 0 \in T
  <2>1. 1 .. 0 = {} /\ i + 0 = i /\ i \in i .. i
    BY <1>1
  <2>2. /\ F[1 .. 0].done = FALSE /\ F[1 .. 0].left = it.left
        /\ F[1 .. 0].before = {} /\ F[1 .. 0].conflicting = {}
    BY <2>1, <1>4 DEF scanStart
  <2>3. Scanned(s, l, w, x, it, i, i, i)
    <3>1. (\A j \in i + 1 .. i : FALSE) /\ i \in i .. i /\ i \in i .. n
      BY <1>1
    <3> QED BY <3>1 DEF Scanned
  <2>4. Going(0)
    BY <2>1, <2>2, <2>3, <1>1
  <2> QED BY <2>2, <2>4, <1>5
<1>8. ASSUME NEW k \in 0 .. N - 1, k \in T
      PROVE  k + 1 \in T
  <2> DEFINE q == i + k
             st == F[1 .. k]
             new == F[1 .. k + 1]
             c == l[q + 1]
  <2>1. /\ k + 1 \in 0 .. N /\ k \in 0 .. N /\ q + 1 \in 1 .. n /\ q \in 0 .. n /\ q = (q + 1) - 1
        /\ i + (k + 1) = q + 1 /\ k \in 0 .. Len(seq) - 1 /\ k + 1 \in 1 .. n - i /\ i + (k + 1) \in 1 .. n
        /\ q + 1 \in i .. n /\ q + 1 \in 0 .. n
    BY <1>1, <1>3
  <2>2. new = scanStep(s, x, it, it.right, st, c)
    <3>1. seq[k + 1] = l[i + (k + 1)]
      BY <2>1, <1>3
    <3> QED BY <3>1, <2>1, <1>4
  <2>3. /\ st \in [done : BOOLEAN, left : {it.left} \cup ToSet(seq),
                   before : SUBSET UNION {Units(s, e) : e \in ToSet(seq)},
                   conflicting : SUBSET UNION {Units(s, e) : e \in ToSet(seq)}]
    BY <2>1, <1>3, <1>4 DEF ScanStates
  <2>4. P(q + 1) = P(q) \cup Units(s, c) /\ Units(s, c) \cap P(q) = {}
    BY <2>1, <1>2
  <2> DEFINE before == st.before \cup Units(s, c)
             conflicting == st.conflicting \cup Units(s, c)
  <2>5. new = IF st.done \/ scanStops(s, x, it, c, it.right, before)
                THEN [st EXCEPT !.done = TRUE]
              ELSE IF scanMoves(s, x, it, c, conflicting)
                THEN [done |-> FALSE, left |-> c, before |-> before, conflicting |-> {}]
              ELSE [st EXCEPT !.before = before, !.conflicting = conflicting]
    BY <2>2 DEF scanStep
  <2> HIDE DEF st, new, before, conflicting, T
  <2>6. CASE st.done
    <3>1. Done(k)
      BY <2>6, <1>8, <1>14 DEF st
    <3>2. PICK m \in i .. i + k : st.left = NodeAt(l, m) /\ Fits(B, w, x, P(m))
      BY <3>1 DEF st
    <3>3. new.done = TRUE /\ new.left = st.left
      BY <2>3, <2>5, <2>6
    <3>4. m \in i .. i + (k + 1)
      BY <2>1, <1>1
    <3>5. Done(k + 1)
      BY <3>2, <3>3, <3>4 DEF new
    <3> QED BY <3>3, <3>5, <2>1 DEF T, new
  <2>7. CASE ~st.done
    <3>1. Going(k)
      BY <2>7, <1>8, <1>14 DEF st
    <3>2. PICK m \in i .. i + k : /\ st.left = NodeAt(l, m)
                                  /\ st.before = P(q) \ P(i) /\ st.conflicting = P(q) \ P(m)
                                  /\ Scanned(s, l, w, x, it, i, m, q)
      BY <3>1 DEF st
    <3>3. m \in 0 .. n /\ i <= q /\ m <= q /\ m \in i .. i + (k + 1) /\ q + 1 \in i .. i + (k + 1)
      BY <2>1, <1>1
    <3>4. before = P(q + 1) \ P(i) /\ conflicting = P(q + 1) \ P(m)
      <4>1. P(i) \subseteq P(q) /\ P(m) \subseteq P(q)
        BY <3>3, <2>1, <1>1, <1>2
      <4> QED BY <4>1, <3>2, <2>4 DEF before, conflicting
    <3>5. CASE scanStops(s, x, it, c, it.right, before)
      <4>1. new.done = TRUE /\ new.left = st.left
        BY <2>3, <2>5, <3>5
      <4>2. Fits(B, w, x, P(m))
        <5>1. scanStops(s, x, it, l[q + 1], it.right, P(q + 1) \ P(i))
          BY <3>4, <3>5
        <5> HIDE DEF q
        <5> QED BY <5>1, <2>1, <3>2, StopFits
      <4>3. Done(k + 1)
        BY <4>1, <4>2, <3>2, <3>3 DEF new
      <4> QED BY <4>1, <4>3, <2>1 DEF T, new
    <3>6. CASE ~scanStops(s, x, it, c, it.right, before)
      <4>1. IF scanMoves(s, x, it, c, conflicting)
              THEN Scanned(s, l, w, x, it, i, q + 1, q + 1)
              ELSE Scanned(s, l, w, x, it, i, m, q + 1)
        <5>1. ~scanStops(s, x, it, l[q + 1], it.right, P(q + 1) \ P(i))
          BY <3>4, <3>6
        <5>2. scanMoves(s, x, it, c, conflicting) <=> scanMoves(s, x, it, l[q + 1], P(q + 1) \ P(m))
          BY <3>4
        <5> HIDE DEF q
        <5>3. IF scanMoves(s, x, it, l[q + 1], P(q + 1) \ P(m))
                THEN Scanned(s, l, w, x, it, i, q + 1, q + 1)
                ELSE Scanned(s, l, w, x, it, i, m, q + 1)
          BY <5>1, <2>1, <3>2, ScanGoesOn
        <5> QED BY <5>2, <5>3
      <4>2. CASE scanMoves(s, x, it, c, conflicting)
        <5>1. new = [done |-> FALSE, left |-> c, before |-> before, conflicting |-> {}]
          BY <2>5, <2>7, <3>6, <4>2
        <5>2. /\ ~new.done /\ new.left = NodeAt(l, q + 1)
              /\ new.before = P(q + 1) \ P(i) /\ new.conflicting = P(q + 1) \ P(q + 1)
          BY <5>1, <3>4, <2>1 DEF NodeAt
        <5>3. Going(k + 1)
          BY <5>2, <4>1, <4>2, <2>1, <3>3 DEF new
        <5> QED BY <5>2, <5>3, <2>1 DEF T, new
      <4>3. CASE ~scanMoves(s, x, it, c, conflicting)
        <5>1. new = [st EXCEPT !.before = before, !.conflicting = conflicting]
          BY <2>5, <2>7, <3>6, <4>3
        <5>2. /\ ~new.done /\ new.left = NodeAt(l, m)
              /\ new.before = P(q + 1) \ P(i) /\ new.conflicting = P(q + 1) \ P(m)
          BY <5>1, <3>2, <3>4, <2>3, <2>7
        <5>3. Going(k + 1)
          BY <5>2, <4>1, <4>3, <2>1, <3>3 DEF new
        <5> QED BY <5>2, <5>3, <2>1 DEF T, new
      <4> QED BY <4>2, <4>3
    <3> QED BY <3>5, <3>6
  <2> QED BY <2>6, <2>7, <2>3
<1> HIDE DEF T, N
<1>9. \A k \in 0 .. N : k \in T
  BY <1>5, <1>7, <1>8, UpTo
<1>10. N \in T /\ Len(seq) = N /\ i + N = n
  BY <1>9, <1>5, <1>1, <1>3 DEF N
<1> HIDE DEF l, n
<1>11. \E m \in i .. n : F[1 .. N].left = NodeAt(l, m) /\ Fits(B, w, x, P(m))
  <2>1. CASE F[1 .. N].done
    BY <2>1, <1>10 DEF T
  <2>2. CASE ~F[1 .. N].done
    <3>1. Going(N)
      BY <2>2, <1>10 DEF T
    <3>2. PICK m \in i .. n : F[1 .. N].left = NodeAt(l, m) /\ Scanned(s, l, w, x, it, i, m, n)
      BY <3>1, <1>10
    <3>3. \A y \in Field(B) \ P(n) : Beyond(B, w, x, P(m), y)
      BY <1>1
    <3>4. Fits(B, w, x, P(m))
      BY <3>2, <3>3, ScannedFits DEF l
    <3> QED BY <3>2, <3>4
  <2> QED BY <2>1, <2>2
<1>12. PICK m \in i .. n : F[1 .. N].left = NodeAt(l, m) /\ Fits(B, w, x, P(m))
  BY <1>11
<1>13. m \in 0 .. n
  BY <1>1
<1> QED BY <1>12, <1>13, <1>10, <1>4 DEF l, n, conflict

\* findIntegrationLeft finds a place that fits.
LEMMA FindFits ==
  ASSUME NEW s, Sound(s), NEW t \in Root, NEW w, IsWorld(w), NEW x \in w.made, NEW it, NEW i,
         Follows(s, w), Yata(Before(s, t), w), Ready(Before(s, t), w, x),
         Sited(s, Chain(s, t), w, x, it, i)
  PROVE  \E m \in 0 .. Len(Chain(s, t)) :
           /\ findIntegrationLeft(s, t, x, it) = NodeAt(Chain(s, t), m)
           /\ Fits(Before(s, t), w, x, Ahead(s, Chain(s, t), m))
<1> DEFINE l == Chain(s, t)
           B == Before(s, t)
           n == Len(l)
           P(j) == Ahead(s, l, j)
<1>1. CASE mustScan(s, it)
  <2>1. \E m \in 0 .. n :
           /\ scanConflicts(s, x, it, it.left, rightOf(s, t, it.left), it.right) = NodeAt(l, m)
           /\ Fits(B, w, x, P(m))
    BY ScanFits
  <2> QED BY <1>1, <2>1 DEF findIntegrationLeft
<1>2. CASE ~mustScan(s, it)
  <2>1. /\ n \in Nat /\ i \in 0 .. n
        /\ Field(B) = P(n)
        /\ \A j \in 1 .. n : l[j] \in Units(s, l[j]) /\ l[j] \in P(j) \ P(j - 1) /\ l[j] \in Field(B)
    BY SiteFacts
  <2>2. /\ \A j \in 0 .. n : \A u \in P(j), v \in Field(B) \ P(j) : Le(B, u, v) /\ ~Le(B, v, u)
        /\ \A j \in 1 .. n : /\ P(j) = P(j - 1) \cup Units(s, l[j])
                             /\ \A u, v \in Units(s, l[j]) : Le(B, u, v) <=> clockOf(u) <= clockOf(v)
                             /\ l[j] \in DOMAIN s.heap
    BY ListOrder
  <2>3. /\ Runs(s) /\ \A j \in 1 .. n : l[j] # Nil
        /\ \A j \in 1 .. n : /\ s.heap[l[j]].left = IF j = 1 THEN Nil ELSE l[j - 1]
                             /\ s.heap[l[j]].right = IF j = n THEN Nil ELSE l[j + 1]
    <3>1. ListOf(s, t, l) /\ Runs(s) /\ s \in StoreType
      BY DEF Sound, Runs, Linked
    <3>2. DOMAIN l = 1 .. n
      BY <3>1 DEF ListOf
    <3> QED BY <3>1, <3>2, <2>2, HeapFacts DEF ListOf
  <2>4. /\ it.left = NodeAt(l, i) /\ it.right = w.right[x]
        /\ it.right # Nil => \E k \in 1 .. n : l[k] = it.right
    BY DEF Sited
  <2>5. findIntegrationLeft(s, t, x, it) = NodeAt(l, i)
    BY <1>2, <2>4 DEF findIntegrationLeft
  <2>6. /\ it.left = Nil => it.right # Nil /\ s.heap[it.right].left = Nil
        /\ it.left # Nil => s.heap[it.left].right = it.right
    BY <1>2 DEF mustScan
  <2> HIDE DEF l, n, P, B
  <2>7. i = n \/ (i + 1 \in 1 .. n /\ it.right = l[i + 1] /\ it.right # Nil)
    <3>1. CASE i = 0
      <4>1. it.left = Nil
        BY <3>1, <2>4 DEF NodeAt
      <4>2. PICK k \in 1 .. n : l[k] = it.right
        BY <4>1, <2>4, <2>6
      <4>3. k - 1 \in 1 .. n \/ k = 1
        BY <2>1
      <4>4. k = 1
        BY <4>1, <4>2, <4>3, <2>3, <2>6
      <4> QED BY <4>2, <4>4, <3>1, <2>1, <2>3
    <3>2. CASE i # 0
      <4>1. i \in 1 .. n /\ it.left = l[i] /\ it.left # Nil
        BY <3>2, <2>1, <2>3, <2>4 DEF NodeAt
      <4>2. it.right = IF i = n THEN Nil ELSE l[i + 1]
        BY <4>1, <2>3, <2>6
      <4>3. i # n => i + 1 \in 1 .. n
        BY <4>1, <2>1
      <4> QED BY <4>2, <4>3, <2>3
    <3> QED BY <3>1, <3>2
  <2>8. Scanned(s, l, w, x, it, i, i, i)
    <3>1. (\A j \in i + 1 .. i : FALSE) /\ i \in i .. i /\ i \in i .. n
      BY <2>1
    <3> QED BY <3>1 DEF Scanned, n
  <2>9. ASSUME NEW y \in Field(B) \ P(i) PROVE Beyond(B, w, x, P(i), y)
    <3>1. i # n
      BY <2>1
    <3>2. i + 1 \in 1 .. n /\ i + 1 \in 0 .. n /\ w.right[x] = l[i + 1] /\ w.right[x] # Nil /\ (i + 1) - 1 = i
      BY <3>1, <2>7, <2>4, <2>1
    <3>3. Le(B, l[i + 1], y)
      <4>1. CASE y \in P(i + 1)
        <5>1. y \in Units(s, l[i + 1])
          BY <4>1, <3>2, <2>2
        <5>2. clockOf(l[i + 1]) <= clockOf(y)
          BY <5>1, <3>2, <2>2, <2>3, UnitsAre
        <5> QED BY <5>1, <5>2, <3>2, <2>1, <2>2
      <4>2. CASE y \notin P(i + 1)
        BY <4>2, <3>2, <2>1, <2>2
      <4> QED BY <4>1, <4>2
    <3> QED BY <3>2, <3>3 DEF Beyond
  <2>10. Fits(B, w, x, P(i))
    BY <2>8, <2>9, ScannedFits DEF l, B, P
  <2> QED BY <2>5, <2>10, <2>1 DEF l, n, B, P
<1> QED BY <1>1, <1>2

\* The units of a root type are those of its nodes.
LEMMA FieldIs ==
  ASSUME NEW s, Sound(s), NEW t \in Root
  PROVE  Field(Before(s, t)) = UNION {Units(s, z) : z \in {y \in DOMAIN s.heap : s.heap[y].parent = t}}
<1> DEFINE l == Chain(s, t)
<1>1. ListOf(s, t, l) /\ Field(Before(s, t)) = Ahead(s, l, Len(l))
  BY ListOrder DEF Sound, Linked
<1>2. DOMAIN l = 1 .. Len(l)
  BY <1>1 DEF ListOf
<1> HIDE DEF l
<1>3. ToSet(l) = {y \in DOMAIN s.heap : s.heap[y].parent = t} /\ ToSet(l) = {l[j] : j \in 1 .. Len(l)}
  BY <1>1, <1>2 DEF ListOf, ToSet
<1> QED BY <1>1, <1>3 DEF Ahead

\* One node more in a list.
LEMMA InsertSplices ==
  ASSUME NEW s, NEW r, NEW t \in Root, Sound(s), Sound(r), NEW x \in Id, NEW m \in 0 .. Len(Chain(s, t)),
         Chain(r, t) = InsertAt(Chain(s, t), m + 1, x), NEW X, Units(r, x) = X, X \cap Integrated(s) = {},
         \A j \in 1 .. Len(Chain(s, t)) : Units(r, Chain(s, t)[j]) = Units(s, Chain(s, t)[j]),
         Before(s, t) \subseteq Before(r, t)
  PROVE  Spliced(Before(s, t), Before(r, t), Ahead(s, Chain(s, t), m), X)
<1> DEFINE l == Chain(s, t)
           k == Chain(r, t)
           n == Len(l)
           B == Before(s, t)
           D == Before(r, t)
           P == Ahead(s, l, m)
<1>1. l \in Seq(Id) /\ k \in Seq(Id) /\ n \in Nat
  BY DEF Sound, Linked, ListOf
<1>2. /\ IsOrder(B) /\ Field(B) = Ahead(s, l, n) /\ P \subseteq Field(B)
  BY ListOrder
<1>3. /\ IsOrder(D) /\ Field(D) = Ahead(r, k, Len(k))
      /\ \A j \in 0 .. Len(k) : \A u \in Ahead(r, k, j), v \in Field(D) \ Ahead(r, k, j) :
           Le(D, u, v) /\ ~Le(D, v, u)
      /\ \A j \in 1 .. Len(k) :
           /\ Ahead(r, k, j) = Ahead(r, k, j - 1) \cup Units(r, k[j])
           /\ \A u, v \in Units(r, k[j]) : Le(D, u, v) <=> clockOf(u) <= clockOf(v)
  BY ListOrder
<1>4. k = InsertAt(l, m + 1, x)
  OBVIOUS
<1>5. \A j \in 1 .. n : Units(r, l[j]) = Units(s, l[j])
  OBVIOUS
<1>6. \A a, b : Le(B, a, b) => Le(D, a, b)
  BY DEF Le
<1>7. X \cap Field(B) = {}
  <2>1. Field(B) \subseteq Integrated(s)
    BY FieldIs DEF Integrated
  <2> QED BY <2>1
<1> HIDE DEF l, k, n, B, D, P
<1>8. /\ Len(k) = n + 1 /\ m \in 0 .. n
      /\ \A j \in 1 .. n + 1 :
           k[j] = IF j <= m THEN l[j] ELSE IF j = m + 1 THEN x ELSE l[j - 1]
  <2>1. m \in 0 .. Len(l) /\ Len(l) = n
    BY DEF n, l
  <2>2. Inserts(Id, l, m, x, k)
    BY <2>1, <1>1, <1>4, InsertedAs
  <2> QED BY <2>1, <2>2 DEF Inserts
<1>9. Ahead(r, k, m) = P /\ Ahead(r, k, m + 1) = P \cup X
  <2>1. \A j \in 1 .. m : j \in 1 .. n /\ j \in 1 .. n + 1 /\ k[j] = l[j]
    BY <1>1, <1>8
  <2>2. \A j \in 1 .. m : Units(r, k[j]) = Units(s, l[j])
    BY <2>1, <1>5
  <2>3. Ahead(r, k, m) = P
    BY <2>2 DEF Ahead, P
  <2>4. m + 1 \in 1 .. Len(k) /\ (m + 1) - 1 = m /\ k[m + 1] = x
    BY <1>1, <1>8
  <2>5. Ahead(r, k, m + 1) = Ahead(r, k, m) \cup Units(r, x)
    BY <2>4, <1>3
  <2> QED BY <2>3, <2>5
<1>10. Field(D) = Field(B) \cup X
  <2>1. \A u : u \in Field(D) <=> \E j \in 1 .. n + 1 : u \in Units(r, k[j])
    BY <1>3, <1>8 DEF Ahead
  <2>2. \A u : u \in Field(B) <=> \E j \in 1 .. n : u \in Units(s, l[j])
    BY <1>2 DEF Ahead
  <2>3. ASSUME NEW u \in Field(D) PROVE u \in Field(B) \cup X
    <3>1. PICK j \in 1 .. n + 1 : u \in Units(r, k[j])
      BY <2>1
    <3>2. CASE j <= m
      <4>1. j \in 1 .. n /\ k[j] = l[j]
        BY <3>2, <1>1, <1>8
      <4> QED BY <4>1, <3>1, <2>2, <1>5
    <3>3. CASE j = m + 1
      <4>1. k[j] = x
        BY <3>3, <1>1, <1>8
      <4> QED BY <4>1, <3>1
    <3>4. CASE j > m + 1
      <4>1. j - 1 \in 1 .. n /\ k[j] = l[j - 1]
        BY <3>4, <1>1, <1>8
      <4> QED BY <4>1, <3>1, <2>2, <1>5
    <3> QED BY <3>2, <3>3, <3>4, <1>1, <1>8
  <2>4. ASSUME NEW u \in Field(B) PROVE u \in Field(D)
    <3>1. Le(B, u, u) /\ u \in Id
      BY DEF Field
    <3> QED BY <3>1, <1>6 DEF Field
  <2>5. ASSUME NEW u \in X PROVE u \in Field(D)
    <3>1. m + 1 \in 1 .. n + 1 /\ k[m + 1] = x
      BY <1>1, <1>8
    <3> QED BY <3>1, <2>1
  <2> QED BY <2>3, <2>4, <2>5
<1>11. /\ \A u \in P, v \in (Field(D) \ P) : Le(D, u, v) /\ ~Le(D, v, u)
       /\ \A u \in P \cup X, v \in Field(D) \ (P \cup X) : Le(D, u, v) /\ ~Le(D, v, u)
       /\ \A u, v \in X : Le(D, u, v) <=> clockOf(u) <= clockOf(v)
  <2>1. m \in 0 .. Len(k) /\ m + 1 \in 0 .. Len(k) /\ m + 1 \in 1 .. Len(k) /\ k[m + 1] = x
    BY <1>1, <1>8
  <2>2. /\ \A u \in Ahead(r, k, m), v \in Field(D) \ Ahead(r, k, m) : Le(D, u, v) /\ ~Le(D, v, u)
        /\ \A u \in Ahead(r, k, m + 1), v \in Field(D) \ Ahead(r, k, m + 1) :
              Le(D, u, v) /\ ~Le(D, v, u)
        /\ \A u, v \in Units(r, x) : Le(D, u, v) <=> clockOf(u) <= clockOf(v)
    BY <2>1, <1>3
  <2> QED BY <2>2, <1>9
<1>12. \A a, b \in Field(B) : Le(D, a, b) => Le(B, a, b)
  <2> TAKE a, b \in Field(B)
  <2> HAVE Le(D, a, b)
  <2>1. CASE Le(B, b, a)
    <3>1. Le(D, b, a) /\ a \in Field(D) /\ b \in Field(D)
      BY <2>1, <1>6, <1>10
    <3>2. a = b
      BY <3>1, <1>3 DEF IsOrder
    <3> QED BY <2>1, <3>2
  <2> QED BY <2>1, <1>2 DEF IsOrder
<1>13. ASSUME NEW a \in OptId, NEW b \in OptId
       PROVE  Le(D, a, b) <=> \/ Le(B, a, b)
                              \/ a \in P /\ b \in X
                              \/ a \in X /\ b \in Field(B) \ P
                              \/ a \in X /\ b \in X /\ clockOf(a) <= clockOf(b)
  <2>1. Le(D, a, b) => a \in Field(D) /\ b \in Field(D)
    BY <1>3 DEF IsOrder
  <2>2. Le(B, a, b) => a \in Field(B) /\ b \in Field(B)
    BY <1>2 DEF IsOrder
  <2>3. CASE a \in Field(B) /\ b \in Field(B)
    BY <2>3, <1>6, <1>7, <1>12, <1>2
  <2>4. CASE a \in Field(B) /\ b \in X
    <3>1. a \in P => Le(D, a, b)
      BY <2>4, <1>2, <1>7, <1>10, <1>11
    <3>2. a \notin P => ~Le(D, a, b)
      BY <2>4, <1>2, <1>7, <1>10, <1>11
    <3> QED BY <2>4, <3>1, <3>2, <2>2, <1>7
  <2>5. CASE a \in X /\ b \in Field(B)
    <3>1. b \in P => ~Le(D, a, b)
      BY <2>5, <1>2, <1>7, <1>10, <1>11
    <3>2. b \notin P => Le(D, a, b)
      BY <2>5, <1>2, <1>7, <1>10, <1>11
    <3> QED BY <2>5, <3>1, <3>2, <2>2, <1>7
  <2>6. CASE a \in X /\ b \in X
    BY <2>6, <2>2, <1>7, <1>11, <1>2
  <2>7. CASE a \notin Field(D) \/ b \notin Field(D)
    BY <2>7, <2>1, <2>2, <1>2, <1>10
  <2> QED BY <2>3, <2>4, <2>5, <2>6, <2>7, <1>10
<1> QED BY <1>13 DEF Spliced, B, D, P, l

\* The node at z.
LEMMA FollowsAt ==
  ASSUME NEW s, Runs(s), NEW w, Follows(s, w), NEW z \in DOMAIN s.heap
  PROVE  /\ z \in Units(s, z) /\ Units(s, z) \subseteq w.made
         /\ w.left[z] = s.heap[z].originLeftId
         /\ \A u \in Units(s, z) : /\ w.right[u] = s.heap[z].originRightId
                                   /\ w.parent[u] = s.heap[z].parent
                                   /\ u # z => w.left[u] = Sub(u, 1)
BY UnitsAre DEF Follows

\* A struct integrated beside its origins stands where they justify it.
THEOREM IntegrateArranges ==
  ASSUME NEW s, Sound(s), NEW x \in Id, clockOf(x) = Size(s, clientOf(x)),
         NEW it \in Struct, it.parent # Nil,
         it.left # Nil => it.left \in DOMAIN s.heap /\ s.heap[it.left].parent = it.parent,
         NEW w, IsWorld(w), Follows(s, w), Arranged(s, w),
         Ready(Before(s, it.parent), w, x), NEW i, Sited(s, Chain(s, it.parent), w, x, it, i),
         Ids(x, it.len) \subseteq w.made,
         \A u \in Ids(x, it.len) : /\ w.right[u] = w.right[x] /\ w.parent[u] = it.parent
                                   /\ u # x => w.left[u] = Sub(u, 1)
  PROVE  /\ Arranged(Integrate(s, x, it), w)
         /\ Follows(Integrate(s, x, it), w)
<1> DEFINE t == it.parent
           r == Integrate(s, x, it)
           l == Chain(s, t)
           n == it.len
           X == Ids(x, n)
<1>0. Runs(s) /\ t \in Root /\ n \in Nat \ {0} /\ n \in Nat /\ x \in X
  <2>1. t \in Root /\ n \in Nat \ {0} /\ Runs(s)
    BY DEF Sound, Struct
  <2>2. clockOf(x) \in Nat
    BY IdFacts
  <2> HIDE DEF t, n
  <2> QED BY <2>1, <2>2, IdsAre
<1>1. /\ Adds(s, r, t, x, n)
      /\ r.heap[x].originLeftId = it.originLeftId
      /\ r.heap[x].originRightId = it.originRightId
      /\ \E j \in 0 .. Len(l) : /\ findIntegrationLeft(s, t, x, it) = IF j = 0 THEN Nil ELSE l[j]
                                /\ Chain(r, t) = InsertAt(l, j + 1, x)
  BY IntegrateKeeps
<1>2. PICK j \in 0 .. Len(l) : /\ findIntegrationLeft(s, t, x, it) = NodeAt(l, j)
                               /\ Chain(r, t) = InsertAt(l, j + 1, x)
  BY <1>1 DEF NodeAt
<1>3. x \in w.made /\ X \cap Integrated(s) = {} /\ x \notin DOMAIN s.heap
  <2>1. x \in w.made
    BY <1>0
  <2> HIDE DEF n
  <2> QED BY <2>1, <1>0, FreeId
<1>4. PICK m \in 0 .. Len(l) : /\ findIntegrationLeft(s, t, x, it) = NodeAt(l, m)
                               /\ Fits(Before(s, t), w, x, Ahead(s, l, m))
  <2> HIDE DEF t
  <2> QED BY <1>0, <1>3, FindFits DEF Arranged, l, t
<1>5. /\ Sound(r) /\ DOMAIN r.heap = DOMAIN s.heap \cup {x} /\ r.heap[x].parent = t /\ r.heap[x].len = n
      /\ \A z \in DOMAIN s.heap : /\ r.heap[z].parent = s.heap[z].parent
                                  /\ r.heap[z].len = s.heap[z].len
                                  /\ r.heap[z].originLeftId = s.heap[z].originLeftId
                                  /\ r.heap[z].originRightId = s.heap[z].originRightId
      /\ \A u \in Root : u # t => Chain(r, u) = Chain(s, u)
      /\ \A u \in Root : Before(s, u) \subseteq Before(r, u)
      /\ Integrated(r) = Integrated(s) \cup X
  BY <1>1 DEF Adds
<1>6. Units(r, x) = X /\ \A z \in DOMAIN s.heap : Units(r, z) = Units(s, z)
  BY <1>5 DEF Units
<1>7. \A k \in 1 .. Len(l) : l[k] \in DOMAIN s.heap /\ l[k] # Nil
  <2>1. \A k \in 1 .. Len(l) : l[k] \in DOMAIN s.heap
    BY <1>0, ListOrder
  <2> QED BY <2>1, <1>0, HeapFacts DEF Runs
<1>8. ListOf(s, t, l) /\ l \in Seq(Id) /\ Len(l) \in Nat
  <2>1. ListOf(s, t, l)
    BY <1>0 DEF Sound, Linked
  <2>2. l \in Seq(Id)
    BY <2>1 DEF ListOf
  <2> QED BY <2>1, <2>2
<1>9. j = m
  <2>1. IsInjective(l) /\ DOMAIN l = 1 .. Len(l)
    BY <1>8 DEF ListOf
  <2>2. (j # 0 => j \in 1 .. Len(l)) /\ (m # 0 => m \in 1 .. Len(l))
    BY <1>8
  <2>3. NodeAt(l, j) = NodeAt(l, m)
    BY <1>2, <1>4
  <2> HIDE DEF l
  <2> QED BY <2>1, <2>2, <2>3, <1>7 DEF NodeAt, IsInjective
<1>10. Spliced(Before(s, t), Before(r, t), Ahead(s, l, m), X)
  <2>1. \A k \in 1 .. Len(l) : Units(r, l[k]) = Units(s, l[k])
    BY <1>6, <1>7
  <2>2. /\ Chain(r, t) = InsertAt(l, m + 1, x) /\ m \in 0 .. Len(l) /\ Units(r, x) = X
        /\ Sound(r) /\ Before(s, t) \subseteq Before(r, t) /\ t \in Root
    BY <1>0, <1>2, <1>4, <1>5, <1>6, <1>9
  <2> HIDE DEF r, t, X
  <2> QED BY <2>1, <2>2, <1>3, InsertSplices DEF l
<1>11. \A u \in X : /\ u \in Id /\ clientOf(u) = clientOf(x) /\ clockOf(x) <= clockOf(u)
                    /\ clockOf(u) < clockOf(x) + n /\ clockOf(u) \in Nat
                    /\ u = <<clientOf(u), clockOf(u)>>
  <2> HIDE DEF n
  <2> QED BY <1>0, IdsAre, IdFacts
<1>12. RunIn(w, x, X)
  <2>1. ASSUME NEW u \in X, u # x
        PROVE  w.left[u] \in X /\ clockOf(w.left[u]) = clockOf(u) - 1 /\ clockOf(x) < clockOf(u)
    <3>1. clockOf(u) # clockOf(x)
      BY <2>1, <1>11, <1>0
    <3>2. clockOf(x) \in Nat /\ clockOf(u) \in Nat /\ clockOf(u) - 1 \in Nat
          /\ clockOf(x) <= clockOf(u) - 1 /\ clockOf(u) - 1 < clockOf(x) + n
      BY <3>1, <1>11, <1>0
    <3>3. w.left[u] = <<clientOf(u), clockOf(u) - 1>>
      BY <2>1 DEF Sub, clientOf, clockOf
    <3>4. /\ w.left[u] \in Id /\ clientOf(w.left[u]) = clientOf(x)
          /\ clockOf(w.left[u]) = clockOf(u) - 1
      <4>1. clientOf(u) \in Client /\ clientOf(u) = clientOf(x)
        BY <1>11, IdFacts
      <4>2. <<clientOf(u), clockOf(u) - 1>> \in Id
        BY <4>1, <3>2 DEF Id
      <4>3. clientOf(<<clientOf(u), clockOf(u) - 1>>) = clientOf(u)
            /\ clockOf(<<clientOf(u), clockOf(u) - 1>>) = clockOf(u) - 1
        BY DEF clientOf, clockOf
      <4> QED BY <3>3, <4>1, <4>2, <4>3
    <3>5. w.left[u] \in X
      <4> HIDE DEF n
      <4> QED BY <3>2, <3>4, <1>0, IdsAre DEF X
    <3> QED BY <3>2, <3>4, <3>5, <3>1
  <2> QED BY <2>1, <1>0, <1>11 DEF RunIn
<1>13. Yata(Before(r, t), w)
  <2>1. X \cap Field(Before(s, t)) = {}
    <3>1. Field(Before(s, t)) \subseteq Integrated(s)
      BY <1>0, FieldIs DEF Integrated
    <3> QED BY <3>1, <1>3
  <2>2. \A u, v \in X : clockOf(u) = clockOf(v) => u = v
    BY <1>11
  <2>3. \A y \in Field(Before(s, t)) : clientOf(y) = clientOf(x) => clockOf(y) < clockOf(x)
    <3>1. Field(Before(s, t)) \subseteq Integrated(s) /\ Field(Before(s, t)) \subseteq Id
      BY <1>0, FieldIs DEF Integrated, Field
    <3> QED BY <3>1, <1>0, Holds
  <2>4. Yata(Before(s, t), w) /\ Ready(Before(s, t), w, x)
    BY <1>0 DEF Arranged
  <2> HIDE DEF t, r, X, l
  <2> QED BY <2>1, <2>2, <2>3, <2>4, <1>12, <1>4, <1>10, SplicedYata
<1>14. Arranged(r, w)
  <2> SUFFICES ASSUME NEW u \in Root PROVE Yata(Before(r, u), w)
    BY DEF Arranged
  <2>1. CASE u = t
    BY <2>1, <1>13
  <2>2. CASE u # t
    <3>1. Chain(r, u) = Chain(s, u)
      BY <2>2, <1>5
    <3>2. \A k \in DOMAIN Chain(s, u) : Units(r, Chain(s, u)[k]) = Units(s, Chain(s, u)[k])
      <4>1. ListOf(s, u, Chain(s, u))
        BY DEF Sound, Linked
      <4>2. \A k \in DOMAIN Chain(s, u) : Chain(s, u)[k] \in DOMAIN s.heap
        BY <4>1 DEF ListOf, ToSet
      <4> QED BY <4>2, <1>6
    <3>3. Before(r, u) = Before(s, u)
      <4> HIDE DEF r
      <4> QED BY <3>1, <3>2 DEF Before, OrderOf
    <3> QED BY <3>3 DEF Arranged
  <2> QED BY <2>1, <2>2
<1>15. Follows(r, w)
  <2> SUFFICES ASSUME NEW z \in DOMAIN r.heap
               PROVE  /\ Units(r, z) \subseteq w.made
                      /\ r.heap[z].originLeftId = w.left[z]
                      /\ \A u \in Units(r, z) : /\ w.right[u] = r.heap[z].originRightId
                                                /\ w.parent[u] = r.heap[z].parent
                                                /\ u # z => w.left[u] = Sub(u, 1)
    BY DEF Follows
  <2>1. CASE z = x
    <3>1. it.originLeftId = w.left[x] /\ it.originRightId = w.right[x]
      BY DEF Sited
    <3> QED BY <2>1, <3>1, <1>1, <1>5, <1>6
  <2>2. CASE z \in DOMAIN s.heap
    <3> HIDE DEF r
    <3> QED BY <2>2, <1>5, <1>6 DEF Follows
  <2> QED BY <2>1, <2>2, <1>5
<1> QED BY <1>14, <1>15

-----------------------------------------------------------------------------
\* What is cut keeps the order of its units.
LEMMA SameOrder ==
  ASSUME NEW s, Sound(s), NEW r, Cut(s, r), NEW t \in Root
  PROVE  Before(r, t) = Before(s, t)
<1>0. Sound(r) /\ Runs(r) /\ Runs(s)
  BY DEF Cut, Sound
<1>1. \A v \in Root : /\ IsOrder(Before(s, v)) /\ IsOrder(Before(r, v))
                      /\ Before(s, v) \subseteq Before(r, v)
                      /\ Field(Before(s, v)) \subseteq Field(Before(r, v))
  BY <1>0, ListOrder DEF Cut, Field, Le
<1>2. Field(Before(r, t)) \subseteq Field(Before(s, t))
  <2> SUFFICES ASSUME NEW u \in Field(Before(r, t)) PROVE u \in Field(Before(s, t))
    OBVIOUS
  <2>1. PICK z \in DOMAIN r.heap : r.heap[z].parent = t /\ u \in Units(r, z)
    BY <1>0, FieldIs
  <2>2. u \in Integrated(s)
    BY <2>1 DEF Cut, Integrated
  <2>3. PICK y \in DOMAIN s.heap : u \in Units(s, y)
    BY <2>2 DEF Integrated
  <2>4. s.heap[y].parent \in Root
    BY <1>0, HeapFacts DEF Runs
  <2>5. u \in Field(Before(s, s.heap[y].parent))
    BY <2>3, <2>4, FieldIs
  <2>6. u \in Field(Before(r, s.heap[y].parent))
    BY <2>4, <2>5, <1>1
  <2>7. PICK v \in DOMAIN r.heap : r.heap[v].parent = s.heap[y].parent /\ u \in Units(r, v)
    BY <1>0, <2>4, <2>6, FieldIs
  <2>8. v = z
    BY <1>0, <2>1, <2>7, NodesApart
  <2> QED BY <2>1, <2>5, <2>7, <2>8
<1>3. ASSUME NEW p \in Before(r, t) PROVE p \in Before(s, t)
  <2>1. PICK a \in Id, b \in Id : p = <<a, b>>
    <3>1. p \in Id \X Id
      BY DEF Before, OrderOf
    <3> QED BY <3>1
  <2> DEFINE B == Before(s, t)
             C == Before(r, t)
  <2> HIDE DEF B, C
  <2>2. Le(C, a, b) /\ a \in OptId /\ b \in OptId
    BY <1>3, <2>1 DEF Le, OptId, C
  <2>3. a \in Field(C) /\ b \in Field(C)
    BY <1>1, <2>2 DEF IsOrder, C
  <2>4. a \in Field(B) /\ b \in Field(B)
    BY <2>3, <1>2 DEF B, C
  <2>5. Le(B, a, b) \/ Le(B, b, a)
    BY <1>1, <2>4 DEF IsOrder, B
  <2>6. Le(B, b, a) => Le(C, b, a)
    BY <1>1 DEF Le, B, C
  <2>7. Le(B, b, a) => a = b
    BY <1>1, <2>2, <2>3, <2>6 DEF IsOrder, C
  <2>8. Le(B, a, b)
    BY <2>4, <2>5, <2>7 DEF Field
  <2> QED BY <2>1, <2>8 DEF Le, B
<1> QED BY <1>1, <1>3

\* A cut store is as much a part of the world as before.
LEMMA CutsAgree ==
  ASSUME NEW s, Sound(s), NEW r, Cut(s, r), NEW w, Agrees(s, w)
  PROVE  Agrees(r, w)
<1>1. Follows(r, w)
  BY DEF Cut, Agrees
<1>2. Arranged(r, w)
  BY SameOrder DEF Agrees, Arranged
<1> QED BY <1>1, <1>2 DEF Agrees

\* So is one with a node hidden.
LEMMA HidesAgree ==
  ASSUME NEW s, NEW x, NEW r, Hides(s, r, x), NEW w, Agrees(s, w)
  PROVE  Agrees(r, w)
<1>1. \A z \in DOMAIN s.heap : Units(r, z) = Units(s, z)
  BY DEF Hides, Units
<1>2. Follows(r, w)
  BY <1>1 DEF Hides, Agrees, Follows
<1>3. Arranged(r, w)
  BY DEF Hides, Agrees, Arranged
<1> QED BY <1>2, <1>3 DEF Agrees

\* Every unit of the world could be inserted by its author: into an order that
\* holds it and all its author inserted before.
Valid(w) ==
  /\ IsWorld(w)
  /\ \A u \in w.made : \E C :
       /\ Yata(C, w) /\ u \in Field(C)
       /\ \A v \in w.made : /\ clientOf(v) = clientOf(u) /\ clockOf(v) < clockOf(u)
                            /\ w.parent[v] = w.parent[u]
                            => v \in Field(C)

\* The struct u of an update, as it is in the world.
Spelled(u, w) ==
  /\ Ids(u.id, u.len) \subseteq w.made
  /\ w.left[u.id] = u.originLeftId
  /\ u.parentName # Nil => w.parent[u.id] = u.parentName
  /\ \A x \in Ids(u.id, u.len) : /\ w.right[x] = u.originRightId
                                 /\ w.parent[x] = w.parent[u.id]
                                 /\ x # u.id => w.left[x] = Sub(x, 1)

\* A unit its author could insert may be inserted wherever its origins are.
LEMMA ReadyElsewhere ==
  ASSUME NEW w, Valid(w), NEW B, Yata(B, w), NEW x \in w.made,
         {w.left[x], w.right[x]} \subseteq Field(B) \cup {Nil},
         \A y \in Field(B) : clientOf(y) = clientOf(x) =>
           clockOf(y) < clockOf(x) /\ w.parent[y] = w.parent[x]
  PROVE  Ready(B, w, x)
<1>0. IsWorld(w)
  BY DEF Valid
<1>1. PICK C : /\ Yata(C, w) /\ x \in Field(C)
               /\ \A v \in w.made : /\ clientOf(v) = clientOf(x) /\ clockOf(v) < clockOf(x)
                                    /\ w.parent[v] = w.parent[x]
                                    => v \in Field(C)
  BY DEF Valid
<1> DEFINE l == w.left[x]
           r == w.right[x]
<1>2. \A a \in Field(B), b \in Field(B) :
        a \in Field(C) /\ b \in Field(C) /\ Le(C, a, b) => Le(B, a, b)
  BY <1>0, <1>1, OneArrangement
<1>3. /\ x \in w.made /\ l \in OptId /\ r \in OptId
      /\ l # Nil => l # x /\ Le(C, l, x) /\ l \in Field(C) /\ l \in Field(B)
      /\ r # Nil => r # x /\ Le(C, x, r) /\ r \in Field(C) /\ r \in Field(B)
  BY <1>0, <1>1, YataFacts, WorldFacts
<1>4. IsOrder(C) /\ NoCross(C, w) /\ Own(C, w)
  BY <1>1 DEF Yata
<1>5. ASSUME l # Nil, r # Nil PROVE Lower(B, l, r)
  <2>1. Le(C, l, r) /\ l # r
    BY <1>1, <1>3, <1>4, <1>5 DEF IsOrder
  <2>2. Le(B, l, r)
    BY <1>2, <1>3, <1>5, <2>1
  <2> QED BY <2>1, <2>2 DEF Lower
<1>6. ASSUME r # Nil PROVE w.left[r] = l \/ Lower(B, w.left[r], l)
  <2>1. w.left[r] = l \/ Lower(C, w.left[r], l)
    BY <1>1, <1>4, <1>6 DEF NoCross
  <2> SUFFICES ASSUME w.left[r] # l, w.left[r] # Nil PROVE Le(B, w.left[r], l)
    BY DEF Lower
  <2>2. Le(C, w.left[r], l)
    BY <2>1 DEF Lower
  <2>3. w.left[r] \in Field(B)
    BY <1>0, <1>3, <1>6, YataFacts
  <2>4. w.left[r] \in OptId
    BY <2>3 DEF Field, OptId
  <2>5. w.left[r] \in Field(C) /\ l \in Field(C)
    BY <1>3, <1>4, <2>2, <2>4 DEF IsOrder
  <2>6. l # Nil
    BY <2>5, IdNotNil DEF Field
  <2> QED BY <1>2, <1>3, <2>2, <2>3, <2>5, <2>6
<1>7. ASSUME NEW y \in Field(B), clientOf(y) = clientOf(x) PROVE Apart(B, w, x, y)
  <2>1. y \in w.made
    BY <1>0, YataFacts
  <2>2. y \in Field(C)
    BY <1>1, <1>7, <2>1
  <2>3. Apart(C, w, x, y)
    BY <1>1, <1>4, <1>7, <2>2 DEF Own
  <2> QED BY <1>2, <1>3, <2>2, <2>3 DEF Apart
<1> QED BY <1>5, <1>6, <1>7 DEF Ready

\* A unit may be inserted between two neighbours.
LEMMA ReadyBeside ==
  ASSUME NEW w, IsWorld(w), NEW B, Yata(B, w), NEW x \in w.made,
         {w.left[x], w.right[x]} \subseteq Field(B) \cup {Nil},
         w.left[x] # Nil /\ w.right[x] # Nil => Lower(B, w.left[x], w.right[x]),
         \A y \in Field(B) : Apart(B, w, x, y)
  PROVE  Ready(B, w, x)
<1> DEFINE l == w.left[x]
           r == w.right[x]
<1>1. ASSUME r # Nil PROVE w.left[r] = l \/ Lower(B, w.left[r], l)
  <2> SUFFICES ASSUME w.left[r] # l, w.left[r] # Nil PROVE Le(B, w.left[r], l)
    BY DEF Lower
  <2>1. r \in Field(B)
    BY <1>1
  <2>2. w.left[r] # r /\ Le(B, w.left[r], r) /\ w.left[r] \in Field(B)
    BY <2>1, YataFacts
  <2>3. Apart(B, w, x, w.left[r])
    BY <2>2
  <2>4. ~Le(B, r, w.left[r])
    BY <2>1, <2>2 DEF Yata, IsOrder
  <2> QED BY <2>3, <2>4 DEF Apart
<1> QED BY <1>1 DEF Ready

\* A struct whose origins are there, integrated as repair leaves it, stands where
\* they justify it.
THEOREM DeliveredArranges ==
  ASSUME NEW s, Sound(s), NEW u \in UpdateItem, NEW r,
         Repaired(s, newItem(u.originLeftId, u.originRightId, u.len), u.parentName, r),
         r.item.parent # Nil,
         {u.originLeftId, u.originRightId} \subseteq Integrated(s) \cup {Nil},
         clockOf(u.id) = Size(r.store, clientOf(u.id)),
         NEW w, Valid(w), Spelled(u, w), Agrees(s, w)
  PROVE  Agrees(Integrate(r.store, u.id, r.item), w)
<1> DEFINE it == r.item
           q == r.store
           t == it.parent
           x == u.id
           B == Before(q, t)
           l == Chain(q, t)
           ol == u.originLeftId
           or == u.originRightId
<1>0. /\ x \in Id /\ ol \in OptId /\ or \in OptId /\ u.len \in Nat \ {0}
      /\ newItem(ol, or, u.len).originLeftId = ol /\ newItem(ol, or, u.len).originRightId = or
      /\ newItem(ol, or, u.len).len = u.len
  BY DEF UpdateItem, newItem
<1>1. /\ Cut(s, q) /\ it \in Struct /\ it.len = u.len
      /\ it.originLeftId = ol /\ it.originRightId = or
      /\ it.left = Nil <=> ol = Nil \/ ol \notin Integrated(s)
      /\ it.left # Nil => /\ it.left \in DOMAIN q.heap /\ t = q.heap[it.left].parent
                          /\ LastId(q, it.left) = ol \/ Le(B, or, ol)
      /\ it.right = Nil <=> or = Nil \/ or \notin Integrated(s)
      /\ it.right # Nil => it.right = or /\ it.right \in DOMAIN q.heap
      /\ t = parentOf(q.heap, it.left, it.right, u.parentName)
  BY <1>0 DEF Repaired
<1>2. /\ Agrees(q, w) /\ Follows(q, w) /\ IsWorld(w)
      /\ Sound(q) /\ Runs(q) /\ q \in StoreType /\ Integrated(q) = Integrated(s)
  <2>1. Agrees(q, w)
    BY <1>1, CutsAgree
  <2> QED BY <1>1, <2>1 DEF Agrees, Cut, Sound, Runs, Valid
<1>3. t \in Root /\ x \in w.made /\ w.left[x] = ol /\ w.right[x] = or
  <2>1. x \in Ids(x, u.len)
    <3>1. clockOf(x) \in Nat /\ u.len \in Nat /\ u.len > 0
      <4>1. x \in Id /\ u.len \in Nat \ {0}
        BY <1>0
      <4>2. clockOf(x) \in Nat
        BY <4>1, IdFacts
      <4> QED BY <4>1, <4>2
    <3> QED BY <1>0, <3>1, IdsAre
  <2>2. t \in Root \cup {Nil} /\ t # Nil
    BY <1>1 DEF Struct
  <2> QED BY <2>1, <2>2 DEF Spelled
<1> HIDE DEF it, q, t, x, ol, or
<1>4. \A z \in DOMAIN q.heap : /\ z \in Units(q, z) /\ q.heap[z].parent \in Root
                               /\ \A v \in Units(q, z) : w.parent[v] = q.heap[z].parent
  BY <1>2, FollowsAt, HeapFacts
<1>5. \A o \in {ol, or} : o # Nil => o \in Integrated(q) /\ w.parent[o] = w.parent[x]
  <2>1. \A o \in {w.left[x], w.right[x]} \ {Nil} : w.parent[o] = w.parent[x]
    BY <1>2, <1>3 DEF IsWorld
  <2> QED BY <1>2, <1>3, <2>1 DEF ol, or
<1>6. w.parent[x] = t
  <2>1. CASE u.parentName # Nil
    <3>1. t = u.parentName
      BY <1>1, <2>1 DEF parentOf
    <3> QED BY <2>1, <3>1 DEF Spelled, x
  <2>2. CASE u.parentName = Nil /\ it.left # Nil
    <3>1. it.left \in DOMAIN q.heap /\ ol # Nil /\ t = q.heap[it.left].parent
      BY <1>1, <2>2
    <3>2. PICK z \in DOMAIN q.heap : ol \in Units(q, z)
      BY <1>5, <3>1 DEF Integrated
    <3>3. ol \in Field(B)
      <4>1. CASE LastId(q, it.left) = ol
        <5>1. ol \in Units(q, it.left)
          <6>1. q.heap[it.left].len \in Nat \ {0}
            BY <1>2, <3>1, HeapFacts
          <6>2. q.heap[it.left].len - 1 \in 0 .. q.heap[it.left].len - 1
            BY <6>1
          <6> QED BY <4>1, <6>2 DEF LastId, Units, Ids
        <5> QED BY <1>2, <1>3, <3>1, <5>1, FieldIs
      <4>2. CASE Le(B, or, ol)
        BY <1>0, <1>2, <1>3, <4>2, ListOrder DEF IsOrder, or, ol
      <4> QED BY <1>1, <2>2, <4>1, <4>2
    <3>4. PICK y \in DOMAIN q.heap : q.heap[y].parent = t /\ ol \in Units(q, y)
      BY <1>2, <1>3, <3>3, FieldIs
    <3> QED BY <1>4, <1>5, <3>1, <3>4
  <2>3. CASE u.parentName = Nil /\ it.left = Nil
    <3>1. it.right # Nil /\ t = q.heap[it.right].parent
      BY <1>1, <1>3, <2>3, NilAssumption DEF parentOf
    <3> QED BY <1>1, <1>4, <1>5, <3>1
  <2> QED BY <2>1, <2>2, <2>3
<1>7. {ol, or} \subseteq Field(B) \cup {Nil}
  <2> SUFFICES ASSUME NEW o \in {ol, or}, o # Nil PROVE o \in Field(B)
    OBVIOUS
  <2>1. PICK z \in DOMAIN q.heap : o \in Units(q, z)
    BY <1>5 DEF Integrated
  <2>2. q.heap[z].parent = t
    BY <1>4, <1>5, <1>6, <2>1
  <2> QED BY <1>2, <1>3, <2>1, <2>2, FieldIs
<1>8. Yata(B, w) /\ IsOrder(B)
  BY <1>2, <1>3 DEF Agrees, Arranged, Yata
<1>9. Ready(B, w, x)
  <2>1. ASSUME NEW y \in Field(B), clientOf(y) = clientOf(x)
        PROVE  clockOf(y) < clockOf(x) /\ w.parent[y] = w.parent[x]
    <3>1. PICK z \in DOMAIN q.heap : q.heap[z].parent = t /\ y \in Units(q, z)
      BY <1>2, <1>3, FieldIs
    <3>2. y \in Integrated(q) /\ y \in Id
      BY <3>1 DEF Integrated, Field
    <3>3. clockOf(y) < Size(q, clientOf(y))
      BY <1>2, <3>2, Holds
    <3>4. clockOf(x) = Size(q, clientOf(x))
      BY DEF x, q
    <3> QED BY <1>4, <1>6, <2>1, <3>1, <3>3, <3>4
  <2> HIDE DEF B
  <2> QED BY <1>3, <1>7, <1>8, <2>1, ReadyElsewhere
<1>10. it.left # Nil => LastId(q, it.left) = ol
  <2> SUFFICES ASSUME it.left # Nil, Le(B, or, ol) PROVE FALSE
    BY <1>1
  <2>1. or \in Field(B) /\ ol \in Field(B)
    BY <1>0, <1>8 DEF IsOrder, or, ol
  <2>2. Lower(B, ol, or) /\ ol # Nil /\ or # Nil
    <3>1. ol # Nil /\ or # Nil
      BY <2>1, IdNotNil DEF Field
    <3> QED BY <3>1, <1>3, <1>9 DEF Ready
  <2> QED BY <1>8, <2>1, <2>2 DEF Lower, IsOrder
<1>11. ListOf(q, t, l)
  BY <1>2, <1>3 DEF Sound, Linked
<1>12. \A z \in DOMAIN q.heap : q.heap[z].parent = t => \E i \in 1 .. Len(l) : l[i] = z
  <2>1. ToSet(l) = {z \in DOMAIN q.heap : q.heap[z].parent = t} /\ l \in Seq(Id)
    BY <1>11 DEF ListOf
  <2> HIDE DEF l
  <2> QED BY <2>1 DEF ToSet
<1>13. it.right # Nil => it.right = or /\ \E k \in 1 .. Len(l) : l[k] = it.right
  BY <1>1, <1>4, <1>5, <1>6, <1>12
<1>14. /\ it.right = or
       /\ ol = Nil <=> it.left = Nil
  BY <1>1, <1>2, <1>5, <1>13
<1>15. \E i : Sited(q, l, w, x, it, i)
  <2> SUFFICES \E i \in 0 .. Len(l) : /\ it.left = NodeAt(l, i)
                                      /\ ol = IF i = 0 THEN Nil ELSE LastId(q, l[i])
    BY <1>1, <1>3, <1>13, <1>14 DEF Sited
  <2>0. l \in Seq(Id)
    BY <1>11 DEF ListOf
  <2>1. CASE it.left = Nil
    <3>1. 0 \in 0 .. Len(l)
      BY <2>0
    <3> QED BY <2>1, <3>1, <1>14 DEF NodeAt
  <2>2. CASE it.left # Nil
    <3>1. PICK i \in 1 .. Len(l) : l[i] = it.left
      BY <1>1, <1>12, <2>2
    <3>2. i \in 0 .. Len(l) /\ i # 0
      BY <2>0, <3>1
    <3> QED BY <3>1, <3>2, <1>10, <2>2 DEF NodeAt
  <2> QED BY <2>1, <2>2
<1>16. PICK i : Sited(q, l, w, x, it, i)
  BY <1>15
<1>17. /\ Ids(x, it.len) \subseteq w.made
       /\ \A v \in Ids(x, it.len) : /\ w.right[v] = w.right[x] /\ w.parent[v] = t
                                    /\ v # x => w.left[v] = Sub(v, 1)
  BY <1>1, <1>3, <1>6 DEF Spelled, x, or
<1>18. clockOf(x) = Size(q, clientOf(x)) /\ t # Nil
  BY DEF x, q, t, it
<1>19. x \in Id /\ (it.left # Nil => it.left \in DOMAIN q.heap /\ q.heap[it.left].parent = t)
  BY <1>0, <1>1 DEF x
<1>20. Agrees(Integrate(q, x, it), w)
  BY <1>1, <1>2, <1>9, <1>16, <1>17, <1>18, <1>19, IntegrateArranges DEF Agrees, t
<1> QED BY <1>20 DEF q, x, it

-----------------------------------------------------------------------------
\* World v is w with the units X of root type t more.
Extends(w, v, X, t) ==
  /\ IsWorld(v) /\ v.made = w.made \cup X
  /\ \A u \in w.made : /\ v.left[u] = w.left[u] /\ v.right[u] = w.right[u]
                       /\ v.parent[u] = w.parent[u]
  /\ \A u \in X : v.parent[u] = t

\* A world extended twice is extended.
LEMMA ExtendsAgain ==
  ASSUME NEW w, NEW v, NEW u, NEW X, NEW Y, NEW t, Extends(w, v, X, t), Extends(v, u, Y, t)
  PROVE  Extends(w, u, X \cup Y, t)
<1>1. u.made = w.made \cup (X \cup Y)
  BY DEF Extends
<1>2. \A z \in w.made : z \in v.made
  BY DEF Extends
<1>3. \A z \in X : z \in v.made
  BY DEF Extends
<1> QED BY <1>1, <1>2, <1>3 DEF Extends

\* What was arranged stays so in a greater world.
LEMMA WorldGrows ==
  ASSUME NEW w, IsWorld(w), NEW v, NEW X, NEW t, Extends(w, v, X, t)
  PROVE  /\ \A B : Yata(B, w) => Yata(B, v)
         /\ \A s : Runs(s) /\ Follows(s, w) => Follows(s, v)
         /\ \A s : Runs(s) /\ Agrees(s, w) => Agrees(s, v)
         /\ \A u \in UpdateItem : Spelled(u, w) => Spelled(u, v)
<1>1. /\ \A u \in w.made : /\ v.left[u] = w.left[u] /\ v.right[u] = w.right[u]
                           /\ v.parent[u] = w.parent[u]
      /\ w.made \subseteq v.made
  BY DEF Extends
<1>2. ASSUME NEW B, Yata(B, w) PROVE Yata(B, v)
  <2>1. /\ \A x \in Field(B) : /\ v.left[x] = w.left[x] /\ v.right[x] = w.right[x]
        /\ Field(B) \subseteq v.made /\ IsOrder(B)
    BY <1>1, <1>2 DEF Yata
  <2>2. \A x \in Field(B) : w.right[x] # Nil => v.left[w.right[x]] = w.left[w.right[x]]
    BY <1>1, <1>2, YataFacts
  <2>3. Between(B, v)
    BY <2>1, <1>2 DEF Yata, Between
  <2>4. Justified(B, v)
    BY <2>1, <1>2 DEF Yata, Justified, Reason
  <2>5. NoCross(B, v)
    BY <2>1, <2>2, <1>2 DEF Yata, NoCross
  <2>6. Own(B, v)
    BY <2>1, <1>2 DEF Yata, Own, Apart
  <2> QED BY <2>1, <2>3, <2>4, <2>5, <2>6 DEF Yata
<1>3. ASSUME NEW s, Runs(s), Follows(s, w) PROVE Follows(s, v)
  <2>1. \A z \in DOMAIN s.heap : z \in Units(s, z)
    BY <1>3, UnitsAre
  <2> QED BY <2>1, <1>1, <1>3 DEF Follows
<1>4. \A s : Runs(s) /\ Agrees(s, w) => Agrees(s, v)
  BY <1>2, <1>3 DEF Agrees, Arranged
<1>5. ASSUME NEW u \in UpdateItem, Spelled(u, w) PROVE Spelled(u, v)
  <2>1. u.id \in Ids(u.id, u.len)
    <3>1. u.id \in Id /\ u.len \in Nat /\ u.len > 0
      BY DEF UpdateItem
    <3>2. clockOf(u.id) \in Nat
      BY <3>1, IdFacts
    <3> QED BY <3>1, <3>2, IdsAre
  <2> QED BY <2>1, <1>1, <1>5 DEF Spelled
<1> QED BY <1>2, <1>3, <1>4, <1>5

\* A world is w with unit x of root type t more, of these origins.
Takes(w, x, t, a, b) == \E v : Extends(w, v, {x}, t) /\ v.left[x] = a /\ v.right[x] = b

\* A unit whose origins are there may be added to a world.
LEMMA WorldTakes ==
  ASSUME NEW w, IsWorld(w), NEW x \in Id, x \notin w.made, NEW t \in Root,
         NEW a \in OptId, NEW b \in OptId,
         \A o \in {a, b} \ {Nil} : o \in w.made /\ w.parent[o] = t,
         clockOf(x) > 0 => Sub(x, 1) \in w.made
  PROVE  Takes(w, x, t, a, b)
<1>1. PICK m \in Nat : /\ \A o \in {a, b} \ {Nil} : w.rank[o] < m
                       /\ clockOf(x) > 0 => w.rank[Sub(x, 1)] < m
  <2> DEFINE A == IF a = Nil THEN 0 ELSE w.rank[a]
             B == IF b = Nil THEN 0 ELSE w.rank[b]
             C == IF clockOf(x) > 0 THEN w.rank[Sub(x, 1)] ELSE 0
  <2>1. A \in Nat /\ B \in Nat /\ C \in Nat
    <3>1. \A u \in w.made : w.rank[u] \in Nat
      BY WorldFacts
    <3>2. 0 \in Nat
      OBVIOUS
    <3> QED BY <3>1, <3>2
  <2>2. /\ a # Nil => w.rank[a] = A
        /\ b # Nil => w.rank[b] = B
        /\ clockOf(x) > 0 => w.rank[Sub(x, 1)] = C
    OBVIOUS
  <2> HIDE DEF A, B, C
  <2>3. A < A + B + C + 1 /\ B < A + B + C + 1 /\ C < A + B + C + 1 /\ A + B + C + 1 \in Nat
    BY <2>1
  <2> QED BY <2>2, <2>3
<1> DEFINE v == [made |-> w.made \cup {x}, left |-> [w.left EXCEPT ![x] = a],
                 right |-> [w.right EXCEPT ![x] = b], parent |-> [w.parent EXCEPT ![x] = t],
                 rank |-> [w.rank EXCEPT ![x] = m]]
<1>2. w \in World
  BY DEF IsWorld
<1>3. /\ v \in World /\ v.made = w.made \cup {x}
      /\ v.left[x] = a /\ v.right[x] = b /\ v.parent[x] = t /\ v.rank[x] = m
      /\ \A u \in w.made : /\ v.left[u] = w.left[u] /\ v.right[u] = w.right[u]
                           /\ v.parent[u] = w.parent[u] /\ v.rank[u] = w.rank[u]
  <2>1. v \in World
    BY <1>2 DEF World
  <2>2. \A u \in w.made : u \in Id /\ u # x
    BY <1>2 DEF World
  <2>3. x \in Id /\ w.left \in [Id -> OptId] /\ w.right \in [Id -> OptId]
        /\ w.parent \in [Id -> Root \cup {Nil}] /\ w.rank \in [Id -> Nat]
    BY <1>2 DEF World
  <2> QED BY <2>1, <2>2, <2>3
<1> HIDE DEF v
<1>4. ASSUME NEW u \in v.made
      PROVE  /\ \A o \in {v.left[u], v.right[u]} \ {Nil} :
                  o \in v.made /\ v.rank[o] < v.rank[u] /\ v.parent[o] = v.parent[u]
             /\ clockOf(u) > 0 => Sub(u, 1) \in v.made /\ v.rank[Sub(u, 1)] < v.rank[u]
  <2>1. CASE u = x
    BY <2>1, <1>1, <1>3
  <2>2. CASE u \in w.made
    BY <2>2, <1>3 DEF IsWorld
  <2> QED BY <2>1, <2>2, <1>3
<1>5. Extends(w, v, {x}, t)
  BY <1>3, <1>4 DEF Extends, IsWorld
<1> QED BY <1>3, <1>5 DEF Takes

\* A unit between two neighbours of a list, its origins the units beside it.
Typeable(s, t, it) ==
  /\ it \in Struct /\ it.parent = t /\ it.len = 1
  /\ it.left # Nil => it.left \in DOMAIN s.heap /\ s.heap[it.left].parent = t
  /\ it.right = rightOf(s, t, it.left)
  /\ it.originLeftId = IF it.left = Nil THEN Nil ELSE LastId(s, it.left)
  /\ it.originRightId = it.right

\* It is put between them.
LEMMA TypedBeside ==
  ASSUME NEW s, Sound(s), NEW t \in Root, NEW it, Typeable(s, t, it),
         NEW x \in Id, clockOf(x) = Size(s, clientOf(x))
  PROVE  /\ Integrate(s, x, it).heap[x].right = it.right
         /\ findIntegrationLeft(s, t, x, it) = it.left
<1> DEFINE l == Chain(s, t)
<1>0. Runs(s) /\ s \in StoreType /\ it.parent = t /\ it \in Struct /\ t # Nil
  BY NilAssumption DEF Sound, Runs, Typeable
<1>1. PICK i \in 0 .. Len(l) : /\ it.left = IF i = 0 THEN Nil ELSE l[i]
                               /\ it.right = IF i = Len(l) THEN Nil ELSE l[i + 1]
  BY Place DEF Typeable
<1>2. ListOf(s, t, l)
  BY DEF Sound, Linked
<1>3. l \in Seq(Id) /\ \A j \in 1 .. Len(l) : l[j] \in DOMAIN s.heap
  <2>1. \A j \in 1 .. Len(l) : l[j] \in ToSet(l)
    BY <1>2 DEF ListOf, ToSet
  <2> QED BY <2>1, <1>2 DEF ListOf
<1>4. findIntegrationLeft(s, t, x, it) = it.left
  <2>1. CASE ~mustScan(s, it)
    BY <2>1 DEF findIntegrationLeft
  <2>2. CASE mustScan(s, it)
    <3>1. it.left = Nil
      BY <2>2 DEF mustScan, Typeable, rightOf
    <3>2. i = 0
      <4>1. i # 0 => l[i] # Nil
        <5> HIDE DEF l
        <5>1. i # 0 => l[i] \in Id
          BY <1>3
        <5> QED BY <5>1, IdNotNil
      <4> QED BY <4>1, <3>1, <1>1
    <3>3. it.right = Nil
      <4> SUFFICES ASSUME it.right # Nil PROVE FALSE
        OBVIOUS
      <4>1. Len(l) # 0 /\ it.right = l[1]
        BY <1>1, <3>2
      <4>2. 1 \in DOMAIN l
        <5> HIDE DEF l
        <5> QED BY <4>1, <1>3
      <4>3. s.heap[l[1]].left = Nil
        BY <4>2, <1>2 DEF ListOf
      <4> QED BY <2>2, <3>1, <4>1, <4>3 DEF mustScan
    <3>4. rightOf(s, t, it.left) = Nil
      BY <3>3 DEF Typeable
    <3>5. From(s, Nil) \in Seq(Id) /\ ToSet(From(s, Nil)) \subseteq ToSet(l)
      BY <3>1, <3>4, Place
    <3>6. ToSet(l) = {}
      <4>1. Len(l) = 0
        BY <1>1, <3>2, <3>3, <1>3, HeapFacts, <1>0
      <4> HIDE DEF l
      <4> QED BY <4>1, <1>3 DEF ToSet
    <3>7. scanConflicts(s, x, it, Nil, Nil, it.right) \in {Nil} \cup ToSet(From(s, Nil))
      BY <3>5, ScanEndsAtNode
    <3> QED BY <2>2, <3>1, <3>4, <3>5, <3>6, <3>7 DEF findIntegrationLeft
  <2> QED BY <2>1, <2>2
<1>5. x \notin DOMAIN s.heap
  <2>1. 1 \in Nat
    OBVIOUS
  <2> QED BY <2>1, <1>0, FreeId
<1>6. it.left \in DOMAIN s.heap \cup {Nil} /\ it.right \in DOMAIN s.heap \cup {Nil}
  <2>1. i # Len(l) => i + 1 \in 1 .. Len(l)
    <3> HIDE DEF l
    <3> QED BY <1>3
  <2> QED BY <2>1, <1>1, <1>3 DEF Typeable
<1>7. Integrate(s, x, it) = addNode(link(s, t, x, it, it.left, it.right), x)
  BY <1>0, <1>4 DEF Integrate, integrateCore, Typeable
<1>8. LinkedAs(s, Integrate(s, x, it), t, x, it, it.left, it.right)
  BY <1>0, <1>5, <1>6, <1>7, LinkFields
<1> QED BY <1>4, <1>8 DEF LinkedAs

\* A unit typed there extends the world, and stands where its origins justify it.
LEMMA TypedArranges ==
  ASSUME NEW s, Sound(s), NEW t \in Root, NEW it, Typeable(s, t, it),
         NEW x \in Id, clockOf(x) = Size(s, clientOf(x)),
         NEW w, IsWorld(w), Agrees(s, w), x \notin w.made
  PROVE  \E v : Extends(w, v, {x}, t) /\ Agrees(Integrate(s, x, it), v)
<1> DEFINE l == Chain(s, t)
           B == Before(s, t)
           ol == it.originLeftId
           or == it.originRightId
           n == Len(l)
<1>0. /\ Runs(s) /\ s \in StoreType /\ it.parent = t /\ it \in Struct /\ t # Nil /\ it.len = 1
      /\ it.left # Nil => it.left \in DOMAIN s.heap /\ s.heap[it.left].parent = t
      /\ or = it.right /\ ol \in OptId /\ or \in OptId
      /\ ol = IF it.left = Nil THEN Nil ELSE LastId(s, it.left)
  <2>1. /\ Runs(s) /\ s \in StoreType /\ t # Nil
    BY NilAssumption DEF Sound, Runs
  <2> QED BY <2>1 DEF Typeable, Struct
<1>1. PICK i \in 0 .. n : /\ it.left = IF i = 0 THEN Nil ELSE l[i]
                          /\ it.right = IF i = n THEN Nil ELSE l[i + 1]
  BY Place DEF Typeable
<1>2. ListOf(s, t, l)
  BY DEF Sound, Linked
<1>3. l \in Seq(Id) /\ n \in Nat
  BY <1>2 DEF ListOf
<1>4. /\ IsOrder(B) /\ Field(B) = Ahead(s, l, n) /\ Ahead(s, l, 0) = {}
      /\ \A j \in 0 .. n : \A u \in Ahead(s, l, j), v \in Field(B) \ Ahead(s, l, j) :
           Le(B, u, v) /\ ~Le(B, v, u)
      /\ \A j \in 0 .. n : Ahead(s, l, j) \subseteq Field(B)
      /\ \A j \in 1 .. n :
           /\ l[j] \in DOMAIN s.heap /\ s.heap[l[j]].parent = t
           /\ Ahead(s, l, j) = Ahead(s, l, j - 1) \cup Units(s, l[j])
           /\ Units(s, l[j]) \cap Ahead(s, l, j - 1) = {}
           /\ \A u, v \in Units(s, l[j]) : Le(B, u, v) <=> clockOf(u) <= clockOf(v)
  BY ListOrder
<1>5. \A j \in 1 .. n : /\ l[j] \in Units(s, l[j]) /\ LastId(s, l[j]) \in Units(s, l[j])
                        /\ Units(s, l[j]) \subseteq Id
                        /\ \A u \in Units(s, l[j]) : clockOf(l[j]) <= clockOf(u)
                                                     /\ clockOf(u) <= clockOf(LastId(s, l[j]))
  BY <1>0, <1>4, UnitsAre
<1>6. /\ i # 0 => /\ it.left = l[i] /\ it.left # Nil /\ i \in 1 .. n /\ i - 1 \in 0 .. n
                  /\ ol = LastId(s, l[i])
      /\ i # n => or = l[i + 1] /\ i + 1 \in 1 .. n /\ (i + 1) - 1 = i
      /\ i = 0 => ol = Nil /\ it.left = Nil
      /\ i = n => or = Nil
  <2>1. \A j \in 1 .. n : l[j] # Nil
    <3> HIDE DEF n
    <3>1. \A j \in 1 .. n : l[j] \in Id
      BY <1>4, <1>0, HeapFacts
    <3> QED BY <3>1, IdNotNil
  <2>2. /\ i # 0 => i \in 1 .. n /\ i - 1 \in 0 .. n
        /\ i # n => i + 1 \in 1 .. n /\ (i + 1) - 1 = i
    <3> HIDE DEF n
    <3> QED BY <1>3
  <2> HIDE DEF l, n, ol, or
  <2> QED BY <2>1, <2>2, <1>0, <1>1
<1> HIDE DEF n, B, ol, or, l
<1>7. /\ i # 0 => ol \in Ahead(s, l, i)
      /\ i # n => or \in Field(B) /\ or \notin Ahead(s, l, i)
      /\ {ol, or} \subseteq Field(B) \cup {Nil}
  <2>1. i # 0 => ol \in Ahead(s, l, i)
    BY <1>4, <1>5, <1>6
  <2>2. i # n => or \in Field(B) /\ or \notin Ahead(s, l, i)
    <3> SUFFICES ASSUME i # n PROVE or \in Field(B) /\ or \notin Ahead(s, l, i)
      OBVIOUS
    <3>1. /\ i + 1 \in 1 .. n /\ i + 1 \in 0 .. n /\ or = l[i + 1]
          /\ Units(s, l[i + 1]) \cap Ahead(s, l, i) = {}
      <4>1. i + 1 \in 1 .. n /\ (i + 1) - 1 = i /\ or = l[i + 1]
        BY <1>6
      <4> QED BY <4>1, <1>4
    <3>2. l[i + 1] \in Units(s, l[i + 1])
      BY <3>1, <1>5
    <3>3. l[i + 1] \in Ahead(s, l, i + 1) /\ Ahead(s, l, i + 1) \subseteq Field(B)
      BY <3>1, <3>2, <1>4
    <3> QED BY <3>1, <3>2, <3>3
  <2> QED BY <2>1, <2>2, <1>4, <1>6
<1>8. \A y \in Field(B) : \/ ol # Nil /\ Le(B, y, ol)
                          \/ or # Nil /\ Le(B, or, y)
  <2> TAKE y \in Field(B)
  <2>1. CASE y \in Ahead(s, l, i)
    <3>1. i # 0
      BY <2>1, <1>4
    <3>2. /\ i \in 1 .. n /\ i - 1 \in 0 .. n /\ ol = LastId(s, l[i])
          /\ y \in Ahead(s, l, i - 1) \/ y \in Units(s, l[i])
          /\ ol \in Units(s, l[i]) /\ ol \notin Ahead(s, l, i - 1) /\ ol \in Field(B)
      BY <3>1, <2>1, <1>4, <1>5, <1>6, <1>7
    <3>3. CASE y \in Ahead(s, l, i - 1)
      BY <3>2, <3>3, <1>4, IdNotNil DEF Field
    <3>4. CASE y \in Units(s, l[i])
      BY <3>2, <3>4, <1>4, <1>5, IdNotNil DEF Field
    <3> QED BY <3>2, <3>3, <3>4
  <2>2. CASE y \notin Ahead(s, l, i)
    <3>1. i # n
      BY <2>2, <1>4
    <3>2. i + 1 \in 1 .. n /\ i + 1 \in 0 .. n /\ or = l[i + 1] /\ (i + 1) - 1 = i /\ or \in Field(B)
      BY <3>1, <1>6, <1>7
    <3>3. Ahead(s, l, i + 1) = Ahead(s, l, i) \cup Units(s, l[i + 1])
      BY <3>2, <1>4
    <3>4. or # Nil
      BY <3>2, IdNotNil DEF Field
    <3>5. l[i + 1] \in Units(s, l[i + 1])
      BY <3>2, <1>5
    <3>6. CASE y \in Units(s, l[i + 1])
      BY <3>2, <3>4, <3>5, <3>6, <1>4, <1>5
    <3>7. CASE y \notin Ahead(s, l, i + 1)
      <4>1. or \in Ahead(s, l, i + 1)
        BY <3>2, <3>3, <3>5
      <4> QED BY <4>1, <3>2, <3>4, <3>7, <1>4
    <3> QED BY <2>2, <3>3, <3>6, <3>7
  <2> QED BY <2>1, <2>2
<1>9. ol # Nil /\ or # Nil => Lower(B, ol, or)
  <2> HAVE ol # Nil /\ or # Nil
  <2>1. ol \in Ahead(s, l, i) /\ or \in Field(B) \ Ahead(s, l, i)
    BY <1>6, <1>7
  <2> QED BY <2>1, <1>1, <1>4 DEF Lower
<1>10. Follows(s, w) /\ Yata(B, w)
  BY DEF Agrees, Arranged, B
<1>11. \A z \in DOMAIN s.heap : /\ z \in Units(s, z) /\ Units(s, z) \subseteq w.made
                                /\ \A u \in Units(s, z) : w.parent[u] = s.heap[z].parent
  BY <1>0, <1>10, FollowsAt
<1>12. \A o \in Field(B) : o \in w.made /\ w.parent[o] = t
  BY <1>11, FieldIs DEF B
<1>13. clockOf(x) > 0 => Sub(x, 1) \in w.made
  <2> SUFFICES ASSUME clockOf(x) > 0 PROVE Sub(x, 1) \in Integrated(s)
    BY <1>11 DEF Integrated
  <2>1. clockOf(x) \in Nat /\ Sub(x, 1) = <<clientOf(x), clockOf(x) - 1>> /\ clientOf(x) \in Client
    BY IdFacts DEF Sub, clientOf, clockOf
  <2>2. clockOf(x) - 1 \in Nat /\ clockOf(x) - 1 < clockOf(x)
    BY <2>1
  <2>3. Sub(x, 1) \in Id /\ clientOf(Sub(x, 1)) = clientOf(x) /\ clockOf(Sub(x, 1)) = clockOf(x) - 1
    BY <2>1, <2>2 DEF Id, clientOf, clockOf
  <2> QED BY <2>2, <2>3, <1>0, Holds
<1>14. PICK v : Extends(w, v, {x}, t) /\ v.left[x] = ol /\ v.right[x] = or
  <2>1. \A o \in {ol, or} \ {Nil} : o \in w.made /\ w.parent[o] = t
    BY <1>7, <1>12
  <2>2. ol \in OptId /\ or \in OptId
    BY <1>0
  <2>3. Takes(w, x, t, ol, or)
    BY <2>1, <2>2, <1>13, WorldTakes
  <2> QED BY <2>3 DEF Takes
<1>15. /\ IsWorld(v) /\ Agrees(s, v) /\ Follows(s, v) /\ Arranged(s, v) /\ Yata(B, v)
       /\ x \in v.made /\ v.parent[x] = t
  <2>1. Agrees(s, v)
    BY <1>0, <1>14, WorldGrows
  <2> QED BY <2>1, <1>14 DEF Extends, Agrees, Arranged, B
<1>16. Ready(B, v, x)
  <2>1. \A y \in Field(B) : Apart(B, v, x, y)
    BY <1>8, <1>14 DEF Apart
  <2> QED BY <2>1, <1>7, <1>9, <1>14, <1>15, ReadyBeside
<1>17. Sited(s, l, v, x, it, i)
  <2>1. it.right # Nil => \E k \in 1 .. Len(l) : l[k] = it.right
    BY <1>6, <1>0 DEF n
  <2>2. i \in 0 .. Len(l) /\ it.left = NodeAt(l, i) /\ (ol = IF i = 0 THEN Nil ELSE LastId(s, l[i]))
    BY <1>1, <1>6 DEF n, NodeAt
  <2> QED BY <2>1, <2>2, <1>0, <1>14 DEF Sited, ol, or
<1>18. Ids(x, it.len) = {x}
  <2>1. 0 .. 1 - 1 = {0} /\ Add(x, 0) = x
    BY DEF Add, Id
  <2> QED BY <2>1, <1>0 DEF Ids
<1>19. Agrees(Integrate(s, x, it), v)
  BY <1>0, <1>15, <1>16, <1>17, <1>18, IntegrateArranges DEF Agrees, B, l
<1> QED BY <1>14, <1>19

-----------------------------------------------------------------------------
(***************************************************************************)
(* Places by the units before them.                                        *)
(***************************************************************************)
\* The units of a list up to the end of node x; none up to the head.
Till(s, t, x) == IF x = Nil THEN {} ELSE {u \in Id : Le(Before(s, t), u, LastId(s, x))}

\* P are the first units in order B.
First(B, P) == P \subseteq Field(B) /\ \A a \in Field(B), b \in P : Le(B, a, b) => a \in P

\* The units up to a node are those of the nodes ahead of the place behind it.
LEMMA TillIs ==
  ASSUME NEW s, Sound(s), NEW t \in Root, NEW j \in 0 .. Len(Chain(s, t))
  PROVE  Till(s, t, NodeAt(Chain(s, t), j)) = Ahead(s, Chain(s, t), j)
<1> DEFINE l == Chain(s, t)
           B == Before(s, t)
           n == Len(l)
           z == LastId(s, l[j])
<1>1. /\ IsOrder(B) /\ Field(B) = Ahead(s, l, n) /\ Ahead(s, l, 0) = {}
      /\ Ahead(s, l, j) \subseteq Field(B)
      /\ \A u \in Ahead(s, l, j), v \in Field(B) \ Ahead(s, l, j) : ~Le(B, v, u)
      /\ \A i \in 0 .. n : \A u \in Ahead(s, l, i), v \in Field(B) \ Ahead(s, l, i) : Le(B, u, v)
      /\ \A i \in 1 .. n :
           /\ l[i] \in DOMAIN s.heap
           /\ Ahead(s, l, i) = Ahead(s, l, i - 1) \cup Units(s, l[i])
           /\ Units(s, l[i]) \cap Ahead(s, l, i - 1) = {}
           /\ \A u, v \in Units(s, l[i]) : Le(B, u, v) <=> clockOf(u) <= clockOf(v)
  BY ListOrder
<1>2. s \in StoreType /\ Runs(s)
  BY DEF Sound, Runs
<1>3. n \in Nat /\ j \in 0 .. n
  BY DEF Sound, Linked, ListOf
<1>4. CASE j = 0
  BY <1>1, <1>4 DEF Till, NodeAt
<1>5. CASE j # 0
  <2>1. j \in 1 .. n /\ j - 1 \in 0 .. n
    <3> HIDE DEF n
    <3> QED BY <1>3, <1>5
  <2>2. l[j] \in DOMAIN s.heap /\ l[j] # Nil
    BY <1>1, <1>2, <2>1, HeapFacts
  <2>3. z \in Units(s, l[j]) /\ \A u \in Units(s, l[j]) : u \in Id /\ clockOf(u) <= clockOf(z)
    BY <1>2, <2>2, UnitsAre
  <2> HIDE DEF l, B, n, z
  <2>4. z \in Ahead(s, l, j) /\ z \notin Ahead(s, l, j - 1) /\ z \in Field(B)
    BY <1>1, <2>1, <2>3
  <2>5. ASSUME NEW u \in Ahead(s, l, j)
        PROVE  u \in Id /\ Le(B, u, z)
    <3>1. CASE u \in Ahead(s, l, j - 1)
      BY <1>1, <2>1, <2>4, <2>5, <3>1 DEF Field
    <3>2. CASE u \in Units(s, l[j])
      BY <1>1, <2>1, <2>3, <3>2
    <3> QED BY <1>1, <2>1, <2>5, <3>1, <3>2
  <2>6. ASSUME NEW u \in Id, Le(B, u, z)
        PROVE  u \in Ahead(s, l, j)
    <3>1. u \in OptId /\ z \in OptId
      BY <2>4 DEF Field, OptId
    <3>2. u \in Field(B)
      BY <1>1, <2>6, <3>1 DEF IsOrder
    <3> QED BY <1>1, <2>4, <2>6, <3>2
  <2>7. Till(s, t, l[j]) = {u \in Id : Le(B, u, z)}
    BY <2>2 DEF Till, B, z
  <2>8. Till(s, t, l[j]) = Ahead(s, l, j)
    BY <2>5, <2>6, <2>7
  <2> QED BY <1>5, <2>8 DEF NodeAt, l
<1> QED BY <1>4, <1>5

\* The units ahead of a place are the first ones.
LEMMA AheadFirst ==
  ASSUME NEW s, Sound(s), NEW t \in Root, NEW j \in 0 .. Len(Chain(s, t))
  PROVE  First(Before(s, t), Ahead(s, Chain(s, t), j))
BY ListOrder DEF First

\* So are those up to a node.
LEMMA TillFirst ==
  ASSUME NEW s, Sound(s), NEW t \in Root, NEW x,
         x # Nil => x \in DOMAIN s.heap /\ s.heap[x].parent = t
  PROVE  First(Before(s, t), Till(s, t, x))
<1>1. PICK j \in 0 .. Len(Chain(s, t)) : x = NodeAt(Chain(s, t), j)
  BY Place DEF NodeAt
<1> QED BY <1>1, TillIs, AheadFirst

\* Of a node all units are shown, or none.
LEMMA ShownUnits ==
  ASSUME NEW s, Sound(s), NEW t \in Root, NEW x \in DOMAIN s.heap, s.heap[x].parent = t
  PROVE  Units(s, x) \cap Live(s, t) = IF s.heap[x].deleted THEN {} ELSE Units(s, x)
<1>1. ASSUME NEW u \in Units(s, x), u \in Live(s, t)
      PROVE  ~s.heap[x].deleted
  <2>1. PICK y \in DOMAIN s.heap : ~s.heap[y].deleted /\ u \in Units(s, y)
    BY <1>1 DEF Live
  <2>2. x = y
    BY <2>1, NodesApart DEF Sound
  <2> QED BY <2>1, <2>2
<1>2. ~s.heap[x].deleted => Units(s, x) \subseteq Live(s, t)
  BY DEF Live
<1> QED BY <1>1, <1>2

\* A typed unit is put right behind the units up to its left neighbour.
LEMMA TypedSplices ==
  ASSUME NEW s, Sound(s), NEW t \in Root, NEW it, Typeable(s, t, it),
         NEW x \in Id, clockOf(x) = Size(s, clientOf(x))
  PROVE  LET r == Integrate(s, x, it)
             P == Till(s, t, it.left)
         IN  /\ Spliced(Before(s, t), Before(r, t), P, {x})
             /\ Till(r, t, x) = P \cup {x}
             /\ Live(r, t) = Live(s, t) \cup {x}
<1> DEFINE r == Integrate(s, x, it)
           l == Chain(s, t)
           k == Chain(r, t)
<1>1. /\ it \in Struct /\ it.parent = t /\ it.len = 1 /\ t # Nil
      /\ it.left # Nil => it.left \in DOMAIN s.heap /\ s.heap[it.left].parent = t
  BY NilAssumption DEF Typeable
<1>2. Adds(s, r, t, x, 1)
  BY <1>1, IntegrateKeeps
<1>3. PICK i \in 0 .. Len(l) : /\ findIntegrationLeft(s, t, x, it) = IF i = 0 THEN Nil ELSE l[i]
                               /\ k = InsertAt(l, i + 1, x)
  BY <1>1, IntegrateKeeps
<1>4. it.left = NodeAt(l, i)
  BY <1>3, TypedBeside DEF NodeAt
<1>5. /\ Sound(r) /\ x \in DOMAIN r.heap /\ Live(r, t) = Live(s, t) \cup Ids(x, 1)
      /\ Before(s, t) \subseteq Before(r, t) /\ r.heap[x].len = 1
      /\ \A z \in DOMAIN s.heap : r.heap[z].len = s.heap[z].len
  BY <1>2 DEF Adds
<1>6. Ids(x, 1) = {x}
  <2>1. 0 .. 1 - 1 = {0} /\ Add(x, 0) = x
    BY DEF Add, Id
  <2> QED BY <2>1 DEF Ids
<1>7. /\ l \in Seq(Id) /\ Len(l) \in Nat /\ \A j \in 1 .. Len(l) : l[j] \in DOMAIN s.heap
  <2>1. ListOf(s, t, l)
    BY DEF Sound, Linked
  <2>2. \A j \in 1 .. Len(l) : l[j] \in ToSet(l)
    BY <2>1 DEF ListOf, ToSet
  <2> QED BY <2>1, <2>2 DEF ListOf
<1>8. Inserts(Id, l, i, x, k)
  BY <1>3, <1>7, InsertedAs
<1>9. Units(r, x) = {x} /\ \A j \in 1 .. Len(l) : Units(r, l[j]) = Units(s, l[j])
  BY <1>5, <1>6, <1>7 DEF Units
<1>10. {x} \cap Integrated(s) = {}
  <2>1. 1 \in Nat
    OBVIOUS
  <2> QED BY <2>1, <1>6, FreeId DEF Sound
<1> DEFINE P == Ahead(s, l, i)
<1>11. Till(s, t, it.left) = P
  BY <1>4, TillIs
<1>12. Spliced(Before(s, t), Before(r, t), P, {x})
  BY <1>3, <1>5, <1>9, <1>10, InsertSplices
<1>13. Till(r, t, x) = P \cup {x}
  <2> HIDE DEF l, r, k, P
  <2>1. /\ Len(k) = Len(l) + 1 /\ i + 1 \in 0 .. Len(k) /\ i + 1 # 0 /\ k[i + 1] = x
        /\ \A j \in 1 .. i : k[j] = l[j] /\ j \in 1 .. Len(l)
        /\ \A j \in 1 .. i + 1 : j \in 1 .. i \/ j = i + 1
        /\ i + 1 \in 1 .. i + 1 /\ \A j \in 1 .. i : j \in 1 .. i + 1
    <3>1. i \in Nat /\ i <= Len(l)
      BY <1>7
    <3> QED BY <3>1, <1>7, <1>8 DEF Inserts
  <2>2. NodeAt(k, i + 1) = x
    BY <2>1 DEF NodeAt
  <2>3. Till(r, t, x) = Ahead(r, k, i + 1)
    BY <1>5, <2>1, <2>2, TillIs DEF k
  <2>4. Ahead(r, k, i + 1) = P \cup {x}
    <3>1. \A j \in 1 .. i : Units(r, k[j]) = Units(s, l[j])
      BY <2>1, <1>9
    <3>2. Units(r, k[i + 1]) = {x}
      BY <2>1, <1>9
    <3>3. \A u : (\E j \in 1 .. i + 1 : u \in Units(r, k[j]))
                   <=> (\E j \in 1 .. i : u \in Units(r, k[j])) \/ u \in Units(r, k[i + 1])
      BY <2>1
    <3> QED BY <3>1, <3>2, <3>3 DEF Ahead, P
  <2> QED BY <2>3, <2>4
<1> HIDE DEF P
<1> QED BY <1>5, <1>6, <1>11, <1>12, <1>13

\* A run behind the first units P, and a unit behind that, are a run behind P.
LEMMA SplicedMore ==
  ASSUME NEW B, NEW C, NEW D, NEW P \in SUBSET Field(B), NEW X \in SUBSET Id, NEW x \in Id,
         X \cap Field(B) = {}, Field(C) = Field(B) \cup X,
         \A u \in X : clockOf(u) <= clockOf(x) /\ ~(clockOf(x) <= clockOf(u)),
         Spliced(B, C, P, X), Spliced(C, D, P \cup X, {x})
  PROVE  Spliced(B, D, P, X \cup {x})
<1> SUFFICES ASSUME NEW a \in OptId, NEW b \in OptId
             PROVE  Le(D, a, b) <=> \/ Le(B, a, b)
                                    \/ a \in P /\ b \in X \cup {x}
                                    \/ a \in X \cup {x} /\ b \in Field(B) \ P
                                    \/ a \in X \cup {x} /\ b \in X \cup {x} /\ clockOf(a) <= clockOf(b)
  BY DEF Spliced
<1>1. Le(C, a, b) <=> \/ Le(B, a, b)
                      \/ a \in P /\ b \in X
                      \/ a \in X /\ b \in Field(B) \ P
                      \/ a \in X /\ b \in X /\ clockOf(a) <= clockOf(b)
  BY DEF Spliced
<1>2. Le(D, a, b) <=> \/ Le(C, a, b)
                      \/ a \in P \cup X /\ b \in {x}
                      \/ a \in {x} /\ b \in Field(C) \ (P \cup X)
                      \/ a \in {x} /\ b \in {x} /\ clockOf(a) <= clockOf(b)
  BY DEF Spliced
<1>3. Field(C) \ (P \cup X) = Field(B) \ P
  OBVIOUS
<1>4. clockOf(x) <= clockOf(x)
  <2>1. clockOf(x) \in Nat
    BY IdFacts
  <2> QED BY <2>1
<1> QED BY <1>1, <1>2, <1>3, <1>4, Zenon

\* The units ahead of a place and the first of the node behind it.
LEMMA TillCut ==
  ASSUME NEW s, Sound(s), NEW t \in Root, NEW j \in 1 .. Len(Chain(s, t)),
         NEW x, x = Chain(s, t)[j], NEW d \in Nat, 0 < d, d <= s.heap[x].len,
         NEW r, Before(r, t) = Before(s, t), r.heap[x].len = d
  PROVE  /\ Till(r, t, x) = Ahead(s, Chain(s, t), j - 1) \cup Ids(x, d)
         /\ Ids(x, d) \subseteq Units(s, x)
         /\ Ids(x, d) \cap Ahead(s, Chain(s, t), j - 1) = {}
<1> DEFINE l == Chain(s, t)
           B == Before(s, t)
           n == Len(l)
           z == Add(x, d - 1)
<1>1. /\ IsOrder(B) /\ Field(B) = Ahead(s, l, n)
      /\ \A i \in 0 .. n : Ahead(s, l, i) \subseteq Field(B)
      /\ \A i \in 0 .. n : \A u \in Ahead(s, l, i), v \in Field(B) \ Ahead(s, l, i) :
           Le(B, u, v) /\ ~Le(B, v, u)
      /\ \A i \in 1 .. n :
           /\ l[i] \in DOMAIN s.heap
           /\ Ahead(s, l, i) = Ahead(s, l, i - 1) \cup Units(s, l[i])
           /\ Units(s, l[i]) \cap Ahead(s, l, i - 1) = {}
           /\ \A u, v \in Units(s, l[i]) : Le(B, u, v) <=> clockOf(u) <= clockOf(v)
  BY ListOrder
<1>2. s \in StoreType /\ n \in Nat /\ j \in 1 .. n /\ x = l[j]
  BY DEF Sound, Runs, Linked, ListOf
<1>3. x \in DOMAIN s.heap
  BY <1>1
<1>4. x \in Id /\ x # Nil /\ s.heap[x].len \in Nat \ {0} /\ clockOf(x) \in Nat
  BY <1>2, <1>3, HeapFacts, IdFacts
<1>5. d \in Nat \ {0} /\ d <= s.heap[x].len /\ d - 1 \in Nat /\ d - 1 \in 0 .. s.heap[x].len - 1
      /\ d - 1 \in 0 .. d - 1
  BY <1>4
<1>6. r.heap[x].len = d
  OBVIOUS
<1>7. LastId(r, x) = z
  BY <1>6 DEF LastId
<1>8. j \in 0 .. n /\ j - 1 \in 0 .. n
  <2> HIDE DEF n
  <2> QED BY <1>2
<1> HIDE DEF z, l, n
<1>9. z \in Units(s, x) /\ z \in Ids(x, d) /\ clockOf(z) = clockOf(x) + (d - 1)
  BY <1>5 DEF Units, Ids, z, Add, clockOf
<1>10. \A u : u \in Ids(x, d) <=> u \in Units(s, x) /\ clockOf(u) <= clockOf(z)
  <2> TAKE u
  <2>1. u \in Ids(x, d) <=> /\ u \in Id /\ clientOf(u) = clientOf(x)
                            /\ clockOf(x) <= clockOf(u) /\ clockOf(u) < clockOf(x) + d
    BY <1>4, <1>5, IdsAre
  <2>2. u \in Units(s, x) <=> /\ u \in Id /\ clientOf(u) = clientOf(x)
                              /\ clockOf(x) <= clockOf(u) /\ clockOf(u) < clockOf(x) + s.heap[x].len
    BY <1>4, IdsAre DEF Units
  <2>3. u \in Id => clockOf(u) \in Nat
    BY IdFacts
  <2> QED BY <1>4, <1>5, <1>9, <2>1, <2>2, <2>3
<1>11. z \in Field(B) /\ z \in Ahead(s, l, j) /\ z \notin Ahead(s, l, j - 1)
  BY <1>1, <1>2, <1>8, <1>9
<1>12. ASSUME NEW u \in Id
       PROVE  Le(B, u, z) <=> u \in Ahead(s, l, j - 1) \cup Ids(x, d)
  <2>1. CASE u \in Ahead(s, l, j - 1)
    BY <2>1, <1>1, <1>8, <1>11
  <2>2. CASE u \in Units(s, x)
    <3>1. Le(B, u, z) <=> clockOf(u) <= clockOf(z)
      BY <1>1, <1>2, <1>9, <2>2
    <3>2. u \notin Ahead(s, l, j - 1)
      BY <1>1, <1>2, <2>2
    <3> QED BY <1>10, <2>2, <3>1, <3>2
  <2>3. CASE u \notin Ahead(s, l, j - 1) /\ u \notin Units(s, x)
    <3>1. u \notin Ahead(s, l, j)
      BY <1>1, <1>2, <2>3
    <3>2. u \notin Ids(x, d)
      BY <1>10, <2>3
    <3>3. ~Le(B, u, z)
      <4> SUFFICES ASSUME Le(B, u, z) PROVE FALSE
        OBVIOUS
      <4>1. u \in OptId /\ z \in OptId
        BY <1>11 DEF OptId, Field
      <4>2. u \in Field(B)
        BY <1>1, <4>1 DEF IsOrder
      <4> QED BY <1>1, <1>8, <1>11, <3>1, <4>2
    <3> QED BY <2>3, <3>2, <3>3
  <2> QED BY <2>1, <2>2, <2>3
<1>13. Till(r, t, x) = {u \in Id : Le(B, u, z)}
  BY <1>4, <1>7 DEF Till, B
<1>14. Ahead(s, l, j - 1) \cup Ids(x, d) \subseteq Id
  <2>1. Field(B) \subseteq Id
    BY DEF Field
  <2>2. \A u \in Ids(x, d) : u \in Ahead(s, l, j)
    BY <1>1, <1>2, <1>10
  <2> QED BY <1>1, <1>8, <2>1, <2>2
<1>15. Ids(x, d) \cap Ahead(s, l, j - 1) = {}
  BY <1>1, <1>2, <1>10
<1>16. Till(r, t, x) = Ahead(s, l, j - 1) \cup Ids(x, d)
  BY <1>12, <1>13, <1>14
<1> QED BY <1>10, <1>15, <1>16 DEF l

\* What is shown is listed.
LEMMA LiveListed ==
  ASSUME NEW s, Sound(s), NEW t \in Root
  PROVE  Live(s, t) \subseteq Field(Before(s, t))
BY FieldIs DEF Live
=============================================================================
