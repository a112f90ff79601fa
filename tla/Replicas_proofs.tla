-------------------------- MODULE Replicas_proofs --------------------------
(***************************************************************************)
(* Proofs about module Replicas and the codec of module Update, for any    *)
(* clients, root types and bounds.                                         *)
(*                                                                         *)
(* First the codec: nodes are joined into runs that spell the same units,  *)
(* a section read back counts the same clocks, and a whole state has the   *)
(* units and the tombstones of its store (WholeStateRead).                 *)
(*                                                                         *)
(* Then the replicas.  IInv says of each that its store is sound, counts   *)
(* what it shows, and knows only of units their authors made; that what    *)
(* it was told of is done or buffered; and that the network carries only   *)
(* such structs and spans.  Every step keeps it (NextHolds); agreement of  *)
(* the lists, deletions that land, nothing ready that waits, a stable      *)
(* order and the visible length follow from it.                            *)
(*                                                                         *)
(* Last the replicas together.  They are parts of one world of insertions  *)
(* (OneWorld): so units stand in one order everywhere, and replicas told   *)
(* of the same show the same.                                              *)
(***************************************************************************)
EXTENDS Replicas, Transaction_proofs

\* What a sequence of sequences makes, one after another.
Joins(A, ss, h) ==
  /\ ss \in Seq(Seq(A))
  /\ h \in [0 .. Len(ss) -> Seq(A)] /\ h[0] = <<>>
  /\ \A k \in 1 .. Len(ss) : h[k] = h[k - 1] \o ss[k]

\* FlattenSeq makes all of them.
LEMMA FlatIs ==
  ASSUME NEW A, NEW ss, NEW h, Joins(A, ss, h)
  PROVE  FlattenSeq(ss) = h[Len(ss)]
<1> DEFINE n == Len(ss)
           E(f) == f = [i \in 1 .. n |-> IF i = 1 THEN ss[i] ELSE f[i - 1] \o ss[i]]
           F == CHOOSE f : E(f)
           G == [i \in 1 .. n |-> h[i]]
<1>0. /\ ss \in Seq(Seq(A)) /\ n \in Nat /\ h \in [0 .. n -> Seq(A)] /\ h[0] = <<>>
      /\ \A k \in 1 .. n : ss[k] \in Seq(A) /\ h[k] = h[k - 1] \o ss[k]
  BY DEF Joins
<1>1. CASE n = 0
  <2>1. ss = <<>>
    BY <1>0, <1>1
  <2> QED BY <1>0, <1>1, <2>1 DEF FlattenSeq
<1>2. CASE n # 0
  <2> HIDE DEF n
  <2>1. \A i \in 1 .. n : i # 1 => i - 1 \in 1 .. n
    BY <1>0
  <2>2. 1 \in 1 .. n /\ 1 - 1 = 0 /\ n \in 1 .. n
    BY <1>0, <1>2
  <2>3. h[1] = ss[1]
    <3>1. <<>> \o ss[1] = ss[1]
      BY <1>0, <2>2
    <3> QED BY <1>0, <2>2, <3>1
  <2>4. E(G)
    <3>1. \A i \in 1 .. n : G[i] = IF i = 1 THEN ss[i] ELSE G[i - 1] \o ss[i]
      BY <1>0, <2>1, <2>3
    <3> QED BY <3>1
  <2>5. E(F)
    <3> HIDE DEF E, G
    <3> QED BY <2>4
  <2> HIDE DEF F, G
  <2>6. \A i \in 1 .. n : F[i] = IF i = 1 THEN ss[i] ELSE F[i - 1] \o ss[i]
    BY <2>5
  <2> DEFINE T == {k \in 0 .. n : k # 0 => F[k] = h[k]}
  <2>7. 0 \in T
    BY <1>0
  <2>8. \A k \in 0 .. n - 1 : k \in T => k + 1 \in T
    <3> TAKE k \in 0 .. n - 1
    <3> HAVE k \in T
    <3>1. k + 1 \in 1 .. n /\ (k + 1) - 1 = k /\ k + 1 \in 0 .. n
      BY <1>0
    <3>2. CASE k = 0
      BY <2>3, <2>6, <3>1, <3>2
    <3>3. CASE k # 0
      <4>1. k + 1 # 1 /\ F[k] = h[k]
        BY <3>3
      <4>2. F[k + 1] = F[(k + 1) - 1] \o ss[k + 1] /\ h[k + 1] = h[(k + 1) - 1] \o ss[k + 1]
        BY <1>0, <2>6, <3>1, <4>1
      <4> QED BY <3>1, <4>1, <4>2
    <3> QED BY <3>2, <3>3
  <2> HIDE DEF T
  <2>9. n \in T
    <3>1. n \in 0 .. n /\ n \in Nat
      BY <1>0
    <3> QED BY <2>7, <2>8, <3>1, UpTo
  <2>10. FlattenSeq(ss) = F[n]
    BY <1>2 DEF FlattenSeq, F, n
  <2> QED BY <1>2, <2>9, <2>10 DEF T, n
<1> QED BY <1>1, <1>2

\* Any sequence of sequences can be joined.
LEMMA FlatValues ==
  ASSUME NEW A, NEW ss \in Seq(Seq(A))
  PROVE  /\ \E h : Joins(A, ss, h)
         /\ FlattenSeq(ss) \in Seq(A)
<1> DEFINE n == Len(ss)
           g == [p \in Seq(A) \X (1 .. n) |-> p[1] \o ss[p[2]]]
<1>1. n \in Nat /\ \A k \in 1 .. n : ss[k] \in Seq(A)
  OBVIOUS
<1>2. \A a \in Seq(A), b \in Seq(A) : a \o b \in Seq(A)
  OBVIOUS
<1> HIDE DEF n
<1>3. g \in [Seq(A) \X (1 .. n) -> Seq(A)] /\ <<>> \in Seq(A)
  BY <1>1, <1>2
<1>4. \A a \in Seq(A), k \in 1 .. n : g[<<a, k>>] = a \o ss[k]
  OBVIOUS
<1> HIDE DEF g
<1>5. PICK h : Values(n, Seq(A), <<>>, g, h)
  BY <1>1, <1>3, ValuesExist
<1>6. /\ h \in [0 .. n -> Seq(A)] /\ h[0] = <<>>
      /\ \A k \in 0 .. n - 1 : h[k + 1] = g[<<h[k], k + 1>>]
  BY <1>5 DEF Values
<1>7. \A k \in 1 .. n : h[k] = h[k - 1] \o ss[k]
  <2> TAKE k \in 1 .. n
  <2>1. k - 1 \in 0 .. n - 1 /\ k - 1 \in 0 .. n /\ (k - 1) + 1 = k
    BY <1>1
  <2>2. h[(k - 1) + 1] = g[<<h[k - 1], (k - 1) + 1>>]
    BY <1>6, <2>1
  <2> QED BY <1>4, <1>6, <2>1, <2>2
<1>8. Joins(A, ss, h)
  BY <1>6, <1>7 DEF Joins, n
<1>9. n \in 0 .. n
  BY <1>1
<1> QED BY <1>6, <1>8, <1>9, FlatIs DEF n

\* One more sequence.
LEMMA FlatAppend ==
  ASSUME NEW A, NEW ss \in Seq(Seq(A)), NEW e \in Seq(A)
  PROVE  FlattenSeq(Append(ss, e)) = FlattenSeq(ss) \o e
<1> DEFINE n == Len(ss)
           es == Append(ss, e)
<1>1. PICK h : Joins(A, ss, h)
  BY FlatValues
<1>2. /\ n \in Nat /\ h \in [0 .. n -> Seq(A)] /\ h[0] = <<>>
      /\ \A k \in 1 .. n : h[k] = h[k - 1] \o ss[k]
  BY <1>1 DEF Joins
<1>3. es \in Seq(Seq(A)) /\ Len(es) = n + 1 /\ es[n + 1] = e /\ \A k \in 1 .. n : es[k] = ss[k]
  OBVIOUS
<1>9. FlattenSeq(ss) = h[n]
  BY <1>1, FlatIs
<1> HIDE DEF n, es
<1> DEFINE g == [k \in 0 .. n + 1 |-> IF k = n + 1 THEN h[n] \o e ELSE h[k]]
<1>4. h[n] \in Seq(A) /\ h[n] \o e \in Seq(A)
  <2>1. h[n] \in Seq(A)
    BY <1>2
  <2> QED BY <2>1
<1>5. g \in [0 .. n + 1 -> Seq(A)] /\ g[0] = <<>> /\ g[n + 1] = h[n] \o e
  <2>1. \A k \in 0 .. n + 1 : (IF k = n + 1 THEN h[n] \o e ELSE h[k]) \in Seq(A)
    <3> TAKE k \in 0 .. n + 1
    <3>1. k = n + 1 \/ k \in 0 .. n
      BY <1>2
    <3> QED BY <1>2, <1>4, <3>1
  <2>2. 0 \in 0 .. n + 1 /\ 0 # n + 1 /\ n + 1 \in 0 .. n + 1
    BY <1>2
  <2> QED BY <1>2, <2>1, <2>2
<1>6. \A k \in 1 .. n + 1 : g[k] = g[k - 1] \o es[k]
  <2> TAKE k \in 1 .. n + 1
  <2>1. CASE k = n + 1
    <3>1. k - 1 = n /\ n \in 0 .. n + 1 /\ n # n + 1
      BY <1>2, <2>1
    <3> QED BY <1>3, <1>5, <2>1, <3>1
  <2>2. CASE k # n + 1
    <3>1. k \in 1 .. n /\ k \in 0 .. n + 1 /\ k - 1 \in 0 .. n + 1 /\ k - 1 # n + 1
      BY <1>2, <2>2
    <3> QED BY <1>2, <1>3, <2>2, <3>1
  <2> QED BY <2>1, <2>2
<1> HIDE DEF g
<1>7. Joins(A, es, g)
  BY <1>3, <1>5, <1>6 DEF Joins
<1>8. FlattenSeq(es) = g[n + 1]
  BY <1>3, <1>7, FlatIs
<1> QED BY <1>5, <1>8, <1>9 DEF es

\* The elements are those of all.
LEMMA FlatSet ==
  ASSUME NEW A, NEW ss \in Seq(Seq(A))
  PROVE  ToSet(FlattenSeq(ss)) = UNION {ToSet(ss[i]) : i \in DOMAIN ss}
<1> DEFINE n == Len(ss)
<1>1. PICK h : Joins(A, ss, h)
  BY FlatValues
<1>2. /\ n \in Nat /\ h \in [0 .. n -> Seq(A)] /\ h[0] = <<>> /\ DOMAIN ss = 1 .. n
      /\ \A k \in 1 .. n : ss[k] \in Seq(A) /\ h[k] = h[k - 1] \o ss[k]
  BY <1>1 DEF Joins
<1>3. FlattenSeq(ss) = h[n]
  BY <1>1, FlatIs
<1> HIDE DEF n
<1> DEFINE T == {k \in 0 .. n : ToSet(h[k]) = UNION {ToSet(ss[i]) : i \in 1 .. k}}
<1>4. 0 \in T
  <2>1. 1 .. 0 = {} /\ ToSet(<<>>) = {}
    BY DEF ToSet
  <2> QED BY <1>2, <2>1
<1>5. \A k \in 0 .. n - 1 : k \in T => k + 1 \in T
  <2> TAKE k \in 0 .. n - 1
  <2> HAVE k \in T
  <2>1. k + 1 \in 1 .. n /\ (k + 1) - 1 = k /\ k + 1 \in 0 .. n /\ k \in 0 .. n
        /\ 1 .. k + 1 = 1 .. k \cup {k + 1}
    BY <1>2
  <2>2. h[k + 1] = h[k] \o ss[k + 1] /\ h[k] \in Seq(A) /\ ss[k + 1] \in Seq(A)
    BY <1>2, <2>1
  <2>3. ToSet(h[k + 1]) = ToSet(h[k]) \cup ToSet(ss[k + 1])
    BY <2>2, Concat
  <2> QED BY <2>1, <2>3
<1> HIDE DEF T
<1>6. n \in T
  <2>1. n \in 0 .. n /\ n \in Nat
    BY <1>2
  <2> QED BY <1>4, <1>5, <2>1, UpTo
<1> QED BY <1>2, <1>3, <1>6 DEF T

\* How long they are together depends on their lengths alone.
SameLengths(ss, ts) == Len(ss) = Len(ts) /\ \A i \in DOMAIN ss : Len(ss[i]) = Len(ts[i])

\* Sequences of sequences of the same lengths are as long when flattened.
LEMMA FlatLen ==
  ASSUME NEW A, NEW B, NEW ss \in Seq(Seq(A)), NEW ts \in Seq(Seq(B)), SameLengths(ss, ts)
  PROVE  Len(FlattenSeq(ss)) = Len(FlattenSeq(ts))
<1>0. Len(ss) = Len(ts) /\ \A i \in DOMAIN ss : Len(ss[i]) = Len(ts[i])
  BY DEF SameLengths
<1>1. PICK h : Joins(A, ss, h)
  BY FlatValues
<1>2. PICK g : Joins(B, ts, g)
  BY FlatValues
<1> DEFINE n == Len(ss)
<1>3. /\ n \in Nat /\ h \in [0 .. n -> Seq(A)] /\ h[0] = <<>> /\ DOMAIN ss = 1 .. n
      /\ \A k \in 1 .. n : ss[k] \in Seq(A) /\ h[k] = h[k - 1] \o ss[k]
      /\ FlattenSeq(ss) = h[n]
  <2> HIDE DEF n
  <2>1. n = Len(ss)
    BY DEF n
  <2>2. n \in Nat /\ DOMAIN ss = 1 .. n /\ FlattenSeq(ss) = h[n]
    BY <1>1, <2>1, FlatIs
  <2>3. \A k \in 1 .. n : ss[k] \in Seq(A)
    BY <2>1
  <2>4. h \in [0 .. n -> Seq(A)] /\ h[0] = <<>> /\ \A k \in 1 .. n : h[k] = h[k - 1] \o ss[k]
    BY <1>1, <2>1 DEF Joins
  <2> QED BY <2>2, <2>3, <2>4
<1>4. /\ g \in [0 .. n -> Seq(B)] /\ g[0] = <<>>
      /\ \A k \in 1 .. n : ts[k] \in Seq(B) /\ g[k] = g[k - 1] \o ts[k]
      /\ FlattenSeq(ts) = g[n]
  <2> HIDE DEF n
  <2>1. n = Len(ts)
    BY <1>0 DEF n
  <2>2. FlattenSeq(ts) = g[n]
    BY <1>2, <2>1, FlatIs
  <2>3. \A k \in 1 .. n : ts[k] \in Seq(B)
    BY <2>1
  <2>4. g \in [0 .. n -> Seq(B)] /\ g[0] = <<>> /\ \A k \in 1 .. n : g[k] = g[k - 1] \o ts[k]
    BY <1>2, <2>1 DEF Joins
  <2> QED BY <2>2, <2>3, <2>4
<1>5. FlattenSeq(ss) = h[n] /\ FlattenSeq(ts) = g[n]
  BY <1>3, <1>4
<1> HIDE DEF n
<1> DEFINE T == {k \in 0 .. n : Len(h[k]) = Len(g[k])}
<1>6. 0 \in T
  BY <1>3, <1>4
<1>7. \A k \in 0 .. n - 1 : k \in T => k + 1 \in T
  <2> TAKE k \in 0 .. n - 1
  <2> HAVE k \in T
  <2>1. k + 1 \in 1 .. n /\ (k + 1) - 1 = k /\ k + 1 \in 0 .. n /\ k \in 0 .. n
    BY <1>3
  <2>2. /\ h[k + 1] = h[k] \o ss[k + 1] /\ h[k] \in Seq(A) /\ ss[k + 1] \in Seq(A)
        /\ g[k + 1] = g[k] \o ts[k + 1] /\ g[k] \in Seq(B) /\ ts[k + 1] \in Seq(B)
        /\ Len(ss[k + 1]) = Len(ts[k + 1])
    BY <1>0, <1>3, <1>4, <2>1
  <2>3. /\ Len(h[k] \o ss[k + 1]) = Len(h[k]) + Len(ss[k + 1])
        /\ Len(g[k] \o ts[k + 1]) = Len(g[k]) + Len(ts[k + 1])
    <3>1. \A C : \A a \in Seq(C), b \in Seq(C) : Len(a \o b) = Len(a) + Len(b)
      OBVIOUS
    <3> QED BY <2>2, <3>1
  <2> QED BY <2>1, <2>2, <2>3
<1> HIDE DEF T
<1>8. n \in T
  <2>1. n \in 0 .. n /\ n \in Nat
    BY <1>3
  <2> QED BY <1>6, <1>7, <2>1, UpTo
<1> QED BY <1>5, <1>8 DEF T

\* A function along a sequence.
along(f, r) == [i \in DOMAIN r |-> f[r[i]]]

IsAlong(B, f, r, m) ==
  m \in Seq(B) /\ Len(m) = Len(r) /\ \A i \in 1 .. Len(r) : m[i] = f[r[i]]

\* It is a sequence as long; with one more element, it has one more value.
LEMMA Along ==
  ASSUME NEW X, NEW B, NEW f \in [X -> B], NEW r \in Seq(X)
  PROVE  IsAlong(B, f, r, along(f, r))
<1> DEFINE n == Len(r)
           m == along(f, r)
<1>1. n \in Nat /\ DOMAIN r = 1 .. n /\ \A i \in 1 .. n : f[r[i]] \in B
  OBVIOUS
<1> HIDE DEF n
<1>2. m \in [1 .. n -> B] /\ \A i \in 1 .. n : m[i] = f[r[i]]
  BY <1>1 DEF along
<1> HIDE DEF m
<1>3. m \in Seq(B) /\ Len(m) = n /\ DOMAIN m = 1 .. n
  BY <1>1, <1>2
<1> QED BY <1>1, <1>2, <1>3 DEF m, n, IsAlong

\* One more element gives one more value.
LEMMA AlongAppend ==
  ASSUME NEW X, NEW B, NEW f \in [X -> B], NEW r \in Seq(X), NEW x \in X
  PROVE  along(f, Append(r, x)) = Append(along(f, r), f[x])
<1> DEFINE n == Len(r)
           q == Append(r, x)
           m == along(f, r)
           w == along(f, q)
           a == Append(m, f[x])
<1>1. /\ n \in Nat /\ q \in Seq(X) /\ f[x] \in B
      /\ Len(q) = n + 1 /\ q[n + 1] = x /\ \A i \in 1 .. n : q[i] = r[i]
  OBVIOUS
<1> HIDE DEF q
<1>2. IsAlong(B, f, r, m)
  BY Along
<1>3. IsAlong(B, f, q, w)
  BY <1>1, Along
<1> HIDE DEF m, w
<1>4. m \in Seq(B) /\ Len(m) = n /\ \A i \in 1 .. n : m[i] = f[r[i]]
  BY <1>2 DEF IsAlong
<1>5. w \in Seq(B) /\ Len(w) = n + 1 /\ \A i \in 1 .. n + 1 : w[i] = f[q[i]]
  BY <1>1, <1>3 DEF IsAlong
<1> HIDE DEF n
<1>6. /\ a \in Seq(B) /\ Len(a) = n + 1 /\ a[n + 1] = f[x] /\ \A i \in 1 .. n : a[i] = m[i]
  BY <1>1, <1>4
<1> HIDE DEF a
<1>7. \A i \in 1 .. n + 1 : i \in 1 .. n \/ i = n + 1
  BY <1>1
<1>8. \A i \in 1 .. n + 1 : w[i] = a[i]
  BY <1>1, <1>4, <1>5, <1>6, <1>7
<1>9. w = a
  BY <1>1, <1>5, <1>6, <1>8
<1> QED BY <1>9 DEF w, a, m, q

\* What a sequence spells, its elements spelling sequences.
Spell(f, run) == FlattenSeq(along(f, run))
Spells(X, Y, f) ==
  /\ f \in [X -> Seq(Y)] /\ Spell(f, <<>>) = <<>>
  /\ \A r \in Seq(X) : Spell(f, r) \in Seq(Y)
  /\ \A r \in Seq(X), x \in X : Spell(f, Append(r, x)) = Spell(f, r) \o f[x]

\* What a sequence with one more element spells.
LEMMA SpellAppend ==
  ASSUME NEW X, NEW Y, NEW f \in [X -> Seq(Y)]
  PROVE  Spells(X, Y, f)
<1>1. Spell(f, <<>>) = <<>>
  <2>1. along(f, <<>>) = <<>>
    BY DEF along
  <2>2. FlattenSeq(<<>>) = <<>>
    BY DEF FlattenSeq
  <2> QED BY <2>1, <2>2 DEF Spell
<1>2. ASSUME NEW r \in Seq(X)
      PROVE  along(f, r) \in Seq(Seq(Y))
  <2>1. IsAlong(Seq(Y), f, r, along(f, r))
    BY Along
  <2> QED BY <2>1 DEF IsAlong
<1>3. ASSUME NEW r \in Seq(X), NEW x \in X
      PROVE  Spell(f, Append(r, x)) = Spell(f, r) \o f[x]
  <2> DEFINE m == along(f, r)
  <2>1. m \in Seq(Seq(Y)) /\ f[x] \in Seq(Y)
    BY <1>2
  <2>2. along(f, Append(r, x)) = Append(m, f[x])
    BY AlongAppend
  <2>3. FlattenSeq(Append(m, f[x])) = FlattenSeq(m) \o f[x]
    <3> HIDE DEF m
    <3> QED BY <2>1, FlatAppend
  <2> QED BY <2>2, <2>3 DEF Spell
<1>4. \A r \in Seq(X) : Spell(f, r) \in Seq(Y)
  BY <1>2, FlatValues DEF Spell
<1> QED BY <1>1, <1>3, <1>4 DEF Spells

\* x begins a run of its own, or goes to the end of the last.
Groups(r, x, q) ==
  \/ q = Append(r, <<x>>)
  \/ r # <<>> /\ q = Append(Front(r), Append(Last(r), x))

\* A sequence is its front and its last element.
LEMMA FrontLast ==
  ASSUME NEW A, NEW r \in Seq(A), r # <<>>
  PROVE  Front(r) \in Seq(A) /\ Last(r) \in A /\ r = Append(Front(r), Last(r))
<1>1. Len(r) \in Nat \ {0}
  OBVIOUS
<1> DEFINE a == Front(r)
           b == Append(a, Last(r))
           n == Len(r)
<1>2. a \in Seq(A) /\ Len(a) = n - 1 /\ \A i \in 1 .. n - 1 : a[i] = r[i]
  <2>1. a = SubSeq(r, 1, n - 1)
    BY DEF Front
  <2> HIDE DEF a
  <2>2. \A k \in 0 .. n : /\ SubSeq(r, 1, k) \in Seq(A) /\ Len(SubSeq(r, 1, k)) = k
                          /\ \A i \in 1 .. k : SubSeq(r, 1, k)[i] = r[i]
    OBVIOUS
  <2>3. n - 1 \in 0 .. n
    BY <1>1
  <2> QED BY <2>1, <2>2, <2>3
<1>3. Last(r) = r[n] /\ r[n] \in A
  BY <1>1 DEF Last
<1> HIDE DEF a
<1>4. b \in Seq(A) /\ Len(b) = n /\ \A i \in 1 .. n : b[i] = r[i]
  BY <1>1, <1>2, <1>3
<1> HIDE DEF b
<1>5. b = r
  BY <1>4
<1> QED BY <1>2, <1>3, <1>5 DEF a, b

\* The runs of elements of X, and what each of them spells.
Run(X) == Seq(X) \ {<<>>}
spelled(X, f) == [run \in Seq(X) |-> Spell(f, run)]

\* Joined, the runs are the sequence; they spell what it spells.
Grouped(X, f, r, x, q) ==
  /\ q \in Seq(Run(X))
  /\ FlattenSeq(q) = Append(FlattenSeq(r), x)
  /\ Spell(spelled(X, f), q) = Spell(spelled(X, f), r) \o f[x]

\* One more node joins the last run or begins one of its own: the runs stay
\* non-empty, and what they spell grows by what it spells.
LEMMA GroupsOne ==
  ASSUME NEW X, NEW Y, NEW f \in [X -> Seq(Y)],
         NEW r \in Seq(Run(X)), NEW x \in X, NEW q, Groups(r, x, q)
  PROVE  Grouped(X, f, r, x, q)
<1> DEFINE R == Run(X)
           sp == spelled(X, f)
           S(a) == Spell(sp, a)
<1>1. Spells(X, Y, f)
  BY SpellAppend
<1>2. sp \in [Seq(X) -> Seq(Y)] /\ \A e \in Seq(X) : sp[e] = Spell(f, e)
  BY <1>1 DEF spelled, Spells
<1>3. Spells(Seq(X), Y, sp)
  <2> HIDE DEF sp
  <2> QED BY <1>2, SpellAppend
<1>4. R \subseteq Seq(X) /\ <<>> \notin R
  BY DEF Run
<1>5. \A a \in Seq(R) : a \in Seq(Seq(X))
  <2> HIDE DEF R
  <2>1. \A A, B : A \subseteq B => Seq(A) \subseteq Seq(B)
    OBVIOUS
  <2> QED BY <1>4, <2>1
<1>6. \A e \in Seq(X) : Append(e, x) \in R
  <2> TAKE e \in Seq(X)
  <2>1. Append(e, x) \in Seq(X)
    OBVIOUS
  <2>2. Append(e, x) # <<>>
    <3> DEFINE w == Append(e, x)
    <3>1. w \in Seq(X) /\ Len(w) = Len(e) + 1 /\ Len(e) \in Nat
      OBVIOUS
    <3> HIDE DEF w
    <3>2. w # <<>>
      BY <3>1
    <3> QED BY <3>2 DEF w
  <2> QED BY <2>1, <2>2 DEF Run
<1>7. <<x>> = Append(<<>>, x) /\ <<>> \in Seq(X) /\ f[x] \in Seq(Y)
  OBVIOUS
<1>8. <<x>> \in R /\ sp[<<x>>] = f[x]
  <2>1. <<x>> \in R /\ <<x>> \in Seq(X)
    BY <1>4, <1>6, <1>7
  <2>2. Spell(f, <<x>>) = <<>> \o f[x]
    BY <1>1, <1>7 DEF Spells
  <2>3. \A b \in Seq(Y) : <<>> \o b = b
    OBVIOUS
  <2> QED BY <1>2, <1>7, <2>1, <2>2, <2>3
<1>9. r \in Seq(R)
  OBVIOUS
<1> HIDE DEF R, sp
<1>10. \A a \in Seq(R), e \in R :
         /\ Append(a, e) \in Seq(R) /\ S(Append(a, e)) = S(a) \o sp[e]
         /\ FlattenSeq(Append(a, e)) = FlattenSeq(a) \o e
         /\ S(a) \in Seq(Y) /\ FlattenSeq(a) \in Seq(X)
  <2> TAKE a \in Seq(R), e \in R
  <2>1. Append(a, e) \in Seq(R) /\ a \in Seq(Seq(X)) /\ e \in Seq(X)
    <3>1. \A A : \A u \in Seq(A), v \in A : Append(u, v) \in Seq(A)
      OBVIOUS
    <3> QED BY <1>4, <1>5, <3>1
  <2>2. S(Append(a, e)) = S(a) \o sp[e] /\ S(a) \in Seq(Y)
    BY <1>3, <2>1 DEF Spells
  <2>3. FlattenSeq(Append(a, e)) = FlattenSeq(a) \o e /\ FlattenSeq(a) \in Seq(X)
    BY <2>1, FlatAppend, FlatValues
  <2> QED BY <2>1, <2>2, <2>3
<1> HIDE DEF S
<1>11. \A a \in Seq(X) : a \o <<x>> = Append(a, x)
  OBVIOUS
<1>12. q \in Seq(R) /\ FlattenSeq(q) = Append(FlattenSeq(r), x) /\ S(q) = S(r) \o f[x]
  <2>1. CASE q = Append(r, <<x>>)
    BY <1>8, <1>9, <1>10, <1>11, <2>1
  <2>2. CASE r # <<>> /\ q = Append(Front(r), Append(Last(r), x))
    <3> DEFINE a == Front(r)
               e == Last(r)
               d == Append(e, x)
    <3>1. a \in Seq(R) /\ e \in R /\ r = Append(a, e)
      BY <1>9, <2>2, FrontLast
    <3>2. q = Append(a, d)
      BY <2>2
    <3> HIDE DEF a, e
    <3>3. e \in Seq(X) /\ d \in R /\ d \in Seq(X)
      BY <1>4, <1>6, <3>1
    <3>4. d = e \o <<x>>
      BY <1>11, <3>3
    <3>5. sp[d] = sp[e] \o f[x]
      BY <1>1, <1>2, <3>3 DEF Spells
    <3> HIDE DEF d
    <3>6. /\ q \in Seq(R) /\ S(q) = S(a) \o sp[d] /\ S(r) = S(a) \o sp[e]
          /\ FlattenSeq(q) = FlattenSeq(a) \o d /\ FlattenSeq(r) = FlattenSeq(a) \o e
          /\ S(a) \in Seq(Y) /\ FlattenSeq(a) \in Seq(X)
      BY <1>10, <3>1, <3>2, <3>3
    <3>8. sp[e] \in Seq(Y) /\ <<x>> \in Seq(X)
      BY <1>2, <1>4, <1>8, <3>3
    <3>9. S(q) = S(r) \o f[x]
      <4> DEFINE u == S(a)
                 v == sp[e]
                 w == f[x]
      <4>1. u \in Seq(Y) /\ v \in Seq(Y) /\ w \in Seq(Y)
        BY <1>7, <3>6, <3>8
      <4> HIDE DEF u, v, w
      <4>2. (u \o v) \o w = u \o (v \o w)
        BY <4>1, SMTT(20)
      <4> QED BY <3>5, <3>6, <4>2 DEF u, v, w
    <3>10. FlattenSeq(q) = (FlattenSeq(a) \o e) \o <<x>>
      <4> DEFINE u == FlattenSeq(a)
                 w == <<x>>
      <4>1. u \in Seq(X) /\ e \in Seq(X) /\ w \in Seq(X)
        BY <3>3, <3>6, <3>8
      <4> HIDE DEF u, w
      <4>2. (u \o e) \o w = u \o (e \o w)
        BY <4>1, SMTT(20)
      <4> QED BY <3>4, <3>6, <4>2 DEF u, w
    <3>11. FlattenSeq(r) \in Seq(X)
      BY <1>9, <1>10, <3>1
    <3> QED BY <1>11, <3>6, <3>9, <3>10, <3>11
  <2> QED BY <2>1, <2>2 DEF Groups
<1> QED BY <1>12 DEF Grouped, R, S, sp

\* The runs after each element of a sequence.
Grouping(X, seq, h) ==
  /\ seq \in Seq(X) /\ h \in [0 .. Len(seq) -> Seq(Run(X))] /\ h[0] = <<>>
  /\ \A k \in 0 .. Len(seq) - 1 : Groups(h[k], seq[k + 1], h[k + 1])

\* Joined, they are the sequence, and they spell what it spells.
LEMMA GroupsAll ==
  ASSUME NEW X, NEW Y, NEW f \in [X -> Seq(Y)], NEW seq, NEW h, Grouping(X, seq, h)
  PROVE  /\ FlattenSeq(h[Len(seq)]) = seq
         /\ Spell(spelled(X, f), h[Len(seq)]) = Spell(f, seq)
<1> DEFINE n == Len(seq)
           S(k) == Spell(spelled(X, f), h[k])
           pre(k) == SubSeq(seq, 1, k)
<1>1. /\ seq \in Seq(X) /\ n \in Nat /\ h \in [0 .. n -> Seq(Run(X))] /\ h[0] = <<>>
      /\ \A k \in 0 .. n - 1 : Groups(h[k], seq[k + 1], h[k + 1])
  BY DEF Grouping
<1>2. pre(0) = <<>> /\ pre(n) = seq
  BY <1>1
<1>3. \A k \in 0 .. n - 1 : pre(k) \in Seq(X) /\ seq[k + 1] \in X /\ pre(k + 1) = Append(pre(k), seq[k + 1])
  <2> TAKE k \in 0 .. n - 1
  <2>1. k \in Nat /\ k < Len(seq)
    BY <1>1
  <2> QED BY <1>1, <2>1, SubSeqGrows
<1>4. Spells(X, Y, f)
  BY SpellAppend
<1>5. Spell(spelled(X, f), <<>>) = <<>> /\ FlattenSeq(<<>>) = <<>>
  <2>1. along(spelled(X, f), <<>>) = <<>>
    BY DEF along
  <2>2. FlattenSeq(<<>>) = <<>>
    BY DEF FlattenSeq
  <2> QED BY <2>1, <2>2 DEF Spell
<1> HIDE DEF pre, n
<1> DEFINE T == {k \in 0 .. n : FlattenSeq(h[k]) = pre(k) /\ S(k) = Spell(f, pre(k))}
<1>6. 0 \in T
  BY <1>1, <1>2, <1>4, <1>5 DEF Spells
<1>7. \A k \in 0 .. n - 1 : k \in T => k + 1 \in T
  <2> TAKE k \in 0 .. n - 1
  <2> HAVE k \in T
  <2>1. k \in 0 .. n /\ k + 1 \in 0 .. n
    BY <1>1
  <2>2. Grouped(X, f, h[k], seq[k + 1], h[k + 1])
    BY <1>1, <1>3, <2>1, GroupsOne
  <2>3. /\ FlattenSeq(h[k + 1]) = Append(FlattenSeq(h[k]), seq[k + 1])
        /\ S(k + 1) = S(k) \o f[seq[k + 1]]
    BY <2>2 DEF Grouped
  <2>4. Spell(f, pre(k + 1)) = Spell(f, pre(k)) \o f[seq[k + 1]]
    BY <1>3, <1>4 DEF Spells
  <2> QED BY <1>3, <2>1, <2>3, <2>4
<1> HIDE DEF T
<1>8. n \in T
  <2>1. n \in 0 .. n /\ n \in Nat
    BY <1>1
  <2> QED BY <1>6, <1>7, <2>1, UpTo
<1> QED BY <1>2, <1>8 DEF T, n, S

\* One node of joinRuns, and one unit of codePoints.
joinOne(s, runs, x) ==
  IF runs # <<>> /\ joinable(s, Last(Last(runs)), x)
    THEN Append(Front(runs), Append(Last(runs), x))
  ELSE Append(runs, <<x>>)

pointOne(points, x) ==
  IF /\ points # <<>> /\ clockOf(x) \in LowClocks
     /\ Len(Last(points)) = 1 /\ clockOf(Last(points)[1]) \in HighClocks
    THEN Append(Front(points), Append(Last(points), x))
  ELSE Append(points, <<x>>)

Joining(s, X, nodes, h) ==
  /\ Grouping(X, nodes, h) /\ joinRuns(s, nodes) = h[Len(nodes)]
  /\ \A k \in 0 .. Len(nodes) - 1 : h[k + 1] = joinOne(s, h[k], nodes[k + 1])

\* joinRuns groups the nodes.
LEMMA RunsGroup ==
  ASSUME NEW s, NEW X, NEW nodes \in Seq(X)
  PROVE  \E h : Joining(s, X, nodes, h)
<1> DEFINE n == Len(nodes)
           E(F) == F = [S \in SUBSET DOMAIN nodes |->
                          IF S = {} THEN <<>> ELSE joinOne(s, F[S \ {Max(S)}], nodes[Max(S)])]
           A == Seq(Run(X))
           g == [p \in A \X (1 .. n) |-> joinOne(s, p[1], nodes[p[2]])]
           fold == CHOOSE F : E(F)
           done == fold[DOMAIN nodes]
<1>1. joinRuns(s, nodes) = done
  BY DEF joinRuns, FoldLeft, MapThenFoldSet, joinOne
<1>2. n \in Nat /\ DOMAIN nodes = 1 .. n /\ \A k \in 1 .. n : nodes[k] \in X
  OBVIOUS
<1>3. <<>> \in A
  OBVIOUS
<1>4. ASSUME NEW a \in A, NEW x \in X
      PROVE  joinOne(s, a, x) \in A /\ Groups(a, x, joinOne(s, a, x))
  <2>1. Groups(a, x, joinOne(s, a, x))
    <3>1. CASE a # <<>> /\ joinable(s, Last(Last(a)), x)
      <4>1. joinOne(s, a, x) = Append(Front(a), Append(Last(a), x))
        BY <3>1, Zenon DEF joinOne
      <4> QED BY <3>1, <4>1, Zenon DEF Groups
    <3>2. CASE ~ (a # <<>> /\ joinable(s, Last(Last(a)), x))
      <4>1. joinOne(s, a, x) = Append(a, <<x>>)
        BY <3>2, Zenon DEF joinOne
      <4> QED BY <4>1, Zenon DEF Groups
    <3> QED BY <3>1, <3>2
  <2> DEFINE f == [y \in X |-> <<>>]
  <2>2. f \in [X -> Seq({})]
    OBVIOUS
  <2>3. Grouped(X, f, a, x, joinOne(s, a, x))
    <3> HIDE DEF f
    <3> QED BY <2>1, <2>2, GroupsOne
  <2> QED BY <2>1, <2>3 DEF Grouped
<1> HIDE DEF A, n, done, fold
<1>6. g \in [A \X (1 .. n) -> A]
  BY <1>2, <1>4
<1>7. \A a \in A, k \in 1 .. n : g[<<a, k>>] = joinOne(s, a, nodes[k])
  OBVIOUS
<1> HIDE DEF g
<1>8. \E F : E(F)
  <2>1. PICK F \in [SUBSET (1 .. n) -> A] : FoldsBy(n, <<>>, g, F)
    BY <1>2, <1>3, <1>6, FoldExists
  <2>2. \A S \in SUBSET (1 .. n) : S # {} => Max(S) \in 1 .. n /\ F[S \ {Max(S)}] \in A
    BY <1>2, <2>1, MaxIn
  <2>3. \A S \in SUBSET (1 .. n) :
          F[S] = IF S = {} THEN <<>> ELSE joinOne(s, F[S \ {Max(S)}], nodes[Max(S)])
    BY <2>1, <2>2, <1>7 DEF FoldsBy
  <2>4. F = [S \in SUBSET DOMAIN nodes |->
               IF S = {} THEN <<>> ELSE joinOne(s, F[S \ {Max(S)}], nodes[Max(S)])]
    BY <2>1, <2>3, <1>2
  <2> QED BY <2>4
<1>9. E(fold)
  BY <1>8 DEF fold
<1>10. FoldsIn(n, A, <<>>, g, fold)
  <2>1. \A S \in SUBSET (1 .. n) : S # {} => Max(S) \in 1 .. n
    BY <1>2, MaxIn
  <2>2. {} \in SUBSET (1 .. n)
    OBVIOUS
  <2>3. fold = [S \in SUBSET (1 .. n) |->
               IF S = {} THEN <<>> ELSE joinOne(s, fold[S \ {Max(S)}], nodes[Max(S)])]
    BY <1>2, <1>9
  <2>4. fold[{}] = <<>>
    BY <2>2, <2>3
  <2>5. ASSUME NEW S \in SUBSET (1 .. n), S # {}, fold[S \ {Max(S)}] \in A
        PROVE  fold[S] = g[<<fold[S \ {Max(S)}], Max(S)>>]
    <3>1. fold[S] = joinOne(s, fold[S \ {Max(S)}], nodes[Max(S)])
      BY <2>3, <2>5
    <3> QED BY <1>7, <2>1, <2>5, <3>1
  <2> QED BY <2>4, <2>5, <1>2, <1>3, <1>6 DEF FoldsIn
<1>11. PICK h : Values(n, A, <<>>, g, h) /\ h[n] = fold[1 .. n]
  BY <1>10, FoldValues
<1>12. /\ h \in [0 .. n -> A] /\ h[0] = <<>>
       /\ \A k \in 0 .. n - 1 : h[k + 1] = g[<<h[k], k + 1>>]
  BY <1>11 DEF Values
<1>13. \A k \in 0 .. n - 1 : /\ Groups(h[k], nodes[k + 1], h[k + 1])
                             /\ h[k + 1] = joinOne(s, h[k], nodes[k + 1])
  <2> TAKE k \in 0 .. n - 1
  <2>1. k \in 0 .. n /\ k + 1 \in 1 .. n /\ h[k] \in A /\ h[k + 1] = g[<<h[k], k + 1>>]
    BY <1>2, <1>12
  <2>2. h[k + 1] = joinOne(s, h[k], nodes[k + 1])
    BY <1>7, <2>1
  <2> QED BY <1>2, <1>4, <2>1, <2>2
<1>14. done = h[n]
  BY <1>2, <1>11 DEF done
<1>15. Grouping(X, nodes, h)
  BY <1>12, <1>13 DEF Grouping, A, n
<1> QED BY <1>1, <1>13, <1>14, <1>15 DEF Joining, n

\* codePoints groups the units.
LEMMA PointsGroup ==
  ASSUME NEW X, NEW units \in Seq(X)
  PROVE  \E h : Grouping(X, units, h) /\ codePoints(units) = h[Len(units)]
<1> DEFINE n == Len(units)
           E(F) == F = [S \in SUBSET DOMAIN units |->
                          IF S = {} THEN <<>> ELSE pointOne(F[S \ {Max(S)}], units[Max(S)])]
           A == Seq(Run(X))
           g == [p \in A \X (1 .. n) |-> pointOne(p[1], units[p[2]])]
           fold == CHOOSE F : E(F)
           done == fold[DOMAIN units]
<1>1. codePoints(units) = done
  BY DEF codePoints, FoldLeft, MapThenFoldSet, pointOne
<1>2. n \in Nat /\ DOMAIN units = 1 .. n /\ \A k \in 1 .. n : units[k] \in X
  OBVIOUS
<1>3. <<>> \in A
  OBVIOUS
<1>4. ASSUME NEW a \in A, NEW x \in X
      PROVE  pointOne(a, x) \in A /\ Groups(a, x, pointOne(a, x))
  <2>1. Groups(a, x, pointOne(a, x))
    <3>1. CASE /\ a # <<>> /\ clockOf(x) \in LowClocks
                /\ Len(Last(a)) = 1 /\ clockOf(Last(a)[1]) \in HighClocks
      <4>1. pointOne(a, x) = Append(Front(a), Append(Last(a), x))
        BY <3>1, Zenon DEF pointOne
      <4> QED BY <3>1, <4>1, Zenon DEF Groups
    <3>2. CASE ~ (/\ a # <<>> /\ clockOf(x) \in LowClocks
                  /\ Len(Last(a)) = 1 /\ clockOf(Last(a)[1]) \in HighClocks)
      <4>1. pointOne(a, x) = Append(a, <<x>>)
        BY <3>2, Zenon DEF pointOne
      <4> QED BY <4>1, Zenon DEF Groups
    <3> QED BY <3>1, <3>2
  <2> DEFINE f == [y \in X |-> <<>>]
  <2>2. f \in [X -> Seq({})]
    OBVIOUS
  <2>3. Grouped(X, f, a, x, pointOne(a, x))
    <3> HIDE DEF f
    <3> QED BY <2>1, <2>2, GroupsOne
  <2> QED BY <2>1, <2>3 DEF Grouped
<1> HIDE DEF A, n, done, fold
<1>6. g \in [A \X (1 .. n) -> A]
  BY <1>2, <1>4
<1>7. \A a \in A, k \in 1 .. n : g[<<a, k>>] = pointOne(a, units[k])
  OBVIOUS
<1> HIDE DEF g
<1>8. \E F : E(F)
  <2>1. PICK F \in [SUBSET (1 .. n) -> A] : FoldsBy(n, <<>>, g, F)
    BY <1>2, <1>3, <1>6, FoldExists
  <2>2. \A S \in SUBSET (1 .. n) : S # {} => Max(S) \in 1 .. n /\ F[S \ {Max(S)}] \in A
    BY <1>2, <2>1, MaxIn
  <2>3. \A S \in SUBSET (1 .. n) :
          F[S] = IF S = {} THEN <<>> ELSE pointOne(F[S \ {Max(S)}], units[Max(S)])
    BY <2>1, <2>2, <1>7 DEF FoldsBy
  <2>4. F = [S \in SUBSET DOMAIN units |->
               IF S = {} THEN <<>> ELSE pointOne(F[S \ {Max(S)}], units[Max(S)])]
    BY <2>1, <2>3, <1>2
  <2> QED BY <2>4
<1>9. E(fold)
  BY <1>8 DEF fold
<1>10. FoldsIn(n, A, <<>>, g, fold)
  <2>1. \A S \in SUBSET (1 .. n) : S # {} => Max(S) \in 1 .. n
    BY <1>2, MaxIn
  <2>2. {} \in SUBSET (1 .. n)
    OBVIOUS
  <2>3. fold = [S \in SUBSET (1 .. n) |->
               IF S = {} THEN <<>> ELSE pointOne(fold[S \ {Max(S)}], units[Max(S)])]
    BY <1>2, <1>9
  <2>4. fold[{}] = <<>>
    BY <2>2, <2>3
  <2>5. ASSUME NEW S \in SUBSET (1 .. n), S # {}, fold[S \ {Max(S)}] \in A
        PROVE  fold[S] = g[<<fold[S \ {Max(S)}], Max(S)>>]
    <3>1. fold[S] = pointOne(fold[S \ {Max(S)}], units[Max(S)])
      BY <2>3, <2>5
    <3> QED BY <1>7, <2>1, <2>5, <3>1
  <2> QED BY <2>4, <2>5, <1>2, <1>3, <1>6 DEF FoldsIn
<1>11. PICK h : Values(n, A, <<>>, g, h) /\ h[n] = fold[1 .. n]
  BY <1>10, FoldValues
<1>12. /\ h \in [0 .. n -> A] /\ h[0] = <<>>
       /\ \A k \in 0 .. n - 1 : h[k + 1] = g[<<h[k], k + 1>>]
  BY <1>11 DEF Values
<1>13. \A k \in 0 .. n - 1 : Groups(h[k], units[k + 1], h[k + 1])
  <2> TAKE k \in 0 .. n - 1
  <2>1. k \in 0 .. n /\ k + 1 \in 1 .. n /\ h[k] \in A /\ h[k + 1] = g[<<h[k], k + 1>>]
    BY <1>2, <1>12
  <2>2. h[k + 1] = pointOne(h[k], units[k + 1])
    BY <1>7, <2>1
  <2> QED BY <1>2, <1>4, <2>1, <2>2
<1>14. done = h[n]
  BY <1>2, <1>11 DEF done
<1> QED BY <1>1, <1>12, <1>13, <1>14 DEF Grouping, A, n

\* How long what a sequence spells is after each of its elements.
Lengths(f, seq, h) ==
  /\ h \in [0 .. Len(seq) -> Nat] /\ h[0] = 0
  /\ \A k \in 1 .. Len(seq) : h[k] = h[k - 1] + Len(f[seq[k]])

\* There are such lengths, and the last is that of all.
LEMMA LengthsAre ==
  ASSUME NEW X, NEW Y, NEW f \in [X -> Seq(Y)], NEW seq \in Seq(X)
  PROVE  /\ \E h : Lengths(f, seq, h)
         /\ \A h : Lengths(f, seq, h) => h[Len(seq)] = Len(Spell(f, seq))
<1> DEFINE n == Len(seq)
           ss == along(f, seq)
<1>1. IsAlong(Seq(Y), f, seq, ss)
  BY Along
<1> HIDE DEF ss
<1>2. ss \in Seq(Seq(Y)) /\ Len(ss) = n /\ \A i \in 1 .. n : ss[i] = f[seq[i]]
  BY <1>1 DEF IsAlong
<1>3. n \in Nat /\ \A i \in 1 .. n : f[seq[i]] \in Seq(Y)
  OBVIOUS
<1>4. PICK J : Joins(Y, ss, J)
  BY <1>2, FlatValues
<1>5. Spell(f, seq) = J[n]
  BY <1>2, <1>4, FlatIs DEF Spell, ss
<1> HIDE DEF n
<1>6. /\ J \in [0 .. n -> Seq(Y)] /\ J[0] = <<>>
      /\ \A k \in 1 .. n : J[k] = J[k - 1] \o f[seq[k]]
  BY <1>2, <1>4 DEF Joins
<1> DEFINE g == [k \in 0 .. n |-> Len(J[k])]
<1>7. g \in [0 .. n -> Nat] /\ g[0] = 0
  <2>1. \A k \in 0 .. n : Len(J[k]) \in Nat
    <3> TAKE k \in 0 .. n
    <3>1. J[k] \in Seq(Y)
      BY <1>6
    <3> QED BY <3>1
  <2> QED BY <1>3, <1>6, <2>1
<1>8. \A k \in 1 .. n : g[k] = g[k - 1] + Len(f[seq[k]])
  <2> TAKE k \in 1 .. n
  <2>1. k - 1 \in 0 .. n /\ k \in 0 .. n
    BY <1>3
  <2>2. J[k] = J[k - 1] \o f[seq[k]] /\ J[k - 1] \in Seq(Y) /\ f[seq[k]] \in Seq(Y)
    BY <1>3, <1>6, <2>1
  <2>3. \A a \in Seq(Y), b \in Seq(Y) : Len(a \o b) = Len(a) + Len(b)
    OBVIOUS
  <2>4. Len(J[k - 1] \o f[seq[k]]) = Len(J[k - 1]) + Len(f[seq[k]])
    BY <2>2, <2>3
  <2> QED BY <2>1, <2>2, <2>4
<1>9. g[n] = Len(Spell(f, seq))
  BY <1>3, <1>5
<1> HIDE DEF g
<1>10. Lengths(f, seq, g)
  BY <1>7, <1>8 DEF Lengths, n
<1>11. ASSUME NEW h, Lengths(f, seq, h)
       PROVE  h[n] = g[n]
  <2>1. /\ h \in [0 .. n -> Nat] /\ h[0] = 0
        /\ \A k \in 1 .. n : h[k] = h[k - 1] + Len(f[seq[k]])
    BY <1>11 DEF Lengths, n
  <2> DEFINE T == {k \in 0 .. n : h[k] = g[k]}
  <2>2. 0 \in T
    BY <1>3, <1>7, <2>1
  <2>3. \A k \in 0 .. n - 1 : k \in T => k + 1 \in T
    <3> TAKE k \in 0 .. n - 1
    <3> HAVE k \in T
    <3>1. k + 1 \in 1 .. n /\ (k + 1) - 1 = k /\ k + 1 \in 0 .. n /\ h[k] = g[k]
      BY <1>3
    <3>2. h[k + 1] = h[(k + 1) - 1] + Len(f[seq[k + 1]]) /\ g[k + 1] = g[(k + 1) - 1] + Len(f[seq[k + 1]])
      BY <1>8, <2>1, <3>1
    <3> QED BY <3>1, <3>2
  <2> HIDE DEF T
  <2>4. n \in T
    <3>1. n \in 0 .. n /\ n \in Nat
      BY <1>3
    <3> QED BY <2>2, <2>3, <3>1, UpTo
  <2> QED BY <2>4 DEF T
<1> QED BY <1>9, <1>10, <1>11 DEF n

\* The bytes of a string hold as many units as it has, a half on its own as well.
LEMMA WireLength ==
  ASSUME NEW units \in Seq(Id)
  PROVE  Len(decodeWireString(encodeWireString(units))) = Len(units)
<1> DEFINE ps == codePoints(units)
           ws == encodeWireString(units)
           B == Id \cup {Nil}
<1>1. PICK h : Grouping(Id, units, h) /\ ps = h[Len(units)]
  BY PointsGroup
<1> DEFINE f == [x \in Id |-> <<>>]
<1>2. f \in [Id -> Seq({})]
  OBVIOUS
<1>3. FlattenSeq(ps) = units
  <2> HIDE DEF f, ps
  <2> QED BY <1>1, <1>2, GroupsAll
<1>4. ps \in Seq(Run(Id))
  <2> HIDE DEF ps
  <2>1. h \in [0 .. Len(units) -> Seq(Run(Id))] /\ Len(units) \in 0 .. Len(units)
    BY <1>1 DEF Grouping
  <2> QED BY <1>1, <2>1
<1>5. ws = [i \in DOMAIN ps |-> IF lone(ps[i]) THEN <<Nil>> ELSE ps[i]]
  BY DEF encodeWireString
<1> HIDE DEF ps, ws
<1>6. \A i \in DOMAIN ps : ps[i] \in Seq(Id)
  BY <1>4 DEF Run
<1>7. \A i \in DOMAIN ps : ws[i] \in Seq(B) /\ Len(ws[i]) = Len(ps[i])
  <2> TAKE i \in DOMAIN ps
  <2>1. CASE lone(ps[i])
    <3>1. ws[i] = <<Nil>> /\ Len(ps[i]) = 1
      BY <1>5, <2>1 DEF lone
    <3>2. <<Nil>> \in Seq(B) /\ Len(<<Nil>>) = 1
      OBVIOUS
    <3> QED BY <3>1, <3>2
  <2>2. CASE ~lone(ps[i])
    <3>1. ws[i] = ps[i]
      BY <1>5, <2>2
    <3>2. \A a \in Seq(Id) : a \in Seq(B)
      OBVIOUS
    <3> QED BY <1>6, <3>1, <3>2
  <2> QED BY <2>1, <2>2
<1>8. ps \in Seq(Seq(Id)) /\ ws \in Seq(Seq(B)) /\ Len(ws) = Len(ps)
  <2> DEFINE n == Len(ps)
  <2>1. n \in Nat /\ DOMAIN ps = 1 .. n
    BY <1>4
  <2> HIDE DEF n, B
  <2>2. ws \in [1 .. n -> Seq(B)]
    BY <1>5, <1>7, <2>1
  <2>3. ps \in [1 .. n -> Seq(Id)]
    <3>1. \A a \in Seq(Run(Id)) : a \in Seq(Seq(Id))
      <4>1. \A C, D : C \subseteq D => Seq(C) \subseteq Seq(D)
        OBVIOUS
      <4> QED BY <4>1 DEF Run
    <3>2. ps \in Seq(Seq(Id))
      BY <1>4, <3>1
    <3> QED BY <2>1, <3>2
  <2> QED BY <2>1, <2>2, <2>3 DEF n
<1>9. Len(FlattenSeq(ps)) = Len(FlattenSeq(ws))
  <2> HIDE DEF B
  <2>1. SameLengths(ps, ws)
    BY <1>7, <1>8 DEF SameLengths
  <2> QED BY <1>8, <2>1, FlatLen
<1> QED BY <1>3, <1>9 DEF decodeWireString, ws

\* The update items whose origins are units of S.
Rooted(S) == {u \in Item : {u.originLeftId, u.originRightId} \subseteq S \cup {Nil}}

\* A struct of the wire that can be read as such.
IsWire(u, S) ==
  /\ {u.originLeftId, u.originRightId} \subseteq S \cup {Nil} /\ u.parentName \in Root \cup {Nil}
  /\ u.parentName # Nil <=> u.originLeftId = Nil /\ u.originRightId = Nil
  /\ Len(decodeWireString(u.content)) \in Nat \ {0}

\* A section of n of them, and how many units they have before each.
IsSection(sec, S, n, h) ==
  /\ sec.client \in Client /\ sec.clock \in Nat /\ n \in Nat /\ DOMAIN sec.structs = 1 .. n
  /\ \A i \in 1 .. n : IsWire(sec.structs[i], S)
  /\ h \in [0 .. n -> Nat] /\ h[0] = 0
  /\ \A k \in 1 .. n : h[k] = h[k - 1] + Len(decodeWireString(sec.structs[k].content))

clockAfter(sec, read) ==
  IF read = <<>> THEN sec.clock ELSE clockOf(Last(read).id) + Last(read).len
readOne(sec, read, u) == Append(read, readStruct(u, sec.client, clockAfter(sec, read)))

\* What was read after some structs.
ReadTo(sec, h, k, read) ==
  /\ clockAfter(sec, read) = sec.clock + h[k]
  /\ StructIds(ToSet(read)) = Ids(newId(sec.client, sec.clock), h[k])

\* One struct of a section.
OneRead(sec, S, read, u, q) ==
  LET k == clockAfter(sec, read)
      len == Len(decodeWireString(u.content))
  IN  /\ k \in Nat /\ q \in Seq(Rooted(S))
      /\ clockAfter(sec, q) = k + len
      /\ StructIds(ToSet(q)) = StructIds(ToSet(read)) \cup Ids(newId(sec.client, k), len)

\* readStruct, one struct: it is given the clock the reader has counted to, and
\* the units from there on, as many as its content decodes to.
LEMMA ReadOne ==
  ASSUME NEW sec, sec.client \in Client, sec.clock \in Nat, NEW S \in SUBSET Id,
         NEW read \in Seq(Rooted(S)), NEW u, IsWire(u, S)
  PROVE  OneRead(sec, S, read, u, readOne(sec, read, u))
<1> DEFINE k == clockAfter(sec, read)
           len == Len(decodeWireString(u.content))
           e == readStruct(u, sec.client, k)
           q == Append(read, e)
<1>1. k \in Nat
  <2>1. CASE read = <<>>
    BY <2>1 DEF clockAfter
  <2>2. CASE read # <<>>
    <3>1. Last(read) \in Item
      BY <2>2, FrontLast DEF Rooted
    <3>2. Last(read).id \in Id /\ Last(read).len \in Nat
      BY <3>1 DEF Item, UpdateItem
    <3>3. clockOf(Last(read).id) \in Nat
      BY <3>2, IdFacts
    <3> QED BY <2>2, <3>2, <3>3 DEF clockAfter
  <2> QED BY <2>1, <2>2
<1>2. e = [id |-> newId(sec.client, k), len |-> len, originLeftId |-> u.originLeftId,
           originRightId |-> u.originRightId, parentName |-> u.parentName]
  BY DEF readStruct
<1>3. len \in Nat \ {0} /\ newId(sec.client, k) \in Id
  BY <1>1 DEF IsWire, newId, Id
<1> HIDE DEF k, len
<1>4. /\ u.originLeftId \in OptId /\ u.originRightId \in OptId /\ u.parentName \in Root \cup {Nil}
      /\ u.parentName # Nil <=> u.originLeftId = Nil /\ u.originRightId = Nil
  BY DEF IsWire, OptId
<1>5. e.id = newId(sec.client, k) /\ e.len = len /\ e \in UpdateItem
  BY <1>2, <1>3, <1>4 DEF UpdateItem
<1>6. e \in Rooted(S)
  <2>1. e \in Item
    BY <1>2, <1>4, <1>5 DEF Item
  <2>2. {e.originLeftId, e.originRightId} \subseteq S \cup {Nil}
    BY <1>2 DEF IsWire
  <2> QED BY <2>1, <2>2 DEF Rooted
<1> HIDE DEF e
<1>7. q \in Seq(Rooted(S)) /\ ToSet(q) = ToSet(read) \cup {e} /\ q # <<>> /\ Last(q) = e
  <2>1. q \in Seq(Rooted(S)) /\ Len(q) = Len(read) + 1 /\ q[Len(read) + 1] = e /\ Len(read) \in Nat
    BY <1>6
  <2>2. ToSet(q) = ToSet(read) \cup {e}
    BY <1>6, AppendSet
  <2> HIDE DEF q
  <2>3. q # <<>>
    BY <2>1
  <2> QED BY <2>1, <2>2, <2>3 DEF Last
<1>8. clockAfter(sec, q) = k + len
  BY <1>5, <1>7 DEF clockAfter, clockOf, newId
<1>9. StructIds(ToSet(q)) = StructIds(ToSet(read)) \cup Ids(newId(sec.client, k), len)
  BY <1>5, <1>7, StructsMore
<1> QED BY <1>1, <1>7, <1>8, <1>9 DEF OneRead, readOne, e, k, len

\* What is read of it, each item with the clock it has if h units are before it.
itemsOf(sec, h, n) ==
  {readStruct(sec.structs[k], sec.client, sec.clock + h[k - 1]) : k \in 1 .. n}

\* The reader counts the clocks again that were not written.
LEMMA SectionRead ==
  ASSUME NEW sec, NEW S \in SUBSET Id, NEW n, NEW h, IsSection(sec, S, n, h)
  PROVE  /\ readStructs(sec) \in Seq(Rooted(S))
         /\ StructIds(ToSet(readStructs(sec))) = Ids(newId(sec.client, sec.clock), h[n])
         /\ ToSet(readStructs(sec)) = itemsOf(sec, h, n)
<1> DEFINE us == sec.structs
           E(F) == F = [P \in SUBSET DOMAIN us |->
                          IF P = {} THEN <<>> ELSE readOne(sec, F[P \ {Max(P)}], us[Max(P)])]
           A == Seq(Rooted(S))
           g == [p \in A \X (1 .. n) |-> readOne(sec, p[1], us[p[2]])]
           fold == CHOOSE F : E(F)
           done == fold[DOMAIN us]
           first == newId(sec.client, sec.clock)
<1>1. readStructs(sec) = done
  BY DEF readStructs, FoldLeft, MapThenFoldSet, readOne, clockAfter
<1>2. /\ n \in Nat /\ DOMAIN us = 1 .. n /\ \A k \in 1 .. n : IsWire(us[k], S)
      /\ sec.client \in Client /\ sec.clock \in Nat /\ first \in Id
      /\ h \in [0 .. n -> Nat] /\ h[0] = 0
      /\ \A k \in 1 .. n : h[k] = h[k - 1] + Len(decodeWireString(us[k].content))
  BY DEF IsSection, newId, Id
<1>3. <<>> \in A
  OBVIOUS
<1>4. ASSUME NEW a \in A, NEW u, IsWire(u, S)
      PROVE  readOne(sec, a, u) \in A
  <2>1. OneRead(sec, S, a, u, readOne(sec, a, u))
    BY <1>2, <1>4, ReadOne
  <2> QED BY <2>1 DEF OneRead
<1> HIDE DEF A, done, fold, us
<1>6. g \in [A \X (1 .. n) -> A]
  BY <1>2, <1>4
<1>7. \A a \in A, k \in 1 .. n : g[<<a, k>>] = readOne(sec, a, us[k])
  OBVIOUS
<1> HIDE DEF g
<1>8. \E F : E(F)
  <2>1. PICK F \in [SUBSET (1 .. n) -> A] : FoldsBy(n, <<>>, g, F)
    BY <1>2, <1>3, <1>6, FoldExists
  <2>2. \A P \in SUBSET (1 .. n) : P # {} => Max(P) \in 1 .. n /\ F[P \ {Max(P)}] \in A
    BY <1>2, <2>1, MaxIn
  <2>3. \A P \in SUBSET (1 .. n) :
          F[P] = IF P = {} THEN <<>> ELSE readOne(sec, F[P \ {Max(P)}], us[Max(P)])
    BY <2>1, <2>2, <1>7 DEF FoldsBy
  <2>4. F = [P \in SUBSET DOMAIN us |->
               IF P = {} THEN <<>> ELSE readOne(sec, F[P \ {Max(P)}], us[Max(P)])]
    BY <2>1, <2>3, <1>2
  <2> QED BY <2>4
<1>9. E(fold)
  BY <1>8 DEF fold
<1>10. FoldsIn(n, A, <<>>, g, fold)
  <2>1. \A P \in SUBSET (1 .. n) : P # {} => Max(P) \in 1 .. n
    BY <1>2, MaxIn
  <2>2. {} \in SUBSET (1 .. n)
    OBVIOUS
  <2>3. fold = [P \in SUBSET (1 .. n) |->
               IF P = {} THEN <<>> ELSE readOne(sec, fold[P \ {Max(P)}], us[Max(P)])]
    BY <1>2, <1>9
  <2> QED BY <2>1, <2>2, <2>3, <1>2, <1>3, <1>6, <1>7 DEF FoldsIn
<1>11. PICK v : Values(n, A, <<>>, g, v) /\ v[n] = fold[1 .. n]
  BY <1>10, FoldValues
<1>12. /\ v \in [0 .. n -> A] /\ v[0] = <<>>
       /\ \A k \in 0 .. n - 1 : v[k + 1] = g[<<v[k], k + 1>>]
  BY <1>11 DEF Values
<1> DEFINE item(k) == readStruct(us[k], sec.client, sec.clock + h[k - 1])
           T == {k \in 0 .. n : ReadTo(sec, h, k, v[k]) /\ ToSet(v[k]) = {item(i) : i \in 1 .. k}}
<1>13. 0 \in T
  <2>1. Ids(first, 0) = {} /\ StructIds(ToSet(<<>>)) = {}
    <3>1. 0 .. 0 - 1 = {} /\ ToSet(<<>>) = {}
      BY DEF ToSet
    <3> QED BY <3>1 DEF Ids, StructIds
  <2>2. clockAfter(sec, <<>>) = sec.clock + 0
    BY <1>2 DEF clockAfter
  <2>3. ReadTo(sec, h, 0, <<>>)
    BY <1>2, <2>1, <2>2 DEF ReadTo
  <2>4. ToSet(<<>>) = {item(i) : i \in 1 .. 0}
    <3> HIDE DEF item
    <3>1. ToSet(<<>>) = {} /\ 1 .. 0 = {}
      BY DEF ToSet
    <3> QED BY <3>1
  <2> HIDE DEF item
  <2> QED BY <1>2, <1>12, <2>3, <2>4
<1>14. \A k \in 0 .. n - 1 : k \in T => k + 1 \in T
  <2> TAKE k \in 0 .. n - 1
  <2> HAVE k \in T
  <2>1. k \in 0 .. n /\ k + 1 \in 1 .. n /\ k + 1 \in 0 .. n /\ (k + 1) - 1 = k
    BY <1>2
  <2> DEFINE u == us[k + 1]
             len == Len(decodeWireString(u.content))
             q == readOne(sec, v[k], u)
  <2>2. v[k] \in A /\ IsWire(u, S) /\ v[k + 1] = q
    BY <1>2, <1>7, <1>12, <2>1
  <2>3. h[k] \in Nat /\ len \in Nat /\ h[k + 1] = h[k] + len
    <3>1. h[k + 1] = h[(k + 1) - 1] + len
      BY <1>2, <2>1
    <3> QED BY <1>2, <2>1, <2>2, <3>1 DEF IsWire
  <2>4. ReadTo(sec, h, k, v[k])
    OBVIOUS
  <2>5. /\ clockAfter(sec, q) = clockAfter(sec, v[k]) + len
        /\ StructIds(ToSet(q)) = StructIds(ToSet(v[k]))
                                   \cup Ids(newId(sec.client, clockAfter(sec, v[k])), len)
    <3>1. v[k] \in Seq(Rooted(S))
      BY <2>2 DEF A
    <3> HIDE DEF u
    <3>2. OneRead(sec, S, v[k], u, q)
      BY <1>2, <2>2, <3>1, ReadOne
    <3> HIDE DEF q
    <3> QED BY <3>2 DEF OneRead
  <2> HIDE DEF q, u, len
  <2>6. Ids(first, h[k] + len) = Ids(first, h[k]) \cup Ids(Add(first, h[k]), len)
    <3> HIDE DEF first
    <3>1. h[k] + len \in Nat /\ h[k] \in 0 .. h[k] + len /\ (h[k] + len) - h[k] = len
      BY <2>3
    <3>2. Ids(first, h[k] + len) = Ids(first, h[k]) \cup Ids(Add(first, h[k]), (h[k] + len) - h[k])
      BY <1>2, <3>1, CutIds
    <3> QED BY <3>1, <3>2
  <2>7. Add(first, h[k]) = newId(sec.client, sec.clock + h[k])
    BY DEF Add, newId
  <2>8. clockAfter(sec, q) = sec.clock + h[k + 1]
    BY <1>2, <2>3, <2>4, <2>5 DEF ReadTo
  <2>9. StructIds(ToSet(q)) = Ids(first, h[k + 1])
    BY <2>3, <2>4, <2>5, <2>6, <2>7 DEF ReadTo
  <2>10. ToSet(q) = ToSet(v[k]) \cup {item(k + 1)}
    <3>1. item(k + 1) = readStruct(u, sec.client, clockAfter(sec, v[k]))
      BY <2>1, <2>4 DEF ReadTo, u
    <3>2. q = Append(v[k], item(k + 1))
      BY <3>1 DEF q, readOne
    <3> HIDE DEF item
    <3>3. v[k] \in Seq(Rooted(S) \cup {item(k + 1)})
      <4>1. \A W, Z, e : e \in Seq(W) => e \in Seq(W \cup Z)
        OBVIOUS
      <4> QED BY <2>2, <4>1 DEF A
    <3> QED BY <3>2, <3>3, AppendSet
  <2>11. {item(i) : i \in 1 .. k + 1} = {item(i) : i \in 1 .. k} \cup {item(k + 1)}
    <3>1. 1 .. k + 1 = (1 .. k) \cup {k + 1}
      BY <2>1
    <3> HIDE DEF item
    <3> QED BY <3>1
  <2> HIDE DEF item
  <2> QED BY <2>1, <2>2, <2>8, <2>9, <2>10, <2>11 DEF ReadTo
<1> HIDE DEF T
<1>15. n \in T
  <2>1. n \in 0 .. n /\ n \in Nat
    BY <1>2
  <2> QED BY <1>13, <1>14, <2>1, UpTo
<1>16. done = v[n] /\ done \in Seq(Rooted(S))
  BY <1>2, <1>11, <1>12 DEF done, A
<1>17. ReadTo(sec, h, n, v[n]) /\ ToSet(v[n]) = {item(i) : i \in 1 .. n}
  BY <1>15 DEF T
<1>18. ToSet(v[n]) = itemsOf(sec, h, n)
  BY <1>17 DEF itemsOf, us
<1> QED BY <1>1, <1>16, <1>17, <1>18 DEF ReadTo, us

\* The units of each node.
unitsOf(s) == [x \in DOMAIN s.heap |-> [k \in 1 .. s.heap[x].len |-> Add(x, k - 1)]]

\* The units of a node are ids, as many as its length says.
LEMMA UnitsOf ==
  ASSUME NEW s \in StoreType
  PROVE  /\ unitsOf(s) \in [DOMAIN s.heap -> Seq(Id)]
         /\ \A x \in DOMAIN s.heap : Len(unitsOf(s)[x]) = s.heap[x].len
<1> DEFINE u(x) == [k \in 1 .. s.heap[x].len |-> Add(x, k - 1)]
<1>1. ASSUME NEW x \in DOMAIN s.heap
      PROVE  u(x) \in Seq(Id) /\ Len(u(x)) = s.heap[x].len
  <2> DEFINE n == s.heap[x].len
  <2>1. x \in Id /\ n \in Nat
    BY HeapFacts
  <2> HIDE DEF n
  <2>2. \A k \in 1 .. n : Add(x, k - 1) \in Id
    <3> TAKE k \in 1 .. n
    <3>1. k - 1 \in Nat
      BY <2>1
    <3> QED BY <2>1, <3>1, IdFacts
  <2> DEFINE f == [k \in 1 .. n |-> Add(x, k - 1)]
  <2>3. f \in [1 .. n -> Id]
    BY <2>2
  <2> HIDE DEF f
  <2>4. f \in Seq(Id) /\ Len(f) = n
    BY <2>1, <2>3
  <2> QED BY <2>4 DEF f, n
<1>2. unitsOf(s) = [x \in DOMAIN s.heap |-> u(x)]
  BY DEF unitsOf
<1> HIDE DEF u
<1> QED BY <1>1, <1>2

\* What a run is written as.
LEMMA RunWritten ==
  ASSUME NEW s \in StoreType, Anchored(s), NEW run \in Run(DOMAIN s.heap)
  PROVE  /\ IsWire(encodeRun(s, run), Integrated(s))
         /\ Len(decodeWireString(encodeRun(s, run).content)) = Len(Spell(unitsOf(s), run))
<1> DEFINE X == DOMAIN s.heap
           f == unitsOf(s)
           w == encodeRun(s, run)
           u == Spell(f, run)
<1>1. f \in [X -> Seq(Id)] /\ \A x \in X : Len(f[x]) = s.heap[x].len
  BY UnitsOf
<1>2. run \in Seq(X) /\ run # <<>>
  BY DEF Run
<1>3. run[1] \in X
  BY <1>2
<1>4. along(f, run) = [i \in DOMAIN run |-> [k \in 1 .. s.heap[run[i]].len |-> Add(run[i], k - 1)]]
  <2>1. \A i \in DOMAIN run : f[run[i]] = [k \in 1 .. s.heap[run[i]].len |-> Add(run[i], k - 1)]
    BY <1>2 DEF unitsOf
  <2> HIDE DEF f
  <2> QED BY <2>1 DEF along
<1> HIDE DEF f
<1>5. Spells(X, Id, f)
  BY <1>1, SpellAppend
<1>6. u \in Seq(Id) /\ Len(u) \in Nat \ {0}
  <2> DEFINE a == Front(run)
             e == Last(run)
  <2>1. a \in Seq(X) /\ e \in X /\ run = Append(a, e)
    BY <1>2, FrontLast
  <2> HIDE DEF a, e
  <2>2. u \in Seq(Id) /\ u = Spell(f, a) \o f[e] /\ Spell(f, a) \in Seq(Id) /\ f[e] \in Seq(Id)
    BY <1>1, <1>2, <1>5, <2>1 DEF Spells
  <2>3. Len(f[e]) \in Nat \ {0}
    BY <1>1, <2>1, HeapFacts
  <2> HIDE DEF u
  <2>4. \A b \in Seq(Id), c \in Seq(Id) : Len(b \o c) = Len(b) + Len(c) /\ Len(b) \in Nat
    OBVIOUS
  <2>5. Len(u) = Len(Spell(f, a)) + Len(f[e]) /\ Len(Spell(f, a)) \in Nat
    BY <2>2, <2>4
  <2> QED BY <2>2, <2>3, <2>5
<1>7. /\ w.content = encodeWireString(u) /\ w.parentName = writtenName(s, run[1])
      /\ w.originLeftId = s.heap[run[1]].originLeftId
      /\ w.originRightId = s.heap[run[1]].originRightId
  BY <1>4 DEF encodeRun, Spell
<1> HIDE DEF u, w
<1>8. Len(decodeWireString(w.content)) = Len(u)
  BY <1>6, <1>7, WireLength
<1>9. s.heap[run[1]] \in Node /\ Nil \notin Root
  BY <1>3, HeapFacts, NilAssumption
<1>10. /\ {w.originLeftId, w.originRightId} \subseteq Integrated(s) \cup {Nil}
       /\ w.parentName \in Root \cup {Nil}
       /\ w.parentName # Nil <=> w.originLeftId = Nil /\ w.originRightId = Nil
  BY <1>3, <1>7, <1>9 DEF writtenName, Node, Anchored
<1>11. IsWire(w, Integrated(s))
  BY <1>6, <1>8, <1>10 DEF IsWire
<1> QED BY <1>8, <1>11 DEF w, u, f

\* The n units from node x on, the last of them those of node y, may be one struct
\* in world w.
Spelt(s, w, x, n, y) ==
  /\ {x, y} \subseteq DOMAIN s.heap /\ n \in Nat \ {0} /\ Ids(x, n) \subseteq w.made
  /\ Add(x, n) = Add(y, s.heap[y].len) /\ s.heap[x].originRightId = s.heap[y].originRightId
  /\ \A u \in Ids(x, n) : /\ w.right[u] = s.heap[x].originRightId
                          /\ w.parent[u] = s.heap[x].parent
                          /\ u # x => w.left[u] = Sub(u, 1)

\* A node may.
LEMMA SpeltOne ==
  ASSUME NEW s, Runs(s), NEW w, Follows(s, w), NEW x \in DOMAIN s.heap
  PROVE  Spelt(s, w, x, s.heap[x].len, x)
<1>1. s.heap[x].len \in Nat \ {0}
  BY HeapFacts DEF Runs
<1> QED BY <1>1 DEF Spelt, Follows, Units

\* So may it with the nodes joined to it.
LEMMA SpeltMore ==
  ASSUME NEW s, Runs(s), NEW w, IsWorld(w), Follows(s, w), NEW x, NEW n, NEW y,
         Spelt(s, w, x, n, y), NEW z \in DOMAIN s.heap, joinable(s, y, z)
  PROVE  Spelt(s, w, x, n + s.heap[z].len, z) /\ z = Add(x, n)
<1> DEFINE m == s.heap[z].len
           ly == s.heap[y].len
<1>1. /\ x \in Id /\ y \in Id /\ z \in Id /\ m \in Nat \ {0} /\ n \in Nat \ {0} /\ ly \in Nat \ {0}
      /\ x \in DOMAIN s.heap /\ y \in DOMAIN s.heap /\ Nil \notin Id
  <2>1. x \in DOMAIN s.heap /\ y \in DOMAIN s.heap /\ n \in Nat \ {0}
    BY DEF Spelt
  <2> QED BY <2>1, HeapFacts DEF Runs
<1>2. /\ Add(x, n) = Add(y, ly) /\ Add(y, ly) = z
      /\ s.heap[z].originLeftId = Add(y, ly - 1)
      /\ s.heap[z].originRightId = s.heap[y].originRightId
      /\ s.heap[x].originRightId = s.heap[y].originRightId
  BY DEF Spelt, joinable, LastId
<1> HIDE DEF m, ly
<1>3. /\ clientOf(z) = clientOf(x) /\ clockOf(z) = clockOf(x) + n
      /\ clientOf(z) = clientOf(y) /\ clockOf(z) = clockOf(y) + ly
      /\ clockOf(x) \in Nat /\ clockOf(y) \in Nat /\ clockOf(z) \in Nat
      /\ z = <<clientOf(z), clockOf(z)>>
  BY <1>1, <1>2, IdFacts
<1>4. Add(y, ly - 1) = Sub(z, 1) /\ Sub(z, 1) \in Id /\ clientOf(Sub(z, 1)) = clientOf(z)
      /\ clockOf(Sub(z, 1)) = clockOf(z) - 1
  <2>1. ly - 1 \in Nat
    BY <1>1
  <2>2. Add(y, ly - 1) \in Id
    BY <1>1, <2>1, IdFacts
  <2>3. Add(y, ly - 1) = <<clientOf(y), clockOf(y) + (ly - 1)>>
    BY DEF Add, clientOf, clockOf
  <2>4. Sub(z, 1) = <<clientOf(z), clockOf(z) - 1>>
    BY DEF Sub, clientOf, clockOf
  <2>5. clockOf(y) + (ly - 1) = clockOf(z) - 1
    BY <1>1, <1>3
  <2>6. \A a, b : clientOf(<<a, b>>) = a /\ clockOf(<<a, b>>) = b
    BY DEF clientOf, clockOf
  <2> QED BY <1>3, <2>2, <2>3, <2>4, <2>5, <2>6
<1>5. Sub(z, 1) \in Ids(x, n)
  <2>1. clockOf(x) <= clockOf(z) - 1 /\ clockOf(z) - 1 < clockOf(x) + n
    BY <1>1, <1>3
  <2> QED BY <1>1, <1>3, <1>4, <2>1, IdsAre
<1>6. z \in Ids(z, m) /\ z \in w.made /\ Ids(z, m) \subseteq w.made
      /\ w.left[z] = Sub(z, 1)
      /\ \A u \in Ids(z, m) : /\ w.right[u] = s.heap[z].originRightId
                              /\ w.parent[u] = s.heap[z].parent
                              /\ u # z => w.left[u] = Sub(u, 1)
  <2>1. z \in Units(s, z)
    BY UnitsAre
  <2> QED BY <1>2, <1>4, <2>1 DEF Follows, Units, m
<1>7. w.parent[Sub(z, 1)] = w.parent[z]
  <2>1. w.left[z] # Nil
    BY <1>1, <1>4, <1>6
  <2> QED BY <1>6, <2>1 DEF IsWorld
<1>8. s.heap[z].parent = s.heap[x].parent
  BY <1>5, <1>6, <1>7 DEF Spelt
<1>9. Ids(x, n + m) = Ids(x, n) \cup Ids(z, m)
  <2>1. n + m \in Nat /\ n \in 0 .. n + m /\ (n + m) - n = m
    BY <1>1
  <2> QED BY <1>1, <1>2, <2>1, CutIds
<1>10. n + m \in Nat \ {0} /\ Add(x, n + m) = Add(z, m)
  <2>1. Add(x, n + m) = <<clientOf(x), clockOf(x) + (n + m)>> /\ Add(z, m) = <<clientOf(z), clockOf(z) + m>>
    BY DEF Add, clientOf, clockOf
  <2>2. n + m \in Nat \ {0} /\ clockOf(x) + (n + m) = clockOf(z) + m
    BY <1>1, <1>3
  <2> QED BY <1>3, <2>1, <2>2
<1>11. /\ Ids(x, n) \subseteq w.made
       /\ \A u \in Ids(x, n) : /\ w.right[u] = s.heap[x].originRightId
                               /\ w.parent[u] = s.heap[x].parent
                               /\ u # x => w.left[u] = Sub(u, 1)
  BY DEF Spelt
<1>12. \A u \in Ids(x, n + m) : /\ u \in w.made
                                /\ w.right[u] = s.heap[x].originRightId
                                /\ w.parent[u] = s.heap[x].parent
                                /\ u # x => w.left[u] = Sub(u, 1)
  <2> TAKE u \in Ids(x, n + m)
  <2>1. CASE u \in Ids(x, n)
    BY <2>1, <1>11
  <2>2. CASE u \in Ids(z, m)
    BY <2>2, <1>2, <1>6, <1>8
  <2> QED BY <1>9, <2>1, <2>2
<1>13. s.heap[x].originRightId = s.heap[z].originRightId
  BY <1>2
<1>14. Spelt(s, w, x, n + m, z)
  BY <1>1, <1>10, <1>12, <1>13 DEF Spelt, m
<1> QED BY <1>2, <1>14 DEF m

\* What it is written as.
LEMMA SpeltIs ==
  ASSUME NEW s, Runs(s), NEW w, Follows(s, w), NEW x, NEW n, NEW y, Spelt(s, w, x, n, y),
         NEW u, u.id = x, u.len = n, u.originLeftId = s.heap[x].originLeftId,
         u.originRightId = s.heap[x].originRightId, u.parentName = writtenName(s, x)
  PROVE  Spelled(u, w)
<1>1. x \in DOMAIN s.heap
  BY DEF Spelt
<1>2. x \in Units(s, x)
  BY <1>1, UnitsAre
<1>3. w.parent[x] = s.heap[x].parent /\ w.left[x] = s.heap[x].originLeftId
  BY <1>1, <1>2 DEF Follows
<1>4. u.parentName # Nil => u.parentName = s.heap[x].parent
  BY DEF writtenName
<1> QED BY <1>3, <1>4 DEF Spelled, Spelt

\* The runs, one behind the other, from unit x on, each what it may be written as.
Unbroken(s, w, f, x, runs) ==
  /\ runs # <<>> => runs[1][1] = x
  /\ \A j \in DOMAIN runs : Spelt(s, w, runs[j][1], Len(Spell(f, runs[j])), Last(runs[j]))
  /\ \A j \in DOMAIN runs :
       j # 1 => runs[j][1] = Add(runs[j - 1][1], Len(Spell(f, runs[j - 1])))

\* The nodes follow one another.
Contiguous(s, nodes) ==
  \A k \in 1 .. Len(nodes) - 1 : nodes[k + 1] = Add(nodes[k], s.heap[nodes[k]].len)

\* So they are with one more node.
LEMMA UnbrokenOne ==
  ASSUME NEW s, Runs(s), NEW w, IsWorld(w), Follows(s, w), NEW x,
         NEW runs \in Seq(Run(DOMAIN s.heap)), Unbroken(s, w, unitsOf(s), x, runs),
         NEW z \in DOMAIN s.heap,
         IF runs = <<>> THEN z = x
         ELSE z = Add(Last(Last(runs)), s.heap[Last(Last(runs))].len)
  PROVE  LET q == joinOne(s, runs, z)
         IN  Unbroken(s, w, unitsOf(s), x, q) /\ q # <<>> /\ Last(Last(q)) = z
<1> DEFINE X == DOMAIN s.heap
           f == unitsOf(s)
           q == joinOne(s, runs, z)
           n == Len(runs)
           L(run) == Len(Spell(f, run))
<1>0. s \in StoreType
  BY DEF Runs
<1>1. f \in [X -> Seq(Id)] /\ \A e \in X : Len(f[e]) = s.heap[e].len
  BY <1>0, UnitsOf
<1> HIDE DEF f
<1>2. Spells(X, Id, f)
  BY <1>1, SpellAppend
<1>3. \A e \in Seq(X), y \in X : L(Append(e, y)) = L(e) + s.heap[y].len
  <2> TAKE e \in Seq(X), y \in X
  <2>1. Spell(f, Append(e, y)) = Spell(f, e) \o f[y] /\ Spell(f, e) \in Seq(Id) /\ f[y] \in Seq(Id)
    BY <1>1, <1>2 DEF Spells
  <2>2. \A b \in Seq(Id), c \in Seq(Id) : Len(b \o c) = Len(b) + Len(c)
    OBVIOUS
  <2> QED BY <1>1, <2>1, <2>2
<1>4. L(<<z>>) = s.heap[z].len
  <2>1. L(<<>>) = 0 /\ <<>> \in Seq(X)
    BY <1>2 DEF Spells
  <2>2. Append(<<>>, z) = <<z>>
    OBVIOUS
  <2>3. s.heap[z].len \in Nat
    BY <1>0, HeapFacts
  <2> HIDE DEF L
  <2>4. L(Append(<<>>, z)) = L(<<>>) + s.heap[z].len
    BY <1>3, <2>1
  <2> DEFINE k == s.heap[z].len
  <2>5. L(<<z>>) = 0 + k /\ k \in Nat
    BY <2>1, <2>2, <2>3, <2>4
  <2> HIDE DEF k
  <2>6. L(<<z>>) = k
    BY <2>5
  <2> QED BY <2>6 DEF k
<1> HIDE DEF L
<1>5. /\ runs # <<>> => runs[1][1] = x
      /\ \A j \in DOMAIN runs : Spelt(s, w, runs[j][1], L(runs[j]), Last(runs[j]))
      /\ \A j \in DOMAIN runs : j # 1 => runs[j][1] = Add(runs[j - 1][1], L(runs[j - 1]))
  BY DEF Unbroken, L, f
<1>6. n \in Nat /\ DOMAIN runs = 1 .. n /\ \A j \in 1 .. n : runs[j] \in Run(X)
  OBVIOUS
<1>7. \A run \in Run(X) : Len(run) \in Nat \ {0} /\ run[1] \in X
  BY DEF Run
<1>8. CASE runs # <<>> /\ joinable(s, Last(Last(runs)), z)
  <2> DEFINE a == Front(runs)
             e == Last(runs)
             d == Append(e, z)
  <2>1. q = Append(a, d)
    BY <1>8, Zenon DEF joinOne
  <2>2. a \in Seq(Run(X)) /\ e \in Run(X) /\ runs = Append(a, e)
    BY <1>8, FrontLast
  <2>3. n # 0 /\ e = runs[n] /\ Len(a) = n - 1
    <3> HIDE DEF a, e
    <3>1. Len(Append(a, e)) = Len(a) + 1 /\ Append(a, e)[Len(a) + 1] = e /\ Len(a) \in Nat
      BY <2>2
    <3> QED BY <2>2, <3>1
  <2>4. \A j \in 1 .. n - 1 : a[j] = runs[j]
    <3> HIDE DEF a, e
    <3>1. \A j \in 1 .. Len(a) : Append(a, e)[j] = a[j]
      BY <2>2
    <3> QED BY <2>2, <2>3, <3>1
  <2>5. Spelt(s, w, e[1], L(e), Last(e))
    BY <1>5, <1>6, <2>3
  <2>6. e \in Seq(X) /\ Len(e) \in Nat \ {0}
    BY <1>7, <2>2 DEF Run
  <2> HIDE DEF e
  <2>7. d \in Run(X) /\ d[1] = e[1] /\ Last(d) = z /\ L(d) = L(e) + s.heap[z].len
    <3>1. d \in Seq(X) /\ Len(d) = Len(e) + 1 /\ d[1] = e[1] /\ d[Len(e) + 1] = z
      BY <2>6
    <3>2. L(d) = L(e) + s.heap[z].len
      BY <1>3, <2>6
    <3> HIDE DEF d
    <3>3. d # <<>>
      BY <2>6, <3>1
    <3> QED BY <3>1, <3>2, <3>3 DEF Run, Last
  <2>8. joinable(s, Last(e), z)
    BY <1>8 DEF e
  <2>9. Spelt(s, w, d[1], L(d), Last(d))
    <3>1. Spelt(s, w, e[1], L(e) + s.heap[z].len, z)
      BY <2>5, <2>8, SpeltMore
    <3> QED BY <2>7, <3>1
  <2> HIDE DEF a, d, q
  <2>10. Len(q) = n /\ DOMAIN q = 1 .. n /\ q[n] = d /\ q \in Seq(Run(X))
         /\ \A j \in 1 .. n - 1 : q[j] = runs[j]
    <3>1. Len(Append(a, d)) = Len(a) + 1 /\ Append(a, d)[Len(a) + 1] = d /\ Append(a, d) \in Seq(Run(X))
          /\ \A j \in 1 .. Len(a) : Append(a, d)[j] = a[j]
      BY <2>2, <2>7
    <3> HIDE DEF n
    <3>2. Len(a) + 1 = n /\ Len(a) = n - 1
      BY <1>6, <2>3
    <3>3. Len(q) = n /\ q[n] = d /\ q \in Seq(Run(X))
      BY <2>1, <3>1, <3>2
    <3>4. \A j \in 1 .. n - 1 : q[j] = runs[j]
      BY <2>1, <2>4, <3>1, <3>2
    <3>5. DOMAIN q = 1 .. n
      BY <3>3
    <3> QED BY <3>3, <3>4, <3>5
  <2>11. \A j \in 1 .. n : j \in 1 .. n - 1 \/ j = n
    <3>1. n \in Nat
      BY <1>6
    <3> HIDE DEF n
    <3> QED BY <3>1
  <2>12. \A j \in 1 .. n : q[j][1] = runs[j][1]
    BY <2>3, <2>7, <2>10, <2>11
  <2>13. \A j \in 1 .. n : Spelt(s, w, q[j][1], L(q[j]), Last(q[j]))
    BY <1>5, <1>6, <2>9, <2>10, <2>11
  <2>14. \A j \in 1 .. n : j # 1 => q[j][1] = Add(q[j - 1][1], L(q[j - 1]))
    <3> TAKE j \in 1 .. n
    <3> HAVE j # 1
    <3>1. j - 1 \in 1 .. n - 1 /\ j - 1 \in 1 .. n
      BY <1>6
    <3> QED BY <1>5, <1>6, <2>10, <2>12, <3>1
  <2>15. q # <<>> /\ 1 \in 1 .. n
    BY <1>6, <2>3, <2>10
  <2>16. q[1][1] = x
    BY <1>5, <1>8, <2>12, <2>15
  <2>17. Last(q) = d
    BY <2>10 DEF Last
  <2>18. Unbroken(s, w, f, x, q)
    BY <2>10, <2>13, <2>14, <2>16 DEF Unbroken, L
  <2> QED BY <2>7, <2>15, <2>17, <2>18 DEF f, q
<1>9. CASE ~ (runs # <<>> /\ joinable(s, Last(Last(runs)), z))
  <2> DEFINE d == <<z>>
  <2>1. q = Append(runs, d)
    BY <1>9, Zenon DEF joinOne
  <2>2. d \in Run(X) /\ d[1] = z /\ Last(d) = z
    <3>1. d \in Seq(X) /\ Len(d) = 1 /\ d[1] = z
      <4>1. z \in X
        OBVIOUS
      <4> HIDE DEF X
      <4> QED BY <4>1
    <3> HIDE DEF d
    <3>2. d # <<>>
      BY <3>1
    <3> QED BY <3>1, <3>2 DEF Run, Last
  <2>3. Spelt(s, w, z, L(d), z)
    BY <1>4, SpeltOne
  <2> HIDE DEF d, q
  <2>4. Len(q) = n + 1 /\ DOMAIN q = 1 .. n + 1 /\ q[n + 1] = d
        /\ \A j \in 1 .. n : q[j] = runs[j]
    BY <1>6, <2>1, <2>2
  <2>5. \A j \in 1 .. n + 1 : j \in 1 .. n \/ j = n + 1
    BY <1>6
  <2>6. \A j \in 1 .. n + 1 : Spelt(s, w, q[j][1], L(q[j]), Last(q[j]))
    BY <1>5, <1>6, <2>2, <2>3, <2>4, <2>5
  <2>7. n # 0 => z = Add(runs[n][1], L(runs[n]))
    <3> HAVE n # 0
    <3>1. runs # <<>> /\ Last(runs) = runs[n] /\ n \in 1 .. n
      BY <1>6 DEF Last
    <3>2. z = Add(Last(runs[n]), s.heap[Last(runs[n])].len)
      BY <3>1
    <3>3. Spelt(s, w, runs[n][1], L(runs[n]), Last(runs[n]))
      BY <1>5, <1>6, <3>1
    <3> QED BY <3>2, <3>3 DEF Spelt
  <2>8. \A j \in 1 .. n + 1 : j # 1 => q[j][1] = Add(q[j - 1][1], L(q[j - 1]))
    <3> TAKE j \in 1 .. n + 1
    <3> HAVE j # 1
    <3>1. j - 1 \in 1 .. n /\ (n + 1) - 1 = n
      BY <1>6
    <3>2. CASE j \in 1 .. n
      BY <1>5, <1>6, <2>4, <3>1, <3>2
    <3>3. CASE j = n + 1
      BY <2>2, <2>4, <2>7, <3>1, <3>3
    <3> QED BY <2>5, <3>2, <3>3
  <2>9. q[1][1] = x
    <3>1. CASE runs = <<>>
      <4>1. n = 0
        BY <3>1
      <4> QED BY <2>2, <2>4, <3>1, <4>1
    <3>2. CASE runs # <<>>
      <4>1. 1 \in 1 .. n
        BY <3>2
      <4> QED BY <1>5, <2>4, <3>2, <4>1
    <3> QED BY <3>1, <3>2
  <2>10. q # <<>> /\ Last(q) = d
    <3>1. Last(q) = d
      BY <2>4 DEF Last
    <3>2. q # <<>>
      BY <1>6, <2>4
    <3> QED BY <3>1, <3>2
  <2>11. Unbroken(s, w, f, x, q)
    BY <2>4, <2>6, <2>8, <2>9 DEF Unbroken, L
  <2> QED BY <2>2, <2>10, <2>11 DEF f, q
<1> QED BY <1>8, <1>9

\* So they are all.
LEMMA UnbrokenAll ==
  ASSUME NEW s, Runs(s), NEW w, IsWorld(w), Follows(s, w),
         NEW nodes \in Seq(DOMAIN s.heap), nodes # <<>>, Contiguous(s, nodes)
  PROVE  Unbroken(s, w, unitsOf(s), nodes[1], joinRuns(s, nodes))
<1> DEFINE X == DOMAIN s.heap
           f == unitsOf(s)
           n == Len(nodes)
           x == nodes[1]
<1>1. n \in Nat \ {0} /\ \A k \in 1 .. n : nodes[k] \in X
  OBVIOUS
<1>2. PICK h : Joining(s, X, nodes, h)
  BY RunsGroup
<1>3. /\ h \in [0 .. n -> Seq(Run(X))] /\ h[0] = <<>> /\ joinRuns(s, nodes) = h[n]
      /\ \A k \in 0 .. n - 1 : h[k + 1] = joinOne(s, h[k], nodes[k + 1])
  BY <1>2 DEF Joining, Grouping
<1> DEFINE T == {k \in 0 .. n : /\ Unbroken(s, w, f, x, h[k])
                                /\ k = 0 <=> h[k] = <<>>
                                /\ k # 0 => Last(Last(h[k])) = nodes[k]}
<1> HIDE DEF f
<1>4. 0 \in T
  <2>1. DOMAIN <<>> = {}
    OBVIOUS
  <2>2. Unbroken(s, w, f, x, <<>>)
    BY <2>1 DEF Unbroken
  <2> QED BY <1>1, <1>3, <2>2
<1>5. \A k \in 0 .. n - 1 : k \in T => k + 1 \in T
  <2> TAKE k \in 0 .. n - 1
  <2> HAVE k \in T
  <2>1. k \in 0 .. n /\ k + 1 \in 1 .. n /\ k + 1 \in 0 .. n /\ k + 1 # 0
        /\ (k # 0 => k \in 1 .. n - 1)
    BY <1>1
  <2>2. nodes[k + 1] \in X /\ h[k] \in Seq(Run(X)) /\ h[k + 1] = joinOne(s, h[k], nodes[k + 1])
    BY <1>1, <1>3, <2>1
  <2>3. /\ Unbroken(s, w, f, x, h[k]) /\ k = 0 <=> h[k] = <<>>
        /\ k # 0 => Last(Last(h[k])) = nodes[k]
    OBVIOUS
  <2>4. IF h[k] = <<>> THEN nodes[k + 1] = x
        ELSE nodes[k + 1] = Add(Last(Last(h[k])), s.heap[Last(Last(h[k]))].len)
    <3>1. CASE h[k] = <<>>
      <4>1. k = 0
        BY <2>3, <3>1
      <4>2. k + 1 = 1
        BY <4>1
      <4> QED BY <3>1, <4>2
    <3>2. CASE h[k] # <<>>
      <4>1. k # 0
        BY <2>3, <3>2
      <4> QED BY <2>1, <2>3, <3>2, <4>1 DEF Contiguous
    <3> QED BY <3>1, <3>2
  <2>5. /\ Unbroken(s, w, f, x, h[k + 1]) /\ h[k + 1] # <<>>
        /\ Last(Last(h[k + 1])) = nodes[k + 1]
    BY <2>2, <2>3, <2>4, UnbrokenOne DEF f
  <2> QED BY <2>1, <2>5
<1> HIDE DEF T
<1>6. n \in T
  <2>1. n \in 0 .. n /\ n \in Nat
    BY <1>1
  <2> QED BY <1>4, <1>5, <2>1, UpTo
<1> QED BY <1>3, <1>6 DEF T, f

\* The structs are those of store s, in whatever world it is.
Faithful(s, us) == \A w : IsWorld(w) /\ Follows(s, w) => \A u \in us : Spelled(u, w)

\* The structs of one client: all units of its nodes, from the first one's clock on.
LEMMA ClientRead ==
  ASSUME NEW s, Runs(s), Anchored(s), NEW nodes \in Seq(DOMAIN s.heap), nodes # <<>>,
         NEW h, Lengths(unitsOf(s), nodes, h)
  PROVE  LET read == readStructs(encodeClient(s, nodes))
         IN  /\ read \in Seq(Rooted(Integrated(s)))
             /\ StructIds(ToSet(read)) = Ids(nodes[1], h[Len(nodes)])
             /\ Contiguous(s, nodes) => Faithful(s, ToSet(read))
<1> DEFINE X == DOMAIN s.heap
           f == unitsOf(s)
           sp == spelled(X, f)
           runs == joinRuns(s, nodes)
           m == Len(runs)
           sec == encodeClient(s, nodes)
           read == readStructs(sec)
           x == nodes[1]
<1>0. s \in StoreType /\ Integrated(s) \in SUBSET Id
  BY Holds DEF Runs
<1>1. x \in X /\ x \in Id /\ X \subseteq Id
  BY <1>0, HeapFacts
<1>2. f \in [X -> Seq(Id)]
  BY <1>0, UnitsOf
<1> HIDE DEF f
<1>3. PICK G : Grouping(X, nodes, G) /\ runs = G[Len(nodes)]
  <2>1. PICK G : Joining(s, X, nodes, G)
    BY RunsGroup
  <2> QED BY <2>1 DEF Joining
<1> HIDE DEF runs
<1>4. runs \in Seq(Run(X))
  <2>1. G \in [0 .. Len(nodes) -> Seq(Run(X))] /\ Len(nodes) \in 0 .. Len(nodes)
    BY <1>3 DEF Grouping
  <2> QED BY <1>3, <2>1
<1>5. m \in Nat /\ DOMAIN runs = 1 .. m /\ \A i \in 1 .. m : runs[i] \in Run(X) /\ runs[i] \in Seq(X)
  BY <1>4 DEF Run
<1>6. runs \in Seq(Seq(X))
  BY <1>4, <1>5
<1>7. Spell(sp, runs) = Spell(f, nodes)
  BY <1>2, <1>3, GroupsAll
<1>8. Spells(X, Id, f)
  BY <1>2, SpellAppend
<1>9. sp \in [Seq(X) -> Seq(Id)] /\ \A e \in Seq(X) : sp[e] = Spell(f, e)
  BY <1>8 DEF spelled, Spells
<1> HIDE DEF sp
<1>10. PICK l : Lengths(sp, runs, l)
  BY <1>6, <1>9, LengthsAre
<1>11. l[m] = Len(Spell(sp, runs))
  BY <1>6, <1>9, <1>10, LengthsAre
<1>12. h[Len(nodes)] = Len(Spell(f, nodes))
  <2>1. Lengths(f, nodes, h)
    BY DEF f
  <2> QED BY <1>2, <2>1, LengthsAre
<1>13. /\ sec.client = clientOf(x) /\ sec.clock = clockOf(x)
       /\ sec.structs = [i \in DOMAIN runs |-> encodeRun(s, runs[i])]
  BY DEF encodeClient, encodeStructs, runs
<1> HIDE DEF sec, m
<1>14. \A i \in 1 .. m : /\ sec.structs[i] = encodeRun(s, runs[i])
                         /\ IsWire(sec.structs[i], Integrated(s))
                         /\ Len(decodeWireString(sec.structs[i].content)) = Len(sp[runs[i]])
  <2> TAKE i \in 1 .. m
  <2>1. runs[i] \in Run(X) /\ runs[i] \in Seq(X) /\ sec.structs[i] = encodeRun(s, runs[i])
    BY <1>5, <1>13
  <2>2. /\ IsWire(encodeRun(s, runs[i]), Integrated(s))
        /\ Len(decodeWireString(encodeRun(s, runs[i]).content)) = Len(Spell(f, runs[i]))
    BY <1>0, <2>1, RunWritten DEF f
  <2> QED BY <1>9, <2>1, <2>2
<1>15. IsSection(sec, Integrated(s), m, l)
  <2>1. /\ l \in [0 .. m -> Nat] /\ l[0] = 0
        /\ \A k \in 1 .. m : l[k] = l[k - 1] + Len(sp[runs[k]])
    BY <1>10 DEF Lengths, m
  <2>2. clientOf(x) \in Client /\ clockOf(x) \in Nat
    BY <1>1, IdFacts
  <2> QED BY <1>5, <1>13, <1>14, <2>1, <2>2 DEF IsSection
<1>16. newId(sec.client, sec.clock) = x
  BY <1>1, <1>13, IdFacts DEF newId
<1>17. read \in Seq(Rooted(Integrated(s))) /\ StructIds(ToSet(read)) = Ids(x, l[m])
  <2>1. /\ read \in Seq(Rooted(Integrated(s)))
        /\ StructIds(ToSet(read)) = Ids(newId(sec.client, sec.clock), l[m])
    BY <1>0, <1>15, SectionRead
  <2> QED BY <1>16, <2>1
<1>18. ToSet(read) = itemsOf(sec, l, m)
  BY <1>0, <1>15, SectionRead
<1>19. ASSUME Contiguous(s, nodes), NEW w, IsWorld(w), Follows(s, w), NEW u \in ToSet(read)
       PROVE  Spelled(u, w)
  <2>1. PICK k \in 1 .. m : u = readStruct(sec.structs[k], sec.client, sec.clock + l[k - 1])
    BY <1>18, <1>19 DEF itemsOf
  <2>2. Unbroken(s, w, f, x, runs)
    BY <1>19, UnbrokenAll DEF f, runs
  <2> DEFINE T == {i \in 0 .. m : i < m => runs[i + 1][1] = Add(x, l[i])}
  <2>3. l \in [0 .. m -> Nat] /\ l[0] = 0 /\ \A i \in 1 .. m : l[i] = l[i - 1] + Len(Spell(f, runs[i]))
    BY <1>5, <1>9, <1>10 DEF Lengths, m
  <2>4. 0 \in T
    <3>1. Add(x, 0) = x
      BY <1>1, IdFacts DEF Add, clientOf, clockOf
    <3>2. 0 < m => runs # <<>>
      <4>1. runs = <<>> => m = 0
        BY DEF m
      <4> QED BY <1>5, <4>1
    <3>3. 0 \in 0 .. m
      BY <1>5
    <3> QED BY <2>2, <2>3, <3>1, <3>2, <3>3 DEF Unbroken
  <2>5. \A i \in 0 .. m - 1 : i \in T => i + 1 \in T
    <3> TAKE i \in 0 .. m - 1
    <3> HAVE i \in T
    <3>1. i \in Nat /\ i < m /\ i + 1 \in 0 .. m /\ i + 1 \in 1 .. m /\ (i + 1) - 1 = i /\ i \in 0 .. m
      BY <1>5
    <3>2. i + 1 < m => (i + 1) + 1 \in 1 .. m /\ (i + 1) + 1 # 1 /\ ((i + 1) + 1) - 1 = i + 1
      BY <1>5, <3>1
    <3>3. l[i + 1] = l[i] + Len(Spell(f, runs[i + 1])) /\ l[i] \in Nat
      BY <2>3, <3>1
    <3>4. runs[i + 1][1] = Add(x, l[i])
      BY <3>1
    <3>5. Len(Spell(f, runs[i + 1])) \in Nat
      <4>1. Spell(f, runs[i + 1]) \in Seq(Id)
        BY <1>5, <1>9, <3>1
      <4> QED BY <4>1
    <3>6. \A a, b \in Nat : Add(Add(x, a), b) = Add(x, a + b)
      <4> TAKE a \in Nat, b \in Nat
      <4>1. x[2] \in Nat
        BY <1>1, IdFacts DEF clockOf
      <4>2. Add(Add(x, a), b) = <<x[1], (x[2] + a) + b>> /\ Add(x, a + b) = <<x[1], x[2] + (a + b)>>
        BY DEF Add
      <4>3. (x[2] + a) + b = x[2] + (a + b)
        BY <4>1
      <4> QED BY <4>2, <4>3
    <3>7. i + 1 < m => runs[(i + 1) + 1][1] = Add(runs[i + 1][1], Len(Spell(f, runs[i + 1])))
      BY <1>5, <2>2, <3>2 DEF Unbroken
    <3>8. i + 1 < m => runs[(i + 1) + 1][1] = Add(x, l[i + 1])
      BY <3>3, <3>4, <3>5, <3>6, <3>7
    <3> QED BY <3>1, <3>8
  <2>6. k - 1 \in T /\ k - 1 < m /\ (k - 1) + 1 = k
    <3>1. k - 1 \in 0 .. m /\ k - 1 < m /\ (k - 1) + 1 = k
      BY <1>5, <2>1
    <3> HIDE DEF T
    <3> QED BY <1>5, <2>4, <2>5, <3>1, UpTo
  <2>7. runs[k][1] = Add(x, l[k - 1])
    BY <2>6
  <2>8. newId(sec.client, sec.clock + l[k - 1]) = runs[k][1]
    BY <1>13, <2>7 DEF newId, Add, clientOf, clockOf
  <2>9. sec.structs[k] = encodeRun(s, runs[k])
        /\ Len(decodeWireString(sec.structs[k].content)) = Len(Spell(f, runs[k]))
    BY <1>5, <1>9, <1>14, <2>1
  <2>10. /\ u.id = runs[k][1] /\ u.len = Len(Spell(f, runs[k]))
         /\ u.originLeftId = s.heap[runs[k][1]].originLeftId
         /\ u.originRightId = s.heap[runs[k][1]].originRightId
         /\ u.parentName = writtenName(s, runs[k][1])
    <3>1. /\ u.id = newId(sec.client, sec.clock + l[k - 1])
          /\ u.len = Len(decodeWireString(sec.structs[k].content))
          /\ u.originLeftId = sec.structs[k].originLeftId
          /\ u.originRightId = sec.structs[k].originRightId
          /\ u.parentName = sec.structs[k].parentName
      BY <2>1 DEF readStruct
    <3>2. /\ sec.structs[k].originLeftId = s.heap[runs[k][1]].originLeftId
          /\ sec.structs[k].originRightId = s.heap[runs[k][1]].originRightId
          /\ sec.structs[k].parentName = writtenName(s, runs[k][1])
      BY <2>9 DEF encodeRun
    <3> QED BY <2>8, <2>9, <3>1, <3>2
  <2>11. Spelt(s, w, runs[k][1], Len(Spell(f, runs[k])), Last(runs[k]))
    BY <1>5, <2>1, <2>2 DEF Unbroken
  <2> QED BY <1>19, <2>10, <2>11, SpeltIs
<1>20. Contiguous(s, nodes) => Faithful(s, ToSet(read))
  BY <1>19 DEF Faithful
<1> QED BY <1>7, <1>11, <1>12, <1>17, <1>20 DEF sec

\* The units of structs read one after another.
LEMMA FlatIds ==
  ASSUME NEW A, NEW ss \in Seq(Seq(A))
  PROVE  /\ FlattenSeq(ss) \in Seq(A)
         /\ ToSet(FlattenSeq(ss)) = UNION {ToSet(ss[i]) : i \in DOMAIN ss}
         /\ StructIds(ToSet(FlattenSeq(ss))) = UNION {StructIds(ToSet(ss[i])) : i \in DOMAIN ss}
<1>1. FlattenSeq(ss) \in Seq(A)
  BY FlatValues
<1>2. ToSet(FlattenSeq(ss)) = UNION {ToSet(ss[i]) : i \in DOMAIN ss}
  BY FlatSet
<1> DEFINE S == ToSet(FlattenSeq(ss))
           P(i) == ToSet(ss[i])
<1>3. S = UNION {P(i) : i \in DOMAIN ss}
  BY <1>2
<1> HIDE DEF S, P
<1>4. StructIds(S) = UNION {StructIds(P(i)) : i \in DOMAIN ss}
  BY <1>3 DEF StructIds
<1> QED BY <1>1, <1>2, <1>4 DEF S, P

\* A struct is split into its units, one each.
LEMMA StructSplit ==
  ASSUME NEW S, NEW u \in Rooted(S), Ids(u.id, u.len) \subseteq S
  PROVE  /\ splitStruct(u) \in Seq(Rooted(S))
         /\ OneUnit(ToSet(splitStruct(u)))
         /\ StructIds(ToSet(splitStruct(u))) = Ids(u.id, u.len)
         /\ \A w : Spelled(u, w) => \A e \in ToSet(splitStruct(u)) : Spelled(e, w)
<1> DEFINE n == u.len
           x == u.id
           part(k) == IF k = 1 THEN [u EXCEPT !.len = 1]
                      ELSE [id |-> Add(x, k - 1), len |-> 1,
                            originLeftId |-> Add(x, k - 2), originRightId |-> u.originRightId,
                            parentName |-> Nil]
           q == splitStruct(u)
<1>1. /\ u \in UpdateItem /\ x \in Id /\ n \in Nat \ {0}
      /\ u.parentName # Nil <=> u.originLeftId = Nil /\ u.originRightId = Nil
  BY DEF Rooted, Item, UpdateItem
<1>2. q = [k \in 1 .. n |-> part(k)]
  BY DEF splitStruct
<1>3. Add(x, 0) = x
  BY <1>1, IdFacts DEF Add, clientOf, clockOf
<1>4. Nil \notin Id
  BY NilAssumption DEF Id
<1>5. ASSUME NEW k \in 1 .. n
      PROVE  /\ part(k) \in Rooted(S) /\ part(k).id = Add(x, k - 1) /\ part(k).len = 1
             /\ part(k).originRightId = u.originRightId
             /\ k = 1 => part(k).originLeftId = u.originLeftId /\ part(k).parentName = u.parentName
             /\ k # 1 => part(k).originLeftId = Add(x, k - 2) /\ part(k).parentName = Nil
  <2>1. CASE k = 1
    <3>1. part(k) = [u EXCEPT !.len = 1]
      BY <2>1
    <3>2. part(k) \in UpdateItem /\ part(k).id = x /\ part(k).len = 1
          /\ part(k).originLeftId = u.originLeftId /\ part(k).originRightId = u.originRightId
          /\ part(k).parentName = u.parentName
      BY <1>1, <3>1 DEF UpdateItem
    <3> HIDE DEF part
    <3>3. part(k) \in Rooted(S)
      BY <1>1, <3>2 DEF Item, Rooted
    <3>4. k - 1 = 0
      BY <2>1
    <3> QED BY <1>3, <2>1, <3>2, <3>3, <3>4
  <2>2. CASE k # 1
    <3>1. part(k) = [id |-> Add(x, k - 1), len |-> 1,
                     originLeftId |-> Add(x, k - 2), originRightId |-> u.originRightId,
                     parentName |-> Nil]
      BY <2>2
    <3>2. k - 1 \in Nat /\ k - 2 \in Nat
      BY <1>1, <2>2
    <3>3. Add(x, k - 1) \in Id /\ Add(x, k - 2) \in Id
      BY <1>1, <3>2, IdFacts
    <3> HIDE DEF part
    <3>4. u.originRightId \in OptId
      BY <1>1 DEF UpdateItem
    <3>5. part(k) \in UpdateItem
      BY <3>1, <3>3, <3>4 DEF UpdateItem, OptId
    <3>6. Add(x, k - 2) \in S
      <4>1. k - 2 \in 0 .. n - 1
        BY <1>1, <2>2
      <4> QED BY <4>1 DEF Ids
    <3>7. u.originRightId \in S \cup {Nil}
      BY DEF Rooted
    <3>8. part(k) \in Rooted(S)
      BY <1>4, <3>1, <3>3, <3>5, <3>6, <3>7 DEF Item, Rooted
    <3> QED BY <2>2, <3>1, <3>8
  <2> QED BY <2>1, <2>2
<1> HIDE DEF part, q, n, x
<1>6. q \in Seq(Rooted(S)) /\ DOMAIN q = 1 .. n
  BY <1>1, <1>2, <1>5
<1>7. ToSet(q) = {q[k] : k \in 1 .. n} /\ \A k \in 1 .. n : q[k].id = Add(x, k - 1) /\ q[k].len = 1
  BY <1>2, <1>5, <1>6 DEF ToSet
<1>8. OneUnit(ToSet(q))
  BY <1>7 DEF OneUnit
<1>9. StructIds(ToSet(q)) = UNION {Ids(q[k].id, q[k].len) : k \in 1 .. n}
  BY <1>7 DEF StructIds
<1>10. \A k \in 1 .. n : Ids(q[k].id, q[k].len) = {Add(x, k - 1)}
  <2> TAKE k \in 1 .. n
  <2>1. k - 1 \in Nat
    BY <1>1
  <2> QED BY <1>1, <1>7, <2>1, IdFacts, OneId
<1>11. Ids(x, n) = {Add(x, k - 1) : k \in 1 .. n}
  <2>1. \A k \in 1 .. n : k - 1 \in 0 .. n - 1
    BY <1>1
  <2>2. \A k \in 0 .. n - 1 : k + 1 \in 1 .. n /\ (k + 1) - 1 = k
    BY <1>1
  <2> QED BY <2>1, <2>2 DEF Ids
<1>12. StructIds(ToSet(q)) = Ids(x, n)
  <2>1. {Ids(q[k].id, q[k].len) : k \in 1 .. n} = {{Add(x, k - 1)} : k \in 1 .. n}
    BY <1>10
  <2> DEFINE e(k) == Add(x, k - 1)
  <2>2. UNION {{e(k)} : k \in 1 .. n} = {e(k) : k \in 1 .. n}
    <3> HIDE DEF e
    <3> QED OBVIOUS
  <2> QED BY <1>9, <1>11, <2>1, <2>2
<1>13. ASSUME NEW w, Spelled(u, w), NEW e \in ToSet(q)
       PROVE  Spelled(e, w)
  <2>1. PICK k \in 1 .. n : e = part(k)
    BY <1>2, <1>7, <1>13
  <2>2. /\ e.id = Add(x, k - 1) /\ e.len = 1 /\ e.originRightId = u.originRightId
        /\ k = 1 => e.originLeftId = u.originLeftId /\ e.parentName = u.parentName
        /\ k # 1 => e.originLeftId = Add(x, k - 2) /\ e.parentName = Nil
    BY <1>5, <2>1
  <2>3. e.id \in Ids(x, n) /\ e.id \in Id
    <3>1. k - 1 \in Nat
      BY <1>1
    <3> QED BY <1>1, <1>11, <2>1, <2>2, <3>1, IdFacts
  <2>4. Ids(e.id, e.len) = {e.id}
    BY <2>2, <2>3, OneId
  <2>5. /\ Ids(x, n) \subseteq w.made /\ w.left[x] = u.originLeftId
        /\ u.parentName # Nil => w.parent[x] = u.parentName
        /\ \A y \in Ids(x, n) : /\ w.right[y] = u.originRightId /\ w.parent[y] = w.parent[x]
                                /\ y # x => w.left[y] = Sub(y, 1)
    BY <1>13 DEF Spelled, x, n
  <2>6. w.left[e.id] = e.originLeftId /\ (e.parentName # Nil => w.parent[e.id] = e.parentName)
    <3>1. CASE k = 1
      <4>1. k - 1 = 0
        BY <3>1
      <4> QED BY <1>3, <2>2, <2>5, <3>1, <4>1
    <3>2. CASE k # 1
      <4>1. x[2] \in Int /\ k - 1 # 0 /\ k - 1 \in Int
        BY <1>1, <3>2, IdFacts DEF clockOf
      <4>2. e.id = <<x[1], x[2] + (k - 1)>>
        BY <2>2 DEF Add
      <4>3. e.id[2] = x[2] + (k - 1) /\ e.id # x
        BY <4>1, <4>2
      <4>4. Sub(e.id, 1) = <<x[1], (x[2] + (k - 1)) - 1>>
        BY <4>2 DEF Sub
      <4>5. (x[2] + (k - 1)) - 1 = x[2] + (k - 2)
        BY <1>1, <4>1
      <4>6. Sub(e.id, 1) = Add(x, k - 2)
        BY <4>4, <4>5 DEF Add
      <4> QED BY <2>2, <2>3, <2>5, <3>2, <4>3, <4>6
    <3> QED BY <3>1, <3>2
  <2> QED BY <2>2, <2>3, <2>4, <2>5, <2>6 DEF Spelled
<1> QED BY <1>6, <1>8, <1>12, <1>13 DEF q, x, n

\* ... and all of them.
LEMMA StructsSplit ==
  ASSUME NEW S, NEW us \in Seq(Rooted(S)), StructIds(ToSet(us)) \subseteq S
  PROVE  /\ splitStructs(us) \in Seq(Rooted(S))
         /\ OneUnit(ToSet(splitStructs(us)))
         /\ StructIds(ToSet(splitStructs(us))) = StructIds(ToSet(us))
         /\ \A w : (\A u \in ToSet(us) : Spelled(u, w))
                     => \A e \in ToSet(splitStructs(us)) : Spelled(e, w)
<1> DEFINE n == Len(us)
           ss == [i \in DOMAIN us |-> splitStruct(us[i])]
<1>1. n \in Nat /\ DOMAIN us = 1 .. n /\ \A i \in 1 .. n : us[i] \in Rooted(S)
                                       /\ Ids(us[i].id, us[i].len) \subseteq S
  BY DEF StructIds, ToSet
<1> HIDE DEF n
<1>2. /\ DOMAIN ss = 1 .. n
      /\ \A i \in 1 .. n : /\ ss[i] \in Seq(Rooted(S)) /\ OneUnit(ToSet(ss[i]))
                           /\ StructIds(ToSet(ss[i])) = Ids(us[i].id, us[i].len)
                           /\ \A w : Spelled(us[i], w) => \A e \in ToSet(ss[i]) : Spelled(e, w)
  BY <1>1, StructSplit
<1>3. splitStructs(us) = FlattenSeq(ss)
  BY DEF splitStructs
<1>4. ss \in Seq(Seq(Rooted(S)))
  BY <1>1, <1>2
<1> HIDE DEF ss
<1>5. OneUnit(ToSet(FlattenSeq(ss)))
  <2>1. ToSet(FlattenSeq(ss)) = UNION {ToSet(ss[i]) : i \in DOMAIN ss}
    BY <1>4, FlatIds
  <2>2. \A i \in DOMAIN ss : \A u \in ToSet(ss[i]) : u.len = 1
    BY <1>2 DEF OneUnit
  <2>3. \A u \in ToSet(FlattenSeq(ss)) : u.len = 1
    BY <2>1, <2>2
  <2> QED BY <2>3 DEF OneUnit
<1>6. StructIds(ToSet(us)) = UNION {Ids(us[i].id, us[i].len) : i \in 1 .. n}
  BY <1>1 DEF StructIds, ToSet
<1>7. StructIds(ToSet(FlattenSeq(ss))) = StructIds(ToSet(us))
  BY <1>2, <1>4, <1>6, FlatIds
<1>8. ASSUME NEW w, \A u \in ToSet(us) : Spelled(u, w), NEW e \in ToSet(FlattenSeq(ss))
      PROVE  Spelled(e, w)
  <2>1. PICK i \in 1 .. n : e \in ToSet(ss[i])
    <3>1. ToSet(FlattenSeq(ss)) = UNION {ToSet(ss[i]) : i \in DOMAIN ss}
      BY <1>4, FlatIds
    <3> QED BY <1>2, <1>8, <3>1
  <2>2. us[i] \in ToSet(us)
    BY <1>1 DEF ToSet
  <2> QED BY <1>2, <1>8, <2>1, <2>2
<1> QED BY <1>3, <1>4, <1>5, <1>7, <1>8, FlatIds

\* What either codec makes of sections whose structs can be read.
IsDecoded(S, n, secs, us) ==
  /\ us \in Seq(Rooted(S)) /\ (Split => OneUnit(ToSet(us)))
  /\ StructIds(ToSet(us)) = UNION {StructIds(ToSet(readStructs(secs[i]))) : i \in 1 .. n}
  /\ \A w : (\A i \in 1 .. n : \A u \in ToSet(readStructs(secs[i])) : Spelled(u, w))
              => \A u \in ToSet(us) : Spelled(u, w)

\* What is decoded of sections is what is read of each, split or not: the same
\* units, and nothing wider than the sections' own origins.
LEMMA SectionsDecoded ==
  ASSUME NEW S, NEW n \in Nat, NEW secs, DOMAIN secs = 1 .. n,
         \A i \in 1 .. n : readStructs(secs[i]) \in Seq(Rooted(S)),
         \A i \in 1 .. n : StructIds(ToSet(readStructs(secs[i]))) \subseteq S
  PROVE  IsDecoded(S, n, secs, Decoded(secs))
<1> DEFINE ss == [i \in DOMAIN secs |-> readStructs(secs[i])]
           us == readStructSection(secs)
<1>1. us = FlattenSeq(ss)
  BY DEF readStructSection
<1>2. ss \in Seq(Seq(Rooted(S))) /\ DOMAIN ss = 1 .. n /\ \A i \in 1 .. n : ss[i] = readStructs(secs[i])
  OBVIOUS
<1> HIDE DEF ss, us
<1>3. us \in Seq(Rooted(S))
      /\ StructIds(ToSet(us)) = UNION {StructIds(ToSet(ss[i])) : i \in 1 .. n}
  BY <1>1, <1>2, FlatIds
<1>4. StructIds(ToSet(us)) = UNION {StructIds(ToSet(readStructs(secs[i]))) : i \in 1 .. n}
  BY <1>2, <1>3
<1>5. Decoded(secs) = IF Split THEN splitStructs(us) ELSE us
  BY DEF Decoded, us
<1>6. StructIds(ToSet(us)) \subseteq S
  BY <1>4
<1>7. ASSUME NEW w, \A i \in 1 .. n : \A u \in ToSet(readStructs(secs[i])) : Spelled(u, w)
      PROVE  \A u \in ToSet(us) : Spelled(u, w)
  <2>1. ToSet(us) = UNION {ToSet(ss[i]) : i \in 1 .. n}
    BY <1>1, <1>2, FlatIds
  <2> QED BY <1>2, <1>7, <2>1
<1> QED BY <1>3, <1>4, <1>5, <1>6, <1>7, StructsSplit DEF IsDecoded

\* Numbers up to n.
LEMMA CountTo ==
  ASSUME NEW n \in Nat
  PROVE  IsFiniteSet(1 .. n) /\ Cardinality(1 .. n) = n
<1>1. 1 \in Int /\ n \in Int
  OBVIOUS
<1>2. /\ IsFiniteSet(1 .. n)
      /\ Cardinality(1 .. n) = IF 1 > n THEN 0 ELSE n - 1 + 1
  BY <1>1, FS_Interval
<1> QED BY <1>2

\* What different positions name is as much as they are.
named(f, n) == {f[i] : i \in 1 .. n}

\* A sequence without repetitions has as many values as places.
LEMMA ImageCounts ==
  ASSUME NEW n \in Nat, NEW S, NEW f \in [1 .. n -> S],
         \A i, j \in 1 .. n : f[i] = f[j] => i = j
  PROVE  IsFiniteSet(named(f, n)) /\ Cardinality(named(f, n)) = n
<1> DEFINE T == named(f, n)
<1>1. f \in [1 .. n -> T] /\ \A t \in T : \E i \in 1 .. n : f[i] = t
  BY DEF named
<1> HIDE DEF T
<1>2. f \in Bijection(1 .. n, T)
  BY <1>1 DEF Bijection, Injection, Surjection, IsInjective
<1>3. ExistsBijection(1 .. n, T)
  BY <1>2 DEF ExistsBijection
<1>4. IsFiniteSet(1 .. n) /\ Cardinality(1 .. n) = n
  BY CountTo
<1>5. IsFiniteSet(T) /\ Cardinality(T) = n
  BY <1>3, <1>4, FS_Bijection
<1> QED BY <1>5 DEF T

\* As many different elements of a set as it has are all of them.
LEMMA Onto ==
  ASSUME NEW S, IsFiniteSet(S), NEW f \in [1 .. Cardinality(S) -> S],
         \A i, j \in 1 .. Cardinality(S) : f[i] = f[j] => i = j
  PROVE  {f[i] : i \in 1 .. Cardinality(S)} = S
<1> DEFINE n == Cardinality(S)
           T == named(f, n)
<1>1. n \in Nat
  BY FS_CardinalityType
<1>2. T \subseteq S
  BY DEF named
<1>3. Cardinality(T) = n
  <2> HIDE DEF n
  <2>1. f \in [1 .. n -> S] /\ \A i, j \in 1 .. n : f[i] = f[j] => i = j
    BY DEF n
  <2> QED BY <1>1, <2>1, ImageCounts
<1> HIDE DEF T
<1>4. T = S
  BY <1>2, <1>3, FS_Subset
<1> QED BY <1>4 DEF T, named

\* A finite set as a sequence.
LEMMA SetInSeq ==
  ASSUME NEW S, IsFiniteSet(S)
  PROVE  SetToSeq(S) \in Seq(S) /\ ToSet(SetToSeq(S)) = S
<1> DEFINE n == Cardinality(S)
           q == SetToSeq(S)
<1>1. n \in Nat /\ ExistsBijection(1 .. n, S)
  BY FS_CardinalityType
<1>2. \E f \in [1 .. n -> S] : IsInjective(f)
  BY <1>1 DEF ExistsBijection, Bijection, Injection
<1>3. q \in [1 .. n -> S] /\ IsInjective(q)
  BY <1>2 DEF SetToSeq
<1> HIDE DEF q
<1>4. {q[i] : i \in 1 .. n} = S
  BY <1>3, Onto DEF IsInjective
<1>5. q \in Seq(S) /\ DOMAIN q = 1 .. n
  BY <1>1, <1>3
<1>6. ToSet(q) = S
  BY <1>4, <1>5 DEF ToSet
<1> QED BY <1>5, <1>6 DEF q

\* The elements of a sequence are finitely many, and so are their clients.
LEMMA FiniteClients ==
  ASSUME NEW l \in Seq(Id)
  PROVE  IsFiniteSet({clientOf(x) : x \in ToSet(l)})
<1> DEFINE n == Len(l)
           C == {clientOf(x) : x \in ToSet(l)}
           f == [i \in 1 .. n |-> clientOf(l[i])]
<1>1. n \in Nat /\ DOMAIN l = 1 .. n
  OBVIOUS
<1>2. \A i \in 1 .. n : l[i] \in ToSet(l)
  BY <1>1 DEF ToSet
<1>3. \A c \in C : \E i \in 1 .. n : f[i] = c
  BY <1>1 DEF ToSet
<1>4. f \in [1 .. n -> C]
  BY <1>2
<1> HIDE DEF f, C
<1>5. f \in Surjection(1 .. n, C)
  BY <1>3, <1>4 DEF Surjection
<1>6. IsFiniteSet(C)
  BY <1>1, <1>5, CountTo, FS_Surjection
<1> QED BY <1>6 DEF C

\* The clients by size are all of them.
LEMMA ClientsSorted ==
  ASSUME NEW C \in SUBSET Client, IsFiniteSet(C)
  PROVE  LET q == sortedClientsDesc(C)
             n == Cardinality(C)
         IN  /\ n \in Nat /\ DOMAIN q = 1 .. n /\ \A i \in 1 .. n : q[i] \in C
             /\ {q[i] : i \in 1 .. n} = C
<1> DEFINE n == Cardinality(C)
           q == sortedClientsDesc(C)
           above(c) == {e \in C : e > c}
           f == [c \in C |-> Cardinality(above(c)) + 1]
<1>1. n \in Nat /\ C \subseteq Nat
  BY FS_CardinalityType, ClientAssumption
<1>2. \A c \in C : IsFiniteSet(above(c)) /\ Cardinality(above(c)) \in Nat /\ Cardinality(above(c)) < n
  <2> TAKE c \in C
  <2>1. above(c) \in SUBSET C /\ c \notin above(c)
    BY <1>1
  <2> HIDE DEF above
  <2>2. IsFiniteSet(above(c)) /\ Cardinality(above(c)) <= n /\ Cardinality(above(c)) # n
    BY <2>1, FS_Subset
  <2>3. Cardinality(above(c)) \in Nat
    BY <2>2, FS_CardinalityType
  <2> QED BY <1>1, <2>2, <2>3
<1>3. \A c, d \in C : c < d => Cardinality(above(d)) # Cardinality(above(c))
  <2> TAKE c, d \in C
  <2> HAVE c < d
  <2>1. c \in Nat /\ d \in Nat /\ \A e \in C : e \in Nat
    BY <1>1
  <2>2. above(d) \subseteq above(c) /\ d \in above(c) /\ d \notin above(d)
    <3>1. \A e \in C : e > d => e > c
      BY <2>1
    <3>2. d > c /\ ~ (d > d)
      BY <2>1
    <3> QED BY <3>1, <3>2
  <2> HIDE DEF above
  <2>3. above(d) # above(c)
    BY <2>2
  <2> QED BY <1>2, <2>2, <2>3, FS_Subset
<1> HIDE DEF above
<1>4. \A c, d \in C : Cardinality(above(c)) = Cardinality(above(d)) => c = d
  <2> TAKE c, d \in C
  <2> HAVE Cardinality(above(c)) = Cardinality(above(d))
  <2>1. c \in Nat /\ d \in Nat /\ ~ (c < d) /\ ~ (d < c)
    BY <1>1, <1>3
  <2> QED BY <2>1
<1>5. f \in [C -> 1 .. n] /\ \A c \in C : f[c] = Cardinality(above(c)) + 1
  BY <1>1, <1>2
<1> HIDE DEF f
<1>6. f \in Injection(C, 1 .. n)
  BY <1>2, <1>4, <1>5 DEF Injection, IsInjective
<1>7. f \in Surjection(C, 1 .. n)
  BY <1>1, <1>6, CountTo, FS_Injection
<1>8. q = [i \in 1 .. n |-> CHOOSE c \in C : Cardinality(above(c)) = i - 1]
  BY DEF sortedClientsDesc, above
<1> HIDE DEF q
<1>9. \A i \in 1 .. n : q[i] \in C /\ Cardinality(above(q[i])) = i - 1
  <2> TAKE i \in 1 .. n
  <2>1. PICK c \in C : f[c] = i
    BY <1>7 DEF Surjection
  <2>2. Cardinality(above(c)) = i - 1
    BY <1>2, <1>5, <2>1
  <2> QED BY <1>8, <2>2
<1>10. \A c \in C : \E i \in 1 .. n : q[i] = c
  <2> TAKE c \in C
  <2>1. f[c] \in 1 .. n /\ f[c] - 1 = Cardinality(above(c))
    BY <1>2, <1>5
  <2> QED BY <1>4, <1>9, <2>1
<1>11. DOMAIN q = 1 .. n
  BY <1>8
<1> QED BY <1>1, <1>9, <1>10, <1>11 DEF q

\* Nodes in the order of their clocks, sorted by clock, are as they were.
LEMMA RunSorted ==
  ASSUME NEW run \in Seq(Id),
         \A i, j \in DOMAIN run : i < j => clockOf(run[i]) < clockOf(run[j])
  PROVE  sortedByClock(ToSet(run)) = run
<1> DEFINE n == Len(run)
           S == ToSet(run)
           below(x) == {y \in S : clockOf(y) < clockOf(x)}
           q == sortedByClock(S)
<1>1. n \in Nat /\ DOMAIN run = 1 .. n /\ run \in [1 .. n -> Id] /\ S = named(run, n)
  BY DEF ToSet, named
<1>2. \A i \in 1 .. n : clockOf(run[i]) \in Nat
  BY <1>1, IdFacts
<1>3. \A i, j \in 1 .. n : i < j => clockOf(run[i]) < clockOf(run[j])
  BY <1>1
<1> HIDE DEF n, S
<1>4. \A i, j \in 1 .. n : run[i] = run[j] => i = j
  <2> TAKE i, j \in 1 .. n
  <2> HAVE run[i] = run[j]
  <2>1. clockOf(run[i]) = clockOf(run[j])
    OBVIOUS
  <2>2. ~ (i < j) /\ ~ (j < i)
    BY <1>2, <1>3, <2>1
  <2> QED BY <1>1, <2>2
<1>5. Cardinality(S) = n
  BY <1>1, <1>4, ImageCounts
<1>6. \A i \in 1 .. n : Cardinality(below(run[i])) = i - 1
  <2> TAKE i \in 1 .. n
  <2> DEFINE m == i - 1
             f == [j \in 1 .. m |-> run[j]]
  <2>1. m \in Nat /\ \A j \in 1 .. m : j \in 1 .. n /\ j < i
    BY <1>1
  <2>2. \A j \in 1 .. n : j < i => j \in 1 .. m
    BY <1>1
  <2> HIDE DEF m
  <2>3. f \in [1 .. m -> Id] /\ \A j \in 1 .. m : f[j] = run[j]
    BY <1>1, <2>1
  <2> HIDE DEF f
  <2>4. Cardinality(named(f, m)) = m
    <3>1. \A j, k \in 1 .. m : f[j] = f[k] => j = k
      BY <1>4, <2>1, <2>3
    <3> QED BY <2>1, <2>3, <3>1, ImageCounts
  <2>5. below(run[i]) = named(f, m)
    <3>1. \A j \in 1 .. m : f[j] \in below(run[i])
      BY <1>1, <1>3, <2>1, <2>3 DEF named
    <3>2. \A y \in below(run[i]) : \E j \in 1 .. m : y = f[j]
      <4> TAKE y \in below(run[i])
      <4>1. y \in S /\ clockOf(y) < clockOf(run[i])
        OBVIOUS
      <4>2. PICK j \in 1 .. n : y = run[j]
        BY <1>1, <4>1 DEF named
      <4>3. ~ (i < j) /\ j # i
        BY <1>2, <1>3, <4>1, <4>2
      <4>4. j < i
        BY <1>1, <4>3
      <4> QED BY <2>2, <2>3, <4>2, <4>4
    <3> HIDE DEF below
    <3> QED BY <3>1, <3>2 DEF named
  <2> QED BY <2>4, <2>5 DEF m
<1>7. q = [i \in 1 .. n |-> CHOOSE x \in S : Cardinality(below(x)) = i - 1]
  BY <1>5 DEF sortedByClock
<1> HIDE DEF q, below
<1>8. \A i \in 1 .. n : q[i] = run[i]
  <2> TAKE i \in 1 .. n
  <2>1. run[i] \in S /\ Cardinality(below(run[i])) = i - 1
    BY <1>1, <1>6 DEF named
  <2>2. q[i] \in S /\ Cardinality(below(q[i])) = i - 1
    BY <1>7, <2>1
  <2>3. PICK j \in 1 .. n : q[i] = run[j]
    BY <1>1, <2>2 DEF named
  <2>4. j - 1 = i - 1
    BY <1>6, <2>2, <2>3
  <2>5. i = j
    BY <1>1, <2>4
  <2> QED BY <2>3, <2>5
<1>9. q = run
  BY <1>1, <1>7, <1>8
<1> QED BY <1>9 DEF q, S

\* Selecting keeps the elements of the set.
LEMMA SelectSet ==
  ASSUME NEW A, NEW l \in Seq(A), NEW S
  PROVE  SelectIn(l, S) \in Seq(A) /\ ToSet(SelectIn(l, S)) = ToSet(l) \cap S
<1> DEFINE n == Len(l)
           pre(k) == SubSeq(l, 1, k)
           sel(k) == SelectIn(pre(k), S)
           T == {k \in 0 .. n : sel(k) \in Seq(A) /\ ToSet(sel(k)) = ToSet(pre(k)) \cap S}
<1>1. n \in Nat /\ pre(0) = <<>> /\ pre(n) = l
  OBVIOUS
<1>2. \A k \in 0 .. n - 1 : pre(k) \in Seq(A) /\ l[k + 1] \in A /\ pre(k + 1) = Append(pre(k), l[k + 1])
  <2> TAKE k \in 0 .. n - 1
  <2>1. k \in Nat /\ k < Len(l)
    BY <1>1
  <2> QED BY <2>1, SubSeqGrows
<1> HIDE DEF n, pre
<1>3. 0 \in T
  <2>1. sel(0) = <<>>
    BY <1>1, SelectEmpty
  <2>2. ToSet(<<>>) = {} /\ <<>> \in Seq(A) /\ 0 \in 0 .. n
    BY <1>1 DEF ToSet
  <2>3. ToSet(pre(0)) \cap S = {}
    BY <1>1, <2>2
  <2> HIDE DEF sel
  <2> QED BY <2>1, <2>2, <2>3
<1>4. \A k \in 0 .. n - 1 : k \in T => k + 1 \in T
  <2> TAKE k \in 0 .. n - 1
  <2> HAVE k \in T
  <2> DEFINE p == pre(k)
             e == l[k + 1]
             q == SelectIn(p, S)
  <2>1. p \in Seq(A) /\ e \in A /\ pre(k + 1) = Append(p, e)
    BY <1>2
  <2>2. q \in Seq(A) /\ ToSet(q) = ToSet(p) \cap S
    OBVIOUS
  <2> HIDE DEF p, e
  <2>3. SelectIn(Append(p, e), S) = IF e \in S THEN Append(q, e) ELSE q
    BY <2>1, SelectAppend
  <2>4. ToSet(Append(p, e)) = ToSet(p) \cup {e}
    BY <2>1, AppendSet
  <2> HIDE DEF q
  <2>5. Append(q, e) \in Seq(A) /\ ToSet(Append(q, e)) = ToSet(q) \cup {e}
    BY <2>1, <2>2, AppendSet
  <2>6. k + 1 \in 0 .. n
    BY <1>1
  <2>7. sel(k + 1) \in Seq(A) /\ ToSet(sel(k + 1)) = ToSet(pre(k + 1)) \cap S
    <3> DEFINE z == SelectIn(Append(p, e), S)
    <3>1. sel(k + 1) = z
      BY <2>1
    <3>2. z \in Seq(A) /\ ToSet(z) = (ToSet(p) \cup {e}) \cap S
      BY <2>2, <2>3, <2>5
    <3> HIDE DEF z
    <3> QED BY <2>1, <2>4, <3>1, <3>2
  <2> QED BY <2>6, <2>7
<1> HIDE DEF T
<1>5. n \in T
  <2>1. n \in 0 .. n /\ n \in Nat
    BY <1>1
  <2> QED BY <1>3, <1>4, <2>1, UpTo
<1> QED BY <1>1, <1>5 DEF T, sel

\* The nodes the walks over the lists come by.
walked(s) == LET roots == SetToSeq(Root) IN FlattenSeq([i \in DOMAIN roots |-> Chain(s, roots[i])])

\* A walk over the lists of all roots comes by every node and no other.
LEMMA Walked ==
  ASSUME NEW s, Sound(s)
  PROVE  walked(s) \in Seq(DOMAIN s.heap) /\ ToSet(walked(s)) = DOMAIN s.heap
<1> DEFINE roots == SetToSeq(Root)
           n == Len(roots)
           X == DOMAIN s.heap
           ss == [i \in DOMAIN roots |-> Chain(s, roots[i])]
<1>1. roots \in Seq(Root) /\ ToSet(roots) = Root
  BY RootsAssumption, SetInSeq
<1> HIDE DEF roots
<1>2. n \in Nat /\ DOMAIN roots = 1 .. n /\ \A i \in 1 .. n : roots[i] \in Root
  BY <1>1
<1>3. \A t \in Root : \E i \in 1 .. n : roots[i] = t
  BY <1>1, <1>2 DEF ToSet
<1>4. \A t \in Root : /\ Chain(s, t) \in Seq(Id)
                      /\ ToSet(Chain(s, t)) = {x \in X : s.heap[x].parent = t}
  BY DEF Sound, Linked, ListOf
<1>5. \A t \in Root : Chain(s, t) \in Seq(X)
  <2> TAKE t \in Root
  <2>1. \A i \in DOMAIN Chain(s, t) : Chain(s, t)[i] \in X
    BY <1>4 DEF ToSet
  <2>2. \A l \in Seq(Id) : (\A i \in DOMAIN l : l[i] \in X) => l \in Seq(X)
    <3> HIDE DEF X
    <3> QED OBVIOUS
  <2> QED BY <1>4, <2>1, <2>2
<1>6. \A x \in X : s.heap[x].parent \in Root
  BY HeapFacts DEF Sound, Runs
<1> HIDE DEF n, X
<1>7. ss \in Seq(Seq(X)) /\ DOMAIN ss = 1 .. n /\ \A i \in 1 .. n : ss[i] = Chain(s, roots[i])
  BY <1>2, <1>5
<1>8. walked(s) = FlattenSeq(ss)
  BY DEF walked, roots
<1> HIDE DEF ss
<1>9. FlattenSeq(ss) \in Seq(X)
  BY <1>7, FlatValues
<1>10. ToSet(FlattenSeq(ss)) = UNION {ToSet(ss[i]) : i \in 1 .. n}
  BY <1>7, FlatSet
<1>11. UNION {ToSet(ss[i]) : i \in 1 .. n} = X
  <2>1. \A i \in 1 .. n : ToSet(ss[i]) \subseteq X
    BY <1>2, <1>4, <1>7
  <2>2. ASSUME NEW x \in X
        PROVE  \E i \in 1 .. n : x \in ToSet(ss[i])
    <3> DEFINE t == s.heap[x].parent
    <3>1. t \in Root /\ x \in ToSet(Chain(s, t))
      BY <1>4, <1>6
    <3> HIDE DEF t
    <3>2. PICK i \in 1 .. n : roots[i] = t
      BY <1>3, <3>1
    <3> QED BY <1>7, <3>1, <3>2
  <2> QED BY <2>1, <2>2
<1> QED BY <1>8, <1>9, <1>10, <1>11 DEF X

\* A client's nodes are as long as its clock says.
LEMMA SizeLengths ==
  ASSUME NEW s, Runs(s), NEW c \in Client, s.items[c] # <<>>,
         NEW h, Lengths(unitsOf(s), s.items[c], h)
  PROVE  LET run == s.items[c]
         IN  run[1] = newId(c, 0) /\ h[Len(run)] = Size(s, c)
<1> DEFINE run == s.items[c]
           n == Len(run)
           a == [i \in 1 .. n |-> clockOf(run[i])]
           w == [i \in 1 .. n |-> s.heap[run[i]].len]
<1>1. /\ run \in Seq(Id) /\ n \in Nat /\ DOMAIN run = 1 .. n
      /\ \A i \in 1 .. n : run[i] \in DOMAIN s.heap /\ clientOf(run[i]) = c
      /\ Tiles(a, w, n)
  BY RunTiles
<1>2. /\ h \in [0 .. n -> Nat] /\ h[0] = 0
      /\ \A k \in 1 .. n : h[k] = h[k - 1] + Len(unitsOf(s)[run[k]])
  BY DEF Lengths
<1>3. \A k \in 1 .. n : Len(unitsOf(s)[run[k]]) = w[k]
  BY <1>1, UnitsOf DEF Runs
<1>4. n # 0 /\ Size(s, c) = clockOf(run[n]) + s.heap[run[n]].len
  BY <1>1 DEF Size
<1>5. \A k \in 1 .. n : run[k] \in Id /\ a[k] = clockOf(run[k]) /\ w[k] = s.heap[run[k]].len
  BY <1>1
<1> HIDE DEF run, n, a, w
<1>6. /\ a \in [1 .. n -> Nat] /\ w \in [1 .. n -> Nat \ {0}]
      /\ \A i \in 1 .. n : a[i] = IF i = 1 THEN 0 ELSE a[i - 1] + w[i - 1]
  BY <1>1 DEF Tiles
<1> DEFINE T == {k \in 0 .. n : k # 0 => h[k] = a[k] + w[k]}
<1>7. 0 \in T
  BY <1>1
<1>8. \A k \in 0 .. n - 1 : k \in T => k + 1 \in T
  <2> TAKE k \in 0 .. n - 1
  <2> HAVE k \in T
  <2>1. k + 1 \in 1 .. n /\ (k + 1) - 1 = k /\ k + 1 \in 0 .. n
    BY <1>1
  <2>2. h[k + 1] = h[k] + w[k + 1]
    <3>1. h[k + 1] = h[(k + 1) - 1] + Len(unitsOf(s)[run[k + 1]])
      BY <1>2, <2>1
    <3> QED BY <1>3, <2>1, <3>1
  <2>3. h[k] = a[k + 1]
    <3>1. CASE k = 0
      BY <1>2, <1>6, <2>1, <3>1
    <3>2. CASE k # 0
      <4>1. a[k + 1] = a[(k + 1) - 1] + w[(k + 1) - 1]
        <5>1. k + 1 # 1
          BY <1>1, <3>2
        <5> QED BY <1>6, <2>1, <5>1
      <4> QED BY <2>1, <3>2, <4>1
    <3> QED BY <3>1, <3>2
  <2> QED BY <2>1, <2>2, <2>3
<1> HIDE DEF T
<1>9. n \in T
  <2>1. n \in 0 .. n /\ n \in Nat
    BY <1>1
  <2> QED BY <1>7, <1>8, <2>1, UpTo
<1>10. h[n] = Size(s, c)
  <2>1. n \in 1 .. n
    BY <1>1, <1>4
  <2> QED BY <1>4, <1>5, <1>9, <2>1 DEF T
<1>11. run[1] = newId(c, 0)
  <2>1. 1 \in 1 .. n
    BY <1>1, <1>4
  <2>2. clockOf(run[1]) = 0 /\ clientOf(run[1]) = c /\ run[1] \in Id
    BY <1>1, <1>5, <1>6, <2>1
  <2> QED BY <2>2, IdFacts DEF newId
<1> QED BY <1>10, <1>11 DEF run, n

\* The structs written for a client are all its units.
OfClient(s, c) == {u \in Integrated(s) : clientOf(u) = c}

\* The structs written for a client and read back are all its units.
LEMMA ClientWhole ==
  ASSUME NEW s, Sound(s), Anchored(s), NEW c \in Client, s.items[c] # <<>>
  PROVE  LET read == readStructs(encodeClient(s, s.items[c]))
         IN  /\ read \in Seq(Rooted(Integrated(s))) /\ StructIds(ToSet(read)) = OfClient(s, c)
             /\ Faithful(s, ToSet(read))
<1> DEFINE run == s.items[c]
           read == readStructs(encodeClient(s, run))
<1>1. s \in StoreType /\ Runs(s)
  BY DEF Sound, Runs
<1>2. run \in Seq(DOMAIN s.heap)
  <2> DEFINE X == DOMAIN s.heap
  <2>1. run \in Seq(Id) /\ \A i \in DOMAIN run : run[i] \in X
    BY <1>1, RunTiles
  <2> HIDE DEF run, X
  <2>2. run \in Seq(X)
    BY <2>1
  <2> QED BY <2>2 DEF X, run
<1>3. unitsOf(s) \in [DOMAIN s.heap -> Seq(Id)]
  BY <1>1, UnitsOf
<1>4. PICK h : Lengths(unitsOf(s), run, h)
  BY <1>2, <1>3, LengthsAre
<1>5. run[1] = newId(c, 0) /\ h[Len(run)] = Size(s, c)
  BY <1>1, <1>4, SizeLengths
<1>6. /\ read \in Seq(Rooted(Integrated(s))) /\ StructIds(ToSet(read)) = Ids(run[1], h[Len(run)])
      /\ Contiguous(s, run) => Faithful(s, ToSet(read))
  BY <1>1, <1>2, <1>4, ClientRead
<1>8. Contiguous(s, run)
  <2>1. /\ run \in Seq(Id)
        /\ \A i \in DOMAIN run :
             clockOf(run[i]) = IF i = 1 THEN 0
                               ELSE clockOf(run[i - 1]) + s.heap[run[i - 1]].len
    BY <1>1 DEF Runs, RunOf
  <2>2. \A i \in DOMAIN run : clientOf(run[i]) = c
    BY <1>1, RunTiles
  <2> HIDE DEF run
  <2> SUFFICES ASSUME NEW k \in 1 .. Len(run) - 1
               PROVE  run[k + 1] = Add(run[k], s.heap[run[k]].len)
    BY DEF Contiguous
  <2>3. k \in DOMAIN run /\ k + 1 \in DOMAIN run /\ k + 1 # 1 /\ (k + 1) - 1 = k
    BY <2>1
  <2>4. clockOf(run[k + 1]) = clockOf(run[k]) + s.heap[run[k]].len
    BY <2>1, <2>3
  <2>5. run[k + 1] = <<clientOf(run[k + 1]), clockOf(run[k + 1])>>
    <3>1. run[k + 1] \in Id
      BY <2>1, <2>3
    <3> QED BY <3>1, IdFacts
  <2> QED BY <2>2, <2>3, <2>4, <2>5 DEF Add, clientOf, clockOf
<1>7. Ids(newId(c, 0), Size(s, c)) = OfClient(s, c)
  <2>1. newId(c, 0) \in Id /\ clientOf(newId(c, 0)) = c /\ clockOf(newId(c, 0)) = 0
    BY DEF newId, Id, clientOf, clockOf
  <2>2. Size(s, c) \in Nat
    BY <1>1, Holds
  <2>3. \A u : u \in Integrated(s) => u \in Id
    BY <1>1, Holds
  <2>4. ASSUME NEW u
        PROVE  u \in Ids(newId(c, 0), Size(s, c)) <=> u \in OfClient(s, c)
    <3>1. u \in Ids(newId(c, 0), Size(s, c))
            <=> u \in Id /\ clientOf(u) = c /\ 0 <= clockOf(u) /\ clockOf(u) < 0 + Size(s, c)
      BY <2>1, <2>2, IdsAre
    <3>2. u \in OfClient(s, c) <=> u \in Id /\ clientOf(u) = c /\ clockOf(u) < Size(s, clientOf(u))
      BY <1>1, <2>3, Holds DEF OfClient
    <3>3. u \in Id => clockOf(u) \in Nat
      BY IdFacts
    <3> QED BY <2>2, <3>1, <3>2, <3>3
  <2> QED BY <2>4
<1> QED BY <1>5, <1>6, <1>7, <1>8

\* Each client's nodes, as they were walked by.
clientNodes(s, c) == {x \in ToSet(walked(s)) : clientOf(x) = c}
writtenClients(s) == {c \in Client : clientNodes(s, c) # {}}

\* The nodes of a client, sorted by clock, are its run list.
LEMMA ClientNodes ==
  ASSUME NEW s, Sound(s), NEW c \in Client
  PROVE  /\ clientNodes(s, c) = ToSet(s.items[c])
         /\ c \in writtenClients(s) <=> s.items[c] # <<>>
         /\ sortedByClock(clientNodes(s, c)) = s.items[c]
<1>1. Runs(s)
  BY DEF Sound
<1>2. ToSet(walked(s)) = DOMAIN s.heap
  BY Walked
<1> DEFINE run == s.items[c]
           n == Len(run)
           a == [i \in 1 .. n |-> clockOf(run[i])]
           w == [i \in 1 .. n |-> s.heap[run[i]].len]
<1>3. clientNodes(s, c) = ToSet(run)
  BY <1>1, <1>2 DEF clientNodes, Runs, RunOf
<1>4. run \in Seq(Id) /\ n \in Nat /\ DOMAIN run = 1 .. n /\ Tiles(a, w, n)
  BY <1>1, RunTiles
<1>5. \A i, j \in 1 .. n : i < j => clockOf(run[i]) < clockOf(run[j])
  <2>1. \A i, j \in 1 .. n : i < j => a[i] + w[i] <= a[j]
    <3> HIDE DEF a, w, n
    <3> QED BY <1>4, TilesOrdered
  <2>2. \A i \in 1 .. n : a[i] \in Nat /\ w[i] \in Nat \ {0} /\ a[i] = clockOf(run[i])
    BY <1>4 DEF Tiles
  <2> HIDE DEF a, w, n
  <2> QED BY <2>1, <2>2
<1> HIDE DEF run, n, a, w
<1>6. sortedByClock(ToSet(run)) = run
  BY <1>4, <1>5, RunSorted
<1>7. ToSet(run) # {} <=> run # <<>>
  <2>1. \A l \in Seq(Id) : l = <<>> => DOMAIN l = {}
    OBVIOUS
  <2>2. \A l \in Seq(Id) : l # <<>> => 1 \in DOMAIN l
    OBVIOUS
  <2> QED BY <1>4, <2>1, <2>2 DEF ToSet
<1> QED BY <1>3, <1>6, <1>7 DEF writtenClients, run

\* They are finitely many.
LEMMA WrittenClients ==
  ASSUME NEW s, Sound(s)
  PROVE  writtenClients(s) \subseteq Client /\ IsFiniteSet(writtenClients(s))
<1>1. walked(s) \in Seq(Id)
  <2>1. DOMAIN s.heap \subseteq Id
    BY HeapFacts DEF Sound, Runs
  <2>2. \A X : \A l \in Seq(X) : X \subseteq Id => l \in Seq(Id)
    OBVIOUS
  <2> QED BY <2>1, <2>2, Walked
<1>2. IsFiniteSet({clientOf(x) : x \in ToSet(walked(s))})
  BY <1>1, FiniteClients
<1>3. writtenClients(s) \subseteq {clientOf(x) : x \in ToSet(walked(s))}
  BY DEF writtenClients, clientNodes
<1> QED BY <1>2, <1>3, FS_Subset DEF writtenClients

\* The struct section of a whole state: read back, it has every unit.
LEMMA StructsWritten ==
  ASSUME NEW s, Sound(s), Anchored(s)
  PROVE  LET read == Decoded(EncodeUpdate(s).structs)
         IN  /\ read \in Seq(Rooted(Integrated(s))) /\ (Split => OneUnit(ToSet(read)))
             /\ StructIds(ToSet(read)) = Integrated(s) /\ Faithful(s, ToSet(read))
<1> DEFINE C == writtenClients(s)
           q == sortedClientsDesc(C)
           n == Cardinality(C)
           secs == [i \in DOMAIN q |-> encodeClient(s, sortedByClock(clientNodes(s, q[i])))]
<1>1. EncodeUpdate(s).structs = secs
  <2> DEFINE b == [c \in Client |-> clientNodes(s, c)]
             d == generateDeleteSet(s, walked(s))
  <2>1. EncodeUpdate(s) = encode(s, b, d)
    BY DEF EncodeUpdate, walked, clientNodes
  <2> HIDE DEF d
  <2>2. {c \in DOMAIN b : b[c] # {}} = C
    BY DEF writtenClients
  <2>3. encode(s, b, d).structs = [i \in DOMAIN q |-> encodeClient(s, sortedByClock(b[q[i]]))]
    <3> HIDE DEF b, C
    <3> QED BY <2>2 DEF encode
  <2>4. \A i \in DOMAIN q : q[i] \in Client
    <3>1. C \subseteq Client /\ IsFiniteSet(C)
      BY WrittenClients
    <3> HIDE DEF C
    <3> QED BY <3>1, ClientsSorted
  <2>5. \A i \in DOMAIN q : b[q[i]] = clientNodes(s, q[i])
    BY <2>4
  <2> HIDE DEF q, b
  <2> QED BY <2>1, <2>3, <2>5
<1>2. C \subseteq Client /\ IsFiniteSet(C)
  BY WrittenClients
<1> HIDE DEF C
<1>3. n \in Nat /\ DOMAIN q = 1 .. n /\ (\A i \in 1 .. n : q[i] \in C) /\ {q[i] : i \in 1 .. n} = C
  BY <1>2, ClientsSorted
<1> HIDE DEF q, n
<1>4. \A i \in 1 .. n : q[i] \in Client /\ s.items[q[i]] # <<>>
                        /\ secs[i] = encodeClient(s, s.items[q[i]])
  BY <1>2, <1>3, ClientNodes DEF C
<1>5. DOMAIN secs = 1 .. n
  BY <1>3
<1> HIDE DEF secs
<1>6. \A i \in 1 .. n : /\ readStructs(secs[i]) \in Seq(Rooted(Integrated(s)))
                        /\ StructIds(ToSet(readStructs(secs[i]))) = OfClient(s, q[i])
                        /\ Faithful(s, ToSet(readStructs(secs[i])))
  BY <1>4, ClientWhole
<1>7. UNION {StructIds(ToSet(readStructs(secs[i]))) : i \in 1 .. n} = Integrated(s)
  <2>1. \A u \in Integrated(s) : clientOf(u) \in C
    <3> TAKE u \in Integrated(s)
    <3>1. u \in Id /\ clockOf(u) < Size(s, clientOf(u))
      BY Holds DEF Sound
    <3>2. clientOf(u) \in Client /\ clockOf(u) \in Nat
      BY <3>1, IdFacts
    <3>3. s.items[clientOf(u)] # <<>>
      BY <3>1, <3>2 DEF Size
    <3> QED BY <3>2, <3>3, ClientNodes DEF C
  <2>2. \A u \in Integrated(s) : \E i \in 1 .. n : clientOf(u) = q[i]
    BY <1>3, <2>1
  <2>3. UNION {OfClient(s, q[i]) : i \in 1 .. n} = Integrated(s)
    BY <2>2 DEF OfClient
  <2>4. {StructIds(ToSet(readStructs(secs[i]))) : i \in 1 .. n} = {OfClient(s, q[i]) : i \in 1 .. n}
    BY <1>6
  <2> QED BY <2>3, <2>4
<1>8. /\ Decoded(secs) \in Seq(Rooted(Integrated(s))) /\ (Split => OneUnit(ToSet(Decoded(secs))))
      /\ StructIds(ToSet(Decoded(secs)))
           = UNION {StructIds(ToSet(readStructs(secs[i]))) : i \in 1 .. n}
      /\ Faithful(s, ToSet(Decoded(secs)))
  <2>1. \A i \in 1 .. n : StructIds(ToSet(readStructs(secs[i]))) \subseteq Integrated(s)
    BY <1>6 DEF OfClient
  <2> DEFINE S == Integrated(s)
  <2>2. \A i \in 1 .. n : /\ readStructs(secs[i]) \in Seq(Rooted(S))
                          /\ StructIds(ToSet(readStructs(secs[i]))) \subseteq S
    BY <1>6, <2>1
  <2> HIDE DEF S
  <2>3. IsDecoded(S, n, secs, Decoded(secs))
    BY <1>3, <1>5, <2>2, SectionsDecoded
  <2>4. Faithful(s, ToSet(Decoded(secs)))
    BY <1>6, <2>3 DEF IsDecoded, Faithful
  <2> QED BY <2>3, <2>4 DEF S, IsDecoded
<1> QED BY <1>1, <1>7, <1>8

\* The deleted nodes of a walk, and those of one client.
deadNodes(s) == SelectIn(walked(s), {x \in ToSet(walked(s)) : s.heap[x].deleted})
deadOf(s, c) == SelectIn(deadNodes(s), {x \in ToSet(walked(s)) : clientOf(x) = c})
deadClients(s) == {clientOf(x) : x \in ToSet(deadNodes(s))}

\* The nodes the delete set lists for a client are its deleted ones.
LEMMA DeadNodes ==
  ASSUME NEW s, Sound(s)
  PROVE  LET X == DOMAIN s.heap
         IN  /\ deadNodes(s) \in Seq(X) /\ ToSet(deadNodes(s)) = {x \in X : s.heap[x].deleted}
             /\ deadClients(s) \subseteq Client /\ IsFiniteSet(deadClients(s))
             /\ \A c : /\ deadOf(s, c) \in Seq(X)
                       /\ ToSet(deadOf(s, c)) = {x \in X : s.heap[x].deleted /\ clientOf(x) = c}
<1> DEFINE X == DOMAIN s.heap
           D == {x \in X : s.heap[x].deleted}
           l == deadNodes(s)
<1>1. walked(s) \in Seq(X) /\ ToSet(walked(s)) = X
  BY Walked
<1>2. l = SelectIn(walked(s), D)
  BY <1>1 DEF deadNodes
<1>3. \A c : deadOf(s, c) = SelectIn(l, {x \in X : clientOf(x) = c})
  BY <1>1 DEF deadOf
<1>4. X \subseteq Id
  BY HeapFacts DEF Sound, Runs
<1>5. D \subseteq X
  OBVIOUS
<1> HIDE DEF X, D, l
<1>6. l \in Seq(X) /\ ToSet(l) = D
  <2>1. SelectIn(walked(s), D) \in Seq(X) /\ ToSet(SelectIn(walked(s), D)) = ToSet(walked(s)) \cap D
    BY <1>1, SelectSet
  <2> QED BY <1>1, <1>2, <1>5, <2>1
<1>7. \A c : /\ deadOf(s, c) \in Seq(X)
             /\ ToSet(deadOf(s, c)) = D \cap {x \in X : clientOf(x) = c}
  <2> TAKE c
  <2> DEFINE S == {x \in X : clientOf(x) = c}
  <2>1. deadOf(s, c) = SelectIn(l, S)
    BY <1>3
  <2> HIDE DEF S
  <2>2. SelectIn(l, S) \in Seq(X) /\ ToSet(SelectIn(l, S)) = ToSet(l) \cap S
    BY <1>6, SelectSet
  <2> QED BY <1>6, <2>1, <2>2 DEF S
<1>8. \A c : D \cap {x \in X : clientOf(x) = c} = {x \in X : s.heap[x].deleted /\ clientOf(x) = c}
  BY DEF D, X
<1>9. deadClients(s) \subseteq Client /\ IsFiniteSet(deadClients(s))
  <2>1. \A Y : \A m \in Seq(Y) : Y \subseteq Id => m \in Seq(Id)
    OBVIOUS
  <2>2. l \in Seq(Id)
    BY <1>4, <1>6, <2>1
  <2>3. \A x \in ToSet(l) : clientOf(x) \in Client
    BY <1>4, <1>5, <1>6, IdFacts
  <2> QED BY <2>2, <2>3, FiniteClients DEF deadClients, l
<1> QED BY <1>6, <1>7, <1>8, <1>9 DEF X, D, l

\* What is read of a client's deleted nodes.
spanOf(s, x) == [client |-> clientOf(x), clock |-> clockOf(x), length |-> s.heap[x].len]
readSpans(d) ==
  [i \in DOMAIN d.ranges |-> [client |-> d.client, clock |-> d.ranges[i].clock,
                              length |-> d.ranges[i].length]]
writeSpans(s, c, nodes) ==
  [client |-> c, ranges |-> encodeOrderRange([i \in DOMAIN nodes |-> addRange(s, nodes[i])])]

\* A client's delete set read back is one span for each deleted node.
LEMMA SpansRead ==
  ASSUME NEW s \in StoreType, NEW c, NEW nodes \in Seq(DOMAIN s.heap),
         \A x \in ToSet(nodes) : clientOf(x) = c
  PROVE  readSpans(writeSpans(s, c, nodes)) = [i \in DOMAIN nodes |-> spanOf(s, nodes[i])]
<1>1. \A i \in DOMAIN nodes : /\ nodes[i] \in DOMAIN s.heap /\ clientOf(nodes[i]) = c
                              /\ nodes[i] \in Id /\ s.heap[nodes[i]].len \in Nat
  BY HeapFacts DEF ToSet
<1>2. \A i \in DOMAIN nodes : clockOf(nodes[i]) \in Nat
  BY <1>1, IdFacts
<1> DEFINE d == writeSpans(s, c, nodes)
<1>3. DOMAIN d.ranges = DOMAIN nodes /\ d.client = c
  BY DEF writeSpans, encodeOrderRange
<1>4. \A i \in DOMAIN nodes : d.ranges[i] = [clock |-> clockOf(nodes[i]),
                                             length |-> s.heap[nodes[i]].len]
  <2> TAKE i \in DOMAIN nodes
  <2>1. addRange(s, nodes[i]).end - addRange(s, nodes[i]).start = s.heap[nodes[i]].len
    BY <1>1, <1>2 DEF addRange
  <2>2. addRange(s, nodes[i]).start = clockOf(nodes[i])
    BY DEF addRange
  <2>3. d.ranges[i] = [clock |-> addRange(s, nodes[i]).start,
                       length |-> addRange(s, nodes[i]).end - addRange(s, nodes[i]).start]
    BY DEF writeSpans, encodeOrderRange
  <2> QED BY <2>1, <2>2, <2>3
<1> HIDE DEF d
<1>5. \A i \in DOMAIN nodes : [client |-> d.client, clock |-> d.ranges[i].clock,
                               length |-> d.ranges[i].length] = spanOf(s, nodes[i])
  <2> TAKE i \in DOMAIN nodes
  <2> DEFINE r == d.ranges[i]
             a == clockOf(nodes[i])
             b == s.heap[nodes[i]].len
  <2>1. r.clock = a /\ r.length = b
    <3>1. r = [clock |-> a, length |-> b]
      BY <1>4
    <3> HIDE DEF r, a, b
    <3> QED BY <3>1
  <2> HIDE DEF r
  <2>2. [client |-> d.client, clock |-> r.clock, length |-> r.length] = spanOf(s, nodes[i])
    BY <1>1, <1>3, <2>1 DEF spanOf
  <2> QED BY <2>2 DEF r
<1>6. readSpans(d) = [i \in DOMAIN nodes |-> spanOf(s, nodes[i])]
  BY <1>3, <1>5 DEF readSpans
<1> QED BY <1>6 DEF d

\* A node's span, when the clocks of its client have not run out.
LEMMA SpanOf ==
  ASSUME NEW s, Sound(s), \A c \in Client : Size(s, c) < ClockMod, NEW x \in DOMAIN s.heap
  PROVE  spanOf(s, x) \in NoWrap /\ SpanUnits(spanOf(s, x)) = Units(s, x)
<1>1. Runs(s) /\ s \in StoreType
  BY DEF Sound, Runs
<1>2. x \in Id /\ s.heap[x].len \in Nat \ {0}
  BY <1>1, HeapFacts
<1>3. clientOf(x) \in Client /\ clockOf(x) \in Nat /\ x = newId(clientOf(x), clockOf(x))
  BY <1>2, IdFacts DEF newId
<1> DEFINE n == s.heap[x].len
           u == Add(x, n - 1)
<1>4. u \in Id /\ clientOf(u) = clientOf(x) /\ clockOf(u) = clockOf(x) + (n - 1)
  <2>1. n - 1 \in Nat
    BY <1>2
  <2> HIDE DEF n
  <2> QED BY <1>2, <2>1, IdFacts
<1>5. u \in Integrated(s)
  <2> HIDE DEF u
  <2>1. clockOf(x) <= clockOf(u) /\ clockOf(u) < clockOf(x) + n
    BY <1>2, <1>3, <1>4
  <2> QED BY <1>1, <1>4, <2>1, Holds
<1>6. clockOf(u) < Size(s, clientOf(x)) /\ Size(s, clientOf(x)) \in Nat
  BY <1>1, <1>3, <1>4, <1>5, Holds
<1>7. clockOf(x) + n < ClockMod
  <2> HIDE DEF u, n
  <2>1. n \in Nat /\ Size(s, clientOf(x)) < ClockMod /\ ClockMod \in Nat
    BY <1>2, <1>3, ClockModAssumption DEF n
  <2> QED BY <1>3, <1>4, <1>6, <2>1
<1> QED BY <1>2, <1>3, <1>7 DEF spanOf, NoWrap, DeleteSpan, SpanUnits, Units

\* The delete section of a whole state: read back, it names every tombstone.
LEMMA DeletesWritten ==
  ASSUME NEW s, Sound(s), \A c \in Client : Size(s, c) < ClockMod
  PROVE  LET read == readDeleteSection(EncodeUpdate(s).deletes)
         IN  /\ read \in Seq(NoWrap)
             /\ UNION {SpanUnits(d) : d \in ToSet(read)} = Tombstones(s)
<1> DEFINE C == deadClients(s)
           q == sortedClientsDesc(C)
           n == Cardinality(C)
           X == DOMAIN s.heap
           secs == [i \in DOMAIN q |-> writeSpans(s, q[i], deadOf(s, q[i]))]
           ss == [i \in DOMAIN q |-> [j \in DOMAIN deadOf(s, q[i]) |-> spanOf(s, deadOf(s, q[i])[j])]]
<1>1. /\ deadNodes(s) \in Seq(X) /\ ToSet(deadNodes(s)) = {x \in X : s.heap[x].deleted}
      /\ C \subseteq Client /\ IsFiniteSet(C)
      /\ \A c : /\ deadOf(s, c) \in Seq(X)
                /\ ToSet(deadOf(s, c)) = {x \in X : s.heap[x].deleted /\ clientOf(x) = c}
  BY DeadNodes
<1>2. EncodeUpdate(s).deletes = secs
  <2> DEFINE b == [c \in Client |-> clientNodes(s, c)]
             d == generateDeleteSet(s, walked(s))
  <2>1. EncodeUpdate(s) = encode(s, b, d)
    BY DEF EncodeUpdate, walked, clientNodes
  <2>2. d = [c \in C |-> [i \in DOMAIN deadOf(s, c) |-> addRange(s, deadOf(s, c)[i])]]
    BY DEF generateDeleteSet, deadClients, deadNodes, deadOf
  <2> HIDE DEF b, C
  <2>3. DOMAIN d = C
    BY <2>2
  <2> HIDE DEF d
  <2>4. EncodeUpdate(s).deletes = [i \in DOMAIN q |-> [client |-> q[i], ranges |-> encodeOrderRange(d[q[i]])]]
    BY <2>1, <2>3 DEF encode
  <2>5. \A i \in DOMAIN q : q[i] \in C
    BY <1>1, ClientsSorted
  <2> HIDE DEF q
  <2>6. \A i \in DOMAIN q : [client |-> q[i], ranges |-> encodeOrderRange(d[q[i]])]
                              = writeSpans(s, q[i], deadOf(s, q[i]))
    BY <2>2, <2>5 DEF writeSpans
  <2> QED BY <2>4, <2>6
<1>3. n \in Nat /\ DOMAIN q = 1 .. n /\ (\A i \in 1 .. n : q[i] \in C) /\ {q[i] : i \in 1 .. n} = C
  <2> HIDE DEF C
  <2> QED BY <1>1, ClientsSorted
<1>4. s \in StoreType
  BY DEF Sound, Runs
<1> HIDE DEF q, n
<1>5. \A i \in 1 .. n : readSpans(secs[i]) = ss[i]
  <2> TAKE i \in 1 .. n
  <2> DEFINE c == q[i]
             l == deadOf(s, c)
  <2>1. l \in Seq(X) /\ \A x \in ToSet(l) : clientOf(x) = c
    BY <1>1
  <2>2. secs[i] = writeSpans(s, c, l) /\ ss[i] = [j \in DOMAIN l |-> spanOf(s, l[j])]
    BY <1>3
  <2> HIDE DEF l, secs, ss, c
  <2> QED BY <1>4, <2>1, <2>2, SpansRead
<1>6. readDeleteSection(secs) = FlattenSeq(ss)
  <2>1. readDeleteSection(secs) = FlattenSeq([i \in DOMAIN secs |-> readSpans(secs[i])])
    BY DEF readDeleteSection, readSpans
  <2>2. DOMAIN secs = 1 .. n /\ DOMAIN ss = 1 .. n
    BY <1>3
  <2> HIDE DEF ss, secs
  <2>3. [i \in DOMAIN secs |-> readSpans(secs[i])] = [i \in 1 .. n |-> ss[i]]
    BY <1>5, <2>2
  <2>4. [i \in 1 .. n |-> ss[i]] = ss
    <3>1. ss = [i \in DOMAIN q |-> [j \in DOMAIN deadOf(s, q[i]) |-> spanOf(s, deadOf(s, q[i])[j])]]
      BY DEF ss
    <3> QED BY <2>2, <3>1
  <2> QED BY <2>1, <2>3, <2>4
<1>7. \A x \in X : spanOf(s, x) \in NoWrap /\ SpanUnits(spanOf(s, x)) = Units(s, x)
  BY SpanOf
<1>8. \A i \in 1 .. n : /\ ss[i] \in Seq(NoWrap)
                        /\ ToSet(ss[i]) = {spanOf(s, x) : x \in ToSet(deadOf(s, q[i]))}
  <2> TAKE i \in 1 .. n
  <2> DEFINE l == deadOf(s, q[i])
             f == [x \in X |-> spanOf(s, x)]
             m == [j \in DOMAIN l |-> spanOf(s, l[j])]
  <2>1. l \in Seq(X)
    BY <1>1
  <2>2. ss[i] = m
    BY <1>3
  <2> HIDE DEF l, ss, X
  <2>3. \A j \in DOMAIN l : l[j] \in X /\ spanOf(s, l[j]) \in NoWrap
    BY <1>7, <2>1
  <2>4. m \in Seq(NoWrap)
    BY <2>1, <2>3
  <2>5. ToSet(m) = {spanOf(s, x) : x \in ToSet(l)}
    BY DEF ToSet
  <2> QED BY <2>2, <2>4, <2>5 DEF l
<1>9. ss \in Seq(Seq(NoWrap)) /\ DOMAIN ss = 1 .. n
  BY <1>3, <1>8
<1> HIDE DEF ss, secs
<1>10. /\ FlattenSeq(ss) \in Seq(NoWrap)
       /\ ToSet(FlattenSeq(ss)) = UNION {ToSet(ss[i]) : i \in 1 .. n}
  BY <1>9, FlatValues, FlatSet
<1>11. UNION {ToSet(ss[i]) : i \in 1 .. n} = {spanOf(s, x) : x \in {y \in X : s.heap[y].deleted}}
  <2>1. \A i \in 1 .. n : ToSet(ss[i]) = {spanOf(s, x) : x \in {y \in X : s.heap[y].deleted /\ clientOf(y) = q[i]}}
    BY <1>1, <1>8
  <2>2. ASSUME NEW x \in X, s.heap[x].deleted
        PROVE  \E i \in 1 .. n : clientOf(x) = q[i]
    BY <1>1, <1>3, <2>2 DEF deadClients
  <2> HIDE DEF X
  <2> QED BY <2>1, <2>2
<1>12. UNION {SpanUnits(d) : d \in ToSet(FlattenSeq(ss))} = Tombstones(s)
  <2>1. Tombstones(s) = UNION {Units(s, x) : x \in {y \in X : s.heap[y].deleted}}
    BY DEF Tombstones
  <2> HIDE DEF X
  <2>2. UNION {SpanUnits(d) : d \in {spanOf(s, x) : x \in {y \in X : s.heap[y].deleted}}}
          = UNION {Units(s, x) : x \in {y \in X : s.heap[y].deleted}}
    BY <1>7
  <2> QED BY <1>10, <1>11, <2>1, <2>2
<1> QED BY <1>2, <1>6, <1>10, <1>12

\* What the wire makes of a whole state: read back, its structs have exactly
\* the units of the store and its delete spans name exactly its tombstones,
\* though runs were joined, clocks left out and halves of pairs renamed.
WholeState(s, structs, spans) ==
  /\ structs \in Seq(Rooted(Integrated(s))) /\ (Split => OneUnit(ToSet(structs)))
  /\ StructIds(ToSet(structs)) = Integrated(s) /\ Faithful(s, ToSet(structs))
  /\ spans \in Seq(NoWrap)
  /\ UNION {SpanUnits(d) : d \in ToSet(spans)} = Tombstones(s)

\* EncodeUpdate and the decoding of what it writes: for any sound store whose
\* clocks do not wrap, a peer reads exactly its units and its tombstones.
THEOREM WholeStateRead ==
  ASSUME NEW s, Sound(s), Anchored(s), \A c \in Client : Size(s, c) < ClockMod
  PROVE  LET update == EncodeUpdate(s)
         IN  WholeState(s, Decoded(update.structs), readDeleteSection(update.deletes))
BY StructsWritten, DeletesWritten DEF WholeState

\* The spans an insertion of n units records.
typedSpans(x, n) == [i \in 1 .. n |-> idSpan(Add(x, i - 1), 1)]

\* The spans of an insertion cover its units.
LEMMA TypedIds ==
  ASSUME NEW x \in Id, NEW n \in Nat
  PROVE  SpanIds(typedSpans(x, n)) = Ids(x, n)
<1>1. \A i \in 1 .. n : Ids(typedSpans(x, n)[i].id, typedSpans(x, n)[i].len) = {Add(x, i - 1)}
  <2> TAKE i \in 1 .. n
  <2>1. i - 1 \in Nat
    OBVIOUS
  <2>2. Add(x, i - 1) \in Id
    BY <2>1, IdFacts
  <2>3. typedSpans(x, n)[i] = [id |-> Add(x, i - 1), len |-> 1]
    BY DEF typedSpans, idSpan
  <2> QED BY <2>2, <2>3, OneId
<1>2. DOMAIN typedSpans(x, n) = 1 .. n
  BY DEF typedSpans
<1> DEFINE e(k) == Add(x, k - 1)
<1>3. SpanIds(typedSpans(x, n)) = UNION {{e(i)} : i \in 1 .. n}
  BY <1>1, <1>2 DEF SpanIds
<1>4. Ids(x, n) = {e(k) : k \in 1 .. n}
  <2>1. \A k \in 1 .. n : k - 1 \in 0 .. n - 1
    OBVIOUS
  <2>2. \A k \in 0 .. n - 1 : k + 1 \in 1 .. n /\ (k + 1) - 1 = k
    OBVIOUS
  <2> QED BY <2>1, <2>2 DEF Ids
<1> HIDE DEF e
<1> QED BY <1>3, <1>4

\* What an insertion is sent as: its units, their origins in the store.
IsEmitted(S, ids, us) ==
  us \subseteq Rooted(S) /\ (Split => OneUnit(us)) /\ StructIds(us) = ids

\* What an insertion is encoded and decoded to has exactly the units it typed, its
\* origins are in the store it was typed in.
LEMMA EmittedIs ==
  ASSUME NEW s, Sound(s), Anchored(s), NEW x \in Id, NEW n \in Nat \ {0},
         \A i \in 1 .. n : Add(x, i - 1) \in DOMAIN s.heap /\ s.heap[Add(x, i - 1)].len = 1
  PROVE  /\ IsEmitted(Integrated(s), Ids(x, n), Emitted(s, typedSpans(x, n)))
         /\ Faithful(s, Emitted(s, typedSpans(x, n)))
<1> DEFINE nodes == [i \in 1 .. n |-> Add(x, i - 1)]
           sp == typedSpans(x, n)
           secs == <<encodeClient(s, nodes)>>
           X == DOMAIN s.heap
           S == Integrated(s)
           h == [k \in 0 .. n |-> k]
<1>1. sp # <<>> /\ DOMAIN sp = 1 .. n /\ \A i \in 1 .. n : sp[i].id = Add(x, i - 1)
  <2>1. sp = [i \in 1 .. n |-> [id |-> Add(x, i - 1), len |-> 1]]
    BY DEF typedSpans, idSpan
  <2> HIDE DEF sp
  <2>2. DOMAIN sp = 1 .. n /\ 1 \in 1 .. n /\ DOMAIN <<>> = {}
    BY <2>1
  <2> QED BY <2>1, <2>2
<1>2. Emitted(s, sp) = ToSet(Decoded(secs))
  <2>1. [i \in DOMAIN sp |-> sp[i].id] = nodes
    BY <1>1
  <2> HIDE DEF sp, nodes
  <2> QED BY <1>1, <2>1 DEF Emitted
<1>3. nodes \in Seq(X) /\ Len(nodes) = n /\ nodes # <<>> /\ nodes[1] = x
  <2>1. nodes \in [1 .. n -> X]
    OBVIOUS
  <2>2. nodes[1] = x
    <3>1. Add(x, 0) = x
      BY IdFacts DEF Add, clientOf, clockOf
    <3>2. nodes[1] = Add(x, 0)
      OBVIOUS
    <3> QED BY <3>1, <3>2
  <2> HIDE DEF nodes, X
  <2>3. nodes \in Seq(X) /\ Len(nodes) = n
    BY <2>1
  <2> QED BY <2>2, <2>3
<1>4. s \in StoreType /\ Runs(s)
  BY DEF Sound, Runs
<1>5. Lengths(unitsOf(s), nodes, h)
  <2>1. \A k \in 1 .. n : Len(unitsOf(s)[nodes[k]]) = 1
    BY <1>4, UnitsOf
  <2>2. \A k \in 1 .. n : h[k] = h[k - 1] + 1
    OBVIOUS
  <2>3. h \in [0 .. n -> Nat] /\ h[0] = 0
    OBVIOUS
  <2> HIDE DEF h, nodes
  <2> QED BY <1>3, <2>1, <2>2, <2>3 DEF Lengths
<1> DEFINE read == readStructs(encodeClient(s, nodes))
<1>6. /\ read \in Seq(Rooted(S)) /\ StructIds(ToSet(read)) = Ids(x, n)
      /\ Faithful(s, ToSet(read))
  <2>1. h[Len(nodes)] = n
    BY <1>3
  <2>2. Contiguous(s, nodes)
    <3> SUFFICES ASSUME NEW k \in 1 .. n - 1
                 PROVE  nodes[k + 1] = Add(nodes[k], s.heap[nodes[k]].len)
      BY <1>3 DEF Contiguous
    <3>1. k \in 1 .. n /\ k + 1 \in 1 .. n /\ (k + 1) - 1 = (k - 1) + 1 /\ k - 1 \in Nat
      OBVIOUS
    <3>2. nodes[k] = Add(x, k - 1) /\ nodes[k + 1] = Add(x, (k - 1) + 1)
      BY <3>1
    <3>3. s.heap[nodes[k]].len = 1
      BY <3>1, <3>2
    <3>4. Add(Add(x, k - 1), 1) = Add(x, (k - 1) + 1)
      <4>1. x[2] \in Nat
        BY IdFacts DEF clockOf
      <4>2. (x[2] + (k - 1)) + 1 = x[2] + ((k - 1) + 1)
        BY <3>1, <4>1
      <4> QED BY <4>2 DEF Add
    <3> HIDE DEF nodes
    <3> QED BY <3>2, <3>3, <3>4
  <2> HIDE DEF h, nodes
  <2> QED BY <1>3, <1>4, <1>5, <2>1, <2>2, ClientRead
<1>7. Ids(x, n) \subseteq S
  <2> SUFFICES ASSUME NEW u \in Ids(x, n)
               PROVE  u \in S
    OBVIOUS
  <2>1. PICK k \in 0 .. n - 1 : u = Add(x, k)
    BY DEF Ids
  <2>2. k + 1 \in 1 .. n /\ (k + 1) - 1 = k
    BY <2>1
  <2>3. u \in X /\ s.heap[u].len = 1 /\ u \in Id
    BY <2>1, <2>2, <1>4, HeapFacts
  <2>4. u \in Units(s, u)
    BY <2>3, OneId DEF Units
  <2> QED BY <2>3, <2>4 DEF Integrated
<1> HIDE DEF nodes, S, read
<1>8. DOMAIN secs = 1 .. 1 /\ secs[1] = encodeClient(s, nodes)
  OBVIOUS
<1>9. \A i \in 1 .. 1 : readStructs(secs[i]) = read
  BY <1>8 DEF read
<1> HIDE DEF secs
<1>10. IsDecoded(S, 1, secs, Decoded(secs))
  <2>1. 1 \in Nat
    OBVIOUS
  <2>2. \A i \in 1 .. 1 : /\ readStructs(secs[i]) \in Seq(Rooted(S))
                          /\ StructIds(ToSet(readStructs(secs[i]))) \subseteq S
    BY <1>6, <1>7, <1>9
  <2> QED BY <1>8, <2>1, <2>2, SectionsDecoded
<1>11. UNION {StructIds(ToSet(readStructs(secs[i]))) : i \in 1 .. 1} = Ids(x, n)
  BY <1>6, <1>9
<1>12. ToSet(Decoded(secs)) \subseteq Rooted(S)
  <2>1. \A A : \A l \in Seq(A) : \A i \in DOMAIN l : l[i] \in A
    OBVIOUS
  <2> QED BY <1>10, <2>1 DEF IsDecoded, ToSet
<1>13. Faithful(s, ToSet(Decoded(secs)))
  BY <1>6, <1>9, <1>10 DEF IsDecoded, Faithful
<1> QED BY <1>2, <1>10, <1>11, <1>12, <1>13 DEF IsDecoded, IsEmitted, S

-----------------------------------------------------------------------------
(***************************************************************************)
(* The inductive invariant.  Every replica's store is sound, and all that  *)
(* is anywhere was made by its author: made are the units below the clocks *)
(* of their clients.                                                       *)
(***************************************************************************)
Made(d) == {u \in Id : clockOf(u) < d[clientOf(u)].clock}

\* A replica's own store.
Good(s, r) ==
  /\ Sound(s) /\ Counted(s) /\ Anchored(s)
  /\ s.client = r /\ s.clock = Size(s, r) /\ s.clock < ClockMod
  /\ s.pendingDeletes \in Seq(NoWrap)

\* It knows of nothing outside M.
Known(s, M) ==
  /\ Integrated(s) \subseteq M
  /\ s.pending \in Seq(Rooted(M)) /\ StructIds(ToSet(s.pending)) \subseteq M
  /\ Split => OneUnit(ToSet(s.pending))

\* The deletions it was told of: done, or buffered.
NamedBy(spans) == UNION {SpanUnits(d) : d \in spans}
Deletions(s, M, del) ==
  /\ del \subseteq M /\ NamedBy(ToSet(s.pendingDeletes)) \subseteq del
  /\ Tombstones(s) = del \cap Integrated(s)
  /\ del \ Integrated(s) \subseteq NamedBy(ToSet(s.pendingDeletes))

\* The insertions it was told of, one unit each: integrated, or waiting.
Insertions(s, ins) ==
  /\ ins = Integrated(s) \cup StructIds(ToSet(s.pending))
  /\ ApartIds(s.pending) /\ Waits(s, s.pending)

Fine(s, r, M, told) ==
  /\ Good(s, r) /\ Known(s, M) /\ Deletions(s, M, told.del)
  /\ Split => Insertions(s, told.ins)

\* What the network carries.
Carried(structs, spans, M) ==
  /\ structs \subseteq Rooted(M) /\ StructIds(structs) \subseteq M
  /\ Split => OneUnit(structs)
  /\ spans \subseteq NoWrap /\ NamedBy(spans) \subseteq M

Holding(d, told, structs, spans) ==
  /\ d \in [Client -> StoreType]
  /\ told \in [Client -> [ins : SUBSET Id, del : SUBSET Id]]
  /\ \A r \in Client : Fine(d[r], r, Made(d), told[r])
  /\ Carried(structs, spans, Made(d))

IInv == Holding(doc, got, sent, cut)

\* Nothing of client r is made but what is below its clock.
Within(s, r, M) == \A u \in M : u \in Id /\ (clientOf(u) = r => clockOf(u) < s.clock)

\* With its predecessors.
Closed(M) == \A u \in M : clockOf(u) > 0 => Sub(u, 1) \in M

\* What waits at a store of units in M depends on units in M.
LEMMA DepsMade ==
  ASSUME NEW M \in SUBSET Id, Closed(M), NEW us \in Seq(Rooted(M)), StructIds(ToSet(us)) \subseteq M,
         NEW u \in ToSet(us)
  PROVE  u \in UpdateItem /\ u.id \in M /\ Deps(u) \subseteq M
<1>1. u \in Rooted(M)
  BY DEF ToSet
<1>2. u \in UpdateItem /\ u.id \in Id /\ u.len \in Nat \ {0}
  BY <1>1 DEF Rooted, Item, UpdateItem
<1>3. u.id \in Ids(u.id, u.len)
  <2>1. clockOf(u.id) \in Nat
    BY <1>2, IdFacts
  <2>2. clockOf(u.id) <= clockOf(u.id) /\ clockOf(u.id) < clockOf(u.id) + u.len
    BY <1>2, <2>1
  <2> QED BY <1>2, <2>2, IdsAre
<1>4. u.id \in M
  BY <1>3 DEF StructIds
<1> QED BY <1>1, <1>2, <1>4 DEF Rooted, Deps, Closed

\* A store that grows by units nothing waits for keeps what waits waiting.
LEMMA StillWaits ==
  ASSUME NEW s, Sound(s), NEW q, Sound(q), NEW M \in SUBSET Id, Closed(M),
         NEW us \in Seq(Rooted(M)), StructIds(ToSet(us)) \subseteq M,
         Integrated(q) \cap M = Integrated(s) \cap M, Waits(s, us)
  PROVE  Waits(q, us)
<1> SUFFICES ASSUME NEW u \in ToSet(us)
             PROVE  ~hasNode(q, u.id) /\ ~depsArrived(q, u)
  BY DEF Waits
<1>1. u \in UpdateItem /\ u.id \in M /\ Deps(u) \subseteq M
  BY DepsMade
<1>2. ~hasNode(s, u.id) /\ ~depsArrived(s, u)
  BY DEF Waits
<1>3. /\ hasNode(s, u.id) <=> u.id \in Integrated(s)
      /\ depsArrived(s, u) <=> Deps(u) \subseteq Integrated(s)
  BY <1>1, DepsAre
<1>4. /\ hasNode(q, u.id) <=> u.id \in Integrated(q)
      /\ depsArrived(q, u) <=> Deps(u) \subseteq Integrated(q)
  BY <1>1, DepsAre
<1> QED BY <1>1, <1>2, <1>3, <1>4

\* The run of a replica's own units ends at its clock.
LEMMA OwnSize ==
  ASSUME NEW s, Sound(s), NEW r \in Client, s.clock = Size(s, r), NEW M, Within(s, r, M),
         NEW q, Sound(q), q.clock = s.clock,
         Integrated(s) \subseteq Integrated(q), Integrated(q) \subseteq M
  PROVE  q.clock = Size(q, r)
<1>1. Runs(s) /\ Runs(q) /\ s.clock \in Nat
  BY DEF Sound, Runs, StoreType
<1>2. ASSUME NEW m \in Nat
      PROVE  newId(r, m) \in Integrated(q) <=> m < s.clock
  <2>1. newId(r, m) \in Id /\ clientOf(newId(r, m)) = r /\ clockOf(newId(r, m)) = m
    BY DEF newId, Id, clientOf, clockOf
  <2>2. newId(r, m) \in Integrated(s) <=> m < s.clock
    BY <1>1, <2>1, Holds
  <2>3. newId(r, m) \in M => m < s.clock
    BY <2>1 DEF Within
  <2> QED BY <2>2, <2>3
<1>3. Size(q, r) = s.clock
  BY <1>1, <1>2, SizeIs
<1> QED BY <1>3

\* What others make changes nothing here.
LEMMA OthersMake ==
  ASSUME NEW s, NEW r, NEW M, NEW N, M \subseteq N, NEW told, Fine(s, r, M, told)
  PROVE  Fine(s, r, N, told)
<1>1. Rooted(M) \subseteq Rooted(N)
  BY DEF Rooted
<1>2. \A A, B : A \subseteq B => \A l \in Seq(A) : l \in Seq(B)
  OBVIOUS
<1>3. Known(s, N)
  BY <1>1, <1>2 DEF Fine, Known
<1> QED BY <1>3 DEF Fine, Deletions

\* What the network carries was made, and stays so as more is made.
LEMMA CarriedOn ==
  ASSUME NEW M, NEW N, M \subseteq N, NEW structs, NEW spans, Carried(structs, spans, M)
  PROVE  Carried(structs, spans, N)
BY DEF Carried, Rooted

\* A deletion here.
LEMMA FineDeleted ==
  ASSUME NEW s, NEW r \in Client, NEW M, Closed(M), Within(s, r, M), NEW told,
         Fine(s, r, M, told), NEW tr, Shrunk(s, tr)
  PROVE  Fine(tr.store, r, M, [ins |-> told.ins, del |-> told.del \cup SpanIds(tr.deleteSet)])
<1> DEFINE q == tr.store
           dead == SpanIds(tr.deleteSet)
<1>1. /\ Keeps(s, q) /\ Frame(s, q) /\ Integrated(q) = Integrated(s)
      /\ Tombstones(q) = Tombstones(s) \cup dead
      /\ dead \subseteq Integrated(s)
  BY DEF Shrunk
<1>2. Good(s, r) /\ Known(s, M) /\ Deletions(s, M, told.del) /\ (Split => Insertions(s, told.ins))
  BY DEF Fine
<1> HIDE DEF q, dead
<1>3. Sound(s) /\ Sound(q) /\ q.client = s.client /\ Counted(q) /\ Anchored(q)
  BY <1>1, <1>2 DEF Keeps, Good
<1>4. q.clock = s.clock /\ q.pending = s.pending /\ q.pendingDeletes = s.pendingDeletes
  BY <1>1 DEF Frame
<1>5. q.clock = Size(q, r)
  BY <1>1, <1>2, <1>3, <1>4, OwnSize DEF Good, Known
<1>6. Good(q, r)
  BY <1>2, <1>3, <1>4, <1>5 DEF Good
<1>7. Known(q, M)
  BY <1>1, <1>2, <1>4 DEF Known
<1>8. Deletions(q, M, told.del \cup dead)
  BY <1>1, <1>2, <1>4 DEF Deletions, Known
<1>9. Split => Insertions(q, told.ins)
  <2> HAVE Split
  <2>1. M \in SUBSET Id
    BY DEF Within
  <2>2. Waits(q, s.pending)
    BY <1>1, <1>2, <1>3, <2>1, StillWaits DEF Known, Insertions
  <2> QED BY <1>1, <1>2, <1>4, <2>2 DEF Insertions
<1> QED BY <1>6, <1>7, <1>8, <1>9 DEF Fine, q, dead

\* What the network brings.
LEMMA FineDelivered ==
  ASSUME NEW s, NEW r \in Client, NEW M, Closed(M), Within(s, r, M), NEW told,
         Fine(s, r, M, told),
         NEW structs \in Seq(Rooted(M)), NEW spans \in Seq(NoWrap),
         Carried(ToSet(structs), ToSet(spans), M),
         NEW p, Updated(s, structs, p), NEW q, DeletesApplied(p, spans, q)
  PROVE  Fine(q, r, M, [ins |-> told.ins \cup StructIds(ToSet(structs)),
                        del |-> told.del \cup NamedBy(ToSet(spans))])
<1> DEFINE all == ToSet(s.pending) \cup ToSet(structs)
           cuts == ToSet(s.pendingDeletes) \cup ToSet(spans)
           new == StructIds(ToSet(structs))
           cutIds == NamedBy(ToSet(spans))
<1>1. Good(s, r) /\ Known(s, M) /\ Deletions(s, M, told.del) /\ (Split => Insertions(s, told.ins))
  BY DEF Fine
<1>2. M \in SUBSET Id
  BY DEF Within
<1>3. /\ Keeps(s, p) /\ p.clock = s.clock /\ p.pendingDeletes = s.pendingDeletes
      /\ Tombstones(p) = Tombstones(s)
      /\ Integrated(p) \cup StructIds(ToSet(p.pending)) \subseteq Integrated(s) \cup StructIds(all)
      /\ OneUnit(all) => Integrated(p) \cup StructIds(ToSet(p.pending))
                           = Integrated(s) \cup StructIds(all)
      /\ ToSet(p.pending) \subseteq all /\ p.pending \in Seq(Item)
      /\ ApartIds(p.pending) /\ Waits(p, p.pending)
  BY DEF Updated
<1>4. /\ Keeps(p, q) /\ q.clock = p.clock /\ q.pending = p.pending
      /\ Integrated(q) = Integrated(p)
      /\ Tombstones(q) = Tombstones(p) \cup (NamedBy(cuts) \cap Integrated(p))
      /\ ToSet(q.pendingDeletes) \subseteq cuts
      /\ \A d \in cuts : SpanUnits(d) \subseteq Integrated(p) \/ d \in ToSet(q.pendingDeletes)
  BY <1>3 DEF DeletesApplied, NamedBy
<1>5. StructIds(all) = StructIds(ToSet(s.pending)) \cup new
  BY DEF StructIds
<1>6. NamedBy(cuts) = NamedBy(ToSet(s.pendingDeletes)) \cup cutIds
  BY DEF NamedBy
<1>7. new \subseteq M /\ cutIds \subseteq M /\ (Split => OneUnit(ToSet(structs)))
  BY DEF Carried
<1>8. \A u \in all : u \in Rooted(M)
  <2>1. \A l \in Seq(Rooted(M)) : \A i \in DOMAIN l : l[i] \in Rooted(M)
    OBVIOUS
  <2> QED BY <1>1, <2>1 DEF ToSet, Known
<1>9. \A d \in cuts : d \in NoWrap
  <2>1. \A l \in Seq(NoWrap) : \A i \in DOMAIN l : l[i] \in NoWrap
    OBVIOUS
  <2> QED BY <1>1, <2>1 DEF ToSet, Good
<1>10. Split => OneUnit(all)
  BY <1>1, <1>7 DEF OneUnit, Known
<1> HIDE DEF all, cuts, new, cutIds
<1>11. Sound(s) /\ Sound(q) /\ q.client = s.client /\ Counted(q) /\ Anchored(q)
       /\ Integrated(s) \subseteq Integrated(q)
  BY <1>1, <1>3, <1>4 DEF Keeps, Good
<1>12. Integrated(q) \subseteq M /\ StructIds(ToSet(q.pending)) \subseteq M
  BY <1>1, <1>3, <1>4, <1>5, <1>7 DEF Known
<1>13. q.clock = Size(q, r)
  BY <1>1, <1>3, <1>4, <1>11, <1>12, OwnSize DEF Good
<1>14. q.pendingDeletes \in Seq(NoWrap)
  <2>1. q.pendingDeletes \in Seq(DeleteSpan)
    BY <1>11 DEF Sound, Runs, StoreType
  <2>2. \A i \in DOMAIN q.pendingDeletes : q.pendingDeletes[i] \in NoWrap
    BY <1>4, <1>9 DEF ToSet
  <2>3. \A A, B : \A l \in Seq(A) : (\A i \in DOMAIN l : l[i] \in B) => l \in Seq(B)
    OBVIOUS
  <2> QED BY <2>1, <2>2, <2>3
<1>15. Good(q, r)
  BY <1>1, <1>3, <1>4, <1>11, <1>13, <1>14 DEF Good
<1>16. q.pending \in Seq(Rooted(M))
  <2>1. q.pending \in Seq(Item)
    BY <1>3, <1>4
  <2>2. \A i \in DOMAIN q.pending : q.pending[i] \in Rooted(M)
    BY <1>3, <1>4, <1>8 DEF ToSet
  <2>3. \A A, B : \A l \in Seq(A) : (\A i \in DOMAIN l : l[i] \in B) => l \in Seq(B)
    OBVIOUS
  <2> QED BY <2>1, <2>2, <2>3
<1>17. Known(q, M)
  <2>1. Split => OneUnit(ToSet(q.pending))
    BY <1>3, <1>4, <1>10 DEF OneUnit
  <2> QED BY <1>12, <1>16, <2>1 DEF Known
<1>18. Deletions(q, M, told.del \cup cutIds)
  <2>1. /\ told.del \subseteq M /\ NamedBy(ToSet(s.pendingDeletes)) \subseteq told.del
        /\ Tombstones(s) = told.del \cap Integrated(s)
        /\ told.del \ Integrated(s) \subseteq NamedBy(ToSet(s.pendingDeletes))
    BY <1>1 DEF Deletions
  <2>2. NamedBy(ToSet(q.pendingDeletes)) \subseteq NamedBy(cuts)
    BY <1>4 DEF NamedBy
  <2>3. Tombstones(q) = (told.del \cup cutIds) \cap Integrated(q)
    BY <1>3, <1>4, <1>6, <1>11, <2>1
  <2>4. NamedBy(cuts) \ Integrated(q) \subseteq NamedBy(ToSet(q.pendingDeletes))
    BY <1>4 DEF NamedBy
  <2>5. (told.del \cup cutIds) \ Integrated(q) \subseteq NamedBy(cuts)
    BY <1>6, <1>11, <2>1
  <2> QED BY <1>6, <1>7, <2>1, <2>2, <2>3, <2>4, <2>5 DEF Deletions
<1>19. Split => Insertions(q, told.ins \cup new)
  <2> HAVE Split
  <2>1. told.ins = Integrated(s) \cup StructIds(ToSet(s.pending))
    BY <1>1 DEF Insertions
  <2>2. told.ins \cup new = Integrated(q) \cup StructIds(ToSet(q.pending))
    BY <1>3, <1>4, <1>5, <1>10, <2>1
  <2>3. Sound(p)
    BY <1>3 DEF Keeps
  <2>4. Waits(q, q.pending)
    BY <1>2, <1>3, <1>4, <1>11, <1>12, <1>16, <2>3, StillWaits
  <2> QED BY <1>3, <1>4, <2>2, <2>4 DEF Insertions
<1> QED BY <1>15, <1>17, <1>18, <1>19 DEF Fine, new, cutIds

\* An insertion here: nothing was waiting for the units it makes.
LEMMA FineInserted ==
  ASSUME NEW s, NEW r \in Client, NEW M, Closed(M), Within(s, r, M), NEW told,
         Fine(s, r, M, told), NEW n \in Nat, NEW tr, Grown(s, n, tr)
  PROVE  LET new == Ids(newId(s.client, s.clock), n)
         IN  Fine(tr.store, r, M \cup new, [ins |-> told.ins \cup new, del |-> told.del])
<1> DEFINE q == tr.store
           x == newId(s.client, s.clock)
           new == Ids(x, n)
           N == M \cup new
<1>1. /\ Keeps(s, q) /\ q.clock = s.clock + n /\ q.clock < ClockMod
      /\ q.pending = s.pending /\ q.pendingDeletes = s.pendingDeletes
      /\ Integrated(q) = Integrated(s) \cup new /\ Tombstones(q) = Tombstones(s)
  BY DEF Grown
<1>2. Good(s, r) /\ Known(s, M) /\ Deletions(s, M, told.del) /\ (Split => Insertions(s, told.ins))
  BY DEF Fine
<1>3. M \in SUBSET Id /\ s.client = r /\ s.clock \in Nat
  BY <1>2 DEF Within, Good, Sound, Runs, StoreType
<1>4. x \in Id /\ clientOf(x) = r /\ clockOf(x) = s.clock
  BY <1>3 DEF newId, Id, clientOf, clockOf
<1>5. \A u : u \in new <=> /\ u \in Id /\ clientOf(u) = r
                          /\ s.clock <= clockOf(u) /\ clockOf(u) < s.clock + n
  <2> HIDE DEF x
  <2> QED BY <1>4, IdsAre
<1>6. new \cap M = {}
  <2> SUFFICES ASSUME NEW u \in new, u \in M
               PROVE  FALSE
    OBVIOUS
  <2>1. u \in Id /\ clientOf(u) = r /\ s.clock <= clockOf(u) /\ clockOf(u) < s.clock
    BY <1>5 DEF Within
  <2>2. clockOf(u) \in Nat
    BY <2>1, IdFacts
  <2> QED BY <1>3, <2>1, <2>2
<1> HIDE DEF q, x, new
<1>7. Sound(s) /\ Sound(q) /\ q.client = s.client /\ Counted(q) /\ Anchored(q)
  BY <1>1, <1>2 DEF Keeps, Good
<1>8. q.clock = Size(q, r)
  <2>1. Runs(s) /\ Runs(q) /\ s.clock = Size(s, r)
    BY <1>2, <1>7 DEF Sound, Good
  <2>2. ASSUME NEW m \in Nat
        PROVE  newId(r, m) \in Integrated(q) <=> m < s.clock + n
    <3>1. newId(r, m) \in Id /\ clientOf(newId(r, m)) = r /\ clockOf(newId(r, m)) = m
      BY DEF newId, Id, clientOf, clockOf
    <3>2. newId(r, m) \in Integrated(s) <=> m < s.clock
      BY <2>1, <3>1, Holds
    <3>3. newId(r, m) \in new <=> s.clock <= m /\ m < s.clock + n
      BY <1>5, <3>1
    <3> QED BY <1>1, <1>3, <3>2, <3>3
  <2>3. s.clock + n \in Nat
    BY <1>3
  <2> QED BY <1>1, <2>1, <2>2, <2>3, SizeIs
<1>9. Good(q, r)
  BY <1>1, <1>2, <1>7, <1>8 DEF Good
<1>10. Known(q, N)
  <2>1. Rooted(M) \subseteq Rooted(N)
    BY DEF Rooted
  <2>2. \A A, B : A \subseteq B => \A l \in Seq(A) : l \in Seq(B)
    OBVIOUS
  <2> QED BY <1>1, <1>2, <2>1, <2>2 DEF Known
<1>11. Deletions(q, N, told.del)
  BY <1>1, <1>2, <1>6 DEF Deletions, Known
<1>12. Split => Insertions(q, told.ins \cup new)
  <2> HAVE Split
  <2>1. Waits(q, s.pending)
    <3>1. Integrated(q) \cap M = Integrated(s) \cap M
      BY <1>1, <1>6
    <3> QED BY <1>2, <1>3, <1>7, <3>1, StillWaits DEF Known, Insertions
  <2> QED BY <1>1, <1>2, <2>1 DEF Insertions
<1> QED BY <1>9, <1>10, <1>11, <1>12 DEF Fine, q, x, new, N

\* An empty store.
LEMMA NewStore ==
  ASSUME NEW r \in Client
  PROVE  newStore(r) \in StoreType /\ Fine(newStore(r), r, {}, [ins |-> {}, del |-> {}])
<1> DEFINE s == newStore(r)
<1>1. /\ s.client = r /\ s.clock = 0 /\ s.heap = <<>> /\ s.pending = <<>> /\ s.pendingDeletes = <<>>
      /\ s.items = [c \in Client |-> <<>>] /\ s.start = [t \in Root |-> Nil]
      /\ s.len = [t \in Root |-> 0]
  BY DEF newStore
<1>2. DOMAIN s.heap = {} /\ s.heap \in Heap
  <2>1. DOMAIN <<>> = {}
    OBVIOUS
  <2>2. <<>> = [x \in {} |-> x]
    OBVIOUS
  <2>3. [x \in {} |-> x] \in [{} -> Node]
    OBVIOUS
  <2>4. {} \in SUBSET Id
    OBVIOUS
  <2>5. [x \in {} |-> x] \in Heap
    BY <2>3, <2>4 DEF Heap
  <2> QED BY <1>1, <2>1, <2>2, <2>5
<1>3. s \in StoreType
  <2>1. s = [client |-> r, clock |-> 0, items |-> [c \in Client |-> <<>>], heap |-> s.heap,
             start |-> [t \in Root |-> Nil], len |-> [t \in Root |-> 0],
             pending |-> <<>>, pendingDeletes |-> <<>>]
    BY DEF newStore
  <2>2. [c \in Client |-> <<>>] \in [Client -> Seq(Id)] /\ [t \in Root |-> Nil] \in [Root -> OptId]
    BY DEF OptId
  <2>3. [t \in Root |-> 0] \in [Root -> Int] /\ <<>> \in Seq(UpdateItem) /\ <<>> \in Seq(DeleteSpan)
    OBVIOUS
  <2> DEFINE h == s.heap
             i == [c \in Client |-> <<>>]
             a == [t \in Root |-> Nil]
             l == [t \in Root |-> 0]
             p == <<>>
  <2>4. s = [client |-> r, clock |-> 0, items |-> i, heap |-> h, start |-> a, len |-> l,
             pending |-> p, pendingDeletes |-> p]
    BY <2>1
  <2>5. i \in [Client -> Seq(Id)] /\ a \in [Root -> OptId] /\ l \in [Root -> Int]
        /\ p \in Seq(UpdateItem) /\ p \in Seq(DeleteSpan) /\ h \in Heap
    BY <1>2, <2>2, <2>3
  <2> HIDE DEF s, h, i, a, l, p
  <2> QED BY <2>4, <2>5 DEF StoreType
<1> HIDE DEF s
<1>4. ToSet(<<>>) = {} /\ DOMAIN <<>> = {}
  BY DEF ToSet
<1>5. Runs(s)
  <2>1. \A c \in Client : s.items[c] = <<>>
    BY <1>1
  <2>2. \A c \in Client : RunOf(s, c)
    <3> TAKE c \in Client
    <3> DEFINE run == s.items[c]
    <3>1. run \in Seq(Id) /\ ToSet(run) = {} /\ DOMAIN run = {}
      <4>1. run = <<>> /\ <<>> \in Seq(Id)
        BY <2>1
      <4> HIDE DEF run
      <4> QED BY <1>4, <4>1
    <3>2. {x \in DOMAIN s.heap : clientOf(x) = c} = {}
      BY <1>2
    <3> HIDE DEF run
    <3> QED BY <3>1, <3>2 DEF RunOf, run
  <2> QED BY <1>3, <2>2 DEF Runs
<1>6. Linked(s)
  <2>1. \A t \in Root : ListOf(s, t, <<>>)
    BY <1>1, <1>2, <1>4 DEF ListOf, IsInjective
  <2> QED BY <1>3, <2>1, ListsAreChains
<1>7. Integrated(s) = {} /\ Tombstones(s) = {} /\ \A t \in Root : Live(s, t) = {}
  BY <1>2 DEF Integrated, Tombstones, Live
<1>8. Counted(s)
  BY <1>1, <1>7, FS_EmptySet DEF Counted
<1>9. Good(s, r)
  <2>1. Size(s, r) = 0
    BY <1>1 DEF Size
  <2>2. <<>> \in Seq(NoWrap)
    OBVIOUS
  <2> QED BY <1>1, <1>2, <1>5, <1>6, <1>8, <2>1, <2>2, ClockModAssumption
        DEF Good, Sound, Anchored
<1>10. StructIds({}) = {} /\ NamedBy({}) = {}
  BY DEF StructIds, NamedBy
<1>11. Known(s, {})
  <2>1. <<>> \in Seq(Rooted({}))
    OBVIOUS
  <2> QED BY <1>1, <1>4, <1>7, <1>10, <2>1 DEF Known, OneUnit
<1>12. Deletions(s, {}, {})
  BY <1>1, <1>4, <1>7, <1>10 DEF Deletions
<1>13. Insertions(s, {})
  BY <1>1, <1>4, <1>7, <1>10 DEF Insertions, ApartIds, Waits
<1> QED BY <1>3, <1>9, <1>11, <1>12, <1>13 DEF Fine, s

\* New stores hold nothing and were told of nothing.
LEMMA InitHolds ==
  Init => IInv
<1> HAVE Init
<1>1. \A r \in Client : doc[r] = newStore(r) /\ got[r] = [ins |-> {}, del |-> {}]
  BY DEF Init
<1>2. doc \in [Client -> StoreType] /\ got \in [Client -> [ins : SUBSET Id, del : SUBSET Id]]
  BY NewStore DEF Init
<1>3. Made(doc) = {}
  <2>1. \A u \in Id : clientOf(u) \in Client /\ clockOf(u) \in Nat
    BY IdFacts
  <2>2. \A r \in Client : doc[r].clock = 0
    <3>1. \A r \in Client : newStore(r).clock = 0
      BY DEF newStore
    <3> QED BY <1>1, <3>1
  <2> QED BY <2>1, <2>2 DEF Made
<1>4. Carried(sent, cut, {})
  BY DEF Init, Carried, OneUnit, StructIds, NamedBy
<1> QED BY <1>1, <1>2, <1>3, <1>4, NewStore DEF IInv, Holding

\* What is made.
LEMMA MadeFacts ==
  ASSUME NEW d \in [Client -> StoreType]
  PROVE  /\ Made(d) \in SUBSET Id /\ Closed(Made(d))
         /\ \A r \in Client : Within(d[r], r, Made(d))
<1>1. Made(d) \in SUBSET Id
  BY DEF Made
<1>2. Closed(Made(d))
  <2> SUFFICES ASSUME NEW u \in Made(d), clockOf(u) > 0
               PROVE  Sub(u, 1) \in Made(d)
    BY DEF Closed
  <2>1. u \in Id /\ clockOf(u) < d[clientOf(u)].clock
    BY DEF Made
  <2>2. clientOf(u) \in Client /\ clockOf(u) \in Nat /\ u = <<clientOf(u), clockOf(u)>>
    BY <2>1, IdFacts
  <2>3. d[clientOf(u)].clock \in Nat
    BY <2>2 DEF StoreType
  <2> DEFINE v == Sub(u, 1)
  <2>4. v = <<clientOf(u), clockOf(u) - 1>>
    BY DEF Sub, clientOf, clockOf
  <2> HIDE DEF v
  <2>5. v \in Id /\ clientOf(v) = clientOf(u) /\ clockOf(v) = clockOf(u) - 1
    <3>1. clockOf(u) - 1 \in Nat
      BY <2>2
    <3>2. \A a \in Client, b \in Nat : <<a, b>> \in Id /\ clientOf(<<a, b>>) = a /\ clockOf(<<a, b>>) = b
      BY DEF Id, clientOf, clockOf
    <3> QED BY <2>2, <2>4, <3>1, <3>2
  <2>6. clockOf(v) < d[clientOf(v)].clock
    BY <2>1, <2>2, <2>3, <2>5
  <2> QED BY <2>5, <2>6 DEF Made, v
<1>3. \A r \in Client : Within(d[r], r, Made(d))
  BY DEF Within, Made
<1> QED BY <1>1, <1>2, <1>3

\* A replica whose clock grows by n makes n units.
MakesMore(d, r, q, n) == Made([d EXCEPT ![r] = q]) = Made(d) \cup Ids(newId(r, d[r].clock), n)

\* A replica whose clock grows by n has made n units more, from its old clock on.
LEMMA MadeMore ==
  ASSUME NEW d \in [Client -> StoreType], NEW r \in Client, NEW q \in StoreType, NEW n \in Nat,
         q.clock = d[r].clock + n
  PROVE  MakesMore(d, r, q, n)
<1> DEFINE e == [d EXCEPT ![r] = q]
           x == newId(r, d[r].clock)
           k == d[r].clock
<1>1. k \in Nat /\ x \in Id /\ clientOf(x) = r /\ clockOf(x) = k
  <2>1. k \in Nat
    BY DEF StoreType
  <2> QED BY <2>1 DEF newId, Id, clientOf, clockOf
<1>2. \A c \in Client : e[c].clock = IF c = r THEN k + n ELSE d[c].clock
  OBVIOUS
<1>3. \A u \in Id : clientOf(u) \in Client /\ clockOf(u) \in Nat
  BY IdFacts
<1> HIDE DEF e, x, k
<1>4. \A u : u \in Ids(x, n) <=> u \in Id /\ clientOf(u) = r /\ k <= clockOf(u) /\ clockOf(u) < k + n
  BY <1>1, IdsAre
<1>5. ASSUME NEW u
      PROVE  u \in Made(e) <=> u \in Made(d) \cup Ids(x, n)
  <2>1. u \in Made(d) <=> u \in Id /\ clockOf(u) < IF clientOf(u) = r THEN k ELSE d[clientOf(u)].clock
    BY DEF Made, k
  <2>2. u \in Made(e) <=> u \in Id /\ clockOf(u) < IF clientOf(u) = r THEN k + n ELSE d[clientOf(u)].clock
    BY <1>2, <1>3 DEF Made
  <2>3. CASE u \in Id /\ clientOf(u) = r
    BY <1>1, <1>3, <1>4, <2>1, <2>2, <2>3
  <2>4. CASE ~(u \in Id /\ clientOf(u) = r)
    BY <1>4, <2>1, <2>2, <2>4
  <2> QED BY <2>3, <2>4
<1> QED BY <1>5 DEF MakesMore, e, x, k

\* A replica that keeps its clock has made nothing.
LEMMA MadeSame ==
  ASSUME NEW d \in [Client -> StoreType], NEW r \in Client, NEW q \in StoreType,
         q.clock = d[r].clock
  PROVE  Made([d EXCEPT ![r] = q]) = Made(d)
<1>1. d[r].clock \in Nat
  BY DEF StoreType
<1>2. q.clock = d[r].clock + 0
  BY <1>1
<1>3. Ids(newId(r, d[r].clock), 0) = {}
  <2>1. 0 .. 0 - 1 = {}
    OBVIOUS
  <2> QED BY <2>1 DEF Ids
<1> DEFINE n == 0
<1>4. n \in Nat /\ q.clock = d[r].clock + n
  BY <1>2
<1> HIDE DEF n
<1>5. MakesMore(d, r, q, n)
  BY <1>4, MadeMore
<1> QED BY <1>3, <1>5 DEF n, MakesMore

\* One replica's step.
LEMMA OneSteps ==
  ASSUME NEW d, NEW told, NEW structs, NEW spans, Holding(d, told, structs, spans),
         NEW r \in Client, NEW q \in StoreType,
         NEW t \in [ins : SUBSET Id, del : SUBSET Id],
         NEW more, NEW cuts,
         Made(d) \subseteq Made([d EXCEPT ![r] = q]),
         Fine(q, r, Made([d EXCEPT ![r] = q]), t),
         Carried(more, cuts, Made([d EXCEPT ![r] = q]))
  PROVE  Holding([d EXCEPT ![r] = q], [told EXCEPT ![r] = t], more, cuts)
<1> DEFINE e == [d EXCEPT ![r] = q]
           g == [told EXCEPT ![r] = t]
<1>1. /\ d \in [Client -> StoreType]
      /\ told \in [Client -> [ins : SUBSET Id, del : SUBSET Id]]
      /\ \A c \in Client : Fine(d[c], c, Made(d), told[c])
  BY DEF Holding
<1>2. e \in [Client -> StoreType] /\ g \in [Client -> [ins : SUBSET Id, del : SUBSET Id]]
  BY <1>1
<1>3. /\ e[r] = q /\ g[r] = t
      /\ \A c \in Client : c # r => e[c] = d[c] /\ g[c] = told[c]
  BY <1>1
<1> HIDE DEF e, g
<1>4. \A c \in Client : Fine(e[c], c, Made(e), g[c])
  <2> TAKE c \in Client
  <2>1. CASE c = r
    BY <1>3, <2>1 DEF e
  <2>2. CASE c # r
    <3>1. Fine(d[c], c, Made(e), told[c])
      BY <1>1, OthersMake DEF e
    <3> QED BY <1>3, <2>2, <3>1
  <2> QED BY <2>1, <2>2
<1>5. Carried(more, cuts, Made(e))
  BY DEF e
<1>6. Holding(e, g, more, cuts)
  BY <1>2, <1>4, <1>5 DEF Holding
<1> QED BY <1>6 DEF e, g

\* A transaction begins with the store as it is.
LEMMA Begins ==
  ASSUME NEW s \in StoreType
  PROVE  LET tr == newTransaction(s)
         IN  tr \in Tr /\ tr.store = s /\ tr.insertSet = <<>> /\ tr.deleteSet = <<>>
<1>1. newTransaction(s) = [store |-> s, insertSet |-> <<>>, deleteSet |-> <<>>, changed |-> {}]
  BY DEF newTransaction
<1>2. <<>> \in Seq(Span) /\ {} \in SUBSET Root
  OBVIOUS
<1> QED BY <1>1, <1>2 DEF Tr

\* What a replica is told of is added to one field.
tellIns(t, X) == [ins |-> t.ins \cup X, del |-> t.del]
tellDel(t, X) == [ins |-> t.ins, del |-> t.del \cup X]
TellsIns(g, r, X) == [g EXCEPT ![r].ins = @ \cup X] = [g EXCEPT ![r] = tellIns(g[r], X)]
TellsDel(g, r, X) == [g EXCEPT ![r].del = @ \cup X] = [g EXCEPT ![r] = tellDel(g[r], X)]

\* A field of one record, by EXCEPT or written out.
LEMMA TellOne ==
  ASSUME NEW A, NEW B, NEW X, NEW t \in [ins : A, del : B]
  PROVE  [t EXCEPT !.ins = @ \cup X] = tellIns(t, X) /\ [t EXCEPT !.del = @ \cup X] = tellDel(t, X)
<1>1. [t EXCEPT !.ins = @ \cup X] = [ins |-> t.ins \cup X, del |-> t.del]
  OBVIOUS
<1>2. [t EXCEPT !.del = @ \cup X] = [ins |-> t.ins, del |-> t.del \cup X]
  OBVIOUS
<1> QED BY <1>1, <1>2 DEF tellIns, tellDel

\* The same for the record of one replica.
LEMMA Told ==
  ASSUME NEW A, NEW B, NEW g \in [Client -> [ins : A, del : B]], NEW r \in Client, NEW X
  PROVE  TellsIns(g, r, X) /\ TellsDel(g, r, X)
<1>1. g[r] \in [ins : A, del : B]
  OBVIOUS
<1>2. [g EXCEPT ![r].ins = @ \cup X] = [g EXCEPT ![r] = [g[r] EXCEPT !.ins = @ \cup X]]
  OBVIOUS
<1>3. [g EXCEPT ![r].del = @ \cup X] = [g EXCEPT ![r] = [g[r] EXCEPT !.del = @ \cup X]]
  OBVIOUS
<1>4. [g[r] EXCEPT !.ins = @ \cup X] = tellIns(g[r], X) /\ [g[r] EXCEPT !.del = @ \cup X] = tellDel(g[r], X)
  BY <1>1, TellOne
<1> QED BY <1>2, <1>3, <1>4 DEF TellsIns, TellsDel

\* Nothing happens.
LEMMA NothingHolds ==
  ASSUME IInv, doc' = doc, got' = got, sent' = sent, cut' = cut
  PROVE  IInv'
BY DEF IInv, Holding

\* An insertion is refused, past the end or where the clock has no room for its
\* units, or types them.
LEMMA InsertGrows ==
  ASSUME NEW r \in Client, NEW s \in StoreType, Good(s, r), NEW t \in Root, NEW index \in Nat,
         NEW n \in 1 .. MaxInsert
  PROVE  LET tr == InsertIn(newTransaction(s), t, index, n)
         IN  \/ /\ tr = newTransaction(s)
                /\ index > s.len[t] \/ s.clock + n >= ClockMod
             \/ Grown(s, n, tr) /\ GrownAt(s, t, index, n, tr.store)
<1> DEFINE b == newTransaction(s)
<1>1. b \in Tr /\ b.store = s /\ b.insertSet = <<>> /\ b.deleteSet = <<>>
  BY Begins
<1>2. Typing(b.store, 0)
  <2>1. s.clock \in Nat
    BY DEF StoreType
  <2> QED BY <1>1, <2>1 DEF Typing, Good
<1>3. n \in Nat /\ n # 0 /\ n < ClockMod
  BY BoundsAssumption, InsertAssumption, ClockModAssumption
<1> HIDE DEF b
<1> DEFINE tr == InsertIn(b, t, index, n)
<1>4. \/ tr = b /\ refused(b.store, t, index, n)
      \/ Grown(b.store, n, tr) /\ GrownAt(b.store, t, index, n, tr.store)
  BY <1>1, <1>2, <1>3, InsertionTyped
<1>5. ASSUME refused(s, t, index, n)  PROVE  index > s.len[t] \/ s.clock + n >= ClockMod
  <2>1. s.clock \in Nat /\ s.clock < ClockMod /\ ClockMod \in Nat
    BY ClockModAssumption DEF Good, StoreType
  <2>2. s.clock + n < ClockMod => (s.clock + n) % ClockMod = s.clock + n
    BY <1>3, <2>1
  <2> QED BY <1>3, <1>5, <2>1, <2>2 DEF refused
<1> QED BY <1>1, <1>4, <1>5 DEF b

\* Insert: the units are new, their own replica knows them first, and what is
\* sent of them depends on nothing that was not made.
LEMMA InsertHolds ==
  ASSUME IInv, NEW r \in Client, NEW t \in Root, NEW index \in Nat, NEW n \in 1 .. MaxInsert,
         Insert(r, t, index, n)
  PROVE  IInv'
<1> DEFINE s == doc[r]
           tr == InsertIn(newTransaction(s), t, index, n)
           M == Made(doc)
           x == newId(s.client, s.clock)
           new == Ids(x, n)
<1>1. /\ doc \in [Client -> StoreType] /\ got \in [Client -> [ins : SUBSET Id, del : SUBSET Id]]
      /\ s \in StoreType /\ Fine(s, r, M, got[r]) /\ Carried(sent, cut, M)
  BY DEF IInv, Holding
<1>2. /\ doc' = [doc EXCEPT ![r] = tr.store]
      /\ sent' = sent \cup Emitted(tr.store, tr.insertSet)
      /\ got' = [got EXCEPT ![r].ins = @ \cup SpanIds(tr.insertSet)]
      /\ cut' = cut
  BY DEF Insert
<1>3. M \in SUBSET Id /\ Closed(M) /\ Within(s, r, M)
  BY <1>1, MadeFacts
<1>4. n \in Nat /\ n # 0 /\ n < ClockMod
  BY BoundsAssumption, InsertAssumption, ClockModAssumption
<1>5. Good(s, r) /\ s.clock \in Nat
  BY <1>1 DEF Fine, StoreType
<1>6. tr = newTransaction(s) \/ Grown(s, n, tr)
  BY <1>1, <1>5, InsertGrows
<1> HIDE DEF tr
<1>7. CASE tr = newTransaction(s)
  <2>1. tr.store = s /\ tr.insertSet = <<>>
    BY <1>1, <1>7, Begins
  <2>2. SpanIds(<<>>) = {} /\ Emitted(s, <<>>) = {}
    BY DEF SpanIds, Emitted
  <2>3. doc' = doc /\ sent' = sent /\ got' = got
    BY <1>1, <1>2, <2>1, <2>2
  <2> QED BY <1>2, <2>3, NothingHolds
<1>8. CASE Grown(s, n, tr)
  <2> DEFINE q == tr.store
             told == [ins |-> got[r].ins \cup new, del |-> got[r].del]
             N == M \cup new
  <2>1. /\ Keeps(s, q) /\ q.clock = s.clock + n
        /\ Integrated(q) = Integrated(s) \cup new
        /\ tr.insertSet = typedSpans(x, n)
        /\ \A i \in 1 .. n : Add(x, i - 1) \in DOMAIN q.heap /\ q.heap[Add(x, i - 1)].len = 1
    BY <1>8 DEF Grown, typedSpans
  <2>2. s.client = r /\ x \in Id /\ x = newId(r, s.clock) /\ Anchored(s)
    BY <1>5 DEF Good, newId, Id
  <2>3. SpanIds(tr.insertSet) = new
    <3> HIDE DEF x
    <3> QED BY <1>4, <2>1, <2>2, TypedIds
  <2>4. Sound(q) /\ Anchored(q) /\ q \in StoreType
    BY <2>1, <2>2 DEF Keeps, Sound, Runs
  <2>5. IsEmitted(Integrated(q), new, Emitted(q, tr.insertSet))
    <3> HIDE DEF x, q
    <3> QED BY <1>4, <2>1, <2>2, <2>4, EmittedIs
  <2>6. Fine(q, r, N, told)
    BY <1>1, <1>3, <1>4, <1>8, FineInserted
  <2>7. Made([doc EXCEPT ![r] = q]) = N
    <3> HIDE DEF q
    <3>1. MakesMore(doc, r, q, n)
      BY <1>1, <1>4, <2>1, <2>4, MadeMore
    <3> QED BY <2>2, <3>1 DEF MakesMore
  <2>8. told \in [ins : SUBSET Id, del : SUBSET Id]
    <3>1. new \subseteq Id
      <4> HIDE DEF x
      <4> QED BY <1>4, <2>2, IdsAre
    <3> HIDE DEF new
    <3> QED BY <1>1, <3>1
  <2>9. Integrated(q) \subseteq N
    BY <2>6 DEF Fine, Known
  <2> HIDE DEF q, told, new, x
  <2>10. Carried(sent \cup Emitted(q, tr.insertSet), cut, N)
    <3>1. Carried(sent, cut, N)
      BY <1>1, CarriedOn
    <3> DEFINE e == Emitted(q, tr.insertSet)
    <3>2. e \subseteq Rooted(N) /\ StructIds(e) \subseteq N /\ (Split => OneUnit(e))
      BY <2>5, <2>9 DEF IsEmitted, Rooted
    <3> HIDE DEF e, N
    <3>3. StructIds(sent \cup e) = StructIds(sent) \cup StructIds(e)
      BY DEF StructIds
    <3>4. Split => OneUnit(sent \cup e)
      BY <3>1, <3>2 DEF Carried, OneUnit
    <3>5. Carried(sent \cup e, cut, N)
      BY <3>1, <3>2, <3>3, <3>4 DEF Carried
    <3> QED BY <3>5 DEF e
  <2>11. got' = [got EXCEPT ![r] = told]
    <3>1. [got EXCEPT ![r].ins = @ \cup new] = [got EXCEPT ![r] = told]
      <4>1. TellsIns(got, r, new)
        BY <1>1, Told
      <4> QED BY <4>1 DEF TellsIns, tellIns, told
    <3> QED BY <1>2, <2>3, <3>1
  <2>12. Holding([doc EXCEPT ![r] = q], [got EXCEPT ![r] = told],
                 sent \cup Emitted(q, tr.insertSet), cut)
    <3>1. M \subseteq N
      OBVIOUS
    <3>2. Holding(doc, got, sent, cut)
      BY DEF IInv
    <3> HIDE DEF N, M
    <3> QED BY <2>4, <2>6, <2>7, <2>8, <2>10, <3>1, <3>2, OneSteps DEF M
  <2>13. doc' = [doc EXCEPT ![r] = q] /\ sent' = sent \cup Emitted(q, tr.insertSet)
    BY <1>2 DEF q
  <2> QED BY <1>2, <2>11, <2>12, <2>13 DEF IInv
<1> QED BY <1>6, <1>7, <1>8

\* The delete set of an edit names units that were there, by spans short of a
\* clock's end.
LEMMA SpansCarried ==
  ASSUME IInv, NEW dead, dead \subseteq Made(doc)
  PROVE  Spans(dead) \subseteq NoWrap /\ NamedBy(Spans(dead)) \subseteq dead
<1>1. ASSUME NEW d \in Spans(dead)
      PROVE  d \in NoWrap /\ SpanUnits(d) \subseteq dead
  <2>1. /\ d \in [client : Client, clock : 0 .. MaxUnits, length : 1 .. MaxUnits]
        /\ SpanUnits(d) \subseteq dead
    BY DEF Spans
  <2> DEFINE c == d.client
             k == d.clock
             n == d.length
             u == newId(c, k + n - 1)
  <2>2. c \in Client /\ k \in Nat /\ n \in Nat \ {0}
    BY <2>1
  <2>3. d \in DeleteSpan
    BY <2>1 DEF DeleteSpan
  <2> HIDE DEF c, k, n
  <2>4. k + n - 1 \in Nat /\ n - 1 \in 0 .. n - 1 /\ k + n - 1 = k + (n - 1)
    BY <2>2
  <2>5. u = Add(newId(c, k), n - 1) /\ clientOf(u) = c /\ clockOf(u) = k + n - 1
    BY <2>4 DEF newId, Add, clientOf, clockOf
  <2>6. u \in SpanUnits(d)
    BY <2>4, <2>5 DEF SpanUnits, Ids, c, k, n
  <2>7. u \in Made(doc)
    BY <2>1, <2>6
  <2>8. k + n - 1 < doc[c].clock
    BY <2>5, <2>7 DEF Made
  <2>9. doc[c].clock \in Nat /\ doc[c].clock < ClockMod
    BY <2>2 DEF IInv, Holding, Fine, Good, StoreType
  <2>10. k + n < ClockMod
    BY <2>2, <2>8, <2>9, ClockModAssumption
  <2> QED BY <2>1, <2>3, <2>10 DEF NoWrap, k, n
<1> QED BY <1>1 DEF NamedBy

\* A deletion hides what it records.
LEMMA DeleteShrinks ==
  ASSUME NEW s \in StoreType, Sound(s), NEW t \in Root, NEW index \in Nat, NEW length \in Nat
  PROVE  LET tr == DeleteIn(newTransaction(s), t, index, length)
         IN  Shrunk(s, tr) /\ ShrunkAt(s, t, index, length, tr.store)
<1> DEFINE b == newTransaction(s)
<1>1. b \in Tr /\ b.store = s /\ b.insertSet = <<>> /\ b.deleteSet = <<>>
  BY Begins
<1>2. Sound(b.store)
  BY <1>1
<1> HIDE DEF b
<1>3. LET tr == DeleteIn(b, t, index, length)
      IN  Shrunk(b.store, tr) /\ ShrunkAt(b.store, t, index, length, tr.store)
  BY <1>1, <1>2, DeletionRecorded
<1> QED BY <1>1, <1>3 DEF b

\* Delete: what is hidden was there, and the spans sent of it name nothing else.
LEMMA DeleteHolds ==
  ASSUME IInv, NEW r \in Client, NEW t \in Root, NEW index \in Nat, NEW length \in Nat,
         Delete(r, t, index, length)
  PROVE  IInv'
<1> DEFINE s == doc[r]
           tr == DeleteIn(newTransaction(s), t, index, length)
           M == Made(doc)
           dead == SpanIds(tr.deleteSet)
           q == tr.store
           told == [ins |-> got[r].ins, del |-> got[r].del \cup dead]
<1>1. /\ doc \in [Client -> StoreType] /\ got \in [Client -> [ins : SUBSET Id, del : SUBSET Id]]
      /\ s \in StoreType /\ Fine(s, r, M, got[r]) /\ Carried(sent, cut, M)
  BY DEF IInv, Holding
<1>2. /\ doc' = [doc EXCEPT ![r] = q]
      /\ cut' = cut \cup Spans(dead)
      /\ got' = [got EXCEPT ![r].del = @ \cup dead]
      /\ sent' = sent
  BY DEF Delete
<1>3. M \in SUBSET Id /\ Closed(M) /\ Within(s, r, M)
  BY <1>1, MadeFacts
<1>4. Shrunk(s, tr)
  BY <1>1, DeleteShrinks DEF Fine, Good
<1> HIDE DEF tr
<1>5. q \in StoreType /\ q.clock = s.clock /\ dead \subseteq Integrated(s)
  BY <1>4 DEF Shrunk, Keeps, Frame, Sound, Runs
<1>6. dead \subseteq M
  BY <1>1, <1>5 DEF Fine, Known
<1>7. Fine(q, r, M, told)
  <2>1. Fine(q, r, M, [ins |-> got[r].ins, del |-> got[r].del \cup SpanIds(tr.deleteSet)])
    BY <1>1, <1>3, <1>4, FineDeleted
  <2> QED BY <2>1
<1> HIDE DEF q, dead
<1>8. Made([doc EXCEPT ![r] = q]) = M
  BY <1>1, <1>5, MadeSame
<1>9. told \in [ins : SUBSET Id, del : SUBSET Id]
  BY <1>1, <1>3, <1>6
<1>10. got' = [got EXCEPT ![r] = told]
  <2>1. TellsDel(got, r, dead)
    BY <1>1, Told
  <2> QED BY <1>2, <2>1 DEF TellsDel, tellDel
<1>11. Carried(sent, cut \cup Spans(dead), M)
  <2>1. Spans(dead) \subseteq NoWrap /\ NamedBy(Spans(dead)) \subseteq M
    BY <1>6, SpansCarried
  <2>2. NamedBy(cut \cup Spans(dead)) = NamedBy(cut) \cup NamedBy(Spans(dead))
    BY DEF NamedBy
  <2> QED BY <1>1, <2>1, <2>2 DEF Carried
<1> HIDE DEF told, M
<1>12. Holding([doc EXCEPT ![r] = q], [got EXCEPT ![r] = told], sent, cut \cup Spans(dead))
  <2>1. Holding(doc, got, sent, cut)
    BY DEF IInv
  <2>2. M \subseteq M
    OBVIOUS
  <2> QED BY <1>5, <1>7, <1>8, <1>9, <1>11, <2>1, <2>2, OneSteps DEF M
<1> QED BY <1>2, <1>10, <1>12 DEF IInv

\* What is applied is an update, and then its deletions.
LEMMA ApplyUpdates ==
  ASSUME NEW r, NEW s \in StoreType, NEW M, NEW told, Fine(s, r, M, told),
         NEW structs \in Seq(Rooted(M)), NEW spans \in Seq(NoWrap)
  PROVE  \E p : /\ Updated(s, structs, p)
               /\ DeletesApplied(p, spans, applySyncUpdate(newTransaction(s), structs, spans).store)
<1> DEFINE b == newTransaction(s)
<1>1. b \in Tr /\ b.store = s
  BY Begins
<1>2. \A A, B : A \subseteq B => \A l \in Seq(A) : l \in Seq(B)
  OBVIOUS
<1>3. structs \in Seq(Item) /\ s.pending \in Seq(Item)
  <2>1. Rooted(M) \subseteq Item
    BY DEF Rooted
  <2> QED BY <1>2, <2>1 DEF Fine, Known
<1>4. Sound(b.store) /\ b.store.pending \in Seq(Item) /\ b.store.pendingDeletes \in Seq(NoWrap)
  BY <1>1, <1>3 DEF Fine, Good
<1> HIDE DEF b
<1>5. \E p : /\ Updated(b.store, structs, p)
            /\ DeletesApplied(p, spans, applySyncUpdate(b, structs, spans).store)
  BY <1>1, <1>3, <1>4, SyncApplied
<1> QED BY <1>1, <1>5 DEF b

\* A step that applies structs and delete spans made somewhere.
Applies(r, structs, spans) ==
  /\ structs \in Seq(Rooted(Made(doc))) /\ spans \in Seq(NoWrap)
  /\ Carried(ToSet(structs), ToSet(spans), Made(doc))
  /\ doc' = [doc EXCEPT ![r] = applySyncUpdate(newTransaction(doc[r]), structs, spans).store]
  /\ got' = [got EXCEPT ![r] = [ins |-> got[r].ins \cup StructIds(ToSet(structs)),
                               del |-> got[r].del \cup NamedBy(ToSet(spans))]]
  /\ sent' = sent /\ cut' = cut

\* Deliver and Sync: what arrives was made, so it is integrated or buffered and
\* hidden or buffered as the update loop says, and nothing new is known of.
LEMMA ApplyHolds ==
  ASSUME IInv, NEW r \in Client, NEW structs, NEW spans, Applies(r, structs, spans)
  PROVE  IInv'
<1> DEFINE s == doc[r]
           b == newTransaction(s)
           q == applySyncUpdate(b, structs, spans).store
           M == Made(doc)
           new == StructIds(ToSet(structs))
           gone == NamedBy(ToSet(spans))
           told == [ins |-> got[r].ins \cup new, del |-> got[r].del \cup gone]
<1>1. /\ doc \in [Client -> StoreType] /\ got \in [Client -> [ins : SUBSET Id, del : SUBSET Id]]
      /\ s \in StoreType /\ Fine(s, r, M, got[r]) /\ Carried(sent, cut, M)
  BY DEF IInv, Holding
<1>2. M \in SUBSET Id /\ Closed(M) /\ Within(s, r, M)
  BY <1>1, MadeFacts
<1>3. /\ structs \in Seq(Rooted(M)) /\ spans \in Seq(NoWrap)
      /\ Carried(ToSet(structs), ToSet(spans), M)
  BY DEF Applies
<1>6. \E p : Updated(s, structs, p) /\ DeletesApplied(p, spans, q)
  BY <1>1, <1>3, ApplyUpdates DEF M
<1>7. PICK p : Updated(s, structs, p) /\ DeletesApplied(p, spans, q)
  BY <1>6
<1> HIDE DEF b, q
<1>8. q \in StoreType /\ q.clock = s.clock
  BY <1>7 DEF Updated, DeletesApplied, Keeps, Sound, Runs
<1>9. Fine(q, r, M, told)
  <2> HIDE DEF M, s
  <2>1. Fine(q, r, M, [ins |-> got[r].ins \cup StructIds(ToSet(structs)),
                       del |-> got[r].del \cup NamedBy(ToSet(spans))])
    BY <1>1, <1>2, <1>3, <1>7, FineDelivered
  <2> QED BY <2>1
<1>10. Made([doc EXCEPT ![r] = q]) = M
  BY <1>1, <1>8, MadeSame
<1>11. told \in [ins : SUBSET Id, del : SUBSET Id]
  <2>1. new \subseteq M /\ gone \subseteq M
    BY <1>3 DEF Carried
  <2> HIDE DEF new, gone
  <2> QED BY <1>1, <1>2, <2>1
<1>12. doc' = [doc EXCEPT ![r] = q] /\ got' = [got EXCEPT ![r] = told]
  BY DEF q, b, Applies
<1> HIDE DEF told, M
<1>13. Holding([doc EXCEPT ![r] = q], [got EXCEPT ![r] = told], sent, cut)
  <2>1. Holding(doc, got, sent, cut)
    BY DEF IInv
  <2>2. M \subseteq M
    OBVIOUS
  <2> QED BY <1>1, <1>8, <1>9, <1>10, <1>11, <2>1, <2>2, OneSteps DEF M
<1> QED BY <1>12, <1>13 DEF IInv, Applies

\* A batch of the network is a sequence of what it carries.
LEMMA BatchIs ==
  ASSUME NEW S, NEW n \in Nat, NEW q \in Batches(S, n)
  PROVE  q \in Seq(S) /\ ToSet(q) \subseteq S
<1>1. PICK k \in 0 .. n : q \in [1 .. k -> S]
  BY DEF Batches
<1>2. k \in Nat /\ DOMAIN q = 1 .. k
  BY <1>1
<1> QED BY <1>1, <1>2 DEF ToSet

\* A delivery applies what the network carries.
LEMMA DeliverApplies ==
  ASSUME IInv, NEW r \in Client, NEW structs \in Batches(sent, MaxBatch),
         NEW spans \in Batches(cut, 1), Deliver(r, structs, spans)
  PROVE  Applies(r, structs, spans)
<1> DEFINE M == Made(doc)
<1>1. Carried(sent, cut, M)
  BY DEF IInv, Holding
<1>2. MaxBatch \in Nat /\ 1 \in Nat
  BY BoundsAssumption
<1>3. /\ structs \in Seq(sent) /\ ToSet(structs) \subseteq sent
      /\ spans \in Seq(cut) /\ ToSet(spans) \subseteq cut
  BY <1>2, BatchIs
<1>4. \A A, B : A \subseteq B => \A l \in Seq(A) : l \in Seq(B)
  OBVIOUS
<1> HIDE DEF M
<1>5. structs \in Seq(Rooted(M)) /\ spans \in Seq(NoWrap)
  BY <1>1, <1>3, <1>4 DEF Carried
<1>6. Carried(ToSet(structs), ToSet(spans), M)
  <2>1. StructIds(ToSet(structs)) \subseteq StructIds(sent)
    BY <1>3 DEF StructIds
  <2>2. NamedBy(ToSet(spans)) \subseteq NamedBy(cut)
    BY <1>3 DEF NamedBy
  <2> QED BY <1>1, <1>3, <2>1, <2>2 DEF Carried, OneUnit
<1>7. /\ doc' = [doc EXCEPT ![r] = applySyncUpdate(newTransaction(doc[r]), structs, spans).store]
      /\ got' = [got EXCEPT ![r] = [ins |-> got[r].ins \cup StructIds(ToSet(structs)),
                                    del |-> got[r].del \cup NamedBy(ToSet(spans))]]
      /\ sent' = sent /\ cut' = cut
  <2>1. doc' = [doc EXCEPT ![r] = applySyncUpdate(newTransaction(@), structs, spans).store]
    BY DEF Deliver
  <2>2. got' = [got EXCEPT ![r] = [ins |-> got[r].ins \cup StructIds(ToSet(structs)),
                      del |-> got[r].del \cup UNION {SpanUnits(d) : d \in ToSet(spans)}]]
    BY DEF Deliver
  <2>3. sent' = sent /\ cut' = cut
    BY DEF Deliver
  <2>4. doc' = [doc EXCEPT ![r] = applySyncUpdate(newTransaction(doc[r]), structs, spans).store]
    BY <2>1
  <2> QED BY <2>2, <2>3, <2>4 DEF NamedBy
<1> QED BY <1>5, <1>6, <1>7 DEF Applies, M

\* A client's run is no longer than what was made of it.
LEMMA SizeMade ==
  ASSUME NEW d \in [Client -> StoreType], NEW s, Runs(s), Integrated(s) \subseteq Made(d),
         NEW c \in Client
  PROVE  Size(s, c) <= d[c].clock
<1>1. d[c].clock \in Nat /\ Size(s, c) \in Nat
  BY Holds DEF StoreType
<1>2. CASE Size(s, c) = 0
  BY <1>1, <1>2
<1>3. CASE Size(s, c) # 0
  <2> DEFINE n == Size(s, c)
             u == newId(c, n - 1)
  <2>1. n - 1 \in Nat /\ n - 1 < n
    BY <1>1, <1>3
  <2>2. u \in Id /\ clientOf(u) = c /\ clockOf(u) = n - 1
    BY <2>1 DEF newId, Id, clientOf, clockOf
  <2>3. u \in Integrated(s)
    <3> HIDE DEF u
    <3> QED BY <2>1, <2>2, Holds
  <2>4. n - 1 < d[c].clock
    BY <2>2, <2>3 DEF Made
  <2> QED BY <1>1, <2>4
<1> QED BY <1>2, <1>3

\* ... those of replica q.
AppliesState(r, q, structs, spans) ==
  /\ Applies(r, structs, spans)
  /\ StructIds(ToSet(structs)) = Integrated(doc[q]) /\ NamedBy(ToSet(spans)) = Tombstones(doc[q])
  /\ Faithful(doc[q], ToSet(structs))

\* A whole state is applied as the units and the tombstones its sender has.
LEMMA SyncApplies ==
  ASSUME IInv, NEW r \in Client, NEW q \in Client, Sync(r, q)
  PROVE  \E structs, spans : AppliesState(r, q, structs, spans)
<1> DEFINE s == doc[q]
           M == Made(doc)
           u == EncodeUpdate(s)
           structs == Decoded(u.structs)
           spans == readDeleteSection(u.deletes)
<1>1. /\ doc \in [Client -> StoreType] /\ Fine(s, q, M, got[q])
      /\ \A c \in Client : doc[c].clock \in Nat /\ doc[c].clock < ClockMod
  BY DEF IInv, Holding, Fine, Good, StoreType
<1>2. Sound(s) /\ Anchored(s) /\ Integrated(s) \subseteq M /\ Runs(s)
  BY <1>1 DEF Fine, Good, Known, Sound
<1>3. \A c \in Client : Size(s, c) < ClockMod
  <2> TAKE c \in Client
  <2>1. Size(s, c) <= doc[c].clock /\ Size(s, c) \in Nat
    BY <1>1, <1>2, SizeMade, Holds
  <2> QED BY <1>1, <2>1, ClockModAssumption
<1> HIDE DEF s
<1>4. WholeState(s, structs, spans)
  BY <1>2, <1>3, WholeStateRead
<1> HIDE DEF u, M
<1>5. structs \in Seq(Rooted(M)) /\ spans \in Seq(NoWrap)
  <2>1. Rooted(Integrated(s)) \subseteq Rooted(M)
    BY <1>2 DEF Rooted
  <2>2. \A A, B : A \subseteq B => \A l \in Seq(A) : l \in Seq(B)
    OBVIOUS
  <2> HIDE DEF structs, spans
  <2> QED BY <1>4, <2>1, <2>2 DEF WholeState
<1>6. StructIds(ToSet(structs)) = Integrated(s) /\ NamedBy(ToSet(spans)) = Tombstones(s)
  <2> HIDE DEF structs, spans
  <2> QED BY <1>4 DEF WholeState, NamedBy
<1>7. Carried(ToSet(structs), ToSet(spans), M)
  <2> HIDE DEF structs, spans
  <2>1. ToSet(structs) \subseteq Rooted(M) /\ ToSet(spans) \subseteq NoWrap
    BY <1>5 DEF ToSet
  <2>2. Tombstones(s) \subseteq Integrated(s)
    BY DEF Tombstones, Integrated
  <2> QED BY <1>2, <1>4, <1>6, <2>1, <2>2 DEF Carried, WholeState
<1>8. /\ doc' = [doc EXCEPT ![r] = applySyncUpdate(newTransaction(doc[r]), structs, spans).store]
      /\ got' = [got EXCEPT ![r] = [ins |-> got[r].ins \cup Integrated(s),
                                    del |-> got[r].del \cup Tombstones(s)]]
      /\ sent' = sent /\ cut' = cut
  BY DEF Sync, s, u
<1>9. Faithful(s, ToSet(structs))
  <2> HIDE DEF structs, spans
  <2> QED BY <1>4 DEF WholeState
<1> HIDE DEF structs, spans
<1>10. Applies(r, structs, spans)
  BY <1>5, <1>6, <1>7, <1>8 DEF Applies, M
<1>11. AppliesState(r, q, structs, spans)
  BY <1>6, <1>9, <1>10 DEF AppliesState, s
<1> QED BY <1>11

\* Every step keeps the invariant.
LEMMA NextHolds ==
  IInv /\ [Next]_vars => IInv'
<1> SUFFICES ASSUME IInv, [Next]_vars
             PROVE  IInv'
  OBVIOUS
<1>1. CASE UNCHANGED vars
  BY <1>1, NothingHolds DEF vars
<1>2. ASSUME NEW r \in Client, NEW q \in Client \ {r}, Sync(r, q)
      PROVE  IInv'
  <2>1. PICK structs, spans : AppliesState(r, q, structs, spans)
    BY <1>2, SyncApplies
  <2> QED BY <2>1, ApplyHolds DEF AppliesState
<1>3. ASSUME NEW r \in Client, Step(r)
      PROVE  IInv'
  <2>1. \A t \in Root : doc[r].len[t] \in Nat
    <3>1. Counted(doc[r])
      BY DEF IInv, Holding, Fine, Good
    <3> QED BY <3>1, FS_CardinalityType DEF Counted
  <2>2. ASSUME NEW t \in Root, NEW n \in 1 .. MaxInsert,
               NEW index \in 0 .. doc[r].len[t] + 1, Insert(r, t, index, n)
        PROVE  IInv'
    <3>1. index \in Nat
      BY <2>1
    <3> QED BY <2>2, <3>1, InsertHolds
  <2>3. ASSUME NEW t \in Root, NEW index \in 0 .. doc[r].len[t] - 1,
               NEW length \in 1 .. doc[r].len[t] - index + 1, Delete(r, t, index, length)
        PROVE  IInv'
    <3>1. index \in Nat /\ length \in Nat
      BY <2>1
    <3> QED BY <2>3, <3>1, DeleteHolds
  <2>4. ASSUME NEW structs \in Batches(sent, MaxBatch), NEW spans \in Batches(cut, 1),
               Deliver(r, structs, spans)
        PROVE  IInv'
    BY <2>4, DeliverApplies, ApplyHolds
  <2> QED BY <1>3, <2>2, <2>3, <2>4 DEF Step
<1> QED BY <1>1, <1>2, <1>3 DEF Next

\* Whatever is edited, sent, lost, repeated, reordered and joined, every
\* replica's store is sound and counts what it shows, knows only what was made
\* by its author, and has done or buffered all it was told of.
THEOREM AlwaysHolding ==
  Spec => []IInv
BY InitHolds, NextHolds, PTL DEF Spec

\* Splits, insertions, conflict scans, deletions and repairs of origins leave
\* the linked lists doubly linked, one root's each, and the run lists sorted
\* and without a gap, in every replica and after any updates.
THEOREM ListsAlwaysAgree ==
  Spec => []ListsAgree
<1>1. IInv => ListsAgree
  <2> SUFFICES ASSUME IInv, NEW r \in Client
               PROVE  /\ \A t \in Root :
                           LET chain == Chain(doc[r], t) IN
                           /\ ToSet(chain) = {x \in DOMAIN doc[r].heap : doc[r].heap[x].parent = t}
                           /\ \A i \in DOMAIN chain :
                                doc[r].heap[chain[i]].left = IF i = 1 THEN Nil ELSE chain[i - 1]
                      /\ \A c \in Client :
                           LET run == doc[r].items[c] IN
                           /\ ToSet(run) = {x \in DOMAIN doc[r].heap : clientOf(x) = c}
                           /\ \A i \in DOMAIN run :
                                clockOf(run[i]) = IF i = 1 THEN 0
                                                  ELSE clockOf(run[i - 1]) + doc[r].heap[run[i - 1]].len
    BY Zenon DEF ListsAgree
  <2>1. Sound(doc[r])
    BY DEF IInv, Holding, Fine, Good
  <2> QED BY <2>1 DEF Sound, Linked, ListOf, Runs, RunOf
<1> QED BY <1>1, AlwaysHolding, PTL

\* A replica hides exactly the units whose deletion it was told of and whose
\* insertion it has; a deletion that came first is kept until its unit comes,
\* however often and in whatever pieces the two are delivered.
THEOREM DeletesAlwaysLand ==
  Spec => []DeletesLand
<1>1. IInv => DeletesLand
  <2> SUFFICES ASSUME IInv, NEW r \in Client
               PROVE  /\ Tombstones(doc[r]) = got[r].del \cap Integrated(doc[r])
                      /\ got[r].del \ Integrated(doc[r])
                           \subseteq UNION {SpanUnits(d) : d \in ToSet(doc[r].pendingDeletes)}
    BY DEF DeletesLand
  <2>1. Deletions(doc[r], Made(doc), got[r].del)
    BY DEF IInv, Holding, Fine
  <2> QED BY <2>1 DEF Deletions, NamedBy
<1> QED BY <1>1, AlwaysHolding, PTL

\* With the wire codec, which hands the store one-unit items, every insertion a
\* replica was told of is integrated or buffered and never both, is buffered
\* once, and is buffered only while something it depends on is missing: the
\* loop of addStructs stops no earlier, and no later update is needed for what
\* is ready.
THEOREM NothingReadyEverPends ==
  ASSUME Split
  PROVE  Spec => []NothingReadyPends
<1>1. IInv => NothingReadyPends
  <2> SUFFICES ASSUME IInv, NEW r \in Client
               PROVE  LET pending == doc[r].pending
                          waiting == ToSet(pending)
                      IN  /\ got[r].ins = Integrated(doc[r]) \cup StructIds(waiting)
                          /\ Integrated(doc[r]) \cap StructIds(waiting) = {}
                          /\ \A u \in waiting : ~depsArrived(doc[r], u)
                          /\ \A i, j \in DOMAIN pending : pending[i].id = pending[j].id => i = j
    BY DEF NothingReadyPends
  <2> DEFINE s == doc[r]
             M == Made(doc)
             waiting == ToSet(s.pending)
  <2>1. doc \in [Client -> StoreType] /\ Fine(s, r, M, got[r])
    BY DEF IInv, Holding
  <2>2. Sound(s) /\ Known(s, M) /\ Insertions(s, got[r].ins)
    BY <2>1 DEF Fine, Good
  <2>3. M \in SUBSET Id /\ Closed(M)
    BY <2>1, MadeFacts
  <2> HIDE DEF s, M
  <2>4. ASSUME NEW u \in waiting
        PROVE  Ids(u.id, u.len) \cap Integrated(s) = {}
    <3>1. u \in UpdateItem /\ u.len = 1
      BY <2>2, <2>3, DepsMade DEF Known, OneUnit
    <3>2. ~hasNode(s, u.id)
      BY <2>2 DEF Insertions, Waits
    <3>3. u.id \notin Integrated(s)
      BY <2>2, <3>1, <3>2, DepsAre
    <3>4. Ids(u.id, u.len) = {u.id}
      BY <3>1, OneId DEF UpdateItem
    <3> QED BY <3>3, <3>4
  <2>5. Integrated(s) \cap StructIds(waiting) = {}
    BY <2>4 DEF StructIds
  <2>6. \A u \in waiting : ~depsArrived(s, u)
    BY <2>2 DEF Insertions, Waits
  <2> QED BY <2>2, <2>5, <2>6 DEF Insertions, ApartIds, s
<1> QED BY <1>1, AlwaysHolding, PTL

-----------------------------------------------------------------------------
(***************************************************************************)
(* What a list shows.                                                      *)
(***************************************************************************)
Shot == [id : Id, deleted : BOOLEAN]
shotOf(s) ==
  [x \in DOMAIN s.heap |->
     [k \in 1 .. s.heap[x].len |-> [id |-> Add(x, k - 1), deleted |-> s.heap[x].deleted]]]

\* The snapshot of a node: its units by clock.
IsShot(s, x, e) ==
  /\ e \in Seq(Shot)
  /\ \A i \in 1 .. Len(e) : e[i].id \in Units(s, x) /\ e[i].deleted = s.heap[x].deleted
  /\ \A u \in Units(s, x) : \E i \in 1 .. Len(e) : e[i].id = u
  /\ \A i, j \in 1 .. Len(e) : i < j => clockOf(e[i].id) < clockOf(e[j].id)

\* A node shows its units by clock, all hidden or none.
LEMMA NodeShown ==
  ASSUME NEW s \in StoreType, NEW x \in DOMAIN s.heap
  PROVE  IsShot(s, x, shotOf(s)[x])
<1> DEFINE n == s.heap[x].len
           d == s.heap[x].deleted
           e == [k \in 1 .. n |-> [id |-> Add(x, k - 1), deleted |-> d]]
<1>1. x \in Id /\ n \in Nat \ {0} /\ d \in BOOLEAN
  <2>1. x \in Id /\ s.heap[x] \in Node
    BY HeapFacts
  <2> QED BY <2>1 DEF Node
<1>2. shotOf(s)[x] = e
  BY DEF shotOf
<1> HIDE DEF n, d
<1>3. \A k \in 1 .. n : /\ Add(x, k - 1) \in Id /\ clockOf(Add(x, k - 1)) = clockOf(x) + (k - 1)
                        /\ Add(x, k - 1) \in Ids(x, n)
  <2> TAKE k \in 1 .. n
  <2>1. k - 1 \in Nat /\ k - 1 \in 0 .. n - 1
    BY <1>1
  <2> QED BY <1>1, <2>1, IdFacts DEF Ids
<1>4. \A k \in 1 .. n : e[k] \in Shot /\ e[k].id = Add(x, k - 1) /\ e[k].deleted = d
  BY <1>1, <1>3 DEF Shot
<1>5. e \in Seq(Shot) /\ Len(e) = n
  <2>1. e \in [1 .. n -> Shot]
    BY <1>4
  <2> HIDE DEF e
  <2> QED BY <1>1, <2>1
<1> HIDE DEF e
<1>6. \A u \in Ids(x, n) : \E i \in 1 .. n : e[i].id = u
  <2> TAKE u \in Ids(x, n)
  <2>1. PICK k \in 0 .. n - 1 : u = Add(x, k)
    BY DEF Ids
  <2>2. k + 1 \in 1 .. n /\ (k + 1) - 1 = k
    BY <1>1
  <2> QED BY <1>4, <2>1, <2>2
<1>7. \A i, j \in 1 .. n : i < j => clockOf(e[i].id) < clockOf(e[j].id)
  <2>1. clockOf(x) \in Nat
    BY <1>1, IdFacts
  <2> QED BY <1>1, <1>3, <1>4, <2>1
<1>8. Units(s, x) = Ids(x, n)
  BY DEF Units, n
<1> QED BY <1>2, <1>3, <1>4, <1>5, <1>6, <1>7, <1>8 DEF IsShot, d

\* The first k nodes of a list l show w.
Shows(s, l, k, w) ==
  /\ w \in Seq(Shot)
  /\ \A i \in 1 .. Len(w) : \E a \in 1 .. k :
       w[i].id \in Units(s, l[a]) /\ w[i].deleted = s.heap[l[a]].deleted
  /\ \A a \in 1 .. k : \A u \in Units(s, l[a]) : \E i \in 1 .. Len(w) : w[i].id = u
  /\ \A i, j \in 1 .. Len(w) :
       i < j => <<w[i].id, w[j].id>> \in OrderOf(s, l) /\ w[i].id # w[j].id

\* One more node.
LEMMA OneMoreShown ==
  ASSUME NEW s, Runs(s), NEW l \in Seq(DOMAIN s.heap), IsInjective(l),
         NEW k \in 0 .. Len(l) - 1, NEW w, Shows(s, l, k, w), NEW e, IsShot(s, l[k + 1], e)
  PROVE  Shows(s, l, k + 1, w \o e)
<1> DEFINE X == DOMAIN s.heap
           m == Len(w)
           n == Len(e)
           v == w \o e
           x == l[k + 1]
<1>1. k \in Nat /\ k + 1 \in 1 .. Len(l) /\ DOMAIN l = 1 .. Len(l) /\ Len(l) \in Nat
  OBVIOUS
<1>2. x \in X /\ \A a \in 1 .. k : l[a] \in X /\ l[a] # x /\ a \in DOMAIN l /\ a < k + 1
  <2>1. \A a \in 1 .. k : a \in 1 .. Len(l) /\ a # k + 1 /\ a < k + 1
    BY <1>1
  <2> QED BY <1>1, <2>1 DEF IsInjective
<1>3. w \in Seq(Shot) /\ m \in Nat /\ e \in Seq(Shot) /\ n \in Nat
  BY DEF Shows, IsShot
<1>4. /\ v \in Seq(Shot) /\ Len(v) = m + n
      /\ \A i \in 1 .. m : v[i] = w[i]
      /\ \A i \in 1 .. n : v[m + i] = e[i]
  BY <1>3
<1>5. \A i \in 1 .. m : \E a \in 1 .. k :
        w[i].id \in Units(s, l[a]) /\ w[i].deleted = s.heap[l[a]].deleted
  BY DEF Shows
<1>6. \A i \in 1 .. n : e[i].id \in Units(s, x) /\ e[i].deleted = s.heap[x].deleted
  BY DEF IsShot
<1>s. \A y \in Shot : y.id \in Id
  BY DEF Shot
<1>7. \A i \in 1 .. m : w[i].id \in Id
  <2>1. \A i \in 1 .. m : w[i] \in Shot
    BY <1>3
  <2> QED BY <1>s, <2>1
<1>8. \A i \in 1 .. n : e[i].id \in Id
  <2>1. \A i \in 1 .. n : e[i] \in Shot
    BY <1>3
  <2> QED BY <1>s, <2>1
<1>9. \A i \in 1 .. m + n : i \in 1 .. m \/ \E j \in 1 .. n : i = m + j
  <2> TAKE i \in 1 .. m + n
  <2>1. CASE i <= m
    BY <1>3, <2>1
  <2>2. CASE ~(i <= m)
    <3>1. i - m \in 1 .. n /\ i = m + (i - m)
      BY <1>3, <2>2
    <3> QED BY <3>1
  <2> QED BY <2>1, <2>2
<1> HIDE DEF m, n, v, x, X
<1>10. \A a \in 1 .. k : a \in 1 .. k + 1
  BY <1>1
<1>11. k + 1 \in 1 .. k + 1 /\ l[k + 1] = x
  BY <1>1 DEF x
<1>12. \A i \in 1 .. m + n : \E a \in 1 .. k + 1 :
         v[i].id \in Units(s, l[a]) /\ v[i].deleted = s.heap[l[a]].deleted
  <2> TAKE i \in 1 .. m + n
  <2>1. CASE i \in 1 .. m
    <3>1. PICK a \in 1 .. k : w[i].id \in Units(s, l[a]) /\ w[i].deleted = s.heap[l[a]].deleted
      BY <1>5, <2>1
    <3> QED BY <1>4, <1>10, <2>1, <3>1
  <2>2. CASE \E j \in 1 .. n : i = m + j
    <3>1. PICK j \in 1 .. n : i = m + j
      BY <2>2
    <3> QED BY <1>4, <1>6, <1>11, <3>1
  <2> QED BY <1>9, <2>1, <2>2
<1>13. \A a \in 1 .. k + 1 : \A u \in Units(s, l[a]) : \E i \in 1 .. m + n : v[i].id = u
  <2> TAKE a \in 1 .. k + 1
  <2> TAKE u \in Units(s, l[a])
  <2>1. CASE a \in 1 .. k
    <3>1. PICK i \in 1 .. m : w[i].id = u
      BY <2>1 DEF Shows, m
    <3>2. i \in 1 .. m + n
      BY <1>3
    <3> QED BY <1>4, <3>1, <3>2
  <2>2. CASE a = k + 1
    <3>1. PICK i \in 1 .. n : e[i].id = u
      BY <2>2 DEF IsShot, n
    <3>2. m + i \in 1 .. m + n
      BY <1>3
    <3> QED BY <1>4, <3>1, <3>2
  <2>3. a \in 1 .. k \/ a = k + 1
    BY <1>1
  <2> QED BY <2>1, <2>2, <2>3
<1>14. \A i, j \in 1 .. m + n :
         i < j => <<v[i].id, v[j].id>> \in OrderOf(s, l) /\ v[i].id # v[j].id
  <2> TAKE i, j \in 1 .. m + n
  <2> HAVE i < j
  <2>1. CASE i \in 1 .. m /\ j \in 1 .. m
    <3>1. <<w[i].id, w[j].id>> \in OrderOf(s, l) /\ w[i].id # w[j].id
      BY <2>1 DEF Shows, m
    <3>2. v[i] = w[i] /\ v[j] = w[j]
      BY <1>4, <2>1
    <3> QED BY <3>1, <3>2
  <2>2. CASE i \in 1 .. m /\ \E b \in 1 .. n : j = m + b
    <3>1. PICK b \in 1 .. n : j = m + b
      BY <2>2
    <3>2. PICK a \in 1 .. k : w[i].id \in Units(s, l[a])
      BY <1>5, <2>2
    <3>3. e[b].id \in Units(s, l[k + 1])
      BY <1>6 DEF x
    <3>4. l[a] \in X /\ l[k + 1] \in X /\ l[a] # l[k + 1] /\ a < k + 1 /\ a \in DOMAIN l /\ k + 1 \in DOMAIN l
      BY <1>1, <1>2 DEF x
    <3>5. w[i].id # e[b].id
      BY <3>2, <3>3, <3>4, NodesApart DEF X
    <3> DEFINE p == <<w[i].id, e[b].id>>
    <3>6. p \in Id \X Id /\ p[1] = w[i].id /\ p[2] = e[b].id
      BY <1>7, <1>8, <2>2
    <3> HIDE DEF p
    <3>7. p \in OrderOf(s, l)
      BY <3>2, <3>3, <3>4, <3>6 DEF OrderOf
    <3> QED BY <1>4, <2>2, <3>1, <3>5, <3>7 DEF p
  <2>3. CASE (\E a \in 1 .. n : i = m + a) /\ (\E b \in 1 .. n : j = m + b)
    <3>1. PICK a \in 1 .. n : i = m + a
      BY <2>3
    <3>2. PICK b \in 1 .. n : j = m + b
      BY <2>3
    <3>3. a < b
      BY <1>3, <3>1, <3>2
    <3>4. clockOf(e[a].id) < clockOf(e[b].id)
      BY <3>3 DEF IsShot, n
    <3>5. clockOf(e[a].id) \in Nat /\ clockOf(e[b].id) \in Nat
      BY <1>8, IdFacts
    <3>6. e[a].id # e[b].id /\ clockOf(e[a].id) <= clockOf(e[b].id)
      BY <3>4, <3>5
    <3> DEFINE p == <<e[a].id, e[b].id>>
    <3>7. p \in Id \X Id /\ p[1] = e[a].id /\ p[2] = e[b].id
      BY <1>8
    <3> HIDE DEF p
    <3>8. p[1] \in Units(s, l[k + 1]) /\ p[2] \in Units(s, l[k + 1]) /\ k + 1 \in DOMAIN l
      BY <1>1, <1>6, <3>7 DEF x
    <3>9. p \in OrderOf(s, l)
      BY <3>6, <3>7, <3>8 DEF OrderOf
    <3> QED BY <1>4, <3>1, <3>2, <3>6, <3>9 DEF p
  <2>4. CASE (\E a \in 1 .. n : i = m + a) /\ j \in 1 .. m
    BY <1>3, <2>4
  <2> QED BY <1>9, <2>1, <2>2, <2>3, <2>4
<1> QED BY <1>4, <1>12, <1>13, <1>14 DEF Shows, v

\* The snapshot of a root type shows every node of its list.
LEMMA SnapshotShows ==
  ASSUME NEW s, Sound(s), NEW t \in Root
  PROVE  Shows(s, Chain(s, t), Len(Chain(s, t)), Snapshot(s, t))
<1> DEFINE X == DOMAIN s.heap
           l == Chain(s, t)
           n == Len(l)
           f == shotOf(s)
           T == {k \in 0 .. n : Shows(s, l, k, Spell(f, SubSeq(l, 1, k)))}
<1>1. s \in StoreType /\ Runs(s) /\ ListOf(s, t, l)
  BY DEF Sound, Runs, Linked
<1>2. l \in Seq(X) /\ IsInjective(l) /\ n \in Nat
  <2>1. l \in Seq(Id) /\ IsInjective(l) /\ ToSet(l) \subseteq X
    BY <1>1 DEF ListOf
  <2> HIDE DEF l, X
  <2>2. \A i \in DOMAIN l : l[i] \in X
    BY <2>1 DEF ToSet
  <2> QED BY <2>1, <2>2
<1>3. Snapshot(s, t) = Spell(f, l)
  <2>1. \A i \in DOMAIN l : f[l[i]] = [k \in 1 .. s.heap[l[i]].len |->
                                        [id |-> Add(l[i], k - 1), deleted |-> s.heap[l[i]].deleted]]
    <3>1. \A i \in DOMAIN l : l[i] \in X
      BY <1>2
    <3> HIDE DEF l
    <3> QED BY <3>1 DEF shotOf
  <2> QED BY <2>1 DEF Snapshot, Spell, along
<1> DEFINE Y == Shot
<1>4. \A x \in X : IsShot(s, x, f[x])
  BY <1>1, NodeShown
<1>5. f \in [X -> Seq(Y)]
  <2>1. f = [x \in X |-> f[x]]
    BY DEF shotOf
  <2>2. \A x \in X : f[x] \in Seq(Y)
    BY <1>4 DEF IsShot
  <2> HIDE DEF f, X, Y
  <2> QED BY <2>1, <2>2
<1> HIDE DEF X, l, n, f, Y
<1>6. Spells(X, Y, f)
  BY <1>5, SpellAppend
<1>7. 0 \in T
  <2>1. SubSeq(l, 1, 0) = <<>>
    BY <1>2
  <2>2. Spell(f, <<>>) = <<>> /\ <<>> \in Seq(Shot) /\ Len(<<>>) = 0
    BY <1>6 DEF Spells
  <2>3. 0 \in 0 .. n
    BY <1>2
  <2>4. \A i : i \notin 1 .. 0
    OBVIOUS
  <2>5. Shows(s, l, 0, <<>>)
    BY <2>2, <2>4 DEF Shows
  <2> QED BY <2>1, <2>2, <2>3, <2>5
<1>8. \A k \in 0 .. n - 1 : k \in T => k + 1 \in T
  <2> TAKE k \in 0 .. n - 1
  <2> HAVE k \in T
  <2>1. k \in Nat /\ k < Len(l) /\ k \in 0 .. Len(l) - 1 /\ k + 1 \in 0 .. n
    BY <1>2 DEF n
  <2> DEFINE q == SubSeq(l, 1, k)
             x == l[k + 1]
  <2>2. q \in Seq(X) /\ x \in X /\ SubSeq(l, 1, k + 1) = Append(q, x)
    BY <1>2, <2>1, SubSeqGrows
  <2> HIDE DEF q, x
  <2>3. Spell(f, Append(q, x)) = Spell(f, q) \o f[x]
    BY <1>6, <2>2 DEF Spells
  <2>4. Shows(s, l, k, Spell(f, q))
    BY DEF q
  <2>5. IsShot(s, l[k + 1], f[x])
    BY <1>4, <2>2 DEF x
  <2>6. Shows(s, l, k + 1, Spell(f, q) \o f[x])
    BY <1>1, <1>2, <2>1, <2>4, <2>5, OneMoreShown DEF X
  <2> QED BY <2>1, <2>2, <2>3, <2>6
<1>9. n \in T
  <2> HIDE DEF T
  <2>1. n \in 0 .. n /\ n \in Nat
    BY <1>2
  <2> QED BY <1>7, <1>8, <2>1, UpTo
<1>10. SubSeq(l, 1, n) = l
  BY <1>2 DEF n
<1> QED BY <1>3, <1>9, <1>10 DEF l, n

\* No two units each stand before the other.
LEMMA BeforeOneWay ==
  ASSUME NEW s, Sound(s), NEW t \in Root, NEW u, NEW v,
         <<u, v>> \in Before(s, t), <<v, u>> \in Before(s, t)
  PROVE  u = v
<1> DEFINE l == Chain(s, t)
           X == DOMAIN s.heap
<1>1. Runs(s) /\ l \in Seq(Id) /\ IsInjective(l) /\ ToSet(l) \subseteq X
  BY DEF Sound, Linked, ListOf
<1>2. \A i \in DOMAIN l : l[i] \in X /\ i \in Nat
  BY <1>1 DEF ToSet
<1> HIDE DEF l
<1>3. PICK i \in DOMAIN l, j \in DOMAIN l :
        /\ u \in Units(s, l[i]) /\ v \in Units(s, l[j])
        /\ i < j \/ (i = j /\ clockOf(u) <= clockOf(v))
  BY DEF Before, OrderOf, l
<1>4. PICK a \in DOMAIN l, b \in DOMAIN l :
        /\ v \in Units(s, l[a]) /\ u \in Units(s, l[b])
        /\ a < b \/ (a = b /\ clockOf(v) <= clockOf(u))
  BY DEF Before, OrderOf, l
<1>5. i = b /\ j = a
  <2>1. l[i] = l[b] /\ l[j] = l[a]
    BY <1>1, <1>2, <1>3, <1>4, NodesApart
  <2> QED BY <1>1, <2>1 DEF IsInjective
<1>6. i = j /\ clockOf(u) <= clockOf(v) /\ clockOf(v) <= clockOf(u)
  BY <1>2, <1>3, <1>4, <1>5
<1> DEFINE x == l[i]
<1>7. x \in Id /\ s.heap[x].len \in Nat /\ u \in Ids(x, s.heap[x].len) /\ v \in Ids(x, s.heap[x].len)
  BY <1>1, <1>2, <1>3, <1>6, HeapFacts DEF Runs, Units
<1> HIDE DEF x
<1>8. u \in Id /\ v \in Id /\ clientOf(u) = clientOf(v)
  BY <1>7, IdsAre
<1>9. clockOf(u) = clockOf(v)
  <2>1. clockOf(u) \in Nat /\ clockOf(v) \in Nat
    BY <1>8, IdFacts
  <2> QED BY <1>6, <2>1
<1> QED BY <1>8, <1>9, IdFacts

\* A snapshot as a sequence of units: each once, and in the order of the list.
Listed(s, t) == UNION {Units(s, x) : x \in {y \in DOMAIN s.heap : s.heap[y].parent = t}}
InOrder(s, t, w) ==
  /\ DOMAIN w = 1 .. Len(w) /\ Len(w) \in Nat
  /\ ToSet(w) = Listed(s, t)
  /\ \A i, j \in DOMAIN w : i < j => <<w[i], w[j]>> \in Before(s, t) /\ w[i] # w[j]

idsOf(w) == [i \in DOMAIN w |-> w[i].id]

\* A snapshot is its root's units, each once and in the order of the list.
LEMMA SnapshotOrder ==
  ASSUME NEW s, Sound(s), NEW t \in Root
  PROVE  InOrder(s, t, idsOf(Snapshot(s, t)))
<1> DEFINE l == Chain(s, t)
           n == Len(l)
           w == Snapshot(s, t)
           o == idsOf(w)
<1>1. Shows(s, l, n, w)
  BY SnapshotShows
<1>2. DOMAIN l = 1 .. n /\ ToSet(l) = {y \in DOMAIN s.heap : s.heap[y].parent = t}
  BY DEF Sound, Linked, ListOf
<1> HIDE DEF w, n, l
<1> DEFINE m == Len(w)
<1>3. m \in Nat /\ DOMAIN w = 1 .. m
  BY <1>1 DEF Shows
<1>4. DOMAIN o = 1 .. m /\ Len(o) = m /\ \A i \in 1 .. m : o[i] = w[i].id
  <2>1. o = [i \in 1 .. m |-> w[i].id]
    BY <1>3 DEF idsOf
  <2> HIDE DEF o, m
  <2> QED BY <1>3, <2>1
<1> HIDE DEF o
<1>5. ToSet(o) = Listed(s, t)
  <2>1. \A u \in ToSet(o) : u \in Listed(s, t)
    <3> TAKE u \in ToSet(o)
    <3>1. PICK i \in 1 .. m : u = w[i].id
      BY <1>4 DEF ToSet
    <3>2. PICK a \in 1 .. n : w[i].id \in Units(s, l[a])
      BY <1>1, <3>1 DEF Shows
    <3>3. l[a] \in {y \in DOMAIN s.heap : s.heap[y].parent = t}
      BY <1>2 DEF ToSet
    <3> QED BY <3>1, <3>2, <3>3 DEF Listed
  <2>2. \A u \in Listed(s, t) : u \in ToSet(o)
    <3> TAKE u \in Listed(s, t)
    <3>1. PICK x \in ToSet(l) : u \in Units(s, x)
      BY <1>2 DEF Listed
    <3>2. PICK a \in 1 .. n : x = l[a]
      BY <1>2 DEF ToSet
    <3>3. PICK i \in 1 .. m : w[i].id = u
      BY <1>1, <3>1, <3>2 DEF Shows
    <3> QED BY <1>4, <3>3 DEF ToSet
  <2> QED BY <2>1, <2>2
<1>6. \A i, j \in 1 .. m : i < j => <<o[i], o[j]>> \in Before(s, t) /\ o[i] # o[j]
  <2> TAKE i, j \in 1 .. m
  <2> HAVE i < j
  <2>1. <<w[i].id, w[j].id>> \in OrderOf(s, l) /\ w[i].id # w[j].id
    BY <1>1 DEF Shows
  <2> QED BY <1>4, <2>1 DEF Before, l
<1> QED BY <1>3, <1>4, <1>5, <1>6 DEF InOrder, o, w

\* A unit of a list stands no later than itself.
LEMMA ListedBefore ==
  ASSUME NEW s, Sound(s), NEW t \in Root, NEW u
  PROVE  u \in Listed(s, t) <=> <<u, u>> \in Before(s, t)
<1> DEFINE l == Chain(s, t)
<1>1. Runs(s) /\ s \in StoreType /\ l \in Seq(Id) /\ ToSet(l) = {y \in DOMAIN s.heap : s.heap[y].parent = t}
  BY DEF Sound, Runs, Linked, ListOf
<1> HIDE DEF l
<1>2. ASSUME NEW i \in DOMAIN l
      PROVE  Units(s, l[i]) \subseteq Id /\ i \in Nat
  <2>1. l[i] \in DOMAIN s.heap /\ i \in Nat
    BY <1>1 DEF ToSet
  <2>2. l[i] \in Id /\ s.heap[l[i]].len \in Nat
    BY <1>1, <2>1, HeapFacts
  <2> QED BY <2>1, <2>2, IdsAre DEF Units
<1>3. ASSUME u \in Listed(s, t)
      PROVE  <<u, u>> \in Before(s, t)
  <2>1. PICK i \in DOMAIN l : u \in Units(s, l[i])
    BY <1>1, <1>3 DEF Listed, ToSet
  <2>2. u \in Id /\ clockOf(u) \in Nat
    BY <1>2, <2>1, IdFacts
  <2> DEFINE p == <<u, u>>
  <2>3. p \in Id \X Id /\ p[1] = u /\ p[2] = u
    BY <2>2
  <2> HIDE DEF p
  <2>4. clockOf(u) <= clockOf(u)
    BY <2>2
  <2>5. p \in OrderOf(s, l)
    BY <2>1, <2>3, <2>4 DEF OrderOf
  <2> QED BY <2>5 DEF Before, l, p
<1>4. ASSUME <<u, u>> \in Before(s, t)
      PROVE  u \in Listed(s, t)
  <2>1. PICK i \in DOMAIN l : u \in Units(s, l[i])
    BY <1>4 DEF Before, OrderOf, l
  <2> QED BY <1>1, <2>1 DEF Listed, ToSet
<1> QED BY <1>3, <1>4

\* What was in order stays so.
StaysInOrder(old, new) ==
  /\ ToSet(old) \subseteq ToSet(new)
  /\ \A i, j \in DOMAIN old : i < j => IndexOf(old[i], new) < IndexOf(old[j], new)

\* A store that keeps another's order shows it: units of the old snapshot are in
\* the new one, in the same order.
LEMMA KeptOrder ==
  ASSUME NEW s, Sound(s), NEW r, Keeps(s, r), NEW t \in Root
  PROVE  StaysInOrder(idsOf(Snapshot(s, t)), idsOf(Snapshot(r, t)))
<1> DEFINE old == idsOf(Snapshot(s, t))
           new == idsOf(Snapshot(r, t))
<1>1. Sound(r) /\ Before(s, t) \subseteq Before(r, t)
  BY DEF Keeps
<1>2. InOrder(s, t, old) /\ InOrder(r, t, new)
  BY <1>1, SnapshotOrder
<1> HIDE DEF old, new
<1>3. Listed(s, t) \subseteq Listed(r, t)
  BY <1>1, ListedBefore
<1>4. ToSet(old) \subseteq ToSet(new)
  BY <1>2, <1>3 DEF InOrder
<1>5. ASSUME NEW i \in DOMAIN old, NEW j \in DOMAIN old, i < j
      PROVE  IndexOf(old[i], new) < IndexOf(old[j], new)
  <2> DEFINE u == old[i]
             v == old[j]
             a == IndexOf(u, new)
             b == IndexOf(v, new)
  <2>1. <<u, v>> \in Before(r, t) /\ u # v
    BY <1>1, <1>2, <1>5 DEF InOrder
  <2>2. u \in ToSet(new) /\ v \in ToSet(new)
    BY <1>4 DEF ToSet
  <2> HIDE DEF u, v
  <2>3. a \in DOMAIN new /\ new[a] = u /\ b \in DOMAIN new /\ new[b] = v
    BY <2>2 DEF IndexOf, ToSet
  <2> HIDE DEF a, b
  <2>4. a \in Nat /\ b \in Nat
    BY <1>2, <2>3 DEF InOrder
  <2>5. a # b
    BY <2>1, <2>3
  <2>6. ~(b < a)
    <3> SUFFICES ASSUME b < a PROVE FALSE
      OBVIOUS
    <3>1. <<v, u>> \in Before(r, t)
      BY <1>2, <2>3 DEF InOrder
    <3> QED BY <1>1, <2>1, <3>1, BeforeOneWay
  <2>7. a < b
    BY <2>4, <2>5, <2>6
  <2> QED BY <2>7 DEF a, b, u, v
<1> QED BY <1>4, <1>5 DEF StaysInOrder, old, new

\* The length a replica keeps of a list is a number.
LEMMA LengthNat ==
  ASSUME NEW s, NEW r, Good(s, r), NEW t \in Root
  PROVE  s.len[t] \in Nat
BY FS_CardinalityType DEF Good, Counted

\* A step of a replica keeps what every replica has.
LEMMA StepKeeps ==
  ASSUME IInv, Next, NEW r \in Client, doc'[r] # doc[r]
  PROVE  Keeps(doc[r], doc'[r])
<1>1. ASSUME NEW q \in Client
      PROVE  /\ doc \in [Client -> StoreType] /\ doc[q] \in StoreType
             /\ Fine(doc[q], q, Made(doc), got[q]) /\ Good(doc[q], q) /\ Sound(doc[q])
  BY DEF IInv, Holding, Fine, Good
<1>2. ASSUME NEW q \in Client, NEW s, doc' = [doc EXCEPT ![q] = s], Keeps(doc[q], s)
      PROVE  Keeps(doc[r], doc'[r])
  <2>1. r = q /\ doc'[r] = s
    BY <1>1, <1>2
  <2> QED BY <1>2, <2>1
<1>3. ASSUME NEW q \in Client, NEW structs, NEW spans, Applies(q, structs, spans)
      PROVE  Keeps(doc[r], doc'[r])
  <2> DEFINE s == applySyncUpdate(newTransaction(doc[q]), structs, spans).store
  <2>1. PICK p : Updated(doc[q], structs, p) /\ DeletesApplied(p, spans, s)
    <3>1. structs \in Seq(Rooted(Made(doc))) /\ spans \in Seq(NoWrap)
      BY <1>3 DEF Applies
    <3> QED BY <1>1, <3>1, ApplyUpdates
  <2>2. Keeps(doc[q], s)
    <3> HIDE DEF s
    <3> QED BY <2>1, KeepsAgain DEF Updated, DeletesApplied
  <2>3. doc' = [doc EXCEPT ![q] = s]
    BY <1>3 DEF Applies
  <2> HIDE DEF s
  <2> QED BY <1>2, <2>2, <2>3
<1>4. ASSUME NEW q \in Client, NEW t \in Root, NEW n \in 1 .. MaxInsert,
             NEW index \in 0 .. doc[q].len[t] + 1, Insert(q, t, index, n)
      PROVE  Keeps(doc[r], doc'[r])
  <2> DEFINE tr == InsertIn(newTransaction(doc[q]), t, index, n)
  <2>1. doc' = [doc EXCEPT ![q] = tr.store]
    BY <1>4 DEF Insert
  <2>2. index \in Nat
    BY <1>1, LengthNat
  <2>3. tr = newTransaction(doc[q]) \/ Grown(doc[q], n, tr)
    BY <1>1, <2>2, InsertGrows
  <2>4. CASE tr = newTransaction(doc[q])
    <3>1. tr.store = doc[q]
      BY <1>1, <2>4, Begins
    <3>2. doc'[r] = doc[r]
      BY <1>1, <2>1, <3>1
    <3> QED BY <3>2
  <2>5. CASE Grown(doc[q], n, tr)
    <3>1. Keeps(doc[q], tr.store)
      BY <2>5 DEF Grown
    <3> QED BY <1>2, <2>1, <3>1
  <2> QED BY <2>3, <2>4, <2>5
<1>5. ASSUME NEW q \in Client, NEW t \in Root, NEW index \in 0 .. doc[q].len[t] - 1,
             NEW length \in 1 .. doc[q].len[t] - index + 1, Delete(q, t, index, length)
      PROVE  Keeps(doc[r], doc'[r])
  <2> DEFINE tr == DeleteIn(newTransaction(doc[q]), t, index, length)
  <2>1. doc' = [doc EXCEPT ![q] = tr.store]
    BY <1>5 DEF Delete
  <2>2. index \in Nat /\ length \in Nat
    BY <1>1, LengthNat
  <2>3. Shrunk(doc[q], tr)
    BY <1>1, <2>2, DeleteShrinks
  <2>4. Keeps(doc[q], tr.store)
    BY <2>3 DEF Shrunk
  <2> QED BY <1>2, <2>1, <2>4
<1>6. ASSUME NEW q \in Client, Step(q)
      PROVE  Keeps(doc[r], doc'[r])
  BY <1>3, <1>4, <1>5, <1>6, DeliverApplies DEF Step
<1>7. ASSUME NEW q \in Client, NEW p \in Client \ {q}, Sync(q, p)
      PROVE  Keeps(doc[r], doc'[r])
  <2>1. PICK structs, spans : AppliesState(q, p, structs, spans)
    BY <1>7, SyncApplies
  <2> QED BY <1>3, <2>1 DEF AppliesState
<1> QED BY <1>6, <1>7 DEF Next

\* What a replica shows only gains units in between: two units keep their order
\* whatever is inserted, split, hidden or applied around them, no unit leaves
\* the list, and what was hidden stays so.
THEOREM OrderStaysStable ==
  Spec => OrderIsStable
<1>1. ASSUME IInv, [Next]_vars
      PROVE  [\A r \in {q \in Client : doc'[q] # doc[q]}, t \in Root :
                /\ Tombstones(doc[r]) \subseteq Tombstones(doc'[r])
                /\ \A old \in {Order(r, t)}, new \in {Order(r, t)'} :
                     /\ ToSet(old) \subseteq ToSet(new)
                     /\ \A i, j \in DOMAIN old :
                          i < j => IndexOf(old[i], new) < IndexOf(old[j], new)]_vars
  <2>1. CASE UNCHANGED vars
    BY <2>1
  <2>2. CASE Next
    <3>1. ASSUME NEW r \in {q \in Client : doc'[q] # doc[q]}, NEW t \in Root
          PROVE  /\ Tombstones(doc[r]) \subseteq Tombstones(doc'[r])
                 /\ \A old \in {Order(r, t)}, new \in {Order(r, t)'} :
                      /\ ToSet(old) \subseteq ToSet(new)
                      /\ \A i, j \in DOMAIN old :
                           i < j => IndexOf(old[i], new) < IndexOf(old[j], new)
      <4>1. Keeps(doc[r], doc'[r])
        BY <1>1, <2>2, StepKeeps
      <4>2. Sound(doc[r])
        BY <1>1 DEF IInv, Holding, Fine, Good
      <4>3. StaysInOrder(idsOf(Snapshot(doc[r], t)), idsOf(Snapshot(doc'[r], t)))
        BY <4>1, <4>2, KeptOrder
      <4>4. Order(r, t) = idsOf(Snapshot(doc[r], t)) /\ Order(r, t)' = idsOf(Snapshot(doc'[r], t))
        BY DEF Order, idsOf
      <4>5. Tombstones(doc[r]) \subseteq Tombstones(doc'[r])
        BY <4>1 DEF Keeps
      <4> QED BY <4>3, <4>4, <4>5 DEF StaysInOrder
    <3> QED BY <3>1
  <2> QED BY <1>1, <2>1, <2>2
<1> QED BY <1>1, AlwaysHolding, PTL DEF Spec, OrderIsStable

\* The text of a root type shows each of its visible units once.
LEMMA TextShows ==
  ASSUME NEW s, Sound(s), NEW t \in Root
  PROVE  /\ Len(Text(s, t)) = Cardinality(Live(s, t))
         /\ Text(s, t) \in Seq(Id) /\ ToSet(Text(s, t)) = Live(s, t)
<1> DEFINE l == Chain(s, t)
           n == Len(l)
           w == Snapshot(s, t)
           S == {u \in ToSet(w) : ~u.deleted}
           live == SelectIn(w, S)
           text == [i \in DOMAIN live |-> live[i].id]
           X == {y \in DOMAIN s.heap : s.heap[y].parent = t}
<1>1. Shows(s, l, n, w) /\ Runs(s)
  BY SnapshotShows DEF Sound
<1>2. DOMAIN l = 1 .. n /\ ToSet(l) = X
  BY DEF Sound, Linked, ListOf
<1>3. text = Text(s, t)
  BY DEF Text
<1> HIDE DEF w, n, l
<1>4. w \in Seq(Shot) /\ DOMAIN w = 1 .. Len(w)
  BY <1>1 DEF Shows
<1>5. \A i, j \in 1 .. Len(w) : w[i].id = w[j].id => i = j
  <2> SUFFICES ASSUME NEW i \in 1 .. Len(w), NEW j \in 1 .. Len(w), w[i].id = w[j].id, i # j
               PROVE  FALSE
    OBVIOUS
  <2>1. i < j \/ j < i
    BY <1>4
  <2> QED BY <1>1, <2>1 DEF Shows
<1>6. IsInjective(w)
  BY <1>4, <1>5 DEF IsInjective
<1>7. live \in Seq(Shot) /\ IsInjective(live) /\ ToSet(live) = S
  <2>1. live \in Seq(Shot) /\ IsInjective(live) /\ ToSet(live) = ToSet(w) \cap S
    <3> HIDE DEF S
    <3> QED BY <1>4, <1>6, SelectInjective
  <2> QED BY <2>1
<1>8. \A u, v \in ToSet(w) : u.id = v.id => u = v
  BY <1>4, <1>5 DEF ToSet
<1>9. \A v \in {u.id : u \in S} : v \in Live(s, t)
  <2> TAKE v \in {u.id : u \in S}
  <2>1. PICK i \in 1 .. Len(w) : v = w[i].id /\ ~w[i].deleted
    BY <1>4 DEF ToSet
  <2>2. PICK a \in 1 .. n : w[i].id \in Units(s, l[a]) /\ w[i].deleted = s.heap[l[a]].deleted
    BY <1>1 DEF Shows
  <2>3. l[a] \in X
    BY <1>2 DEF ToSet
  <2> QED BY <2>1, <2>2, <2>3 DEF Live
<1>10. \A v \in Live(s, t) : v \in {u.id : u \in S}
  <2> TAKE v \in Live(s, t)
  <2>1. PICK x \in X : ~s.heap[x].deleted /\ v \in Units(s, x)
    BY DEF Live
  <2>2. PICK a \in 1 .. n : x = l[a]
    BY <1>2 DEF ToSet
  <2>3. PICK i \in 1 .. Len(w) : w[i].id = v
    BY <1>1, <2>1, <2>2 DEF Shows
  <2>4. PICK b \in 1 .. n : w[i].id \in Units(s, l[b]) /\ w[i].deleted = s.heap[l[b]].deleted
    BY <1>1 DEF Shows
  <2>5. l[b] \in X
    BY <1>2 DEF ToSet
  <2>6. l[b] = x
    BY <1>1, <2>1, <2>3, <2>4, <2>5, NodesApart
  <2>7. ~w[i].deleted /\ w[i] \in ToSet(w)
    BY <1>4, <2>1, <2>4, <2>6 DEF ToSet
  <2> QED BY <2>3, <2>7
<1>11. {u.id : u \in S} = Live(s, t)
  BY <1>9, <1>10
<1> HIDE DEF live, S
<1> DEFINE m == Len(live)
<1>12. m \in Nat /\ DOMAIN live = 1 .. m /\ \A i \in 1 .. m : live[i] \in Shot
  BY <1>7
<1>13. \A i \in 1 .. m : live[i] \in S /\ live[i] \in ToSet(w)
  <2>1. \A i \in 1 .. m : live[i] \in S
    BY <1>7, <1>12 DEF ToSet
  <2> QED BY <2>1 DEF S
<1>14. \A i, j \in 1 .. m : live[i].id = live[j].id => i = j
  <2> TAKE i, j \in 1 .. m
  <2>1. live[i].id = live[j].id => live[i] = live[j]
    BY <1>8, <1>13
  <2> QED BY <1>7, <1>12, <2>1 DEF IsInjective
<1>15. \A v : v \in {u.id : u \in S} <=> \E i \in 1 .. m : live[i].id = v
  BY <1>7, <1>12, <1>13 DEF ToSet
<1> HIDE DEF m
<1>16. text = [i \in 1 .. m |-> live[i].id] /\ \A i \in 1 .. m : live[i].id \in Id
  <2>1. \A u \in Shot : u.id \in Id
    BY DEF Shot
  <2> QED BY <1>12, <2>1
<1> HIDE DEF text
<1>17. /\ text \in [1 .. m -> Id] /\ \A i \in 1 .. m : text[i] = live[i].id
       /\ \A i, j \in 1 .. m : text[i] = text[j] => i = j
  BY <1>14, <1>16
<1>18. Len(text) = m /\ text \in Seq(Id) /\ DOMAIN text = 1 .. m
  BY <1>12, <1>17
<1>19. named(text, m) = Live(s, t)
  <2>1. \A v : v \in Live(s, t) <=> \E i \in 1 .. m : text[i] = v
    BY <1>11, <1>15, <1>17
  <2> QED BY <2>1 DEF named
<1>20. Cardinality(named(text, m)) = m
  BY <1>12, <1>17, ImageCounts
<1>21. ToSet(text) = named(text, m)
  BY <1>18 DEF ToSet, named
<1> QED BY <1>3, <1>18, <1>19, <1>20, <1>21

\* The length that is kept by adding and subtracting as units come, are hidden,
\* are split and arrive hidden is the number of units shown: an index within
\* it is the index of a visible unit.
THEOREM LenStaysVisible ==
  Spec => []LenIsVisible
<1>1. IInv => LenIsVisible
  <2> SUFFICES ASSUME IInv, NEW r \in Client, NEW t \in Root
               PROVE  doc[r].len[t] = Len(Text(doc[r], t))
    BY DEF LenIsVisible
  <2>1. Sound(doc[r]) /\ Counted(doc[r])
    BY DEF IInv, Holding, Fine, Good
  <2> QED BY <2>1, TextShows DEF Counted
<1> QED BY <1>1, AlwaysHolding, PTL

-----------------------------------------------------------------------------
(***************************************************************************)
(* The replicas are parts of one world: there are origins, types and ranks *)
(* of all units made, by which every unit could be inserted by its author, *)
(* every replica is arranged, and every struct sent or buffered is spelled.*)
(***************************************************************************)
Waiting(d) == UNION {ToSet(d[r].pending) : r \in Client}

Shared(d, structs, w) ==
  /\ Valid(w) /\ w.made = Made(d)
  /\ \A r \in Client : Agrees(d[r], w)
  /\ \A u \in structs \cup Waiting(d) : Spelled(u, w)

OneWorld == \E w : Shared(doc, sent, w)

\* An empty store is part of any world.
LEMMA NewAgrees ==
  ASSUME NEW r \in Client, NEW w
  PROVE  Agrees(newStore(r), w)
<1> DEFINE s == newStore(r)
<1>1. s \in StoreType /\ Fine(s, r, {}, [ins |-> {}, del |-> {}])
  BY NewStore
<1>2. s.heap = <<>>
  BY DEF newStore
<1> HIDE DEF s
<1>3. DOMAIN s.heap = {}
  <2>1. DOMAIN <<>> = {}
    OBVIOUS
  <2> QED BY <1>2, <2>1
<1>4. Sound(s)
  BY <1>1 DEF Fine, Good
<1>5. Follows(s, w)
  BY <1>3 DEF Follows
<1>6. ASSUME NEW t \in Root
      PROVE  Yata(Before(s, t), w)
  <2>1. Field(Before(s, t)) = {}
    <3>1. Field(Before(s, t)) = UNION {Units(s, z) : z \in {y \in DOMAIN s.heap : s.heap[y].parent = t}}
      BY <1>4, FieldIs
    <3> QED BY <1>3, <3>1
  <2>2. IsOrder(Before(s, t))
    BY <1>4, ListOrder
  <2> QED BY <2>1, <2>2 DEF Yata, Between, Justified, NoCross, Own
<1>7. Agrees(s, w)
  BY <1>5, <1>6 DEF Agrees, Arranged
<1> QED BY <1>7 DEF s

\* Nothing is made at first.
LEMMA InitShares ==
  Init => OneWorld
<1> HAVE Init
<1> DEFINE nil == [u \in Id |-> Nil]
           w == [made |-> {}, left |-> nil, right |-> nil, parent |-> nil, rank |-> [u \in Id |-> 0]]
<1>1. w \in World /\ w.made = {}
  <2>1. nil \in [Id -> OptId] /\ nil \in [Id -> Root \cup {Nil}] /\ [u \in Id |-> 0] \in [Id -> Nat]
    BY DEF OptId
  <2>2. {} \in SUBSET Id
    OBVIOUS
  <2> HIDE DEF nil
  <2> QED BY <2>1, <2>2 DEF World
<1> HIDE DEF w
<1>2. Valid(w)
  BY <1>1 DEF Valid, IsWorld
<1>3. \A r \in Client : doc[r] = newStore(r) /\ doc[r].pending = <<>> /\ doc[r].clock = 0
  BY DEF Init, newStore
<1>4. Made(doc) = {}
  <2>1. \A u \in Id : clientOf(u) \in Client /\ clockOf(u) \in Nat
    BY IdFacts
  <2> QED BY <1>3, <2>1 DEF Made
<1>5. sent = {} /\ Waiting(doc) = {}
  <2>1. ToSet(<<>>) = {}
    BY DEF ToSet
  <2> QED BY <1>3, <2>1 DEF Init, Waiting
<1>6. \A r \in Client : Agrees(doc[r], w)
  BY <1>3, NewAgrees
<1> QED BY <1>1, <1>2, <1>4, <1>5, <1>6 DEF OneWorld, Shared

\* A replica that makes nothing and whose buffer has what it had, or spelled
\* structs more, is arranged in the same world.
LEMMA SharesOn ==
  ASSUME NEW d \in [Client -> StoreType], NEW structs, NEW w, Shared(d, structs, w),
         NEW r \in Client, NEW q \in StoreType, q.clock = d[r].clock, Agrees(q, w),
         \A u \in ToSet(q.pending) : Spelled(u, w)
  PROVE  Shared([d EXCEPT ![r] = q], structs, w)
<1> DEFINE e == [d EXCEPT ![r] = q]
<1>1. \A c \in Client : e[c] = IF c = r THEN q ELSE d[c]
  OBVIOUS
<1>2. Made(e) = Made(d)
  BY MadeSame
<1> HIDE DEF e
<1>3. \A c \in Client : Agrees(e[c], w)
  BY <1>1 DEF Shared
<1>4. \A u \in Waiting(e) : Spelled(u, w)
  <2> SUFFICES ASSUME NEW c \in Client, NEW u \in ToSet(e[c].pending)
               PROVE  Spelled(u, w)
    BY DEF Waiting
  <2>1. CASE c = r
    BY <1>1, <2>1
  <2>2. CASE c # r
    <3>1. u \in Waiting(d)
      BY <1>1, <2>2 DEF Waiting
    <3> QED BY <3>1 DEF Shared
  <2> QED BY <2>1, <2>2
<1>5. Shared(e, structs, w)
  BY <1>2, <1>3, <1>4 DEF Shared
<1> QED BY <1>5 DEF e

\* What is spelled is integrated where its origins say, or buffered.
LEMMA ApplyShares ==
  ASSUME IInv, NEW w, Shared(doc, sent, w), NEW r \in Client, NEW structs, NEW spans,
         Applies(r, structs, spans), \A u \in ToSet(structs) : Spelled(u, w)
  PROVE  Shared(doc', sent', w)
<1> DEFINE s == doc[r]
           q == applySyncUpdate(newTransaction(s), structs, spans).store
           M == Made(doc)
<1>1. doc \in [Client -> StoreType] /\ s \in StoreType /\ Fine(s, r, M, got[r])
  BY DEF IInv, Holding
<1>2. structs \in Seq(Rooted(M)) /\ spans \in Seq(NoWrap)
      /\ doc' = [doc EXCEPT ![r] = q] /\ sent' = sent
  BY DEF Applies
<1>3. \E p : Updated(s, structs, p) /\ DeletesApplied(p, spans, q)
  BY <1>1, <1>2, ApplyUpdates DEF M
<1>4. PICK p : Updated(s, structs, p) /\ DeletesApplied(p, spans, q)
  BY <1>3
<1> HIDE DEF q, M
<1>5. q \in StoreType /\ q.clock = s.clock
  BY <1>4 DEF Updated, DeletesApplied, Keeps, Sound, Runs
<1> DEFINE all == ToSet(s.pending) \cup ToSet(structs)
<1>6. \A u \in all : Spelled(u, w)
  BY DEF Shared, Waiting
<1>7. Tells(s, all, p) /\ ToSet(p.pending) \subseteq all
  BY <1>4 DEF Updated
<1> HIDE DEF all
<1>8. Agrees(p, w)
  BY <1>6, <1>7 DEF Tells, Shared
<1>9. Agrees(q, w)
  BY <1>4, <1>8 DEF DeletesApplied, Keeps
<1>10. \A u \in ToSet(q.pending) : Spelled(u, w)
  BY <1>4, <1>6, <1>7 DEF DeletesApplied
<1>11. Shared([doc EXCEPT ![r] = q], sent, w)
  BY <1>1, <1>5, <1>9, <1>10, SharesOn
<1> QED BY <1>2, <1>11

\* A deletion moves nothing.
LEMMA DeleteShares ==
  ASSUME IInv, NEW w, Shared(doc, sent, w), NEW r \in Client, NEW t \in Root,
         NEW index \in Nat, NEW length \in Nat, Delete(r, t, index, length)
  PROVE  Shared(doc', sent', w)
<1> DEFINE s == doc[r]
           tr == DeleteIn(newTransaction(s), t, index, length)
           q == tr.store
<1>1. doc \in [Client -> StoreType] /\ s \in StoreType /\ Sound(s)
  BY DEF IInv, Holding, Fine, Good
<1>2. doc' = [doc EXCEPT ![r] = q] /\ sent' = sent
  BY DEF Delete
<1>3. Shrunk(s, tr)
  BY <1>1, DeleteShrinks
<1> HIDE DEF tr
<1>4. Keeps(s, q) /\ Frame(s, q) /\ Integrated(q) = Integrated(s)
  BY <1>3 DEF Shrunk
<1> HIDE DEF q
<1>5. q \in StoreType /\ q.clock = s.clock /\ q.pending = s.pending
  BY <1>4 DEF Keeps, Frame, Sound, Runs
<1>6. Agrees(q, w)
  BY <1>4 DEF Keeps, Shared
<1>7. \A u \in ToSet(q.pending) : Spelled(u, w)
  BY <1>5 DEF Shared, Waiting
<1>8. Shared([doc EXCEPT ![r] = q], sent, w)
  BY <1>1, <1>5, <1>6, <1>7, SharesOn
<1> QED BY <1>2, <1>8

\* An author has all its own units, each in the list of its type.
LEMMA OwnThere ==
  ASSUME NEW q, Sound(q), NEW r \in Client, q.clock = Size(q, r), NEW v, Follows(q, v),
         NEW z \in Id, clientOf(z) = r, clockOf(z) < q.clock, NEW t \in Root, v.parent[z] = t
  PROVE  z \in Field(Before(q, t))
<1>1. Runs(q)
  BY DEF Sound
<1>2. z \in Integrated(q)
  BY <1>1, Holds
<1>3. PICK x \in DOMAIN q.heap : z \in Units(q, x)
  BY <1>2 DEF Integrated
<1>4. q.heap[x].parent = t
  BY <1>3 DEF Follows
<1> QED BY <1>3, <1>4, FieldIs

\* A world with the units their author inserted is one whose units could all be
\* inserted by their authors.
LEMMA ValidGrows ==
  ASSUME NEW w, Valid(w), NEW r \in Client, NEW s, NEW n \in Nat, NEW q, NEW v, NEW t \in Root,
         s.clock \in Nat, Within(s, r, w.made), Sound(q), q.clock = Size(q, r),
         q.clock = s.clock + n, Extends(w, v, Ids(newId(r, s.clock), n), t), Agrees(q, v)
  PROVE  Valid(v)
<1> DEFINE X == Ids(newId(r, s.clock), n)
<1>1. \A u : u \in X <=> /\ u \in Id /\ clientOf(u) = r
                        /\ s.clock <= clockOf(u) /\ clockOf(u) < s.clock + n
  <2>1. newId(r, s.clock) \in Id /\ clientOf(newId(r, s.clock)) = r /\ clockOf(newId(r, s.clock)) = s.clock
    BY DEF newId, Id, clientOf, clockOf
  <2> QED BY <2>1, IdsAre
<1> HIDE DEF X
<1>2. /\ IsWorld(v) /\ v.made = w.made \cup X /\ \A u \in X : v.parent[u] = t
      /\ \A u \in w.made : v.parent[u] = w.parent[u]
  BY DEF Extends, X
<1>3. \A B : Yata(B, w) => Yata(B, v)
  <2>1. IsWorld(w) /\ Extends(w, v, X, t)
    BY DEF Valid, X
  <2> QED BY <2>1, WorldGrows
<1>4. \A u \in Id : clockOf(u) \in Nat
  BY IdFacts
<1>5. ASSUME NEW u \in w.made
      PROVE  \E C : /\ Yata(C, v) /\ u \in Field(C)
                    /\ \A z \in v.made : /\ clientOf(z) = clientOf(u) /\ clockOf(z) < clockOf(u)
                                         /\ v.parent[z] = v.parent[u]
                                         => z \in Field(C)
  <2>1. PICK C : /\ Yata(C, w) /\ u \in Field(C)
                 /\ \A z \in w.made : /\ clientOf(z) = clientOf(u) /\ clockOf(z) < clockOf(u)
                                      /\ w.parent[z] = w.parent[u]
                                      => z \in Field(C)
    BY DEF Valid
  <2>2. ASSUME NEW z \in X, clientOf(z) = clientOf(u), clockOf(z) < clockOf(u)
        PROVE  FALSE
    <3>1. z \in Id /\ clientOf(z) = r /\ s.clock <= clockOf(z) /\ u \in Id /\ clientOf(u) = r
      BY <1>1, <2>2 DEF Within
    <3>2. clockOf(u) < s.clock
      BY <3>1 DEF Within
    <3> QED BY <1>4, <2>2, <3>1, <3>2
  <2> QED BY <1>2, <1>3, <2>1, <2>2
<1>6. ASSUME NEW u \in X
      PROVE  \E C : /\ Yata(C, v) /\ u \in Field(C)
                    /\ \A z \in v.made : /\ clientOf(z) = clientOf(u) /\ clockOf(z) < clockOf(u)
                                         /\ v.parent[z] = v.parent[u]
                                         => z \in Field(C)
  <2>1. Yata(Before(q, t), v) /\ Follows(q, v)
    BY DEF Agrees, Arranged
  <2>2. u \in Id /\ clientOf(u) = r /\ clockOf(u) < q.clock /\ v.parent[u] = t
    BY <1>1, <1>2
  <2>3. u \in Field(Before(q, t))
    BY <2>1, <2>2, OwnThere
  <2>4. ASSUME NEW z \in v.made, clientOf(z) = clientOf(u), clockOf(z) < clockOf(u),
               v.parent[z] = v.parent[u]
        PROVE  z \in Field(Before(q, t))
    <3>1. z \in Id
      BY <1>2, WorldFacts
    <3>2. clockOf(z) < q.clock
      <4>1. clockOf(z) \in Nat /\ clockOf(u) \in Nat /\ q.clock \in Nat
        BY <1>4, <2>2, <3>1
      <4> QED BY <2>2, <2>4, <4>1
    <3> QED BY <2>1, <2>2, <2>4, <3>1, <3>2, OwnThere
  <2> QED BY <2>1, <2>3, <2>4
<1> QED BY <1>2, <1>5, <1>6 DEF Valid

\* An insertion adds its units to the world, where their author put them.
LEMMA InsertShares ==
  ASSUME IInv, IInv', NEW w, Shared(doc, sent, w), NEW r \in Client, NEW t0 \in Root,
         NEW index \in Nat, NEW n \in 1 .. MaxInsert, Insert(r, t0, index, n)
  PROVE  OneWorld'
<1> DEFINE s == doc[r]
           tr == InsertIn(newTransaction(s), t0, index, n)
           M == Made(doc)
           x == newId(r, s.clock)
           new == Ids(x, n)
<1>1. /\ doc \in [Client -> StoreType] /\ s \in StoreType /\ Fine(s, r, M, got[r])
      /\ Carried(sent, cut, M) /\ \A c \in Client : Fine(doc[c], c, M, got[c])
  BY DEF IInv, Holding
<1>2. /\ doc' = [doc EXCEPT ![r] = tr.store]
      /\ sent' = sent \cup Emitted(tr.store, tr.insertSet)
  BY DEF Insert
<1>3. M \in SUBSET Id /\ Closed(M) /\ Within(s, r, M)
  BY <1>1, MadeFacts
<1>4. n \in Nat /\ n # 0 /\ n < ClockMod
  BY BoundsAssumption, InsertAssumption, ClockModAssumption
<1>5. Good(s, r) /\ s.clock \in Nat /\ s.client = r
  BY <1>1 DEF Fine, StoreType, Good
<1>6. tr = newTransaction(s) \/ Grown(s, n, tr)
  BY <1>1, <1>5, InsertGrows
<1> HIDE DEF tr
<1>7. CASE tr = newTransaction(s)
  <2>1. tr.store = s /\ tr.insertSet = <<>>
    BY <1>1, <1>7, Begins
  <2>2. Emitted(s, <<>>) = {}
    BY DEF Emitted
  <2>3. doc' = doc /\ sent' = sent
    BY <1>1, <1>2, <2>1, <2>2
  <2> QED BY <2>3 DEF OneWorld
<1>8. CASE Grown(s, n, tr)
  <2> DEFINE q == tr.store
             e == Emitted(q, tr.insertSet)
  <2>1. /\ Keeps(s, q) /\ q.clock = s.clock + n /\ q.pending = s.pending
        /\ Integrated(q) = Integrated(s) \cup new
        /\ tr.insertSet = typedSpans(x, n)
        /\ \A i \in 1 .. n : Add(x, i - 1) \in DOMAIN q.heap /\ q.heap[Add(x, i - 1)].len = 1
    BY <1>5, <1>8 DEF Grown, typedSpans
  <2>2. PICK t \in Root : Grows(s, q, new, t)
    BY <1>5, <1>8 DEF Grown
  <2>3. x \in Id /\ Anchored(s)
    BY <1>5 DEF Good, newId, Id
  <2> HIDE DEF x, q
  <2>4. Sound(q) /\ Anchored(q) /\ q \in StoreType
    BY <2>1, <2>3 DEF Keeps, Sound, Runs
  <2>5. Faithful(q, e)
    BY <1>4, <2>1, <2>3, <2>4, EmittedIs
  <2> HIDE DEF e
  <2>6. doc' = [doc EXCEPT ![r] = q] /\ sent' = sent \cup e
    BY <1>2 DEF q, e
  <2>7. Made(doc') = M \cup new
    <3>1. MakesMore(doc, r, q, n)
      BY <1>1, <1>4, <2>1, <2>4, MadeMore
    <3> QED BY <2>6, <3>1 DEF MakesMore, x
  <2>8. \A c \in Client : doc'[c] = IF c = r THEN q ELSE doc[c]
    BY <1>1, <2>6
  <2>9. q.clock = Size(q, r)
    <3>1. Good(doc'[r], r)
      BY DEF IInv, Holding, Fine
    <3> QED BY <2>8, <3>1 DEF Good
  <2>10. new \cap M = {}
    <3> SUFFICES ASSUME NEW u \in new, u \in M
                 PROVE  FALSE
      OBVIOUS
    <3>1. clientOf(x) = r /\ clockOf(x) = s.clock
      BY DEF x, newId, clientOf, clockOf
    <3>2. u \in Id /\ clientOf(u) = r /\ s.clock <= clockOf(u)
      BY <1>4, <2>3, <3>1, IdsAre
    <3>3. clockOf(u) < s.clock /\ clockOf(u) \in Nat
      BY <1>3, <3>2, IdFacts DEF Within
    <3> QED BY <1>5, <3>2, <3>3
  <2>11. Valid(w) /\ IsWorld(w) /\ w.made = M /\ \A c \in Client : Agrees(doc[c], w)
    BY DEF Shared, Valid
  <2> HIDE DEF new, M
  <2>12. PICK v : Extends(w, v, new, t) /\ Agrees(q, v)
    BY <2>2, <2>10, <2>11 DEF Grows
  <2>13. Valid(v)
    BY <1>3, <1>4, <1>5, <2>1, <2>4, <2>9, <2>11, <2>12, ValidGrows DEF new, x
  <2>14. v.made = Made(doc')
    BY <2>7, <2>11, <2>12 DEF Extends
  <2>15. /\ \A c \in Client : Agrees(doc[c], v)
         /\ \A u \in UpdateItem : Spelled(u, w) => Spelled(u, v)
    <3>1. \A c \in Client : Runs(doc[c])
      BY <1>1 DEF Fine, Good, Sound
    <3> QED BY <2>11, <2>12, <3>1, WorldGrows
  <2>16. \A c \in Client : Agrees(doc'[c], v)
    BY <2>8, <2>12, <2>15
  <2>17. \A u \in e : Spelled(u, v)
    BY <2>5, <2>12, <2>13 DEF Faithful, Valid, Agrees
  <2>18. Waiting(doc') \subseteq Waiting(doc)
    BY <2>1, <2>8 DEF Waiting
  <2>19. \A u \in sent \cup Waiting(doc) : u \in UpdateItem /\ Spelled(u, w)
    <3>1. sent \subseteq UpdateItem
      BY <1>1 DEF Carried, Rooted, Item
    <3>2. \A c \in Client : ToSet(doc[c].pending) \subseteq UpdateItem
      <4> TAKE c \in Client
      <4>1. doc[c].pending \in Seq(UpdateItem)
        BY <1>1 DEF StoreType
      <4> QED BY <4>1 DEF ToSet
    <3> QED BY <3>1, <3>2 DEF Shared, Waiting
  <2>20. \A u \in sent' \cup Waiting(doc') : Spelled(u, v)
    BY <2>6, <2>15, <2>17, <2>18, <2>19
  <2> QED BY <2>13, <2>14, <2>16, <2>20 DEF OneWorld, Shared
<1> QED BY <1>6, <1>7, <1>8

\* A step that makes nothing keeps the world.
Shares(w) == Shared(doc, sent, w) => Shared(doc', sent', w)

\* ... Every other one is such a step.
LEMMA OthersShare ==
  ASSUME IInv, NEW w, [Next]_vars,
         ~ \E r \in Client, t \in Root, n \in 1 .. MaxInsert :
             \E index \in 0 .. doc[r].len[t] + 1 : Insert(r, t, index, n)
  PROVE  Shares(w)
<1> SUFFICES ASSUME Shared(doc, sent, w)
             PROVE  Shared(doc', sent', w)
  BY DEF Shares
<1>1. CASE UNCHANGED vars
  BY <1>1 DEF vars, Shared, Waiting, Made
<1>2. ASSUME NEW r \in Client, NEW q \in Client \ {r}, Sync(r, q)
      PROVE  Shared(doc', sent', w)
  <2>1. PICK structs, spans : AppliesState(r, q, structs, spans)
    BY <1>2, SyncApplies
  <2>2. \A u \in ToSet(structs) : Spelled(u, w)
    BY <2>1 DEF AppliesState, Faithful, Shared, Valid, Agrees
  <2> QED BY <2>1, <2>2, ApplyShares DEF AppliesState
<1>3. ASSUME NEW r \in Client, Step(r)
      PROVE  Shared(doc', sent', w)
  <2>1. \A t \in Root : doc[r].len[t] \in Nat
    <3>1. Counted(doc[r])
      BY DEF IInv, Holding, Fine, Good
    <3> QED BY <3>1, FS_CardinalityType DEF Counted
  <2>2. ASSUME NEW t \in Root, NEW index \in 0 .. doc[r].len[t] - 1,
               NEW length \in 1 .. doc[r].len[t] - index + 1, Delete(r, t, index, length)
        PROVE  Shared(doc', sent', w)
    <3>1. index \in Nat /\ length \in Nat
      BY <2>1
    <3> QED BY <2>2, <3>1, DeleteShares
  <2>3. ASSUME NEW structs \in Batches(sent, MaxBatch), NEW spans \in Batches(cut, 1),
               Deliver(r, structs, spans)
        PROVE  Shared(doc', sent', w)
    <3>1. Applies(r, structs, spans)
      BY <2>3, DeliverApplies
    <3>2. ToSet(structs) \subseteq sent
      BY BoundsAssumption, BatchIs
    <3>3. \A u \in ToSet(structs) : Spelled(u, w)
      BY <3>2 DEF Shared
    <3> QED BY <3>1, <3>3, ApplyShares
  <2> QED BY <1>3, <2>2, <2>3 DEF Step
<1> QED BY <1>1, <1>2, <1>3 DEF Next

\* Every step keeps the replicas parts of one world.
LEMMA NextShares ==
  IInv /\ IInv' /\ OneWorld /\ [Next]_vars => OneWorld'
<1> SUFFICES ASSUME IInv, IInv', OneWorld, [Next]_vars
             PROVE  OneWorld'
  OBVIOUS
<1>1. PICK w : Shared(doc, sent, w)
  BY DEF OneWorld
<1>2. CASE \E r \in Client, t \in Root, n \in 1 .. MaxInsert :
             \E index \in 0 .. doc[r].len[t] + 1 : Insert(r, t, index, n)
  <2>1. PICK r \in Client, t \in Root, n \in 1 .. MaxInsert :
               \E index \in 0 .. doc[r].len[t] + 1 : Insert(r, t, index, n)
    BY <1>2
  <2>2. PICK index \in 0 .. doc[r].len[t] + 1 : Insert(r, t, index, n)
    BY <2>1
  <2>3. doc[r].len[t] \in Nat
    <3>1. Counted(doc[r])
      BY DEF IInv, Holding, Fine, Good
    <3> QED BY <3>1, FS_CardinalityType DEF Counted
  <2>4. index \in Nat
    BY <2>3
  <2> QED BY <1>1, <2>2, <2>4, InsertShares
<1>3. CASE ~ \E r \in Client, t \in Root, n \in 1 .. MaxInsert :
               \E index \in 0 .. doc[r].len[t] + 1 : Insert(r, t, index, n)
  <2>1. Shares(w)
    BY <1>3, OthersShare
  <2> QED BY <1>1, <2>1 DEF Shares, OneWorld
<1> QED BY <1>2, <1>3

\* All replicas, whatever they were told of and in whatever order, are parts of
\* one world: a unit has the same origins and root type everywhere, and every
\* list has an order that the conflict scan's rules justify.
THEOREM AlwaysOneWorld ==
  Spec => []OneWorld
<1>1. IInv /\ IInv' /\ OneWorld /\ [Next]_vars => OneWorld'
  BY NextShares
<1> QED BY InitShares, <1>1, AlwaysHolding, PTL DEF Spec

-----------------------------------------------------------------------------
(***************************************************************************)
(* What one world means to what the replicas show.                         *)
(***************************************************************************)
\* A sequence in the order B, each element once.
Row(l, A, B) ==
  /\ l \in Seq(A)
  /\ \A i, j \in DOMAIN l : i < j => <<l[i], l[j]>> \in B /\ l[i] # l[j]

OneWay(B) == \A u, v : <<u, v>> \in B /\ <<v, u>> \in B => u = v

\* A row is known by its elements.
LEMMA RowsEqual ==
  ASSUME NEW A, NEW B, OneWay(B), NEW l, NEW m, Row(l, A, B), Row(m, A, B), ToSet(l) = ToSet(m)
  PROVE  l = m
<1> DEFINE a == Len(l)
           b == Len(m)
           T == {k \in Nat : \A i \in 1 .. k : i <= a /\ i <= b => l[i] = m[i]}
<1>1. /\ l \in Seq(A) /\ m \in Seq(A) /\ a \in Nat /\ b \in Nat
      /\ DOMAIN l = 1 .. a /\ DOMAIN m = 1 .. b
  BY DEF Row
<1> HIDE DEF a, b
<1>2. /\ \A i \in 1 .. a : \E j \in 1 .. b : l[i] = m[j]
      /\ \A j \in 1 .. b : \E i \in 1 .. a : m[j] = l[i]
  BY <1>1 DEF ToSet
<1>3. /\ \A i, j \in 1 .. a : i < j => <<l[i], l[j]>> \in B /\ l[i] # l[j]
      /\ \A i, j \in 1 .. b : i < j => <<m[i], m[j]>> \in B /\ m[i] # m[j]
  BY <1>1 DEF Row
<1>4. 0 \in T
  OBVIOUS
<1>5. ASSUME NEW k \in Nat, k \in T
      PROVE  k + 1 \in T
  <2> DEFINE n == k + 1
  <2>1. n \in Nat /\ \A i \in 1 .. n : i \in 1 .. k \/ i = n
    OBVIOUS
  <2>2. ASSUME n <= a, n <= b
        PROVE  l[n] = m[n]
    <3> SUFFICES ASSUME l[n] # m[n] PROVE FALSE
      OBVIOUS
    <3>1. n \in 1 .. a /\ n \in 1 .. b
      BY <1>1, <2>2
    <3>2. PICK j \in 1 .. b : l[n] = m[j]
      BY <1>2, <3>1
    <3>3. PICK i \in 1 .. a : m[n] = l[i]
      BY <1>2, <3>1
    <3>4. j # n /\ i # n
      BY <3>2, <3>3
    <3>5. ~(j < n)
      <4> SUFFICES ASSUME j < n PROVE FALSE
        OBVIOUS
      <4>1. j \in 1 .. k /\ j \in 1 .. a /\ j <= a /\ j <= b
        BY <1>1, <3>1
      <4>2. l[j] = m[j]
        BY <1>5, <4>1
      <4>3. l[j] # l[n]
        BY <1>3, <3>1, <4>1
      <4> QED BY <3>2, <4>2, <4>3
    <3>6. ~(i < n)
      <4> SUFFICES ASSUME i < n PROVE FALSE
        OBVIOUS
      <4>1. i \in 1 .. k /\ i \in 1 .. b /\ i <= a /\ i <= b
        BY <1>1, <3>1
      <4>2. l[i] = m[i]
        BY <1>5, <4>1
      <4>3. m[i] # m[n]
        BY <1>3, <3>1, <4>1
      <4> QED BY <3>3, <4>2, <4>3
    <3>7. n < j /\ n < i
      BY <1>1, <3>1, <3>4, <3>5, <3>6
    <3>8. <<l[n], l[i]>> \in B /\ <<m[n], m[j]>> \in B
      BY <1>3, <3>1, <3>7
    <3> QED BY <3>2, <3>3, <3>8 DEF OneWay
  <2> HIDE DEF n
  <2>3. \A i \in 1 .. n : i <= a /\ i <= b => l[i] = m[i]
    BY <1>5, <2>1, <2>2
  <2> QED BY <2>1, <2>3 DEF n
<1> HIDE DEF T
<1>6. \A k \in Nat : k \in T
  <2> TAKE k \in Nat
  <2> HIDE DEF T
  <2>1. \A j \in 0 .. k - 1 : j \in T => j + 1 \in T
    BY <1>5
  <2> QED BY <1>4, <2>1, UpTo
<1>7. \A i \in Nat : 1 <= i /\ i <= a /\ i <= b => l[i] = m[i]
  BY <1>6 DEF T
<1>8. ~(a < b)
  <2> SUFFICES ASSUME a < b PROVE FALSE
    OBVIOUS
  <2>1. b \in 1 .. b
    BY <1>1
  <2>2. PICK i \in 1 .. a : m[b] = l[i]
    BY <1>2, <2>1
  <2>3. i \in 1 .. b /\ i < b /\ l[i] = m[i]
    BY <1>1, <1>7
  <2> QED BY <1>3, <2>1, <2>2, <2>3
<1>9. ~(b < a)
  <2> SUFFICES ASSUME b < a PROVE FALSE
    OBVIOUS
  <2>1. a \in 1 .. a
    BY <1>1
  <2>2. PICK i \in 1 .. b : l[a] = m[i]
    BY <1>2, <2>1
  <2>3. i \in 1 .. a /\ i < a /\ l[i] = m[i]
    BY <1>1, <1>7
  <2> QED BY <1>3, <2>1, <2>2, <2>3
<1>10. a = b
  BY <1>1, <1>8, <1>9
<1>11. \A i \in 1 .. a : l[i] = m[i]
  BY <1>1, <1>7, <1>10
<1> QED BY <1>1, <1>10, <1>11 DEF a, b

\* A row of a set's elements is a row.
LEMMA RowSelected ==
  ASSUME NEW A, NEW B, NEW l, Row(l, A, B), NEW S
  PROVE  Row(SelectIn(l, S), A, B)
<1> DEFINE n == Len(l)
           pre(k) == SubSeq(l, 1, k)
           sel(k) == SelectIn(pre(k), S)
           T == {k \in 0 .. n : Row(sel(k), A, B)}
<1>1. l \in Seq(A) /\ n \in Nat /\ pre(0) = <<>> /\ pre(n) = l
  BY DEF Row
<1>2. \A k \in 0 .. n - 1 : pre(k) \in Seq(A) /\ l[k + 1] \in A /\ pre(k + 1) = Append(pre(k), l[k + 1])
  <2> TAKE k \in 0 .. n - 1
  <2>1. k \in Nat /\ k < Len(l)
    BY <1>1
  <2> QED BY <1>1, <2>1, SubSeqGrows
<1>3. \A k \in 0 .. n - 1 : \A x \in ToSet(pre(k)) : <<x, l[k + 1]>> \in B /\ x # l[k + 1]
  <2> TAKE k \in 0 .. n - 1
  <2> TAKE x \in ToSet(pre(k))
  <2>1. DOMAIN l = 1 .. n /\ DOMAIN pre(k) = 1 .. k /\ \A i \in 1 .. k : pre(k)[i] = l[i]
    BY <1>1
  <2> HIDE DEF pre, n
  <2>2. PICK i \in 1 .. k : x = l[i]
    BY <2>1 DEF ToSet
  <2>3. i \in 1 .. n /\ k + 1 \in 1 .. n /\ i < k + 1
    BY <1>1
  <2> QED BY <2>1, <2>2, <2>3 DEF Row
<1> HIDE DEF n, pre
<1>4. 0 \in T
  <2>1. sel(0) = <<>>
    BY <1>1, SelectEmpty
  <2>2. Row(<<>>, A, B) /\ 0 \in 0 .. n
    BY <1>1 DEF Row
  <2> HIDE DEF sel
  <2> QED BY <2>1, <2>2
<1>5. \A k \in 0 .. n - 1 : k \in T => k + 1 \in T
  <2> TAKE k \in 0 .. n - 1
  <2> HAVE k \in T
  <2> DEFINE p == pre(k)
             e == l[k + 1]
             q == SelectIn(p, S)
  <2>1. p \in Seq(A) /\ e \in A /\ pre(k + 1) = Append(p, e)
    BY <1>2
  <2>2. Row(q, A, B)
    OBVIOUS
  <2>3. \A x \in ToSet(p) : <<x, e>> \in B /\ x # e
    BY <1>3
  <2> HIDE DEF p, e
  <2>4. SelectIn(Append(p, e), S) = IF e \in S THEN Append(q, e) ELSE q
    BY <2>1, SelectAppend
  <2>5. ToSet(q) \subseteq ToSet(p)
    BY <2>1, SelectSet
  <2> HIDE DEF q
  <2>6. Row(Append(q, e), A, B)
    <3> DEFINE m == Len(q)
               z == Append(q, e)
    <3>1. q \in Seq(A) /\ m \in Nat /\ DOMAIN q = 1 .. m
      BY <2>2 DEF Row
    <3>2. z \in Seq(A) /\ DOMAIN z = 1 .. m + 1 /\ z[m + 1] = e /\ \A i \in 1 .. m : z[i] = q[i]
      BY <2>1, <3>1
    <3> HIDE DEF m, z
    <3>3. ASSUME NEW i \in 1 .. m + 1, NEW j \in 1 .. m + 1, i < j
          PROVE  <<z[i], z[j]>> \in B /\ z[i] # z[j]
      <4>1. i \in 1 .. m /\ (j \in 1 .. m \/ j = m + 1)
        BY <3>1, <3>3
      <4>2. q[i] \in ToSet(q)
        BY <3>1, <4>1 DEF ToSet
      <4>3. CASE j \in 1 .. m
        BY <2>2, <3>1, <3>2, <3>3, <4>1, <4>3 DEF Row
      <4>4. CASE j = m + 1
        BY <2>3, <2>5, <3>2, <4>1, <4>2, <4>4
      <4> QED BY <4>1, <4>3, <4>4
    <3> QED BY <3>2, <3>3 DEF Row, z
  <2>7. k + 1 \in 0 .. n
    BY <1>1
  <2>8. Row(sel(k + 1), A, B)
    BY <2>1, <2>2, <2>4, <2>6
  <2> QED BY <2>7, <2>8
<1> HIDE DEF T
<1>6. n \in T
  <2>1. n \in 0 .. n /\ n \in Nat
    BY <1>1
  <2> QED BY <1>4, <1>5, <2>1, UpTo
<1> QED BY <1>1, <1>6 DEF T, sel

\* What stands before another in a row has the smaller index.
LEMMA RowIndex ==
  ASSUME NEW A, NEW B, OneWay(B), NEW l, Row(l, A, B), NEW u \in ToSet(l), NEW v \in ToSet(l),
         <<u, v>> \in B, u # v
  PROVE  IndexOf(u, l) < IndexOf(v, l)
<1> DEFINE a == IndexOf(u, l)
           b == IndexOf(v, l)
<1>1. a \in DOMAIN l /\ l[a] = u /\ b \in DOMAIN l /\ l[b] = v
  BY DEF IndexOf, ToSet
<1> HIDE DEF a, b
<1>2. a \in Nat /\ b \in Nat
  BY <1>1 DEF Row
<1>3. a # b
  BY <1>1
<1>4. ~(b < a)
  BY <1>1 DEF Row, OneWay
<1>5. a < b
  BY <1>2, <1>3, <1>4
<1> QED BY <1>5 DEF a, b

\* What a root shows is a row.
LEMMA OrderRow ==
  ASSUME NEW s, Sound(s), NEW t \in Root
  PROVE  /\ Row(idsOf(Snapshot(s, t)), Id, Before(s, t)) /\ OneWay(Before(s, t))
         /\ ToSet(idsOf(Snapshot(s, t))) = Listed(s, t) /\ Field(Before(s, t)) = Listed(s, t)
<1> DEFINE l == idsOf(Snapshot(s, t))
           D == DOMAIN Snapshot(s, t)
<1>1. InOrder(s, t, l)
  BY SnapshotOrder
<1>2. Field(Before(s, t)) = Listed(s, t)
  BY FieldIs DEF Listed
<1>3. Listed(s, t) \subseteq Id
  BY <1>2 DEF Field
<1>4. DOMAIN l = D /\ l = [i \in D |-> l[i]]
  BY DEF idsOf
<1> HIDE DEF l, D
<1>5. l \in Seq(Id)
  <2> DEFINE n == Len(l)
  <2>1. D = 1 .. n /\ n \in Nat /\ \A i \in 1 .. n : l[i] \in Id
    BY <1>1, <1>3, <1>4 DEF InOrder, ToSet
  <2> HIDE DEF n
  <2>2. l \in [1 .. n -> Id]
    BY <1>4, <2>1
  <2> QED BY <2>1, <2>2
<1>6. Row(l, Id, Before(s, t))
  BY <1>1, <1>5 DEF InOrder, Row
<1>7. OneWay(Before(s, t))
  BY BeforeOneWay DEF OneWay
<1> QED BY <1>1, <1>2, <1>6, <1>7 DEF InOrder, l

\* The list a unit stands in is its type's.
LEMMA ListedIs ==
  ASSUME NEW s, NEW w, Follows(s, w), NEW t
  PROVE  Listed(s, t) = {u \in Integrated(s) : w.parent[u] = t}
<1>1. ASSUME NEW u \in Listed(s, t)
      PROVE  u \in Integrated(s) /\ w.parent[u] = t
  BY DEF Listed, Integrated, Follows
<1>2. ASSUME NEW u \in Integrated(s), w.parent[u] = t
      PROVE  u \in Listed(s, t)
  <2>1. PICK x \in DOMAIN s.heap : u \in Units(s, x)
    BY DEF Integrated
  <2>2. s.heap[x].parent = t
    BY <1>2, <2>1 DEF Follows
  <2> QED BY <2>1, <2>2 DEF Listed
<1> QED BY <1>1, <1>2

\* What a replica has of a world.
LEMMA PartOfWorld ==
  ASSUME IInv, NEW w, Shared(doc, sent, w), NEW r \in Client
  PROVE  /\ IsWorld(w) /\ Valid(w) /\ Sound(doc[r]) /\ Anchored(doc[r])
         /\ Follows(doc[r], w) /\ Integrated(doc[r]) \subseteq w.made
         /\ \A t \in Root : Yata(Before(doc[r], t), w)
         /\ \A u \in ToSet(doc[r].pending) : Spelled(u, w)
<1>1. Fine(doc[r], r, Made(doc), got[r])
  BY DEF IInv, Holding
<1>2. Sound(doc[r]) /\ Anchored(doc[r])
  BY <1>1 DEF Fine, Good
<1>3. Agrees(doc[r], w) /\ Valid(w) /\ \A u \in ToSet(doc[r].pending) : Spelled(u, w)
  BY DEF Shared, Waiting
<1>4. Integrated(doc[r]) \subseteq w.made
  BY <1>3 DEF Agrees, Follows, Integrated
<1> QED BY <1>2, <1>3, <1>4 DEF Agrees, Arranged, Valid

\* Two replicas order what both have alike.
LEMMA OrderedAlike ==
  ASSUME IInv, NEW w, Shared(doc, sent, w), NEW r \in Client, NEW q \in Client, NEW t \in Root,
         NEW S, S \subseteq Integrated(doc[r]), S \subseteq Integrated(doc[q])
  PROVE  SelectIn(Order(r, t), S) = SelectIn(Order(q, t), S)
<1> DEFINE B == Before(doc[r], t)
           C == Before(doc[q], t)
           l == idsOf(Snapshot(doc[r], t))
           m == idsOf(Snapshot(doc[q], t))
<1>1. Order(r, t) = l /\ Order(q, t) = m
  BY DEF Order, idsOf
<1>2. /\ Sound(doc[r]) /\ Follows(doc[r], w) /\ Sound(doc[q]) /\ Follows(doc[q], w)
      /\ IsWorld(w) /\ Yata(B, w) /\ Yata(C, w)
  BY PartOfWorld
<1>3. /\ Row(l, Id, B) /\ ToSet(l) = Listed(doc[r], t) /\ Field(B) = Listed(doc[r], t)
      /\ Row(m, Id, C) /\ ToSet(m) = Listed(doc[q], t) /\ Field(C) = Listed(doc[q], t) /\ OneWay(C)
  BY <1>2, OrderRow
<1>4. Listed(doc[r], t) \cap S = Listed(doc[q], t) \cap S
  <2>1. /\ Listed(doc[r], t) = {u \in Integrated(doc[r]) : w.parent[u] = t}
        /\ Listed(doc[q], t) = {u \in Integrated(doc[q]) : w.parent[u] = t}
    BY <1>2, ListedIs
  <2> QED BY <2>1
<1> HIDE DEF B, C, l, m
<1> DEFINE a == SelectIn(l, S)
           b == SelectIn(m, S)
<1>5. Row(a, Id, B) /\ Row(b, Id, C)
  BY <1>3, RowSelected
<1>6. ToSet(a) = Field(B) \cap S /\ ToSet(b) = Field(C) \cap S /\ ToSet(a) = ToSet(b)
  <2>1. l \in Seq(Id) /\ m \in Seq(Id)
    BY <1>3 DEF Row
  <2>2. ToSet(a) = ToSet(l) \cap S /\ ToSet(b) = ToSet(m) \cap S
    BY <2>1, SelectSet
  <2> HIDE DEF a, b
  <2> QED BY <1>3, <1>4, <2>2
<1> HIDE DEF a, b
<1>7. Row(a, Id, C)
  <2>1. ASSUME NEW i \in DOMAIN a, NEW j \in DOMAIN a, i < j
        PROVE  <<a[i], a[j]>> \in C /\ a[i] # a[j]
    <3>1. a[i] \in Field(B) \cap Field(C) /\ a[j] \in Field(B) \cap Field(C)
      BY <1>6 DEF ToSet
    <3>2. Le(B, a[i], a[j]) /\ a[i] # a[j]
      BY <1>5, <2>1 DEF Row, Le
    <3>3. Le(C, a[i], a[j])
      BY <1>2, <3>1, <3>2, OneArrangement
    <3> QED BY <3>2, <3>3 DEF Le
  <2> QED BY <1>5, <2>1 DEF Row
<1>8. a = b
  BY <1>3, <1>5, <1>6, <1>7, RowsEqual
<1> QED BY <1>1, <1>8 DEF a, b

\* Concurrent insertions at one place come out in one order everywhere: what
\* two replicas both have in a list they have in the same order, at any time
\* and whatever else they know or miss.
THEOREM OneOrderEverywhere ==
  Spec => []OneOrder
<1>1. IInv /\ OneWorld => OneOrder
  <2> SUFFICES ASSUME IInv, OneWorld, NEW r \in Client, NEW q \in Client, NEW t \in Root
               PROVE  LET common == Integrated(doc[r]) \cap Integrated(doc[q])
                      IN  SelectIn(Order(r, t), common) = SelectIn(Order(q, t), common)
    BY DEF OneOrder
  <2>1. PICK w : Shared(doc, sent, w)
    BY DEF OneWorld
  <2> QED BY <2>1, OrderedAlike
<1> QED BY <1>1, AlwaysHolding, AlwaysOneWorld, PTL

\* A unit stands after its left and before its right origin, in its list, in
\* every replica and for ever, whatever was inserted between them.
THEOREM OriginsAlwaysRespected ==
  Spec => []OriginsRespected
<1>1. IInv /\ OneWorld => OriginsRespected
  <2> SUFFICES ASSUME IInv, OneWorld, NEW r \in Client, NEW x \in DOMAIN doc[r].heap
               PROVE  LET node == doc[r].heap[x]
                          order == Order(r, node.parent)
                      IN  /\ node.originLeftId # Nil =>
                               /\ node.originLeftId \in ToSet(order)
                               /\ IndexOf(node.originLeftId, order) < IndexOf(x, order)
                          /\ node.originRightId # Nil =>
                               /\ node.originRightId \in ToSet(order)
                               /\ IndexOf(x, order) < IndexOf(node.originRightId, order)
    BY Zenon DEF OriginsRespected
  <2>1. PICK w : Shared(doc, sent, w)
    BY DEF OneWorld
  <2> DEFINE s == doc[r]
             t == s.heap[x].parent
             B == Before(s, t)
             l == idsOf(Snapshot(s, t))
  <2>2. Sound(s) /\ Follows(s, w) /\ \A k \in Root : Yata(Before(s, k), w)
    BY <2>1, PartOfWorld
  <2>3. x \in Id /\ t \in Root /\ x \in Units(s, x)
    <3>1. s \in StoreType /\ x \in DOMAIN s.heap
      BY <2>2 DEF Sound, Runs
    <3> HIDE DEF s
    <3>2. x \in Id /\ s.heap[x] \in Node /\ s.heap[x].len \in Nat \ {0} /\ s.heap[x].parent \in Root
      BY <3>1, HeapFacts DEF Node
    <3>3. x \in Ids(x, s.heap[x].len)
      <4>1. clockOf(x) \in Nat
        BY <3>2, IdFacts
      <4>2. clockOf(x) <= clockOf(x) /\ clockOf(x) < clockOf(x) + s.heap[x].len
        BY <3>2, <4>1
      <4> QED BY <3>2, <4>2, IdsAre
    <3> QED BY <3>2, <3>3 DEF Units
  <2>4. Row(l, Id, B) /\ OneWay(B) /\ ToSet(l) = Field(B) /\ Field(B) = Listed(s, t)
    BY <2>2, <2>3, OrderRow
  <2>5. x \in Field(B) /\ Between(B, w) /\ IsOrder(B)
    <3>1. x \in Listed(s, t)
      BY <2>3 DEF Listed
    <3> QED BY <2>2, <2>3, <2>4, <3>1 DEF Yata
  <2>6. s.heap[x].originLeftId = w.left[x] /\ s.heap[x].originRightId = w.right[x]
    BY <2>2, <2>3 DEF Follows
  <2>7. Order(r, t) = l
    BY DEF Order, idsOf
  <2>8. w.left[x] \in OptId /\ w.right[x] \in OptId
    BY <2>1, <2>3, PartOfWorld DEF IsWorld, World
  <2> HIDE DEF s, t, B, l
  <2>9. w.left[x] # Nil => w.left[x] \in ToSet(l) /\ IndexOf(w.left[x], l) < IndexOf(x, l)
    <3> HAVE w.left[x] # Nil
    <3>1. Le(B, w.left[x], x) /\ w.left[x] # x
      BY <2>5 DEF Between
    <3>2. w.left[x] \in Field(B)
      BY <2>3, <2>5, <2>8, <3>1 DEF IsOrder, OptId
    <3> QED BY <2>4, <2>5, <3>1, <3>2, RowIndex DEF Le
  <2>10. w.right[x] # Nil => w.right[x] \in ToSet(l) /\ IndexOf(x, l) < IndexOf(w.right[x], l)
    <3> HAVE w.right[x] # Nil
    <3>1. Le(B, x, w.right[x]) /\ w.right[x] # x
      BY <2>5 DEF Between
    <3>2. w.right[x] \in Field(B)
      BY <2>3, <2>5, <2>8, <3>1 DEF IsOrder, OptId
    <3> QED BY <2>4, <2>5, <3>1, <3>2, RowIndex DEF Le
  <2> QED BY <2>6, <2>7, <2>9, <2>10 DEF s, t
<1> QED BY <1>1, AlwaysHolding, AlwaysOneWorld, PTL

-----------------------------------------------------------------------------
(***************************************************************************)
(* What a user sees of an edit: where in the text it lands.                *)
(***************************************************************************)
\* What a root shows of its visible units is a row.
LEMMA TextRow ==
  ASSUME NEW s, Sound(s), NEW t \in Root
  PROVE  Row(Text(s, t), Id, Before(s, t)) /\ ToSet(Text(s, t)) = Live(s, t)
<1> DEFINE l == Chain(s, t)
           w == Snapshot(s, t)
           S == {u \in ToSet(w) : ~u.deleted}
           live == SelectIn(w, S)
           text == Text(s, t)
           BB == {p \in Shot \X Shot : <<p[1].id, p[2].id>> \in Before(s, t) /\ p[1].id # p[2].id}
<1>1. Shows(s, l, Len(l), w)
  BY SnapshotShows
<1>2. text = [i \in DOMAIN live |-> live[i].id]
  BY DEF Text
<1>3. text \in Seq(Id) /\ ToSet(text) = Live(s, t)
  BY TextShows
<1>4. Row(w, Shot, BB)
  <2>1. w \in Seq(Shot) /\ DOMAIN w = 1 .. Len(w) /\ \A i \in 1 .. Len(w) : w[i] \in Shot
    BY <1>1 DEF Shows
  <2>2. ASSUME NEW i \in 1 .. Len(w), NEW j \in 1 .. Len(w), i < j
        PROVE  <<w[i], w[j]>> \in BB /\ w[i] # w[j]
    <3>1. <<w[i].id, w[j].id>> \in Before(s, t) /\ w[i].id # w[j].id
      BY <1>1, <2>2 DEF Shows, Before
    <3> QED BY <2>1, <3>1
  <2> HIDE DEF w, BB
  <2> QED BY <2>1, <2>2 DEF Row
<1> HIDE DEF w, S
<1>5. Row(live, Shot, BB)
  <2> HIDE DEF BB
  <2> QED BY <1>4, RowSelected
<1>6. \A i, j \in DOMAIN live : i < j =>
        <<live[i].id, live[j].id>> \in Before(s, t) /\ live[i].id # live[j].id
  <2>1. \A x, y : <<x, y>> \in BB => <<x.id, y.id>> \in Before(s, t) /\ x.id # y.id
    OBVIOUS
  <2> HIDE DEF BB
  <2>2. \A i, j \in DOMAIN live : i < j => <<live[i], live[j]>> \in BB
    BY <1>5 DEF Row
  <2> QED BY <2>1, <2>2
<1> HIDE DEF live, text
<1>7. DOMAIN text = DOMAIN live /\ \A i \in DOMAIN live : text[i] = live[i].id
  BY <1>2
<1>8. \A i, j \in DOMAIN text : i < j => <<text[i], text[j]>> \in Before(s, t) /\ text[i] # text[j]
  BY <1>6, <1>7
<1> QED BY <1>3, <1>8 DEF Row, text

\* A row in an order is one in every order that holds more.
LEMMA RowWider ==
  ASSUME NEW A, NEW B, NEW l, Row(l, A, B), NEW D,
         \A a, b \in A : <<a, b>> \in B => <<a, b>> \in D
  PROVE  Row(l, A, D)
<1>1. l \in Seq(A) /\ \A i \in DOMAIN l : l[i] \in A
  BY DEF Row
<1> QED BY <1>1 DEF Row

\* The elements of a row between two places.
part(l, a, b) == {l[i] : i \in {j \in DOMAIN l : a <= j /\ j <= b}}

\* A part of a row is a row.
LEMMA RowPart ==
  ASSUME NEW A, NEW B, NEW l, Row(l, A, B), NEW a \in Nat \ {0}, NEW b \in 0 .. Len(l)
  PROVE  Row(SubSeq(l, a, b), A, B) /\ ToSet(SubSeq(l, a, b)) = part(l, a, b)
<1> DEFINE n == Len(l)
           m == SubSeq(l, a, b)
           c == IF a <= b THEN 1 + b - a ELSE 0
<1>1. l \in Seq(A) /\ n \in Nat /\ DOMAIN l = 1 .. n /\ \A i \in 1 .. n : l[i] \in A
  BY DEF Row
<1>2. c \in Nat /\ b \in Nat /\ b <= n
  BY <1>1
<1>3. \A i \in 1 .. c : i + a - 1 \in 1 .. n /\ a <= i + a - 1 /\ i + a - 1 <= b
  BY <1>1, <1>2
<1>4. \A j \in 1 .. n : a <= j /\ j <= b => j - a + 1 \in 1 .. c /\ (j - a + 1) + a - 1 = j
  BY <1>1, <1>2
<1>5. m \in Seq(A) /\ DOMAIN m = 1 .. c /\ \A i \in 1 .. c : m[i] = l[i + a - 1]
  <2>1. m = [i \in 1 .. c |-> l[i + a - 1]]
    BY <1>1, <1>2
  <2> HIDE DEF c, m, n
  <2>2. m \in [1 .. c -> A]
    BY <1>1, <1>3, <2>1
  <2>3. m \in Seq(A)
    BY <1>2, <2>2
  <2> QED BY <2>1, <2>3
<1> HIDE DEF m, c, n
<1>6. \A i, j \in 1 .. c : i < j => <<m[i], m[j]>> \in B /\ m[i] # m[j]
  <2> TAKE i, j \in 1 .. c
  <2> HAVE i < j
  <2>1. i + a - 1 < j + a - 1
    BY <1>2
  <2> QED BY <1>1, <1>3, <1>5, <2>1 DEF Row
<1>7. \A x : (\E i \in 1 .. c : x = m[i]) <=> \E j \in 1 .. n : a <= j /\ j <= b /\ x = l[j]
  <2> TAKE x
  <2>1. ASSUME NEW i \in 1 .. c, x = m[i]
        PROVE  \E j \in 1 .. n : a <= j /\ j <= b /\ x = l[j]
    BY <1>3, <1>5, <2>1
  <2>2. ASSUME NEW j \in 1 .. n, a <= j, j <= b, x = l[j]
        PROVE  \E i \in 1 .. c : x = m[i]
    <3>1. m[j - a + 1] = l[j]
      <4>1. j - a + 1 \in 1 .. c /\ (j - a + 1) + a - 1 = j
        BY <1>4, <2>2
      <4> QED BY <1>5, <4>1
    <3> QED BY <1>4, <2>2, <3>1
  <2> QED BY <2>1, <2>2
<1>8. ToSet(m) = part(l, a, b)
  BY <1>1, <1>5, <1>7 DEF ToSet, part
<1> QED BY <1>5, <1>6, <1>8 DEF Row, m

\* Two rows of which the one comes before the other make a row, of the elements of
\* both.
Joined(l, m) == ToSet(l \o m) = ToSet(l) \cup ToSet(m)
LEMMA RowJoins ==
  ASSUME NEW A, NEW B, NEW l, NEW m, Row(l, A, B), Row(m, A, B),
         \A x \in ToSet(l), y \in ToSet(m) : <<x, y>> \in B /\ x # y
  PROVE  Row(l \o m, A, B) /\ Joined(l, m)
<1> DEFINE a == Len(l)
           b == Len(m)
           w == l \o m
<1>1. /\ l \in Seq(A) /\ m \in Seq(A) /\ a \in Nat /\ b \in Nat
      /\ DOMAIN l = 1 .. a /\ DOMAIN m = 1 .. b
  BY DEF Row
<1>2. /\ w \in Seq(A) /\ DOMAIN w = 1 .. a + b
      /\ \A i \in 1 .. a + b : w[i] = IF i <= a THEN l[i] ELSE m[i - a]
  BY <1>1
<1> HIDE DEF w, a, b
<1>3. \A i \in 1 .. a + b : IF i <= a THEN i \in 1 .. a ELSE i - a \in 1 .. b
  BY <1>1
<1>4. \A i \in 1 .. a + b : IF i <= a THEN w[i] \in ToSet(l) ELSE w[i] \in ToSet(m)
  BY <1>1, <1>2, <1>3 DEF ToSet
<1>5. ASSUME NEW i \in 1 .. a + b, NEW j \in 1 .. a + b, i < j
      PROVE  <<w[i], w[j]>> \in B /\ w[i] # w[j]
  <2>1. CASE j <= a
    <3>1. i <= a
      BY <1>1, <1>5, <2>1
    <3>2. i \in 1 .. a /\ j \in 1 .. a /\ w[i] = l[i] /\ w[j] = l[j]
      BY <1>2, <1>3, <2>1, <3>1
    <3> QED BY <1>1, <1>5, <3>2 DEF Row
  <2>2. CASE ~(j <= a) /\ i <= a
    <3>1. w[i] \in ToSet(l) /\ w[j] \in ToSet(m)
      BY <1>4, <2>2
    <3> QED BY <3>1
  <2>3. CASE ~(j <= a) /\ ~(i <= a)
    <3>1. i - a \in 1 .. b /\ j - a \in 1 .. b /\ w[i] = m[i - a] /\ w[j] = m[j - a]
      BY <1>2, <1>3, <2>3
    <3>2. i - a < j - a
      BY <1>1, <1>5
    <3> QED BY <1>1, <3>1, <3>2 DEF Row
  <2> QED BY <2>1, <2>2, <2>3
<1>6. ToSet(w) = ToSet(l) \cup ToSet(m)
  <2>1. \A x \in ToSet(w) : x \in ToSet(l) \cup ToSet(m)
    <3> TAKE x \in ToSet(w)
    <3>1. PICK i \in 1 .. a + b : x = w[i]
      BY <1>2 DEF ToSet
    <3> QED BY <1>4, <3>1
  <2>2. \A i \in 1 .. a : i \in 1 .. a + b /\ w[i] = l[i]
    BY <1>1, <1>2
  <2>3. \A i \in 1 .. b : a + i \in 1 .. a + b /\ w[a + i] = m[i]
    <3> TAKE i \in 1 .. b
    <3>1. a + i \in 1 .. a + b /\ ~(a + i <= a) /\ (a + i) - a = i
      BY <1>1
    <3> QED BY <1>2, <3>1
  <2>4. \A x \in ToSet(l) : x \in ToSet(w)
    BY <1>1, <1>2, <2>2 DEF ToSet
  <2>5. \A x \in ToSet(m) : x \in ToSet(w)
    <3> TAKE x \in ToSet(m)
    <3>1. PICK i \in 1 .. b : x = m[i]
      BY <1>1 DEF ToSet
    <3>2. a + i \in DOMAIN w /\ w[a + i] = x
      BY <1>2, <2>3, <3>1
    <3> QED BY <3>2 DEF ToSet
  <2> QED BY <2>1, <2>4, <2>5
<1> QED BY <1>2, <1>5, <1>6 DEF Row, Joined, w

\* Some first numbers up to n are those up to one of them.
LEMMA FirstNumbers ==
  ASSUME NEW n \in Nat, NEW D \in SUBSET (1 .. n),
         \A i, j \in 1 .. n : i < j /\ j \in D => i \in D
  PROVE  \E a \in 0 .. n : D = 1 .. a
<1> DEFINE M == (1 .. n) \ D
<1>1. CASE M = {}
  <2>1. n \in 0 .. n
    OBVIOUS
  <2> DEFINE R == 1 .. n
  <2>2. D \subseteq R /\ R \ D = {}
    BY <1>1
  <2> HIDE DEF R
  <2>3. D = R
    BY <2>2
  <2> QED BY <2>1, <2>3 DEF R
<1>2. CASE M # {}
  <2>1. PICK k \in M : \A m \in M : k <= m
    <3>1. M \in SUBSET Nat
      OBVIOUS
    <3> HIDE DEF M
    <3> QED BY <1>2, <3>1, Least
  <2>2. k \in 1 .. n /\ k \notin D /\ k - 1 \in 0 .. n
    OBVIOUS
  <2>3. \A i \in 1 .. n : i \in D => i \in 1 .. k - 1
    <3> TAKE i \in 1 .. n
    <3> HAVE i \in D
    <3>1. ~(k < i) /\ i # k
      BY <2>2
    <3> QED BY <2>2, <3>1
  <2>4. \A i \in 1 .. k - 1 : i \in D
    <3> TAKE i \in 1 .. k - 1
    <3>1. i \in 1 .. n /\ ~(k <= i)
      BY <2>2
    <3> QED BY <2>1, <3>1
  <2>5. D = 1 .. k - 1
    BY <2>3, <2>4
  <2> QED BY <2>2, <2>5
<1> QED BY <1>1, <1>2

\* First units of an order, of which k are in a row, are the first k there.
LEMMA RowSplit ==
  ASSUME NEW B, IsOrder(B), NEW l, Row(l, Id, B), NEW P, First(B, P), ToSet(l) \subseteq Field(B),
         NEW k, Counts(P \cap ToSet(l), k)
  PROVE  k \in 0 .. Len(l) /\ \A i \in DOMAIN l : l[i] \in P <=> i <= k
<1> DEFINE n == Len(l)
           D == {i \in 1 .. n : l[i] \in P}
<1>1. l \in Seq(Id) /\ n \in Nat /\ DOMAIN l = 1 .. n /\ \A i \in 1 .. n : l[i] \in ToSet(l)
  BY DEF Row, ToSet
<1> HIDE DEF n
<1>2. \A i, j \in 1 .. n : i < j /\ j \in D => i \in D
  <2> TAKE i, j \in 1 .. n
  <2> HAVE i < j /\ j \in D
  <2>1. Le(B, l[i], l[j]) /\ l[i] \in Field(B) /\ l[j] \in P
    BY <1>1 DEF Row, Le
  <2>2. l[i] \in P
    BY <2>1 DEF First
  <2> QED BY <2>2
<1>3. PICK a \in 0 .. n : D = 1 .. a
  <2> HIDE DEF D
  <2>1. D \in SUBSET (1 .. n)
    BY DEF D
  <2> QED BY <1>1, <1>2, <2>1, FirstNumbers
<1>4. a \in Nat /\ a <= n /\ \A i \in 1 .. a : i \in 1 .. n
  BY <1>1
<1>5. \A i \in 1 .. n : l[i] \in P <=> i <= a
  <2>1. \A i \in 1 .. n : l[i] \in P <=> i \in 1 .. a
    BY <1>3
  <2> QED BY <1>4, <2>1
<1> DEFINE f == [i \in 1 .. a |-> l[i]]
<1>6. P \cap ToSet(l) = named(f, a)
  <2>1. \A i \in 1 .. a : f[i] = l[i]
    OBVIOUS
  <2> HIDE DEF f
  <2>2. \A x \in P \cap ToSet(l) : x \in named(f, a)
    <3> TAKE x \in P \cap ToSet(l)
    <3>1. PICK i \in 1 .. n : x = l[i]
      BY <1>1 DEF ToSet
    <3>2. i \in 1 .. a
      BY <1>4, <1>5, <3>1
    <3> QED BY <2>1, <3>1, <3>2 DEF named
  <2>3. \A x \in named(f, a) : x \in P \cap ToSet(l)
    <3> TAKE x \in named(f, a)
    <3>1. PICK i \in 1 .. a : x = f[i]
      BY DEF named
    <3>2. x = l[i] /\ i \in 1 .. n /\ i <= a
      BY <1>4, <2>1, <3>1
    <3> QED BY <1>1, <1>5, <3>2
  <2> QED BY <2>2, <2>3
<1>7. f \in [1 .. a -> Id] /\ \A i, j \in 1 .. a : f[i] = f[j] => i = j
  <2>1. \A i \in 1 .. a : l[i] \in Id
    BY <1>1, <1>4
  <2>2. \A i, j \in 1 .. a : l[i] = l[j] => i = j
    <3> TAKE i, j \in 1 .. a
    <3>1. i < j => l[i] # l[j]
      BY <1>1, <1>4 DEF Row
    <3>2. j < i => l[j] # l[i]
      BY <1>1, <1>4 DEF Row
    <3> QED BY <1>4, <3>1, <3>2
  <2> QED BY <2>1, <2>2
<1> HIDE DEF f
<1>8. Cardinality(named(f, a)) = a
  BY <1>4, <1>7, ImageCounts
<1>9. k = a
  BY <1>6, <1>8 DEF Counts
<1> QED BY <1>1, <1>5, <1>9 DEF n

\* What is shown after a deletion: the first units as many as the index, and what is
\* left behind those hidden.
DeletedAt(s, t, index, length, q) ==
  LET old == Text(s, t)
  IN  Text(q, t) = SubSeq(old, 1, index) \o SubSeq(old, index + length + 1, Len(old))

LEMMA TextShrinks ==
  ASSUME NEW s, Sound(s), Counted(s), NEW t \in Root, NEW index \in Nat, NEW length \in Nat,
         NEW q, Sound(q), ShrunkAt(s, t, index, length, q), index <= s.len[t]
  PROVE  DeletedAt(s, t, index, length, q)
<1> DEFINE old == Text(s, t)
           n == Len(old)
           B == Before(s, t)
           L == Live(s, t)
           head == SubSeq(old, 1, index)
           tail == SubSeq(old, index + length + 1, n)
<1>1. /\ Row(old, Id, B) /\ ToSet(old) = L /\ IsFiniteSet(L) /\ Cardinality(L) = n
      /\ index <= Cardinality(L) /\ IsOrder(B) /\ OneWay(B) /\ L \subseteq Field(B)
  BY TextRow, TextShows, ListOrder, OrderRow, LiveListed DEF Counted
<1>2. PICK P : First(B, P) /\ Counts(P \cap L, index) /\ SweptTo(s, q, t, P, length)
  BY <1>1 DEF ShrunkAt
<1>3. PICK Q : \E d \in 0 .. length :
                 Swept(s, q, t, P, Q, d) /\ (d = length \/ L \subseteq Q)
  BY <1>2 DEF SweptTo
<1>4. PICK d \in 0 .. length : Swept(s, q, t, P, Q, d) /\ (d = length \/ L \subseteq Q)
  BY <1>3
<1>5. /\ First(B, Q) /\ P \subseteq Q /\ Before(q, t) = B /\ Live(q, t) = L \ (Q \ P)
      /\ Counts((Q \ P) \cap L, d)
  BY <1>4 DEF Swept
<1>6. Row(Text(q, t), Id, B) /\ ToSet(Text(q, t)) = L \ (Q \ P)
  BY <1>5, TextRow
<1>7. old \in Seq(Id) /\ n \in Nat /\ DOMAIN old = 1 .. n
  BY <1>1 DEF Row
<1> HIDE DEF old, n, B, L
<1>8. Counts(Q \cap L, index + d)
  <2>1. Q \cap L = (P \cap L) \cup ((Q \ P) \cap L) /\ (P \cap L) \cap ((Q \ P) \cap L) = {}
    BY <1>5
  <2> QED BY <1>2, <1>5, <2>1, CountApart DEF Counts
<1>9. index \in 0 .. n /\ \A i \in 1 .. n : old[i] \in P <=> i <= index
  BY <1>1, <1>2, <1>7, RowSplit DEF n
<1>10. index + d \in 0 .. n /\ \A i \in 1 .. n : old[i] \in Q <=> i <= index + d
  BY <1>1, <1>5, <1>7, <1>8, RowSplit DEF n
<1>11. d = length \/ index + d = n
  <2> SUFFICES ASSUME L \subseteq Q PROVE index + d = n
    BY <1>4
  <2>1. Q \cap L = L
    OBVIOUS
  <2> QED BY <1>1, <1>8, <2>1 DEF Counts
<1>12. Row(head, Id, B) /\ ToSet(head) = part(old, 1, index)
  BY <1>1, <1>9, RowPart DEF n
<1>13. Row(tail, Id, B) /\ ToSet(tail) = part(old, index + length + 1, n)
  <2>1. index + length + 1 \in Nat \ {0} /\ n \in 0 .. n
    BY <1>7
  <2> QED BY <1>1, <2>1, RowPart DEF n
<1> HIDE DEF head, tail
<1>14. \A x \in ToSet(head), y \in ToSet(tail) : <<x, y>> \in B /\ x # y
  <2> TAKE x \in ToSet(head), y \in ToSet(tail)
  <2>1. PICK i \in 1 .. n : x = old[i] /\ i <= index
    BY <1>7, <1>12 DEF part
  <2>2. PICK j \in 1 .. n : y = old[j] /\ index + length + 1 <= j
    BY <1>7, <1>13 DEF part
  <2>3. i < j
    BY <2>1, <2>2
  <2> QED BY <1>1, <1>7, <2>1, <2>2, <2>3 DEF Row
<1>15. Row(head \o tail, Id, B) /\ ToSet(head \o tail) = ToSet(head) \cup ToSet(tail)
  <2>1. Row(head \o tail, Id, B)
    BY <1>12, <1>13, <1>14, RowJoins
  <2>2. Joined(head, tail)
    BY <1>12, <1>13, <1>14, RowJoins
  <2> QED BY <2>1, <2>2 DEF Joined
<1>16. \A i \in 1 .. n : old[i] \in L \ (Q \ P) <=> i <= index \/ index + length + 1 <= i
  <2> TAKE i \in 1 .. n
  <2>1. old[i] \in L
    BY <1>1, <1>7 DEF ToSet
  <2>2. i <= index \/ ~(i <= index + d) <=> i <= index \/ index + length + 1 <= i
    BY <1>7, <1>9, <1>10, <1>11
  <2> QED BY <1>9, <1>10, <2>1, <2>2
<1>17. ToSet(head) \cup ToSet(tail) = L \ (Q \ P)
  <2>1. \A x \in ToSet(head) \cup ToSet(tail) : \E i \in 1 .. n :
          x = old[i] /\ (i <= index \/ index + length + 1 <= i)
    BY <1>7, <1>12, <1>13 DEF part
  <2>2. \A i \in 1 .. n : i <= index => old[i] \in ToSet(head)
    <3> TAKE i \in 1 .. n
    <3> HAVE i <= index
    <3>1. i \in DOMAIN old /\ 1 <= i
      BY <1>7
    <3> QED BY <1>12, <3>1 DEF part
  <2>3. \A i \in 1 .. n : index + length + 1 <= i => old[i] \in ToSet(tail)
    <3> TAKE i \in 1 .. n
    <3> HAVE index + length + 1 <= i
    <3>1. i \in DOMAIN old /\ i <= n
      BY <1>7
    <3> QED BY <1>13, <3>1 DEF part
  <2>4. \A x \in L : \E i \in 1 .. n : x = old[i]
    BY <1>1, <1>7 DEF ToSet
  <2>5. \A x \in ToSet(head) \cup ToSet(tail) : x \in L \ (Q \ P)
    BY <1>16, <2>1
  <2>6. \A x \in L \ (Q \ P) : x \in ToSet(head) \cup ToSet(tail)
    BY <1>16, <2>2, <2>3, <2>4
  <2> QED BY <2>5, <2>6
<1>18. ToSet(head \o tail) = ToSet(Text(q, t))
  BY <1>6, <1>15, <1>17
<1>19. Text(q, t) = head \o tail
  BY <1>1, <1>6, <1>15, <1>18, RowsEqual
<1> QED BY <1>19 DEF head, tail, old, n, DeletedAt

\* What is shown after an insertion: the first units as many as the index, the new
\* ones, and the others.
InsertedAt(s, t, index, n, q) ==
  LET old == Text(s, t)
      new == [k \in 1 .. n |-> newId(s.client, s.clock + k - 1)]
  IN  /\ index <= Len(old)
      /\ Text(q, t) = SubSeq(old, 1, index) \o new \o SubSeq(old, index + 1, Len(old))

LEMMA TextGrows ==
  ASSUME NEW s, Sound(s), Counted(s), s.client \in Client, s.clock = Size(s, s.client),
         NEW t \in Root, NEW index \in Nat, NEW n \in Nat, NEW q, Sound(q),
         GrownAt(s, t, index, n, q)
  PROVE  InsertedAt(s, t, index, n, q)
<1> DEFINE old == Text(s, t)
           m == Len(old)
           B == Before(s, t)
           D == Before(q, t)
           L == Live(s, t)
           a == s.clock
           new == [k \in 1 .. n |-> newId(s.client, a + k - 1)]
           X == Ids(newId(s.client, a), n)
           head == SubSeq(old, 1, index)
           tail == SubSeq(old, index + 1, m)
<1>1. /\ Row(old, Id, B) /\ ToSet(old) = L /\ Cardinality(L) = m /\ index <= m
      /\ index <= Cardinality(L) /\ IsOrder(B) /\ OneWay(D) /\ L \subseteq Field(B)
  BY TextRow, TextShows, ListOrder, OrderRow, LiveListed DEF Counted, GrownAt
<1>2. PICK P : First(B, P) /\ Counts(P \cap L, index) /\ Behind(s, q, t, P, X)
  BY <1>1 DEF GrownAt
<1>3. Spliced(B, D, P, X) /\ Live(q, t) = L \cup X
  BY <1>2 DEF Behind
<1>4. Row(Text(q, t), Id, D) /\ ToSet(Text(q, t)) = L \cup X
  BY <1>3, TextRow
<1>5. old \in Seq(Id) /\ m \in Nat /\ DOMAIN old = 1 .. m /\ \A i \in 1 .. m : old[i] \in L
  BY <1>1 DEF Row, ToSet
<1>6. a \in Nat /\ \A u \in Field(B) : clientOf(u) = s.client => clockOf(u) < a
  <2>1. Runs(s)
    BY DEF Sound
  <2>2. \A u \in Field(B) : u \in Integrated(s) /\ u \in Id
    BY FieldIs DEF Integrated, Field
  <2> QED BY <2>1, <2>2, Holds
<1>7. /\ new \in Seq(Id) /\ DOMAIN new = 1 .. n /\ Len(new) = n
      /\ \A i \in 1 .. n : /\ new[i] = newId(s.client, a + i - 1) /\ new[i] \in Id
                           /\ clientOf(new[i]) = s.client /\ clockOf(new[i]) = a + i - 1
  <2>1. \A i \in 1 .. n : /\ newId(s.client, a + i - 1) \in Id
                          /\ clientOf(newId(s.client, a + i - 1)) = s.client
                          /\ clockOf(newId(s.client, a + i - 1)) = a + i - 1
    <3> TAKE i \in 1 .. n
    <3>1. a + i - 1 \in Nat
      BY <1>6
    <3> QED BY <3>1 DEF newId, Id, clientOf, clockOf
  <2>2. new \in [1 .. n -> Id]
    BY <2>1
  <2>3. new \in Seq(Id)
    BY <2>2
  <2> QED BY <2>1, <2>3
<1>8. ToSet(new) = X
  <2>1. \A i \in 1 .. n : new[i] = Add(newId(s.client, a), i - 1) /\ i - 1 \in 0 .. n - 1
    BY <1>6, <1>7 DEF newId, Add
  <2>2. \A k \in 0 .. n - 1 : k + 1 \in 1 .. n /\ (k + 1) - 1 = k
    OBVIOUS
  <2> HIDE DEF new
  <2>3. \A x \in ToSet(new) : x \in X
    BY <1>7, <2>1 DEF ToSet, Ids
  <2>4. \A x \in X : x \in ToSet(new)
    <3> TAKE x \in X
    <3>1. PICK k \in 0 .. n - 1 : x = Add(newId(s.client, a), k)
      BY DEF Ids
    <3>2. k + 1 \in DOMAIN new /\ new[k + 1] = x
      BY <1>7, <2>1, <2>2, <3>1
    <3> QED BY <3>2 DEF ToSet
  <2> QED BY <2>3, <2>4
<1> HIDE DEF old, m, B, D, L, a, X, new
<1>9. \A x \in L, y \in X : x \in Id /\ y \in Id /\ x # y
  <2> TAKE x \in L, y \in X
  <2>1. PICK i \in 1 .. n : y = new[i]
    BY <1>7, <1>8 DEF ToSet
  <2>2. y \in Id /\ clientOf(y) = s.client /\ ~(clockOf(y) < a)
    BY <1>6, <1>7, <2>1
  <2>3. x \in Field(B) /\ x \in Id
    BY <1>1 DEF Field
  <2> QED BY <1>6, <2>2, <2>3
<1>10. \A x, y \in Id : /\ <<x, y>> \in B => <<x, y>> \in D
                        /\ x \in P /\ y \in X => <<x, y>> \in D
                        /\ x \in X /\ y \in L /\ y \notin P => <<x, y>> \in D
                        /\ x \in X /\ y \in X /\ clockOf(x) <= clockOf(y) => <<x, y>> \in D
  <2> TAKE x, y \in Id
  <2>1. x \in OptId /\ y \in OptId
    BY DEF OptId
  <2> QED BY <1>1, <1>3, <2>1 DEF Spliced, Le
<1>11. index \in 0 .. m /\ \A i \in 1 .. m : old[i] \in P <=> i <= index
  BY <1>1, <1>2, <1>5, RowSplit DEF m
<1>12. Row(old, Id, D)
  BY <1>1, <1>10, RowWider
<1>13. Row(head, Id, D) /\ ToSet(head) = part(old, 1, index)
  BY <1>11, <1>12, RowPart DEF m
<1>14. Row(tail, Id, D) /\ ToSet(tail) = part(old, index + 1, m)
  <2>1. index + 1 \in Nat \ {0} /\ m \in 0 .. m
    BY <1>5
  <2> QED BY <1>12, <2>1, RowPart DEF m
<1>15. Row(new, Id, D)
  <2>1. ASSUME NEW i \in 1 .. n, NEW j \in 1 .. n, i < j
        PROVE  <<new[i], new[j]>> \in D /\ new[i] # new[j]
    <3>1. new[i] \in X /\ new[j] \in X
      BY <1>7, <1>8 DEF ToSet
    <3>2. clockOf(new[i]) <= clockOf(new[j]) /\ clockOf(new[i]) # clockOf(new[j])
      BY <1>6, <1>7, <2>1
    <3> QED BY <1>7, <1>10, <3>1, <3>2
  <2> QED BY <1>7, <2>1 DEF Row
<1>16. \A x \in ToSet(head) : x \in P /\ x \in L
  BY <1>5, <1>11, <1>13 DEF part
<1>17. \A x \in ToSet(tail) : x \notin P /\ x \in L
  <2> TAKE x \in ToSet(tail)
  <2>1. PICK i \in 1 .. m : x = old[i] /\ index + 1 <= i
    BY <1>5, <1>14 DEF part
  <2>2. ~(i <= index)
    BY <2>1
  <2> QED BY <1>5, <1>11, <2>1, <2>2
<1>18. ToSet(head) \cup ToSet(tail) = L
  <2>1. \A i \in 1 .. m : old[i] \in ToSet(head) \/ old[i] \in ToSet(tail)
    <3> TAKE i \in 1 .. m
    <3>1. i \in DOMAIN old /\ 1 <= i /\ i <= m /\ (i <= index \/ index + 1 <= i)
      BY <1>5
    <3> QED BY <1>13, <1>14, <3>1 DEF part
  <2>2. \A x \in L : x \in ToSet(head) \cup ToSet(tail)
    BY <1>1, <1>5, <2>1 DEF ToSet
  <2> QED BY <1>16, <1>17, <2>2
<1> HIDE DEF head, tail
<1>19. Row(head \o new, Id, D) /\ Joined(head, new)
  <2>1. \A x \in ToSet(head), y \in ToSet(new) : <<x, y>> \in D /\ x # y
    BY <1>8, <1>9, <1>10, <1>16
  <2> QED BY <1>13, <1>15, <2>1, RowJoins
<1>20. Row((head \o new) \o tail, Id, D) /\ Joined(head \o new, tail)
  <2>1. \A x \in ToSet(head), y \in ToSet(tail) : <<x, y>> \in D /\ x # y
    <3> TAKE x \in ToSet(head), y \in ToSet(tail)
    <3>1. PICK i \in 1 .. m : x = old[i] /\ i <= index
      BY <1>5, <1>13 DEF part
    <3>2. PICK j \in 1 .. m : y = old[j] /\ index + 1 <= j
      BY <1>5, <1>14 DEF part
    <3>3. i < j
      BY <3>1, <3>2
    <3> QED BY <1>5, <1>12, <3>1, <3>2, <3>3 DEF Row
  <2>2. \A x \in ToSet(new), y \in ToSet(tail) : <<x, y>> \in D /\ x # y
    BY <1>8, <1>9, <1>10, <1>17
  <2>3. \A x \in ToSet(head \o new), y \in ToSet(tail) : <<x, y>> \in D /\ x # y
    BY <1>19, <2>1, <2>2 DEF Joined
  <2> DEFINE front == head \o new
  <2> HIDE DEF front
  <2>4. Row(front, Id, D) /\ \A x \in ToSet(front), y \in ToSet(tail) : <<x, y>> \in D /\ x # y
    BY <1>19, <2>3 DEF front
  <2>5. Row(front \o tail, Id, D) /\ Joined(front, tail)
    BY <1>14, <2>4, RowJoins
  <2> QED BY <2>5 DEF front
<1>21. ToSet((head \o new) \o tail) = ToSet(Text(q, t))
  <2>1. ToSet((head \o new) \o tail) = (ToSet(head) \cup X) \cup ToSet(tail)
    BY <1>8, <1>19, <1>20 DEF Joined
  <2> QED BY <1>4, <1>18, <2>1
<1>22. Text(q, t) = (head \o new) \o tail
  <2> DEFINE whole == (head \o new) \o tail
  <2> HIDE DEF whole
  <2>1. Row(whole, Id, D) /\ ToSet(whole) = ToSet(Text(q, t))
    BY <1>20, <1>21 DEF whole
  <2>2. Text(q, t) = whole
    BY <1>1, <1>4, <2>1, RowsEqual
  <2> QED BY <2>2 DEF whole
<1> QED BY <1>1, <1>22 DEF head, tail, old, m, new, a, InsertedAt

\* An insertion puts the new units where the user sees the index, and is refused just
\* past the end or where the clock would wrap: InsertIn lands between two units of
\* which as many are shown as the index says, and findIntegrationLeft leaves a unit
\* typed there in place.
THEOREM InsertionsLandAtIndex ==
  Spec => []InsertAtIndex
<1>1. ASSUME IInv, NEW r \in Client, NEW t \in Root, NEW n \in 1 .. MaxInsert,
             NEW index \in 0 .. doc[r].len[t] + 1
      PROVE  LET old == Text(doc[r], t)
                 new == [k \in 1 .. n |-> newId(r, doc[r].clock + k - 1)]
             IN  Text(InsertIn(newTransaction(doc[r]), t, index, n).store, t) =
                   IF index > Len(old) \/ doc[r].clock + n >= ClockMod THEN old
                   ELSE SubSeq(old, 1, index) \o new \o SubSeq(old, index + 1, Len(old))
  <2> DEFINE s == doc[r]
             tr == InsertIn(newTransaction(s), t, index, n)
             q == tr.store
  <2>1. /\ doc \in [Client -> StoreType] /\ s \in StoreType /\ Good(s, r)
    BY <1>1 DEF IInv, Holding, Fine
  <2>2. s.len[t] \in Nat /\ n \in Nat
    <3>1. n \in Nat
      BY InsertAssumption, BoundsAssumption, ClockModAssumption
    <3>2. s.len[t] \in Nat
      BY <2>1, LengthNat DEF Good
    <3> QED BY <3>1, <3>2
  <2>3. index \in Nat
    <3> HIDE DEF s
    <3> QED BY <2>2
  <2>4. /\ Sound(s) /\ Counted(s) /\ s.client = r /\ s.clock = Size(s, s.client)
        /\ s.client \in Client
    BY <2>1 DEF Good
  <2>5. s.len[t] = Len(Text(s, t))
    BY <2>4, TextShows DEF Counted
  <2> HIDE DEF tr
  <2>6. \/ tr = newTransaction(s) /\ (index > s.len[t] \/ s.clock + n >= ClockMod)
        \/ Grown(s, n, tr) /\ GrownAt(s, t, index, n, q)
    BY <2>1, <2>3, InsertGrows DEF tr
  <2>7. CASE tr = newTransaction(s) /\ (index > s.len[t] \/ s.clock + n >= ClockMod)
    <3>1. q = s
      BY <2>1, <2>7, Begins
    <3> QED BY <2>5, <2>7, <3>1 DEF tr, s
  <2>8. CASE Grown(s, n, tr) /\ GrownAt(s, t, index, n, q)
    <3>1. Sound(q) /\ s.clock + n < ClockMod
      BY <2>8 DEF Grown, Keeps
    <3>2. InsertedAt(s, t, index, n, q)
      <4> HIDE DEF s, q
      <4> QED BY <2>2, <2>3, <2>4, <2>8, <3>1, TextGrows
    <3>3. index <= Len(Text(s, t)) /\ ~(index > Len(Text(s, t))) /\ ~(s.clock + n >= ClockMod)
      <4>1. s.clock \in Nat /\ ClockMod \in Nat /\ Len(Text(s, t)) \in Nat
        BY <2>1, <2>2, <2>5, ClockModAssumption DEF StoreType
      <4> HIDE DEF s
      <4> QED BY <2>2, <2>3, <3>1, <3>2, <4>1 DEF InsertedAt
    <3> QED BY <2>4, <3>2, <3>3 DEF tr, s, InsertedAt
  <2> QED BY <2>6, <2>7, <2>8
<1>2. IInv => InsertAtIndex
  BY <1>1 DEF InsertAtIndex
<1> QED BY <1>2, AlwaysHolding, PTL

\* A deletion hides the units the user sees from the index on, as many as asked for
\* or are left, and no others.
THEOREM DeletionsLandAtIndex ==
  Spec => []DeleteAtIndex
<1>1. ASSUME IInv, NEW r \in Client, NEW t \in Root,
             NEW index \in 0 .. doc[r].len[t] - 1,
             NEW length \in 1 .. doc[r].len[t] - index + 1
      PROVE  LET old == Text(doc[r], t)
             IN  Text(DeleteIn(newTransaction(doc[r]), t, index, length).store, t) =
                   SubSeq(old, 1, index) \o SubSeq(old, index + length + 1, Len(old))
  <2> DEFINE s == doc[r]
             tr == DeleteIn(newTransaction(s), t, index, length)
             q == tr.store
             b == s.len[t]
  <2>1. s \in StoreType /\ Good(s, r)
    BY <1>1 DEF IInv, Holding, Fine
  <2>2. b \in Nat
    BY <2>1, LengthNat DEF Good
  <2>3. index \in Nat /\ length \in Nat /\ index <= b
    <3>1. index \in 0 .. b - 1 /\ length \in 1 .. b - index + 1
      OBVIOUS
    <3> HIDE DEF b
    <3> QED BY <2>2, <3>1
  <2>4. Sound(s) /\ Counted(s)
    BY <2>1 DEF Good
  <2> HIDE DEF tr
  <2>5. Shrunk(s, tr) /\ ShrunkAt(s, t, index, length, q)
    BY <2>1, <2>3, <2>4, DeleteShrinks DEF tr
  <2>6. Sound(q)
    BY <2>5 DEF Shrunk, Keeps
  <2> HIDE DEF s, q
  <2>7. index <= s.len[t]
    BY <2>3
  <2>8. DeletedAt(s, t, index, length, q)
    BY <2>3, <2>4, <2>5, <2>6, <2>7, TextShrinks
  <2> QED BY <2>8 DEF s, q, tr, DeletedAt
<1>2. IInv => DeleteAtIndex
  BY <1>1 DEF DeleteAtIndex
<1> QED BY <1>2, AlwaysHolding, PTL

-----------------------------------------------------------------------------
(***************************************************************************)
(* What was told in full is integrated in full.                            *)
(***************************************************************************)
\* Units of a world with all they depend on.
Entire(S, w) ==
  \A u \in S : /\ u \in Id /\ {w.left[u], w.right[u]} \subseteq S \cup {Nil}
               /\ clockOf(u) > 0 => Sub(u, 1) \in S

\* What a replica has, it has with all that depends on.
LEMMA PartIsEntire ==
  ASSUME IInv, NEW w, Shared(doc, sent, w), NEW r \in Client
  PROVE  Entire(Integrated(doc[r]), w)
<1> DEFINE s == doc[r]
           S == Integrated(s)
<1>1. Sound(s) /\ Follows(s, w) /\ S \subseteq w.made /\ IsWorld(w) /\ \A t \in Root : Yata(Before(s, t), w)
  BY PartOfWorld
<1>2. Runs(s) /\ s \in StoreType
  BY <1>1 DEF Sound, Runs
<1>3. ASSUME NEW u \in S
      PROVE  u \in Id /\ {w.left[u], w.right[u]} \subseteq S \cup {Nil}
  <2>1. PICK x \in DOMAIN s.heap : u \in Units(s, x)
    BY <1>3 DEF Integrated
  <2> DEFINE t == s.heap[x].parent
             B == Before(s, t)
  <2>2. t \in Root
    <3> HIDE DEF s
    <3>1. s.heap[x] \in Node
      BY <1>2, <2>1, HeapFacts
    <3> QED BY <3>1 DEF Node
  <2>3. u \in Listed(s, t) /\ Listed(s, t) \subseteq S
    BY <2>1 DEF Listed, Integrated
  <2>4. Field(B) = Listed(s, t) /\ Yata(B, w) /\ u \in Id
    <3>1. Field(B) = Listed(s, t)
      BY <1>1, <2>2, OrderRow
    <3> QED BY <1>1, <2>2, <2>3, <3>1 DEF Field
  <2>5. w.left[u] \in OptId /\ w.right[u] \in OptId
    BY <1>1, <2>4 DEF IsWorld, World
  <2> HIDE DEF B, t, s, S
  <2>6. /\ w.left[u] # Nil => Le(B, w.left[u], u)
        /\ w.right[u] # Nil => Le(B, u, w.right[u])
    BY <2>3, <2>4 DEF Yata, Between
  <2>7. /\ w.left[u] # Nil => w.left[u] \in Field(B)
        /\ w.right[u] # Nil => w.right[u] \in Field(B)
    BY <2>4, <2>5, <2>6 DEF Yata, IsOrder, OptId
  <2> QED BY <2>3, <2>4, <2>7
<1>4. ASSUME NEW u \in S, clockOf(u) > 0
      PROVE  Sub(u, 1) \in S
  <2>1. u \in Id /\ clientOf(u) \in Client /\ clockOf(u) \in Nat
    BY <1>3, IdFacts
  <2>2. Sub(u, 1) \in Id /\ clientOf(Sub(u, 1)) = clientOf(u) /\ clockOf(Sub(u, 1)) = clockOf(u) - 1
    <3>1. Sub(u, 1) = <<clientOf(u), clockOf(u) - 1>>
      BY DEF Sub, clientOf, clockOf
    <3>2. clockOf(u) - 1 \in Nat
      BY <1>4, <2>1
    <3>3. \A a \in Client, b \in Nat : <<a, b>> \in Id /\ clientOf(<<a, b>>) = a /\ clockOf(<<a, b>>) = b
      BY DEF Id, clientOf, clockOf
    <3> QED BY <2>1, <3>1, <3>2, <3>3
  <2> DEFINE v == Sub(u, 1)
             n == Size(s, clientOf(u))
  <2>3. clockOf(u) < n /\ n \in Nat
    BY <1>2, <2>1, Holds
  <2>4. clockOf(v) < n
    <3> HIDE DEF n, v
    <3>1. \A a, b \in Nat : a < b => a - 1 < b
      OBVIOUS
    <3> QED BY <2>1, <2>2, <2>3, <3>1 DEF v
  <2> QED BY <1>2, <2>2, <2>4, Holds
<1> QED BY <1>3, <1>4 DEF Entire, S, s

\* A replica that was told of units and of all they depend on has them: the
\* one of least rank would not wait for anything.
LEMMA NothingIsMissed ==
  ASSUME Split, NEW M \in SUBSET Id, Closed(M), NEW s, NEW r, NEW told, Fine(s, r, M, told),
         NEW w, IsWorld(w), \A u \in ToSet(s.pending) : Spelled(u, w),
         NEW S, S \subseteq w.made, Entire(S, w), S \subseteq told.ins
  PROVE  S \subseteq Integrated(s)
<1> DEFINE waiting == ToSet(s.pending)
           T == {w.rank[u] : u \in S \ Integrated(s)}
<1>1. Sound(s) /\ Known(s, M) /\ Insertions(s, told.ins)
  BY DEF Fine, Good
<1>2. w.rank \in [Id -> Nat] /\ \A u \in S : u \in Id
  BY DEF IsWorld, World, Entire
<1>3. SUFFICES ASSUME NEW z \in S, z \notin Integrated(s)
               PROVE  FALSE
  OBVIOUS
<1>4. T \in SUBSET Nat /\ T # {}
  BY <1>2, <1>3
<1>5. PICK n \in T : \A m \in T : n <= m
  BY <1>4, Least
<1>6. PICK u \in S \ Integrated(s) : n = w.rank[u]
  OBVIOUS
<1>7. ASSUME NEW v \in S, w.rank[v] < w.rank[u]
       PROVE  v \in Integrated(s)
  <2> SUFFICES ASSUME v \notin Integrated(s) PROVE FALSE
    OBVIOUS
  <2>1. w.rank[v] \in T
    OBVIOUS
  <2>2. w.rank[u] <= w.rank[v] /\ w.rank[u] \in Nat /\ w.rank[v] \in Nat
    BY <1>2, <1>5, <1>6, <2>1
  <2> QED BY <1>7, <2>2
<1> HIDE DEF T
<1>8. \E p \in waiting : p.id = u
  <2>1. u \in StructIds(waiting)
    BY <1>1, <1>6 DEF Insertions
  <2>2. PICK p \in waiting : u \in Ids(p.id, p.len)
    BY <2>1 DEF StructIds
  <2>3. p \in UpdateItem /\ p.len = 1
    BY <1>1, <2>2, DepsMade DEF Known, OneUnit
  <2>4. Ids(p.id, p.len) = {p.id}
    BY <2>3, OneId DEF UpdateItem
  <2> QED BY <2>2, <2>4
<1>9. PICK p \in waiting : p.id = u
  BY <1>8
<1>10. p \in UpdateItem /\ p.len = 1
  BY <1>1, <1>9, DepsMade DEF Known, OneUnit
<1>11. w.left[u] = p.originLeftId /\ w.right[u] = p.originRightId
  <2>1. Ids(p.id, p.len) = {p.id}
    BY <1>10, OneId DEF UpdateItem
  <2> QED BY <1>9, <2>1 DEF Spelled
<1>12. Deps(p) \subseteq Integrated(s)
  <2>1. u \in w.made /\ u \in S
    BY <1>6
  <2>2. ASSUME NEW o \in {w.left[u], w.right[u]}, o # Nil
        PROVE  o \in Integrated(s)
    <3>1. w.rank[o] < w.rank[u]
      BY <2>1, <2>2 DEF IsWorld
    <3>2. o \in S
      BY <2>1, <2>2 DEF Entire
    <3> QED BY <1>7, <3>1, <3>2
  <2>3. ASSUME clockOf(u) > 0
        PROVE  Sub(u, 1) \in Integrated(s)
    <3>1. w.rank[Sub(u, 1)] < w.rank[u]
      BY <2>1, <2>3 DEF IsWorld
    <3>2. Sub(u, 1) \in S
      BY <2>1, <2>3 DEF Entire
    <3> QED BY <1>7, <3>1, <3>2
  <2> QED BY <1>9, <1>11, <2>2, <2>3 DEF Deps
<1>13. depsArrived(s, p)
  BY <1>1, <1>10, <1>12, DepsAre
<1> QED BY <1>1, <1>9, <1>13 DEF Insertions, Waits

\* Replicas told of the same insertions have the same units.
LEMMA HaveAlike ==
  ASSUME IInv, Split, NEW w, Shared(doc, sent, w), NEW r \in Client, NEW q \in Client, got[r] = got[q]
  PROVE  Integrated(doc[r]) \subseteq Integrated(doc[q])
<1>1. Integrated(doc[r]) \subseteq w.made /\ Entire(Integrated(doc[r]), w)
  BY PartOfWorld, PartIsEntire
<1>2. Integrated(doc[r]) \subseteq got[q].ins
  BY DEF IInv, Holding, Fine, Insertions
<1>3. Fine(doc[q], q, Made(doc), got[q]) /\ Made(doc) \in SUBSET Id /\ Closed(Made(doc))
  BY MadeFacts DEF IInv, Holding
<1>4. IsWorld(w) /\ \A u \in ToSet(doc[q].pending) : Spelled(u, w)
  BY PartOfWorld
<1> QED BY <1>1, <1>2, <1>3, <1>4, NothingIsMissed

\* A snapshot marks the tombstones.
LEMMA SnapshotMarks ==
  ASSUME NEW s, Sound(s), NEW t \in Root
  PROVE  LET w == Snapshot(s, t)
         IN  w \in Seq(Shot) /\ \A i \in DOMAIN w : w[i].deleted <=> w[i].id \in Tombstones(s)
<1> DEFINE w == Snapshot(s, t)
           l == Chain(s, t)
           n == Len(l)
<1>1. Shows(s, l, n, w) /\ Runs(s)
  BY SnapshotShows DEF Sound
<1>2. DOMAIN l = 1 .. n /\ ToSet(l) = {y \in DOMAIN s.heap : s.heap[y].parent = t}
  BY DEF Sound, Linked, ListOf
<1> HIDE DEF w, l, n
<1>3. w \in Seq(Shot) /\ DOMAIN w = 1 .. Len(w)
  BY <1>1 DEF Shows
<1>4. ASSUME NEW i \in DOMAIN w
      PROVE  w[i].deleted <=> w[i].id \in Tombstones(s)
  <2>1. PICK a \in 1 .. n : w[i].id \in Units(s, l[a]) /\ w[i].deleted = s.heap[l[a]].deleted
    BY <1>1, <1>3 DEF Shows
  <2>2. l[a] \in DOMAIN s.heap
    BY <1>2, <2>1 DEF ToSet
  <2> DEFINE u == w[i].id
             x == l[a]
  <2>3. u \in Units(s, x) /\ x \in DOMAIN s.heap /\ w[i].deleted = s.heap[x].deleted
    BY <2>1, <2>2
  <2> HIDE DEF u, x
  <2>4. ASSUME u \in Tombstones(s)
        PROVE  s.heap[x].deleted
    <3>1. PICK y \in DOMAIN s.heap : s.heap[y].deleted /\ u \in Units(s, y)
      BY <2>4 DEF Tombstones
    <3>2. x = y
      BY <1>1, <2>3, <3>1, NodesApart
    <3> QED BY <3>1, <3>2
  <2>5. ASSUME s.heap[x].deleted
        PROVE  u \in Tombstones(s)
    BY <2>3, <2>5 DEF Tombstones
  <2>6. w[i].deleted \in BOOLEAN
    <3>1. w[i] \in Shot
      BY <1>3
    <3> QED BY <3>1 DEF Shot
  <2> QED BY <2>3, <2>4, <2>5 DEF u
<1> QED BY <1>3, <1>4 DEF w

\* Strong eventual consistency: with the wire codec, two replicas told of the
\* same insertions and deletions show the same lists, tombstones included,
\* however the updates were batched, ordered, repeated or delayed.
THEOREM ReplicasConverge ==
  ASSUME Split
  PROVE  Spec => []Convergence
<1>1. IInv /\ OneWorld => Convergence
  <2> SUFFICES ASSUME IInv, OneWorld, NEW r \in Client, NEW q \in Client, got[r] = got[q], NEW t \in Root
               PROVE  Snapshot(doc[r], t) = Snapshot(doc[q], t)
    BY DEF Convergence
  <2> DEFINE v == Snapshot(doc[r], t)
             w == Snapshot(doc[q], t)
             l == idsOf(v)
             m == idsOf(w)
             S == Integrated(doc[r])
  <2>1. PICK world : Shared(doc, sent, world)
    BY DEF OneWorld
  <2>2. S = Integrated(doc[q])
    BY <2>1, HaveAlike
  <2>3. Tombstones(doc[r]) = Tombstones(doc[q])
    BY <2>2 DEF IInv, Holding, Fine, Deletions
  <2>4. Sound(doc[r]) /\ Sound(doc[q])
    BY <2>1, PartOfWorld
  <2>5. l = m
    <3>1. Order(r, t) = l /\ Order(q, t) = m
      BY DEF Order, idsOf
    <3>2. /\ Row(l, Id, Before(doc[r], t)) /\ OneWay(Before(doc[r], t)) /\ ToSet(l) = Listed(doc[r], t)
          /\ Row(m, Id, Before(doc[q], t)) /\ OneWay(Before(doc[q], t)) /\ ToSet(m) = Listed(doc[q], t)
      BY <2>4, OrderRow
    <3>3. Listed(doc[r], t) \subseteq S /\ Listed(doc[q], t) \subseteq S
      BY <2>2 DEF Listed, Integrated
    <3>4. SelectIn(l, S) = SelectIn(m, S)
      BY <2>1, <2>2, <3>1, OrderedAlike
    <3> HIDE DEF l, m, S
    <3>5. ASSUME NEW a, NEW B, Row(a, Id, B), OneWay(B), ToSet(a) \subseteq S
          PROVE  SelectIn(a, S) = a
      <4>1. Row(SelectIn(a, S), Id, B)
        BY <3>5, RowSelected
      <4>2. a \in Seq(Id)
        BY <3>5 DEF Row
      <4>3. ToSet(SelectIn(a, S)) = ToSet(a)
        <5>1. ToSet(SelectIn(a, S)) = ToSet(a) \cap S
          BY <4>2, SelectSet
        <5> QED BY <3>5, <5>1
      <4> QED BY <3>5, <4>1, <4>3, RowsEqual
    <3> QED BY <3>2, <3>3, <3>4, <3>5
  <2>6. /\ v \in Seq(Shot) /\ \A i \in DOMAIN v : v[i].deleted <=> v[i].id \in Tombstones(doc[r])
        /\ w \in Seq(Shot) /\ \A i \in DOMAIN w : w[i].deleted <=> w[i].id \in Tombstones(doc[q])
    BY <2>4, SnapshotMarks
  <2> HIDE DEF v, w
  <2>7. DOMAIN v = DOMAIN w /\ \A i \in DOMAIN v : v[i].id = w[i].id
    <3>1. DOMAIN l = DOMAIN v /\ DOMAIN m = DOMAIN w
      BY DEF idsOf
    <3>2. (\A i \in DOMAIN v : l[i] = v[i].id) /\ (\A i \in DOMAIN w : m[i] = w[i].id)
      BY DEF idsOf
    <3> HIDE DEF l, m
    <3> QED BY <2>5, <3>1, <3>2
  <2>8. \A i \in DOMAIN v : v[i] = w[i]
    <3> TAKE i \in DOMAIN v
    <3>1. v[i] \in Shot /\ w[i] \in Shot
      BY <2>6, <2>7
    <3>2. v[i].id = w[i].id /\ (v[i].deleted <=> w[i].deleted)
      BY <2>3, <2>6, <2>7
    <3> QED BY <3>1, <3>2 DEF Shot
  <2>9. Len(v) = Len(w)
    <3>1. DOMAIN v = 1 .. Len(v) /\ DOMAIN w = 1 .. Len(w) /\ Len(v) \in Nat /\ Len(w) \in Nat
      BY <2>6
    <3>2. \A a, b \in Nat : 1 .. a = 1 .. b => ~(a < b)
      <4> TAKE a, b \in Nat
      <4> SUFFICES ASSUME 1 .. a = 1 .. b, a < b PROVE FALSE
        OBVIOUS
      <4>1. b \in 1 .. b /\ b \notin 1 .. a
        OBVIOUS
      <4> QED BY <4>1
    <3>3. \A a, b \in Nat : ~(a < b) /\ ~(b < a) => a = b
      OBVIOUS
    <3> DEFINE a == Len(v)
               b == Len(w)
    <3>4. a \in Nat /\ b \in Nat /\ 1 .. a = 1 .. b
      BY <2>7, <3>1
    <3> HIDE DEF a, b
    <3>5. a = b
      BY <3>2, <3>3, <3>4
    <3> QED BY <3>5 DEF a, b
  <2>10. v = w
    BY <2>6, <2>8, <2>9
  <2> QED BY <2>10 DEF v, w
<1> QED BY <1>1, AlwaysHolding, AlwaysOneWorld, PTL


\* A whole state brings all its sender has, since it is entire.
LEMMA SyncBrings ==
  ASSUME IInv, OneWorld, Split, NEW r \in Client, NEW q \in Client, Sync(r, q)
  PROVE  /\ IInv' /\ Integrated(doc[q]) \subseteq Integrated(doc'[r])
         /\ Tombstones(doc[q]) \subseteq Tombstones(doc'[r])
<1> DEFINE S == Integrated(doc[q])
<1>1. PICK structs, spans : AppliesState(r, q, structs, spans)
  BY SyncApplies
<1>2. PICK w : Shared(doc, sent, w)
  BY DEF OneWorld
<1>3. S \subseteq w.made /\ Entire(S, w) /\ IsWorld(w) /\ Follows(doc[q], w)
  BY <1>2, PartOfWorld, PartIsEntire
<1>4. Applies(r, structs, spans) /\ StructIds(ToSet(structs)) = S /\ NamedBy(ToSet(spans)) = Tombstones(doc[q])
      /\ \A u \in ToSet(structs) : Spelled(u, w)
  BY <1>1, <1>3 DEF AppliesState, Faithful
<1>5. IInv'
  BY <1>4, ApplyHolds
<1>6. Shared(doc, sent, w)'
  BY <1>2, <1>4, ApplyShares
<1>7. S \subseteq got'[r].ins /\ Tombstones(doc[q]) \subseteq got'[r].del
  <2>1. got \in [Client -> [ins : SUBSET Id, del : SUBSET Id]]
    BY DEF IInv, Holding
  <2>2. got'[r] = [ins |-> got[r].ins \cup S, del |-> got[r].del \cup Tombstones(doc[q])]
    BY <1>4, <2>1 DEF Applies
  <2> QED BY <2>2
<1>8. S \subseteq Integrated(doc'[r])
  <2> DEFINE d == doc'
             M == Made(d)
             s == d[r]
             told == got'[r]
  <2>1. d \in [Client -> StoreType] /\ Fine(s, r, M, told)
    BY <1>5 DEF IInv, Holding
  <2>2. M \in SUBSET Id /\ Closed(M)
    <3> HIDE DEF d
    <3> QED BY <2>1, MadeFacts
  <2>3. \A u \in ToSet(s.pending) : Spelled(u, w)
    BY <1>6 DEF Shared, Waiting
  <2>4. S \subseteq told.ins
    BY <1>7
  <2> HIDE DEF S, M, s, told, d
  <2>5. S \subseteq Integrated(s)
    BY <1>3, <2>1, <2>2, <2>3, <2>4, NothingIsMissed
  <2> QED BY <2>5 DEF s, d
<1>9. Tombstones(doc'[r]) = got'[r].del \cap Integrated(doc'[r])
  BY <1>5 DEF IInv, Holding, Fine, Deletions
<1>10. Tombstones(doc[q]) \subseteq S
  BY DEF Tombstones, Integrated
<1> QED BY <1>5, <1>7, <1>8, <1>9, <1>10

\* With the wire codec, a whole-state update leaves nothing of its sender's
\* behind: though its runs were joined to be written and split to be read, all
\* the sender has is then here and all it hides is hidden here.
THEOREM SyncsCatchUp ==
  ASSUME Split
  PROVE  Spec => SyncCatchesUp
<1>1. IInv /\ OneWorld =>
        \A r, q \in Client :
          r # q /\ Sync(r, q) =>
            /\ Integrated(doc[q]) \subseteq Integrated(doc'[r])
            /\ Tombstones(doc[q]) \subseteq Tombstones(doc'[r])
  BY SyncBrings
<1> QED BY <1>1, AlwaysHolding, AlwaysOneWorld, PTL DEF SyncCatchesUp

-----------------------------------------------------------------------------
(***************************************************************************)
(* Types.                                                                  *)
(***************************************************************************)
\* All that was made was sent, it is no more than the bound, and what waits is
\* something sent.
Bounded(d, structs) ==
  /\ StructIds(structs) = Made(d)
  /\ IsFiniteSet(Made(d)) /\ Cardinality(Made(d)) <= MaxUnits
  /\ Waiting(d) \subseteq structs

\* Nothing is made at first.
LEMMA InitBounded ==
  Init => Bounded(doc, sent)
<1> HAVE Init
<1>1. \A r \in Client : doc[r].pending = <<>> /\ doc[r].clock = 0
  BY DEF Init, newStore
<1>2. Made(doc) = {}
  <2>1. \A u \in Id : clientOf(u) \in Client /\ clockOf(u) \in Nat
    BY IdFacts
  <2> QED BY <1>1, <2>1 DEF Made
<1>3. sent = {} /\ Waiting(doc) = {} /\ StructIds({}) = {}
  <2>1. ToSet(<<>>) = {}
    BY DEF ToSet
  <2> QED BY <1>1, <2>1 DEF Init, Waiting, StructIds
<1>4. IsFiniteSet({}) /\ Cardinality({}) = 0
  BY FS_EmptySet
<1>5. 0 <= MaxUnits
  BY BoundsAssumption
<1> QED BY <1>2, <1>3, <1>4, <1>5 DEF Bounded

\* The units of an insertion are sent, and the bound leaves room for them.
LEMMA InsertBounded ==
  ASSUME IInv, Bounded(doc, sent), NEW r \in Client, NEW t \in Root, NEW index \in Nat,
         NEW n \in 1 .. MaxInsert, Insert(r, t, index, n)
  PROVE  Bounded(doc', sent')
<1> DEFINE s == doc[r]
           tr == InsertIn(newTransaction(s), t, index, n)
           M == Made(doc)
           x == newId(r, s.clock)
           new == Ids(x, n)
<1>1. /\ doc \in [Client -> StoreType] /\ s \in StoreType /\ Fine(s, r, M, got[r])
  BY DEF IInv, Holding
<1>2. /\ doc' = [doc EXCEPT ![r] = tr.store]
      /\ sent' = sent \cup Emitted(tr.store, tr.insertSet)
      /\ Cardinality(StructIds(sent)) + n <= MaxUnits
  BY DEF Insert
<1>3. n \in Nat /\ n # 0
  BY BoundsAssumption
<1>4. Good(s, r) /\ s.clock \in Nat /\ s.client = r
  BY <1>1 DEF Fine, StoreType, Good
<1>5. tr = newTransaction(s) \/ Grown(s, n, tr)
  BY <1>1, <1>4, InsertGrows
<1> HIDE DEF tr
<1>6. CASE tr = newTransaction(s)
  <2>1. tr.store = s /\ tr.insertSet = <<>>
    BY <1>1, <1>6, Begins
  <2>2. Emitted(s, <<>>) = {}
    BY DEF Emitted
  <2>3. doc' = doc /\ sent' = sent
    BY <1>1, <1>2, <2>1, <2>2
  <2> QED BY <2>3
<1>7. CASE Grown(s, n, tr)
  <2> DEFINE q == tr.store
             e == Emitted(q, tr.insertSet)
  <2>1. /\ Keeps(s, q) /\ q.clock = s.clock + n /\ q.pending = s.pending
        /\ tr.insertSet = typedSpans(x, n)
        /\ \A i \in 1 .. n : Add(x, i - 1) \in DOMAIN q.heap /\ q.heap[Add(x, i - 1)].len = 1
    BY <1>4, <1>7 DEF Grown, typedSpans
  <2>2. x \in Id /\ Anchored(s)
    BY <1>4 DEF Good, newId, Id
  <2> HIDE DEF x, q
  <2>3. Sound(q) /\ Anchored(q) /\ q \in StoreType
    BY <1>4, <2>1, <2>2 DEF Keeps, Sound, Runs
  <2>4. StructIds(e) = new
    BY <1>3, <2>1, <2>2, <2>3, EmittedIs DEF IsEmitted
  <2> HIDE DEF e
  <2>5. doc' = [doc EXCEPT ![r] = q] /\ sent' = sent \cup e
    BY <1>2 DEF q, e
  <2>6. Made(doc') = M \cup new
    <3>1. MakesMore(doc, r, q, n)
      BY <1>1, <1>3, <2>1, <2>3, MadeMore
    <3> QED BY <2>5, <3>1 DEF MakesMore, x
  <2>7. \A c \in Client : doc'[c] = IF c = r THEN q ELSE doc[c]
    BY <1>1, <2>5
  <2>8. Waiting(doc') \subseteq Waiting(doc)
    BY <2>1, <2>7 DEF Waiting
  <2>9. IsFiniteSet(new) /\ Cardinality(new) = n
    BY <1>3, <2>2, IdsCount
  <2>10. StructIds(sent') = Made(doc')
    BY <2>4, <2>5, <2>6 DEF Bounded, StructIds
  <2> HIDE DEF new, M
  <2>11. IsFiniteSet(M) /\ Cardinality(M) + n <= MaxUnits
    BY <1>2 DEF Bounded, M
  <2>12. IsFiniteSet(M \cup new) /\ Cardinality(M \cup new) <= MaxUnits
    <3>1. /\ IsFiniteSet(M \cup new)
          /\ Cardinality(M \cup new) = Cardinality(M) + Cardinality(new) - Cardinality(M \cap new)
      BY <2>9, <2>11, FS_Union
    <3>2. IsFiniteSet(M \cap new)
      BY <2>9, FS_Subset
    <3>3. Cardinality(M) \in Nat /\ Cardinality(M \cap new) \in Nat /\ MaxUnits \in Nat
      BY <2>11, <3>2, FS_CardinalityType, BoundsAssumption
    <3>4. \A a, b, c, m \in Nat : a + b <= m => a + b - c <= m
      OBVIOUS
    <3> QED BY <1>3, <2>9, <2>11, <3>1, <3>3, <3>4
  <2> QED BY <2>5, <2>6, <2>8, <2>10, <2>12 DEF Bounded
<1> QED BY <1>5, <1>6, <1>7

\* A replica that makes nothing, and buffers what was sent or it buffered.
LEMMA BoundedOn ==
  ASSUME NEW d \in [Client -> StoreType], NEW structs, Bounded(d, structs), NEW r \in Client,
         NEW q \in StoreType, q.clock = d[r].clock, ToSet(q.pending) \subseteq structs
  PROVE  Bounded([d EXCEPT ![r] = q], structs)
<1> DEFINE e == [d EXCEPT ![r] = q]
<1>1. \A c \in Client : e[c] = IF c = r THEN q ELSE d[c]
  OBVIOUS
<1>2. Made(e) = Made(d)
  BY MadeSame
<1> HIDE DEF e
<1>3. Waiting(e) \subseteq structs
  <2> SUFFICES ASSUME NEW c \in Client, NEW u \in ToSet(e[c].pending)
               PROVE  u \in structs
    BY DEF Waiting
  <2>1. c # r => u \in Waiting(d)
    BY <1>1 DEF Waiting
  <2> QED BY <1>1, <2>1 DEF Bounded
<1> QED BY <1>2, <1>3 DEF Bounded, e

\* What an update leaves in the buffer was there or came with it, and is missing.
LEMMA ApplyBuffers ==
  ASSUME IInv, NEW r \in Client, NEW structs, NEW spans, Applies(r, structs, spans)
  PROVE  \E q \in StoreType :
           /\ doc' = [doc EXCEPT ![r] = q] /\ sent' = sent /\ q.clock = doc[r].clock
           /\ \A u \in ToSet(q.pending) :
                /\ u \in ToSet(doc[r].pending) \/ u \in ToSet(structs)
                /\ ~hasNode(q, u.id)
<1> DEFINE s == doc[r]
           q == applySyncUpdate(newTransaction(s), structs, spans).store
           M == Made(doc)
<1>1. doc \in [Client -> StoreType] /\ s \in StoreType /\ Fine(s, r, M, got[r])
  BY DEF IInv, Holding
<1>2. structs \in Seq(Rooted(M)) /\ spans \in Seq(NoWrap)
      /\ doc' = [doc EXCEPT ![r] = q] /\ sent' = sent
  BY DEF Applies
<1>3. \E p : Updated(s, structs, p) /\ DeletesApplied(p, spans, q)
  BY <1>1, <1>2, ApplyUpdates DEF M
<1>4. PICK p : Updated(s, structs, p) /\ DeletesApplied(p, spans, q)
  BY <1>3
<1> HIDE DEF q, M
<1>5. q \in StoreType /\ q.clock = s.clock
  BY <1>4 DEF Updated, DeletesApplied, Keeps, Sound, Runs
<1>6. ASSUME NEW u \in ToSet(q.pending)
      PROVE  /\ u \in ToSet(s.pending) \/ u \in ToSet(structs)
             /\ ~hasNode(q, u.id)
  <2>1. u \in ToSet(p.pending)
    BY <1>4, <1>6 DEF DeletesApplied
  <2>2. u \in ToSet(s.pending) \/ u \in ToSet(structs)
    BY <1>4, <2>1 DEF Updated
  <2>3. ~hasNode(p, u.id) /\ u \in Item
    BY <1>4, <2>1 DEF Updated, Waits, ToSet
  <2>4. Sound(p) /\ Sound(q) /\ Integrated(q) = Integrated(p) /\ u \in UpdateItem
    BY <1>4, <2>3 DEF Updated, DeletesApplied, Keeps, Item
  <2> QED BY <2>2, <2>3, <2>4, DepsAre
<1> QED BY <1>2, <1>5, <1>6

\* Every step keeps the bounds.
LEMMA NextBounded ==
  ASSUME Split \/ ~Syncs, IInv, OneWorld, Bounded(doc, sent), [Next]_vars
  PROVE  Bounded(doc', sent')
<1>1. CASE UNCHANGED vars
  BY <1>1 DEF vars
<1>2. doc \in [Client -> StoreType] /\ \A r \in Client : ToSet(doc[r].pending) \subseteq sent
  BY DEF IInv, Holding, Bounded, Waiting
<1>3. ASSUME NEW r \in Client, NEW q \in Client \ {r}, Sync(r, q)
      PROVE  Bounded(doc', sent')
  <2>1. Split
    BY <1>3 DEF Sync
  <2>2. PICK structs, spans : AppliesState(r, q, structs, spans)
    BY <1>3, SyncApplies
  <2>3. PICK s \in StoreType :
          /\ doc' = [doc EXCEPT ![r] = s] /\ sent' = sent /\ s.clock = doc[r].clock
          /\ \A u \in ToSet(s.pending) :
               /\ u \in ToSet(doc[r].pending) \/ u \in ToSet(structs)
               /\ ~hasNode(s, u.id)
    BY <2>2, ApplyBuffers DEF AppliesState
  <2>4. IInv' /\ Integrated(doc[q]) \subseteq Integrated(doc'[r])
    BY <1>3, <2>1, SyncBrings
  <2>5. doc'[r] = s /\ Sound(s)
    <3>1. doc'[r] = s
      BY <1>2, <2>3
    <3> QED BY <2>4, <3>1 DEF IInv, Holding, Fine, Good
  <2>6. ASSUME NEW u \in ToSet(s.pending), u \in ToSet(structs)
        PROVE  FALSE
    <3>1. u \in UpdateItem
      BY <2>2, <2>6 DEF AppliesState, Applies, Carried, Rooted, Item
    <3>2. u.id \in StructIds(ToSet(structs))
      <4>1. u.id \in Id /\ u.len \in Nat \ {0} /\ clockOf(u.id) \in Nat
        BY <3>1, IdFacts DEF UpdateItem
      <4>2. clockOf(u.id) <= clockOf(u.id) /\ clockOf(u.id) < clockOf(u.id) + u.len
        BY <4>1
      <4>3. u.id \in Ids(u.id, u.len)
        BY <4>1, <4>2, IdsAre
      <4> QED BY <2>6, <4>3 DEF StructIds
    <3>3. u.id \in Integrated(s)
      BY <2>2, <2>4, <2>5, <3>2 DEF AppliesState
    <3> QED BY <2>3, <2>5, <2>6, <3>1, <3>3, DepsAre
  <2>7. ToSet(s.pending) \subseteq sent
    BY <1>2, <2>3, <2>6
  <2> QED BY <1>2, <2>3, <2>7, BoundedOn
<1>4. ASSUME NEW r \in Client, Step(r)
      PROVE  Bounded(doc', sent')
  <2>1. \A t \in Root : doc[r].len[t] \in Nat
    <3>1. Counted(doc[r])
      BY DEF IInv, Holding, Fine, Good
    <3> QED BY <3>1, FS_CardinalityType DEF Counted
  <2>2. ASSUME NEW t \in Root, NEW n \in 1 .. MaxInsert,
               NEW index \in 0 .. doc[r].len[t] + 1, Insert(r, t, index, n)
        PROVE  Bounded(doc', sent')
    <3>1. index \in Nat
      BY <2>1
    <3> QED BY <2>2, <3>1, InsertBounded
  <2>3. ASSUME NEW t \in Root, NEW index \in 0 .. doc[r].len[t] - 1,
               NEW length \in 1 .. doc[r].len[t] - index + 1, Delete(r, t, index, length)
        PROVE  Bounded(doc', sent')
    <3>1. index \in Nat /\ length \in Nat
      BY <2>1
    <3> DEFINE s == doc[r]
               tr == DeleteIn(newTransaction(s), t, index, length)
               q == tr.store
    <3>2. doc' = [doc EXCEPT ![r] = q] /\ sent' = sent
      BY <2>3 DEF Delete
    <3>3. s \in StoreType /\ Sound(s)
      BY DEF IInv, Holding, Fine, Good
    <3>4. Shrunk(s, tr)
      BY <3>1, <3>3, DeleteShrinks
    <3> HIDE DEF tr
    <3>5. q \in StoreType /\ q.clock = s.clock /\ q.pending = s.pending
      BY <3>4 DEF Shrunk, Keeps, Frame, Sound, Runs
    <3> HIDE DEF q
    <3> QED BY <1>2, <3>2, <3>5, BoundedOn
  <2>4. ASSUME NEW structs \in Batches(sent, MaxBatch), NEW spans \in Batches(cut, 1),
               Deliver(r, structs, spans)
        PROVE  Bounded(doc', sent')
    <3>1. Applies(r, structs, spans) /\ ToSet(structs) \subseteq sent
      <4>1. MaxBatch \in Nat
        BY BoundsAssumption
      <4> QED BY <2>4, <4>1, DeliverApplies, BatchIs
    <3>2. PICK s \in StoreType :
            /\ doc' = [doc EXCEPT ![r] = s] /\ sent' = sent /\ s.clock = doc[r].clock
            /\ \A u \in ToSet(s.pending) :
                 /\ u \in ToSet(doc[r].pending) \/ u \in ToSet(structs)
                 /\ ~hasNode(s, u.id)
      BY <3>1, ApplyBuffers
    <3>3. ToSet(s.pending) \subseteq sent
      BY <1>2, <3>1, <3>2
    <3> QED BY <1>2, <3>2, <3>3, BoundedOn
  <2> QED BY <1>4, <2>2, <2>3, <2>4 DEF Step
<1> QED BY <1>1, <1>3, <1>4 DEF Next

\* A client's clock is at most as much as was made.
LEMMA ClockBounded ==
  ASSUME IInv, Bounded(doc, sent), NEW r \in Client
  PROVE  doc[r].clock \in 0 .. MaxUnits
<1> DEFINE n == doc[r].clock
           x == newId(r, 0)
<1>1. doc \in [Client -> StoreType] /\ n \in Nat
  BY DEF IInv, Holding, StoreType
<1>2. x \in Id /\ clientOf(x) = r /\ clockOf(x) = 0
  BY DEF newId, Id, clientOf, clockOf
<1> HIDE DEF n, x
<1>3. Ids(x, n) \subseteq Made(doc)
  <2> SUFFICES ASSUME NEW u \in Ids(x, n)
               PROVE  u \in Made(doc)
    OBVIOUS
  <2>1. u \in Id /\ clientOf(u) = r /\ clockOf(u) < 0 + n
    BY <1>1, <1>2, IdsAre
  <2>2. clockOf(u) < n
    BY <1>1, <2>1
  <2> QED BY <2>1, <2>2 DEF Made, n
<1>4. Cardinality(Ids(x, n)) = n
  BY <1>1, <1>2, IdsCount
<1>5. n <= Cardinality(Made(doc)) /\ Cardinality(Made(doc)) \in Nat /\ Cardinality(Made(doc)) <= MaxUnits
  BY <1>3, <1>4, FS_Subset, FS_CardinalityType DEF Bounded
<1>6. n \in 0 .. MaxUnits
  BY <1>1, <1>5, BoundsAssumption
<1> QED BY <1>6 DEF n

\* A node of a list has its type.
LEMMA NodeTyped ==
  ASSUME IInv, Bounded(doc, sent), NEW r \in Client, NEW x \in DOMAIN doc[r].heap
  PROVE  doc[r].heap[x] \in NodeType(r)
<1> DEFINE s == doc[r]
           X == DOMAIN s.heap
           node == s.heap[x]
           t == node.parent
           l == Chain(s, t)
<1>1. doc \in [Client -> StoreType] /\ s \in StoreType /\ Sound(s) /\ Integrated(s) \subseteq Made(doc)
  BY DEF IInv, Holding, Fine, Good, Known
<1> HIDE DEF s
<1>2. x \in X /\ X \subseteq Id
  BY <1>1, HeapFacts DEF s
<1>3. node \in Node /\ node.len \in Nat /\ node.len # 0
  BY <1>1, <1>2, HeapFacts DEF Node
<1>4. t \in Root
  BY <1>3 DEF Node
<1>5. ListOf(s, t, l)
  BY <1>1, <1>4 DEF Sound, Linked
<1>6. l \in Seq(Id) /\ ToSet(l) = {y \in X : s.heap[y].parent = t}
  BY <1>5 DEF ListOf
<1>7. PICK i \in DOMAIN l : l[i] = x
  <2>1. x \in ToSet(l)
    BY <1>2, <1>6
  <2> QED BY <2>1 DEF ToSet
<1>8. node.left = (IF i = 1 THEN Nil ELSE l[i - 1]) /\ node.right = (IF i = Len(l) THEN Nil ELSE l[i + 1])
  BY <1>5, <1>7 DEF ListOf
<1> HIDE DEF l, t
<1>9. \A k \in DOMAIN l : l[k] \in X
  BY <1>6 DEF ToSet
<1>10. node.left \in X \cup {Nil} /\ node.right \in X \cup {Nil}
  <2>1. DOMAIN l = 1 .. Len(l) /\ Len(l) \in Nat
    BY <1>6
  <2>2. (i # 1 => i - 1 \in DOMAIN l) /\ (i # Len(l) => i + 1 \in DOMAIN l)
    BY <2>1
  <2> HIDE DEF node, X
  <2> QED BY <1>8, <1>9, <2>2
<1>11. node.len \in 1 .. MaxUnits
  <2> DEFINE k == node.len
             u == Add(x, k - 1)
             n == doc[clientOf(x)].clock
  <2>1. clientOf(x) \in Client /\ clockOf(x) \in Nat /\ x \in Id
    BY <1>2, IdFacts
  <2>2. n \in 0 .. MaxUnits
    BY <2>1, ClockBounded
  <2>3. k \in Nat /\ k # 0
    BY <1>3
  <2>4. Units(s, x) = Ids(x, k)
    BY DEF Units
  <2> HIDE DEF k, n, node
  <2>5. u \in Id /\ clientOf(u) = clientOf(x) /\ clockOf(u) = clockOf(x) + (k - 1)
    <3>1. u = <<clientOf(x), clockOf(x) + (k - 1)>>
      BY DEF Add, clientOf, clockOf
    <3>2. clockOf(x) + (k - 1) \in Nat
      BY <2>1, <2>3
    <3>3. \A a \in Client, b \in Nat : <<a, b>> \in Id /\ clientOf(<<a, b>>) = a /\ clockOf(<<a, b>>) = b
      BY DEF Id, clientOf, clockOf
    <3> QED BY <2>1, <3>1, <3>2, <3>3
  <2>6. u \in Ids(x, k)
    <3>1. clockOf(x) <= clockOf(u) /\ clockOf(u) < clockOf(x) + k
      BY <2>1, <2>3, <2>5
    <3> QED BY <2>1, <2>3, <2>5, <3>1, IdsAre
  <2>7. u \in Made(doc)
    <3>1. u \in Integrated(s)
      BY <1>2, <2>4, <2>6 DEF Integrated
    <3> QED BY <1>1, <3>1
  <2>8. clockOf(x) + (k - 1) < n
    BY <2>5, <2>7 DEF Made, n
  <2> HIDE DEF u
  <2>9. MaxUnits \in Nat
    BY BoundsAssumption
  <2>10. k \in 1 .. MaxUnits
    BY <2>1, <2>2, <2>3, <2>8, <2>9
  <2> QED BY <2>10 DEF k
<1>12. /\ node = [originLeftId |-> node.originLeftId, originRightId |-> node.originRightId,
                  left |-> node.left, right |-> node.right, parent |-> node.parent,
                  len |-> node.len, deleted |-> node.deleted]
       /\ node.originLeftId \in OptId /\ node.originRightId \in OptId /\ node.parent \in Root
       /\ node.deleted \in BOOLEAN
  <2> HIDE DEF node
  <2> QED BY <1>3 DEF Node
<1>13. OptId = Client \X Nat \cup {Nil}
  BY DEF OptId, Id
<1> HIDE DEF node, X
<1>14. node \in [originLeftId : Client \X Nat \cup {Nil}, originRightId : Client \X Nat \cup {Nil},
                 left : X \cup {Nil}, right : X \cup {Nil},
                 parent : Root, len : 1 .. MaxUnits, deleted : BOOLEAN]
  BY <1>10, <1>11, <1>12, <1>13
<1> QED BY <1>14 DEF NodeType, node, X, s

\* The invariants of a store, made its types: with the wire codec, or where no
\* whole states are exchanged, every field of every replica has its type, and
\* what waits in a buffer is a struct just as it was sent.
THEOREM TypesStay ==
  ASSUME Split \/ ~Syncs
  PROVE  Spec => []TypeOK
<1>1. IInv /\ OneWorld /\ Bounded(doc, sent) /\ [Next]_vars => Bounded(doc, sent)'
  BY NextBounded
<1>2. Spec => []Bounded(doc, sent)
  BY <1>1, InitBounded, AlwaysHolding, AlwaysOneWorld, PTL DEF Spec
<1>3. IInv /\ Bounded(doc, sent) => TypeOK
  <2> SUFFICES ASSUME IInv, Bounded(doc, sent), NEW r \in Client
               PROVE  /\ doc[r].client = r
                      /\ doc[r].clock \in 0 .. MaxUnits
                      /\ \A x \in DOMAIN doc[r].heap : doc[r].heap[x] \in NodeType(r)
                      /\ \A c \in Client : ToSet(doc[r].items[c]) \subseteq DOMAIN doc[r].heap
                      /\ \A t \in Root : doc[r].start[t] \in DOMAIN doc[r].heap \cup {Nil}
                      /\ ToSet(doc[r].pending) \subseteq sent
                      /\ got[r].ins \cup got[r].del \subseteq Client \X Nat
    BY Zenon DEF TypeOK
  <2> DEFINE s == doc[r]
             X == DOMAIN s.heap
  <2>1. Sound(s) /\ Runs(s) /\ s.client = r
    BY DEF IInv, Holding, Fine, Good, Sound
  <2>2. \A x \in X : s.heap[x] \in NodeType(r)
    BY NodeTyped
  <2>3. \A c \in Client : ToSet(s.items[c]) \subseteq X
    BY <2>1 DEF Runs, RunOf
  <2>4. \A t \in Root : s.start[t] \in X \cup {Nil}
    <3> TAKE t \in Root
    <3> DEFINE l == Chain(s, t)
    <3>1. ListOf(s, t, l)
      BY <2>1 DEF Sound, Linked
    <3>2. l \in Seq(Id) /\ ToSet(l) \subseteq X /\ s.start[t] = IF l = <<>> THEN Nil ELSE l[1]
      BY <3>1 DEF ListOf
    <3> HIDE DEF l, X
    <3>3. l # <<>> => l[1] \in X
      <4> HAVE l # <<>>
      <4>1. 1 \in DOMAIN l
        BY <3>2
      <4> QED BY <3>2, <4>1 DEF ToSet
    <3> QED BY <3>2, <3>3
  <2>5. ToSet(s.pending) \subseteq sent
    BY DEF Bounded, Waiting
  <2>6. got[r].ins \cup got[r].del \subseteq Client \X Nat
    <3>1. got[r] \in [ins : SUBSET Id, del : SUBSET Id]
      BY DEF IInv, Holding
    <3> QED BY <3>1 DEF Id
  <2>7. s.clock \in 0 .. MaxUnits
    BY ClockBounded
  <2> QED BY <2>1, <2>2, <2>3, <2>4, <2>5, <2>6, <2>7
<1> QED BY <1>2, <1>3, AlwaysHolding, PTL
=============================================================================
