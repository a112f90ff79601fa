-------------------------- MODULE Selection_proofs --------------------------
(***************************************************************************)
(* Proofs about module Selection: what SelectIn gives for the empty        *)
(* sequence, and what one more element adds to it, with what is needed of  *)
(* prefixes, suffixes and elements.  The recursion on the length is        *)
(* reasoned about by its least counterexample.                             *)
(***************************************************************************)
EXTENDS Selection, SequencesExt, SequenceTheorems, WellFoundedInduction, TLAPS

\* A set of numbers that is not empty has a least one.
LEMMA Least ==
  ASSUME NEW T \in SUBSET Nat, T # {}
  PROVE  \E n \in T : \A m \in T : n <= m
<1>1. \E n \in T : \A m \in T : ~(<<m, n>> \in OpToRel(<, Nat))
  BY NatLessThanWellFounded, WFMin, Zenon
<1>2. PICK n \in T : \A m \in T : ~(<<m, n>> \in OpToRel(<, Nat))
  BY <1>1, Zenon
<1>3. \A m \in T : ~(m < n)
  BY <1>2, Zenon DEF OpToRel
<1> QED BY <1>3

\* What was picked of the first n elements, given what was picked of fewer.
pickNext(s, S, f, n) ==
  IF n = 0 THEN <<>>
  ELSE IF s[n] \in S THEN Append(f[n - 1], s[n]) ELSE f[n - 1]

\* f is what SelectIn computes for the first k elements.
Picks(s, S, k, f) == f = [n \in 0 .. k |-> pickNext(s, S, f, n)]

\* There is such a function.
LEMMA PicksExist ==
  ASSUME NEW s, NEW S, NEW len \in Nat
  PROVE  \E f : Picks(s, S, len, f)
<1> DEFINE T == {k \in Nat : ~ \E f : Picks(s, S, k, f)}
<1>1. SUFFICES ASSUME T # {} PROVE FALSE
  OBVIOUS
<1>2. PICK k \in T : \A m \in T : k <= m
  <2>1. T \in SUBSET Nat
    OBVIOUS
  <2> HIDE DEF T
  <2> QED BY <1>1, <2>1, Least
<1>3. CASE k = 0
  <2> DEFINE f == [n \in 0 .. 0 |-> <<>>]
  <2>1. Picks(s, S, 0, f)
    BY DEF Picks, pickNext
  <2> QED BY <1>3, <2>1
<1>4. CASE k # 0
  <2>1. k - 1 \in Nat /\ k - 1 \notin T
    BY <1>2, <1>4
  <2>2. PICK g : Picks(s, S, k - 1, g)
    BY <2>1
  <2> DEFINE f == [n \in 0 .. k |-> pickNext(s, S, g, n)]
  <2>3. \A n \in 0 .. k - 1 : f[n] = g[n]
    BY <2>1, <2>2 DEF Picks
  <2>4. \A n \in 0 .. k : pickNext(s, S, f, n) = pickNext(s, S, g, n)
    <3> TAKE n \in 0 .. k
    <3>1. n = 0 \/ n - 1 \in 0 .. k - 1
      OBVIOUS
    <3> HIDE DEF f
    <3> QED BY <2>3, <3>1 DEF pickNext
  <2>5. Picks(s, S, k, f)
    BY <2>4 DEF Picks
  <2> QED BY <2>5
<1> QED BY <1>3, <1>4

\* Two such functions agree where the sequences do.
LEMMA PicksAgree ==
  ASSUME NEW s, NEW t, NEW S, NEW k \in Nat, \A n \in 1 .. k : s[n] = t[n],
         NEW f, Picks(s, S, k, f), NEW l \in Nat, k <= l, NEW g, Picks(t, S, l, g)
  PROVE  \A n \in 0 .. k : f[n] = g[n]
<1> DEFINE T == {n \in 0 .. k : f[n] # g[n]}
<1>1. SUFFICES ASSUME T # {} PROVE FALSE
  OBVIOUS
<1>2. PICK n \in T : \A m \in T : n <= m
  <2>1. T \in SUBSET Nat
    OBVIOUS
  <2> HIDE DEF T
  <2> QED BY <1>1, <2>1, Least
<1>3. n \in 0 .. k /\ f[n] = pickNext(s, S, f, n)
  BY DEF Picks
<1>4. n \in 0 .. l /\ g[n] = pickNext(t, S, g, n)
  BY DEF Picks
<1>5. n # 0 => n - 1 \in 0 .. k /\ n - 1 \notin T /\ n \in 1 .. k
  BY <1>2
<1>6. n # 0 => f[n - 1] = g[n - 1] /\ s[n] = t[n]
  BY <1>5
<1>7. pickNext(s, S, f, n) = pickNext(t, S, g, n)
  BY <1>6 DEF pickNext
<1> QED BY <1>3, <1>4, <1>7

\* SelectIn is the last value of such a function.
LEMMA SelectPicks ==
  ASSUME NEW s, NEW S, Len(s) \in Nat
  PROVE  \E f : Picks(s, S, Len(s), f) /\ SelectIn(s, S) = f[Len(s)]
<1> DEFINE f == CHOOSE f : Picks(s, S, Len(s), f)
<1>1. Picks(s, S, Len(s), f)
  BY PicksExist
<1>2. SelectIn(s, S) = f[Len(s)]
  BY DEF SelectIn, Picks, pickNext
<1> QED BY <1>1, <1>2

-----------------------------------------------------------------------------
\* Nothing is selected of nothing.
LEMMA SelectEmpty ==
  ASSUME NEW S
  PROVE  SelectIn(<<>>, S) = <<>>
<1>1. Len(<<>>) = 0
  OBVIOUS
<1>2. PICK f : Picks(<<>>, S, 0, f) /\ SelectIn(<<>>, S) = f[0]
  BY <1>1, SelectPicks
<1>3. f[0] = pickNext(<<>>, S, f, 0)
  BY <1>2 DEF Picks
<1> QED BY <1>2, <1>3 DEF pickNext

\* One more element is selected if it is in the set.
LEMMA SelectAppend ==
  ASSUME NEW A, NEW s \in Seq(A), NEW x \in A, NEW S
  PROVE  SelectIn(Append(s, x), S)
           = IF x \in S THEN Append(SelectIn(s, S), x) ELSE SelectIn(s, S)
<1> DEFINE t == Append(s, x)
           k == Len(s)
<1>1. k \in Nat /\ Len(t) = k + 1 /\ t[k + 1] = x
  OBVIOUS
<1>2. \A n \in 1 .. k : s[n] = t[n]
  OBVIOUS
<1> HIDE DEF t, k
<1>3. PICK f : Picks(s, S, k, f) /\ SelectIn(s, S) = f[k]
  BY <1>1, SelectPicks DEF k
<1>4. PICK g : Picks(t, S, k + 1, g) /\ SelectIn(t, S) = g[k + 1]
  BY <1>1, SelectPicks
<1>5. f[k] = g[k]
  <2>1. k + 1 \in Nat /\ k <= k + 1 /\ k \in 0 .. k
    BY <1>1
  <2>2. \A n \in 0 .. k : f[n] = g[n]
    <3> DEFINE l == k + 1
    <3>1. k \in Nat /\ l \in Nat /\ k <= l
      BY <1>1
    <3>2. Picks(s, S, k, f) /\ Picks(t, S, l, g)
      BY <1>3, <1>4
    <3> HIDE DEF l
    <3> QED BY <1>2, <3>1, <3>2, PicksAgree
  <2> QED BY <2>1, <2>2
<1>6. g[k + 1] = pickNext(t, S, g, k + 1)
  BY <1>1, <1>4 DEF Picks
<1>7. k + 1 # 0 /\ (k + 1) - 1 = k
  BY <1>1
<1>8. pickNext(t, S, g, k + 1) = IF x \in S THEN Append(g[k], x) ELSE g[k]
  BY <1>1, <1>7 DEF pickNext
<1> QED BY <1>3, <1>4, <1>5, <1>6, <1>8 DEF t

\* What is selected is a sequence of elements that are in the sequence and in
\* the set.
LEMMA SelectType ==
  ASSUME NEW A, NEW s \in Seq(A), NEW S
  PROVE  SelectIn(s, S) \in Seq(A \cap S)
<1> DEFINE k == Len(s)
<1>1. k \in Nat /\ \A n \in 1 .. k : s[n] \in A
  OBVIOUS
<1> HIDE DEF k
<1>2. PICK f : Picks(s, S, k, f) /\ SelectIn(s, S) = f[k]
  BY <1>1, SelectPicks DEF k
<1> DEFINE T == {n \in 0 .. k : f[n] \notin Seq(A \cap S)}
<1>3. SUFFICES ASSUME T # {} PROVE FALSE
  BY <1>1, <1>2
<1>4. PICK n \in T : \A m \in T : n <= m
  <2>1. T \in SUBSET Nat
    OBVIOUS
  <2> HIDE DEF T
  <2> QED BY <1>3, <2>1, Least
<1>5. n \in 0 .. k /\ f[n] = pickNext(s, S, f, n) /\ f[n] \notin Seq(A \cap S)
  BY <1>2 DEF Picks
<1>6. CASE n = 0
  BY <1>5, <1>6 DEF pickNext
<1>7. CASE n # 0
  <2>1. n - 1 \in 0 .. k /\ n - 1 \notin T /\ n \in 1 .. k
    BY <1>1, <1>4, <1>7
  <2>2. f[n - 1] \in Seq(A \cap S)
    BY <2>1
  <2>3. s[n] \in A
    BY <1>1, <2>1
  <2>4. pickNext(s, S, f, n) = IF s[n] \in S THEN Append(f[n - 1], s[n]) ELSE f[n - 1]
    BY <1>7 DEF pickNext
  <2>5. s[n] \in S => Append(f[n - 1], s[n]) \in Seq(A \cap S)
    BY <2>2, <2>3
  <2> QED BY <1>5, <2>2, <2>4, <2>5
<1> QED BY <1>6, <1>7

-----------------------------------------------------------------------------
\* Prefixes, suffixes and elements of sequences

\* What comes after a place does not matter before it.
LEMMA SubSeqAppend ==
  ASSUME NEW A, NEW s \in Seq(A), NEW x \in A, NEW h \in 0 .. Len(s)
  PROVE  SubSeq(Append(s, x), 1, h) = SubSeq(s, 1, h)
OBVIOUS

\* One more place.
LEMMA SubSeqGrows ==
  ASSUME NEW A, NEW s \in Seq(A), NEW h \in Nat, h < Len(s)
  PROVE  /\ SubSeq(s, 1, h) \in Seq(A) /\ s[h + 1] \in A
         /\ SubSeq(s, 1, h + 1) = Append(SubSeq(s, 1, h), s[h + 1])
OBVIOUS

\* What is appended is appended to every rest.
LEMMA RestAppend ==
  ASSUME NEW A, NEW s \in Seq(A), NEW x \in A, NEW j \in 0 .. Len(s)
  PROVE  /\ SubSeq(s, j + 1, Len(s)) \in Seq(A)
         /\ SubSeq(Append(s, x), j + 1, Len(Append(s, x)))
              = Append(SubSeq(s, j + 1, Len(s)), x)
<1> DEFINE t == Append(s, x)
           u == SubSeq(s, j + 1, Len(s))
           k == Len(s)
<1>1. k \in Nat /\ t \in Seq(A) /\ Len(t) = k + 1
  OBVIOUS
<1>2. u \in Seq(A) /\ Len(u) = k - j
  OBVIOUS
<1>3. \A i \in 1 .. k - j : u[i] = s[j + i]
  OBVIOUS
<1>4. \A i \in 1 .. k + 1 : t[i] = IF i = k + 1 THEN x ELSE s[i]
  OBVIOUS
<1>5. SubSeq(t, j + 1, Len(t)) = [i \in 1 .. k + 1 - j |-> t[j + i]]
  <2>1. \A i \in 1 .. k + 1 - j : i + (j + 1) - 1 = j + i
    BY <1>1
  <2>2. (k + 1) - (j + 1) + 1 = k + 1 - j
    BY <1>1
  <2> HIDE DEF t, k
  <2>3. SubSeq(t, j + 1, k + 1) = [i \in 1 .. (k + 1) - (j + 1) + 1 |-> t[i + (j + 1) - 1]]
    BY <1>1
  <2> QED BY <1>1, <2>1, <2>2, <2>3
<1>6. Append(u, x) \in Seq(A) /\ Len(Append(u, x)) = k - j + 1
        /\ \A i \in 1 .. k - j + 1 :
             Append(u, x)[i] = IF i = k - j + 1 THEN x ELSE u[i]
  <2> HIDE DEF u
  <2> QED BY <1>1, <1>2
<1> HIDE DEF t, u, k
<1>7. \A i \in 1 .. k + 1 - j :
        t[j + i] = IF i = k - j + 1 THEN x ELSE u[i]
  BY <1>1, <1>3, <1>4 DEF k
<1>8. k + 1 - j = k - j + 1
  BY <1>1
<1>9. SubSeq(t, j + 1, Len(t)) = Append(u, x)
  <2>1. Append(u, x) \in [1 .. k - j + 1 -> A]
    BY <1>6, LenProperties
  <2> QED BY <1>5, <1>6, <1>7, <1>8, <2>1
<1> QED BY <1>2, <1>9 DEF t, u

\* A sequence is a prefix of itself and of what is appended to it, and a prefix
\* stays one.
LEMMA PrefixGrows ==
  ASSUME NEW A, NEW s \in Seq(A), NEW t \in Seq(A), NEW x \in A
  PROVE  /\ IsPrefix(<<>>, s) /\ IsPrefix(s, s) /\ IsPrefix(s, Append(s, x))
         /\ IsPrefix(s, t) => IsPrefix(s, Append(t, x))
BY DEF IsPrefix

\* What is left of an injective sequence without its head does not have it.
LEMMA TailInjective ==
  ASSUME NEW A, NEW s \in Seq(A), s # <<>>, IsInjective(s)
  PROVE  /\ Head(s) \in A /\ Tail(s) \in Seq(A) /\ IsInjective(Tail(s))
         /\ ToSet(Tail(s)) = ToSet(s) \ {Head(s)}
         /\ Head(s) \in ToSet(s)
<1> DEFINE t == Tail(s)
           k == Len(s)
<1>1. k \in Nat \ {0} /\ t \in Seq(A) /\ Len(t) = k - 1 /\ Head(s) = s[1]
  OBVIOUS
<1>2. \A i \in 1 .. k - 1 : t[i] = s[i + 1]
  OBVIOUS
<1>3. DOMAIN s = 1 .. k /\ DOMAIN t = 1 .. k - 1
  BY <1>1
<1> HIDE DEF t, k
<1>4. Head(s) \in A /\ Head(s) \in ToSet(s)
  BY <1>1, <1>3 DEF ToSet, k
<1>5. \A i \in 1 .. k - 1 : i + 1 \in 1 .. k /\ i + 1 # 1
  BY <1>1
<1>6. \A i, j \in 1 .. k : s[i] = s[j] => i = j
  BY <1>3 DEF IsInjective
<1>7. IsInjective(t)
  <2> SUFFICES ASSUME NEW i \in 1 .. k - 1, NEW j \in 1 .. k - 1, t[i] = t[j]
               PROVE  i = j
    BY <1>3 DEF IsInjective
  <2>1. i + 1 = j + 1
    BY <1>6, <1>2, <1>5
  <2> QED BY <2>1
<1>8. ToSet(t) = ToSet(s) \ {Head(s)}
  <2>1. ASSUME NEW i \in 1 .. k - 1
        PROVE  t[i] \in ToSet(s) \ {Head(s)}
    <3>1. t[i] = s[i + 1] /\ i + 1 \in 1 .. k /\ 1 \in 1 .. k /\ i + 1 # 1
      BY <1>1, <1>2, <1>5
    <3>2. s[i + 1] # s[1]
      BY <1>6, <3>1
    <3> QED BY <1>1, <1>3, <3>1, <3>2 DEF ToSet
  <2>2. ASSUME NEW i \in 1 .. k, s[i] # s[1]
        PROVE  s[i] \in ToSet(t)
    <3>1. i - 1 \in 1 .. k - 1 /\ (i - 1) + 1 = i
      BY <1>1, <2>2
    <3> QED BY <1>2, <1>3, <3>1 DEF ToSet
  <2> QED BY <1>1, <1>3, <2>1, <2>2 DEF ToSet
<1> QED BY <1>1, <1>4, <1>7, <1>8 DEF t

\* One more element.
LEMMA AppendSet ==
  ASSUME NEW A, NEW s \in Seq(A), NEW x \in A
  PROVE  ToSet(Append(s, x)) = ToSet(s) \cup {x}
<1> DEFINE t == Append(s, x)
           k == Len(s)
<1>1. t \in Seq(A) /\ k \in Nat /\ Len(t) = k + 1
  OBVIOUS
<1>2. t[k + 1] = x /\ \A i \in 1 .. k : t[i] = s[i]
  OBVIOUS
<1>3. DOMAIN s = 1 .. k /\ DOMAIN t = 1 .. k + 1
  OBVIOUS
<1> HIDE DEF t, k
<1>4. /\ \A i \in 1 .. k + 1 : i \in 1 .. k \/ i = k + 1
      /\ \A i \in 1 .. k : i \in 1 .. k + 1
      /\ k + 1 \in 1 .. k + 1
  BY <1>1
<1>5. ToSet(t) = ToSet(s) \cup {x}
  BY <1>2, <1>3, <1>4 DEF ToSet
<1> QED BY <1>5 DEF t

\* A new element keeps a sequence injective.
LEMMA AppendInjectively ==
  ASSUME NEW A, NEW s \in Seq(A), NEW x \in A, IsInjective(s), x \notin ToSet(s)
  PROVE  /\ Append(s, x) \in Seq(A) /\ IsInjective(Append(s, x))
         /\ ToSet(Append(s, x)) = ToSet(s) \cup {x}
<1> DEFINE t == Append(s, x)
           k == Len(s)
<1>1. t \in Seq(A) /\ k \in Nat /\ Len(t) = k + 1
  OBVIOUS
<1>2. t[k + 1] = x /\ \A i \in 1 .. k : t[i] = s[i]
  OBVIOUS
<1>3. DOMAIN s = 1 .. k /\ DOMAIN t = 1 .. k + 1
  OBVIOUS
<1> HIDE DEF t, k
<1>4. ToSet(t) = ToSet(s) \cup {x}
  BY AppendSet DEF t
<1>5. IsInjective(t)
  <2> SUFFICES ASSUME NEW i \in 1 .. k + 1, NEW j \in 1 .. k + 1, t[i] = t[j]
               PROVE  i = j
    BY <1>3 DEF IsInjective
  <2>1. \A n \in 1 .. k : s[n] # x
    BY <1>3 DEF ToSet
  <2>2. CASE i \in 1 .. k /\ j \in 1 .. k
    BY <1>2, <1>3, <2>2 DEF IsInjective
  <2>3. CASE i = k + 1 \/ j = k + 1
    BY <1>1, <1>2, <2>1, <2>3
  <2> QED BY <1>1, <2>2, <2>3
<1> QED BY <1>1, <1>4, <1>5 DEF t
-----------------------------------------------------------------------------
\* Of elements that are there once, those in a set are selected once each.
LEMMA SelectInjective ==
  ASSUME NEW A, NEW s \in Seq(A), IsInjective(s), NEW S
  PROVE  LET t == SelectIn(s, S)
         IN  t \in Seq(A) /\ IsInjective(t) /\ ToSet(t) = ToSet(s) \cap S
<1> DEFINE k == Len(s)
           sel(n) == SelectIn(SubSeq(s, 1, n), S)
           P(n) == /\ sel(n) \in Seq(A) /\ IsInjective(sel(n))
                   /\ ToSet(sel(n)) = {s[i] : i \in 1 .. n} \cap S
           T == {n \in 0 .. k : ~P(n)}
<1>1. k \in Nat /\ SubSeq(s, 1, 0) = <<>> /\ SubSeq(s, 1, k) = s
  OBVIOUS
<1>2. ToSet(s) = {s[i] : i \in 1 .. k}
  BY DEF ToSet
<1>3. \A i, j \in 1 .. k : s[i] = s[j] => i = j
  BY DEF IsInjective
<1>4. \A n \in Nat : n < k => /\ SubSeq(s, 1, n) \in Seq(A) /\ s[n + 1] \in A
                              /\ SubSeq(s, 1, n + 1) = Append(SubSeq(s, 1, n), s[n + 1])
  BY SubSeqGrows
<1> HIDE DEF k
<1>5. SUFFICES T = {}
  <2>1. k \in 0 .. k
    BY <1>1
  <2> QED BY <1>1, <1>2, <2>1
<1>6. SUFFICES ASSUME T # {} PROVE FALSE
  OBVIOUS
<1>7. PICK n \in T : \A m \in T : n <= m
  <2>1. T \in SUBSET Nat
    BY <1>1
  <2> HIDE DEF T
  <2> QED BY <1>6, <2>1, Least
<1>8. n \in 0 .. k /\ ~P(n)
  OBVIOUS
<1>9. CASE n = 0
  <2>1. sel(n) = <<>>
    BY <1>1, <1>9, SelectEmpty
  <2>2. <<>> \in Seq(A) /\ IsInjective(<<>>) /\ ToSet(<<>>) = {}
    BY DEF IsInjective, ToSet
  <2>3. {s[i] : i \in 1 .. n} = {}
    BY <1>9
  <2> QED BY <1>8, <2>1, <2>2, <2>3
<1>10. CASE n # 0
  <2> DEFINE h == n - 1
  <2>1. h \in Nat /\ h < k /\ n = h + 1 /\ h \in 0 .. k /\ h \notin T
    BY <1>1, <1>7, <1>8, <1>10
  <2>2. P(h)
    BY <2>1
  <2>3. /\ SubSeq(s, 1, h) \in Seq(A) /\ s[n] \in A
        /\ SubSeq(s, 1, n) = Append(SubSeq(s, 1, h), s[n])
    BY <1>4, <2>1
  <2>4. sel(n) = IF s[n] \in S THEN Append(sel(h), s[n]) ELSE sel(h)
    <3> DEFINE t == SubSeq(s, 1, h)
               x == s[n]
    <3>1. t \in Seq(A) /\ x \in A /\ SubSeq(s, 1, n) = Append(t, x)
      BY <2>3
    <3> HIDE DEF t, x
    <3>2. SelectIn(Append(t, x), S) = IF x \in S THEN Append(SelectIn(t, S), x) ELSE SelectIn(t, S)
      BY <3>1, SelectAppend
    <3> QED BY <3>1, <3>2 DEF t, x
  <2>5. s[n] \notin {s[i] : i \in 1 .. h}
    <3> SUFFICES ASSUME NEW i \in 1 .. h, s[i] = s[n] PROVE FALSE
      OBVIOUS
    <3>1. i \in 1 .. k /\ n \in 1 .. k /\ i # n
      BY <1>1, <2>1
    <3> QED BY <1>3, <3>1
  <2>6. {s[i] : i \in 1 .. n} = {s[i] : i \in 1 .. h} \cup {s[n]}
    <3>1. \A i : i \in 1 .. n <=> i \in 1 .. h \/ i = n
      BY <2>1
    <3> QED BY <3>1
  <2> HIDE DEF sel, h
  <2>7. CASE s[n] \in S
    <3>1. /\ Append(sel(h), s[n]) \in Seq(A) /\ IsInjective(Append(sel(h), s[n]))
          /\ ToSet(Append(sel(h), s[n])) = ToSet(sel(h)) \cup {s[n]}
      BY <2>2, <2>3, <2>5, AppendInjectively
    <3> QED BY <1>8, <2>2, <2>4, <2>6, <2>7, <3>1
  <2>8. CASE s[n] \notin S
    BY <1>8, <2>2, <2>4, <2>6, <2>8
  <2> QED BY <2>7, <2>8
<1> QED BY <1>9, <1>10
=============================================================================
