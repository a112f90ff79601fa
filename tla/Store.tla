------------------------------- MODULE Store -------------------------------
(***************************************************************************)
(* The struct store of one document (yjs/store.go, yjs/item.go,            *)
(* yjs/ytype.go) as a record and the operations the package performs on    *)
(* it, each a function of the store that returns the changed store.        *)
(*                                                                         *)
(* A *item is named by the id of its first code unit: a node keeps its     *)
(* first unit for ever (a split truncates the left half in place), and no  *)
(* two nodes of a store share one.  The content of a node is abstracted to *)
(* its length: the unit at an id never changes, so the id stands for it.   *)
(*                                                                         *)
(*   s.client, s.clock     the replica id and its next clock               *)
(*   s.items[c]            the run list of client c, as node names         *)
(*   s.heap                node name -> node                               *)
(*   s.start[t], s.len[t]  the head and the visible length of root type t  *)
(*   s.pending, s.pendingDeletes                                           *)
(*                                                                         *)
(* Everything here runs under the store's write lock, so an operation is   *)
(* one step of its caller.                                                 *)
(***************************************************************************)
EXTENDS Integers, Sequences, FiniteSets, SequencesExt, Selection

CONSTANTS Client,    \* replica ids, ordered: numbers, as in id.go
          Root,      \* the names of the root types a document may hold
          Nil,       \* the nil pointer / absent optional id
          ClockMod   \* 2^w, w the width of a clock (64 in the code)

ASSUME ClientAssumption == Client \subseteq Nat
ASSUME NilAssumption == Nil \notin Root \cup (Client \X Nat)
ASSUME ClockModAssumption == ClockMod \in Nat \ {0}

-----------------------------------------------------------------------------
\* Ids: a pair of the client that made the code unit and its clock.

newId(client, clock) == <<client, clock>>
clientOf(x) == x[1]
clockOf(x) == x[2]
Add(x, n) == <<x[1], x[2] + n>>
Sub(x, n) == <<x[1], x[2] - n>>

\* The ids of a run of n units that begins at x: what an idSpan covers.
Ids(x, n) == {Add(x, k) : k \in 0 .. n - 1}

-----------------------------------------------------------------------------
newItem(originLeft, originRight, n) ==
  [originLeftId |-> originLeft, originRightId |-> originRight,
   left |-> Nil, right |-> Nil, parent |-> Nil, len |-> n, deleted |-> FALSE]

LastId(s, x) == Add(x, s.heap[x].len - 1)
Units(s, x) == Ids(x, s.heap[x].len)

\* The ids a store holds, and those of them that are deleted.
Integrated(s) == UNION {Units(s, x) : x \in DOMAIN s.heap}
Tombstones(s) == UNION {Units(s, x) : x \in {y \in DOMAIN s.heap : s.heap[y].deleted}}

newStore(client) ==
  [client |-> client, clock |-> 0,
   items |-> [c \in Client |-> <<>>], heap |-> <<>>,
   start |-> [t \in Root |-> Nil], len |-> [t \in Root |-> 0],
   pending |-> <<>>, pendingDeletes |-> <<>>]

\* The linked list from node x to the right, as a sequence of node names.
From(s, x) ==
  LET walk[y \in DOMAIN s.heap \cup {Nil}] ==
        IF y = Nil THEN <<>> ELSE <<y>> \o walk[s.heap[y].right]
  IN  walk[x]

Chain(s, t) == From(s, s.start[t])

-----------------------------------------------------------------------------
\* The binary search over a client's run list: the position of the node
\* whose run covers the clock, 0 when there is none.
getNodeIndex(s, client, clock) ==
  LET nodes == s.items[client]
      bound == 1 .. Len(nodes) + 1
      search[b \in bound \X bound] ==
        IF b[1] >= b[2] THEN 0
        ELSE LET m == b[1] + (b[2] - b[1]) \div 2
                 first == clockOf(nodes[m])
             IN  IF clock < first THEN search[<<b[1], m>>]
                 ELSE IF clock >= first + s.heap[nodes[m]].len THEN search[<<m + 1, b[2]>>]
                 ELSE m
  IN  search[<<1, Len(nodes) + 1>>]

GetNode(s, x) ==
  LET at(i) == IF i = 0 THEN Nil ELSE s.items[clientOf(x)][i]
  IN  at(getNodeIndex(s, clientOf(x), clockOf(x)))

hasNode(s, x) == GetNode(s, x) # Nil

addNode(s, x) == [s EXCEPT !.items[clientOf(x)] = Append(@, x)]

\* The heap h with one more node.
alloc(h, x, node) == [y \in DOMAIN h \cup {x} |-> IF y = x THEN node ELSE h[y]]

\* Fault: the right half's left neighbour is looked up by its left origin.
splitItemByOrigin(s, x, d) ==
  LET y == Add(x, d)
      rest == [s.heap[x] EXCEPT !.originLeftId = Add(x, d - 1),
                                !.left = Add(x, d - 1), !.len = @ - d]
  IN  [s EXCEPT !.heap = alloc([@ EXCEPT ![x].len = d, ![x].right = y], y, rest)]

\* Node x keeps its first d units, a new node holds the rest right after it
\* in the list.
splitItem(s, x, d) ==
  LET y == Add(x, d)
      node == s.heap[x]
      rest == [node EXCEPT !.originLeftId = Add(x, d - 1),
                           !.left = x, !.len = @ - d]
      kept == [s.heap EXCEPT ![x].len = d, ![x].right = y]
      old == IF node.right = Nil THEN kept ELSE [kept EXCEPT ![node.right].left = y]
  IN  [s EXCEPT !.heap = alloc(old, y, rest)]

\* Fault: the right half is appended to the run list.
splitNodeAppends(s, x, d) ==
  [splitItem(s, x, d) EXCEPT !.items[clientOf(x)] = Append(@, Add(x, d))]

\* ... and right after x in the client's run list.
splitNode(s, x, d) ==
  [splitItem(s, x, d) EXCEPT
     !.items[clientOf(x)] =
        InsertAt(@, getNodeIndex(s, clientOf(x), clockOf(x)) + 1, Add(x, d))]

\* The store in which a node ends (begins) at x, and that node; Nil and the
\* store as it is when no node covers x.
splitAtAndGetLeft(s, x) ==
  LET endIn(n) ==
        IF n = Nil THEN [store |-> s, node |-> Nil]
        ELSE [store |-> IF x = LastId(s, n) THEN s
                        ELSE splitNode(s, n, clockOf(x) - clockOf(n) + 1),
              node |-> n]
  IN  endIn(GetNode(s, x))

splitAtAndGetRight(s, x) ==
  LET startIn(n) ==
        IF n \in {Nil, x} THEN [store |-> s, node |-> n]
        ELSE [store |-> splitNode(s, n, clockOf(x) - clockOf(n)), node |-> x]
  IN  startIn(GetNode(s, x))

-----------------------------------------------------------------------------
\* Fault: a struct without a parent name goes to some root type.
parentOfAny(heap, left, right, name) ==
  IF name # Nil THEN name ELSE CHOOSE t \in Root : TRUE

\* The named root type, or the type of the left or else the right neighbour.
parentOf(heap, left, right, name) ==
  IF name # Nil THEN name
  ELSE IF left # Nil THEN heap[left].parent
  ELSE IF right # Nil THEN heap[right].parent
  ELSE Nil

\* repair resolves the origin ids of a decoded struct to neighbours on node
\* boundaries and its parent to the named type or the neighbour's.
repair(s, it, parentName) ==
  LET leftIn(st) == IF it.originLeftId = Nil THEN [store |-> st, node |-> Nil]
                    ELSE splitAtAndGetLeft(st, it.originLeftId)
      rightIn(st) == IF it.originRightId = Nil THEN [store |-> st, node |-> Nil]
                     ELSE splitAtAndGetRight(st, it.originRightId)
      between(l, r) ==
        [store |-> r.store,
         item |-> [it EXCEPT !.left = l.node, !.right = r.node,
                             !.parent = parentOf(r.store.heap, l.node, r.node, parentName)]]
      withLeft(l) == between(l, rightIn(l.store))
  IN  withLeft(leftIn(s))

\* Fault: the scan runs past the right origin.
scanStopsLate(s, x, it, c, right, before) ==
  LET o == s.heap[c]
      sameLeft == it.originLeftId = o.originLeftId
  IN  \/ sameLeft /\ clientOf(c) >= clientOf(x) /\ it.originRightId = o.originRightId
      \/ ~sameLeft /\ o.originLeftId \notin before

\* The scan for the place of a new node x = it stops at node c: its right
\* origin, a concurrent node with the same origins that goes to its right,
\* or a node whose left origin was not scanned (the origins would cross).
scanStops(s, x, it, c, right, before) ==
  LET o == s.heap[c]
      sameLeft == it.originLeftId = o.originLeftId
  IN  \/ c = right
      \/ sameLeft /\ clientOf(c) >= clientOf(x) /\ it.originRightId = o.originRightId
      \/ ~sameLeft /\ o.originLeftId \notin before

\* Fault: every scanned node is passed.
scanMovesAlways(s, x, it, c, conflicting) == TRUE

\* Node x goes to the right of the scanned node c: c has the same left origin
\* and a smaller client, or hangs off a node x already goes to the right of.
scanMoves(s, x, it, c, conflicting) ==
  LET o == s.heap[c]
  IN  IF it.originLeftId = o.originLeftId THEN clientOf(c) < clientOf(x)
      ELSE o.originLeftId \notin conflicting

\* The YATA scan over the concurrent nodes between the origins: the node x
\* goes to the right of (Nil: the head).  "before" are the ids scanned,
\* "conflicting" those since the last move; Nil is in neither.
scanConflicts(s, x, it, left, conflict, right) ==
  LET visit(st, c, before, conflicting) ==
        IF st.done \/ scanStops(s, x, it, c, right, before)
          THEN [st EXCEPT !.done = TRUE]
        ELSE IF scanMoves(s, x, it, c, conflicting)
          THEN [done |-> FALSE, left |-> c, before |-> before, conflicting |-> {}]
        ELSE [st EXCEPT !.before = before, !.conflicting = conflicting]
      scan(st, c) == visit(st, c, st.before \cup Units(s, c),
                                  st.conflicting \cup Units(s, c))
      st0 == [done |-> FALSE, left |-> left, before |-> {}, conflicting |-> {}]
  IN  FoldLeft(scan, st0, From(s, conflict)).left

\* The right neighbour of a place: the scan may have moved away from the
\* right origin.
rightOf(s, t, left) == IF left = Nil THEN s.start[t] ELSE s.heap[left].right

\* Fault: no scan for a node inserted between two known neighbours.
mustScanOpen(s, it) ==
  \/ it.left = Nil /\ it.right = Nil
  \/ it.left # Nil /\ it.right = Nil /\ s.heap[it.left].right # Nil

\* There may be concurrent nodes between the two neighbours.
mustScan(s, it) ==
  \/ it.left = Nil /\ (it.right = Nil \/ s.heap[it.right].left # Nil)
  \/ it.left # Nil /\ s.heap[it.left].right # it.right

findIntegrationLeft(s, t, x, it) ==
  IF mustScan(s, it)
    THEN scanConflicts(s, x, it, it.left, rightOf(s, t, it.left), it.right)
    ELSE it.left

\* Node x is linked between two neighbours and counted.
link(s, t, x, it, left, right) ==
  LET node == [it EXCEPT !.left = left, !.right = right]
      h1 == IF left = Nil THEN s.heap ELSE [s.heap EXCEPT ![left].right = x]
      h2 == IF right = Nil THEN h1 ELSE [h1 EXCEPT ![right].left = x]
  IN  [s EXCEPT !.heap = alloc(h2, x, node),
                !.start[t] = IF left = Nil THEN x ELSE @,
                !.len[t] = @ + it.len]

\* Fault: linked to the right origin, wherever the scan led.
integrateCoreStale(s, t, x, it) ==
  link(s, t, x, it, findIntegrationLeft(s, t, x, it), it.right)

integrateCore(s, t, x, it) ==
  LET after(left) == link(s, t, x, it, left, rightOf(s, t, left))
  IN  after(findIntegrationLeft(s, t, x, it))

\* A struct whose parent cannot be resolved is dropped.
Integrate(s, x, it) ==
  IF it.parent = Nil THEN s
  ELSE addNode(integrateCore(s, it.parent, x, it), x)

\* Fault: a tombstone is counted off the visible length again.
deleteNodeTwice(s, x) ==
  [s EXCEPT !.heap[x].deleted = TRUE,
            !.len[s.heap[x].parent] = @ - s.heap[x].len]

deleteNode(s, x) ==
  IF s.heap[x].deleted THEN s
  ELSE [s EXCEPT !.heap[x].deleted = TRUE,
                 !.len[s.heap[x].parent] = @ - s.heap[x].len]

-----------------------------------------------------------------------------
originArrived(s, x) == x = Nil \/ hasNode(s, x)

\* Fault: the author's preceding unit does not gate a struct.
depsArrivedOrigins(s, u) ==
  /\ originArrived(s, u.originLeftId)
  /\ originArrived(s, u.originRightId)

depsArrived(s, u) ==
  /\ originArrived(s, u.originLeftId)
  /\ originArrived(s, u.originRightId)
  /\ clockOf(u.id) > 0 => hasNode(s, Sub(u.id, 1))

\* Fault: queued structs are never found.
containsUpdateItemIdNever(us, x) == FALSE

containsUpdateItemId(us, x) == \E i \in 1 .. Len(us) : us[i].id = x

-----------------------------------------------------------------------------
\* What a node spends of an index: its units when it is Indexable.
spends(s, c) == IF s.heap[c].deleted THEN 0 ELSE s.heap[c].len

\* findPos: the neighbours of a visible index, and the offset into the left
\* one when the index lands inside it.  The cursor passes the leading
\* tombstones, then every node it meets while some of the index is unspent;
\* visible[i] is what the first i nodes spend of it.
findPos(s, t, index) ==
  LET chain == Chain(s, t)
      visible[i \in 0 .. Len(chain)] ==
        IF i = 0 THEN 0 ELSE visible[i - 1] + spends(s, chain[i])
      passed == {i \in DOMAIN chain : visible[i] = 0 \/ visible[i - 1] < index}
      n == Cardinality(passed)
  IN  [left |-> IF n = 0 THEN Nil ELSE chain[n],
       right |-> IF n = Len(chain) THEN Nil ELSE chain[n + 1],
       offset |-> IF n # 0 /\ visible[n] > index THEN index - visible[n - 1]
                                                 ELSE 0]

\* Every unit of a root type in list order, tombstones included, and the
\* visible ones: their ids, without the code units the program shows for them.
Snapshot(s, t) ==
  LET chain == Chain(s, t)
      units(x) == [k \in 1 .. s.heap[x].len |->
                    [id |-> Add(x, k - 1), deleted |-> s.heap[x].deleted]]
  IN  FlattenSeq([i \in DOMAIN chain |-> units(chain[i])])

Text(s, t) ==
  LET shot == Snapshot(s, t)
      live == SelectIn(shot, {u \in ToSet(shot) : ~u.deleted})
  IN  [i \in DOMAIN live |-> live[i].id]
=============================================================================
