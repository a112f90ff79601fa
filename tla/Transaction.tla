---------------------------- MODULE Transaction ----------------------------
(***************************************************************************)
(* One transaction over a document's store (yjs/transaction.go) and the    *)
(* edits that run inside one (yjs/text.go).                                *)
(*                                                                         *)
(* A transaction is a record: the store as changed so far, the runs        *)
(* inserted and deleted (as [id, len] spans, in the order the code records *)
(* them) and the root types touched.  An updateItem is a record            *)
(* [id, len, originLeftId, originRightId, parentName]; a deleteSpan is     *)
(* [client, clock, length].                                                *)
(***************************************************************************)
EXTENDS Store

newTransaction(s) ==
  [store |-> s, insertSet |-> <<>>, deleteSet |-> <<>>, changed |-> {}]

idSpan(x, n) == [id |-> x, len |-> n]
SpanIds(spans) == UNION {Ids(spans[i].id, spans[i].len) : i \in DOMAIN spans}

\* The units of update items and of a delete span.
StructIds(structs) == UNION {Ids(u.id, u.len) : u \in structs}
SpanUnits(d) == Ids(newId(d.client, d.clock), d.length)

\* integrate and deleteNode record what they did; a dropped struct and a
\* tombstone are recorded nowhere.
integrate(tr, x, it) ==
  IF it.parent = Nil THEN tr
  ELSE [tr EXCEPT !.store = Integrate(@, x, it),
                  !.insertSet = Append(@, idSpan(x, it.len)),
                  !.changed = @ \cup {it.parent}]

trDeleteNode(tr, x) ==
  LET record(node, after) ==
        IF after = tr.store THEN tr
        ELSE [tr EXCEPT !.store = after,
                        !.deleteSet = Append(@, idSpan(x, node.len)),
                        !.changed = @ \cup {node.parent}]
  IN  record(tr.store.heap[x], deleteNode(tr.store, x))

-----------------------------------------------------------------------------
\* The walk over [clock, end), which takes no more steps than there are clocks:
\* the transaction, the cursor and whether every clock so far was covered.  The
\* cursor is stepped without % ClockMod: one below end has a successor, and no
\* node ends past the last clock (refused, and run lists without a gap from 0).
deleteRange(tr, span) ==
  LET end == (span.clock + span.length) % ClockMod
      \* x begins a node of s: cut it at the end of the range, and delete it
      take(st, x, s) ==
        LET next == st.cur + s.heap[x].len
            cut == IF end < next
                     THEN splitAtAndGetLeft(s, newId(span.client, end - 1)).store
                     ELSE s
        IN  [st EXCEPT !.tr = trDeleteNode([@ EXCEPT !.store = cut], x),
                       !.cur = IF end < next THEN end ELSE next]
      at(st, x) ==
        IF st.cur >= end THEN st
        ELSE IF ~hasNode(st.tr.store, x)
          THEN [st EXCEPT !.cur = @ + 1, !.covered = FALSE]
        ELSE take(st, x, splitAtAndGetRight(st.tr.store, x).store)
      step(st, k) == at(st, newId(span.client, st.cur))
      st0 == [tr |-> tr, cur |-> span.clock, covered |-> TRUE]
  IN  FoldLeft(step, st0, [k \in 1 .. span.length |-> k])

\* Fault: a span that was not fully covered is forgotten.
retrySpanForgets(st, span) == [st EXCEPT !.tr = deleteRange(@, span).tr]

\* One span of the retry loop; not fully covered, it is kept whole.
retrySpan(st, span) ==
  LET after(d) ==
        [tr |-> d.tr, rest |-> IF d.covered THEN st.rest ELSE Append(st.rest, span)]
  IN  after(deleteRange(st.tr, span))

\* The buffered spans are retried with the new ones.
applyDeleteSpans(tr, spans) ==
  LET buffer(done) == [done.tr EXCEPT !.store.pendingDeletes = done.rest]
  IN  buffer(FoldLeft(retrySpan, [tr |-> tr, rest |-> <<>>],
                      tr.store.pendingDeletes \o spans))

-----------------------------------------------------------------------------
integrateDecoded(tr, u) ==
  LET repaired(r) == integrate([tr EXCEPT !.store = r.store], u.id, r.item)
  IN  repaired(repair(tr.store, newItem(u.originLeftId, u.originRightId, u.len),
                      u.parentName))

\* One pass over the pending structs: a duplicate is dropped, a ready struct
\* integrated, any other kept, once per id.
drainPass(st) ==
  LET visit(acc, u) ==
        IF hasNode(acc.tr.store, u.id) THEN acc
        ELSE IF depsArrived(acc.tr.store, u)
          THEN [acc EXCEPT !.tr = integrateDecoded(@, u), !.progress = TRUE]
        ELSE IF containsUpdateItemId(acc.rest, u.id) THEN acc
        ELSE [acc EXCEPT !.rest = Append(@, u)]
  IN  FoldLeft(visit, [tr |-> st.tr, rest |-> <<>>, progress |-> FALSE], st.rest)

\* What the last pass left over is the new buffer.
buffered(done) == [done.tr EXCEPT !.store.pending = done.rest]

\* Fault: a single pass.
applyUpdateOnce(tr, structs) ==
  buffered(drainPass([tr |-> tr, rest |-> tr.store.pending \o structs,
                      progress |-> TRUE]))

\* Passes until one makes no progress; each that does takes a struct away, so
\* Len(all) + 1 of them are enough.
applyUpdate(tr, structs) ==
  LET all == tr.store.pending \o structs
      pass(st, n) == IF st.progress THEN drainPass(st) ELSE st
      st0 == [tr |-> tr, rest |-> all, progress |-> TRUE]
  IN  buffered(FoldLeft(pass, st0, [n \in 1 .. Len(all) + 1 |-> n]))

\* ApplySyncUpdate: structs, then delete spans, in one transaction.
applySyncUpdate(tr, structs, spans) ==
  applyDeleteSpans(applyUpdate(tr, structs), spans)

-----------------------------------------------------------------------------
\* Fault: no guard against the clock wrapping round.
refusedPastEnd(s, t, index, n) == index > s.len[t]

\* Fault: the clock is taken to end one value earlier than it does.
refusedEarly(s, t, index, n) ==
  index > s.len[t] \/ (s.clock + n + 1) % ClockMod < s.clock

\* Fault: the index is not checked against the visible length.
refusedOnWrap(s, t, index, n) == (s.clock + n) % ClockMod < s.clock

\* An insertion past the end, or that would wrap the clock, is refused.
refused(s, t, index, n) ==
  index > s.len[t] \/ (s.clock + n) % ClockMod < s.clock

\* Fault: an index inside a node is taken for its end.
positionUnsplit(s, t, index) ==
  LET at(pos) == [store |-> s, left |-> pos.left, right |-> pos.right]
  IN  at(findPos(s, t, index))

\* The store in which a visible index lies between two nodes, and those.
position(s, t, index) ==
  LET at(pos) ==
        IF pos.offset = 0 THEN [store |-> s, left |-> pos.left, right |-> pos.right]
        ELSE [store |-> splitNode(s, pos.left, pos.offset),
              left |-> pos.left, right |-> Add(pos.left, pos.offset)]
  IN  at(findPos(s, t, index))

\* InsertIn: n units at a visible index of root type t.  A run shares its
\* right origin and each unit's left origin is the unit before it.
InsertIn(tr, t, index, n) ==
  LET type(st, k) ==
        LET s == st.tr.store
            x == newId(s.client, s.clock)
            originLeft == IF st.left = Nil THEN Nil ELSE LastId(s, st.left)
            it == [newItem(originLeft, st.right, 1) EXCEPT
                     !.left = st.left, !.right = st.right, !.parent = t]
        IN  [st EXCEPT !.tr = integrate([@ EXCEPT !.store.clock = (s.clock + 1) % ClockMod],
                                        x, it),
                       !.left = x]
      typeAt(pos) ==
        FoldLeft(type, [tr |-> [tr EXCEPT !.store = pos.store],
                        left |-> pos.left, right |-> pos.right],
                 [k \in 1 .. n |-> k]).tr
  IN  IF refused(tr.store, t, index, n) THEN tr
      ELSE typeAt(position(tr.store, t, index))

\* Fault: a deletion takes the whole of the node it ends in.
endSplitNever(s, x, remaining) == s

\* The node in which a deletion ends is cut at the rest of its length.
endSplit(s, x, remaining) ==
  IF remaining < s.heap[x].len THEN splitNode(s, x, remaining) ELSE s

\* DeleteIn: tombstone forward from a visible index until length units are
\* spent.  Every turn of the loop passes a node, or cuts the last one.
DeleteIn(tr, t, index, length) ==
  LET take(st, s) ==
        [tr |-> trDeleteNode([st.tr EXCEPT !.store = s], st.cur),
         remaining |-> st.remaining - s.heap[st.cur].len,
         cur |-> s.heap[st.cur].right]
      step(st, k) ==
        IF st.remaining = 0 \/ st.cur = Nil THEN st
        ELSE IF st.tr.store.heap[st.cur].deleted
          THEN [st EXCEPT !.cur = st.tr.store.heap[@].right]
        ELSE take(st, endSplit(st.tr.store, st.cur, st.remaining))
      deleteAt(pos) ==
        FoldLeft(step, [tr |-> [tr EXCEPT !.store = pos.store],
                        remaining |-> length, cur |-> pos.right],
                 [k \in 1 .. Len(From(pos.store, pos.right)) |-> k]).tr
  IN  deleteAt(position(tr.store, t, index))
=============================================================================
