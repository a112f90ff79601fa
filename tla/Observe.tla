------------------------------ MODULE Observe ------------------------------
(***************************************************************************)
(* Deltas (yjs/observe.go): the walk over a text that classifies its       *)
(* units, and the patch an application makes of the result.                *)
(*                                                                         *)
(* A delta is a sequence of entries [kind, length, content], the unused    *)
(* one of length and content empty; a unit of content is its id.           *)
(***************************************************************************)
EXTENDS Replicas

entry(kind, x) ==
  IF kind = "insert" THEN [kind |-> kind, length |-> 0, content |-> <<x>>]
  ELSE [kind |-> kind, length |-> 1, content |-> <<>>]

\* Fault: of two joined inserts the first is lost.
deltaSnocLast(delta, op) ==
  IF delta # <<>> /\ Last(delta).kind = op.kind
    THEN Append(Front(delta), [op EXCEPT !.length = Last(delta).length + @])
  ELSE Append(delta, op)

\* Two entries of one kind are joined.
deltaSnoc(delta, op) ==
  IF delta # <<>> /\ Last(delta).kind = op.kind
    THEN Append(Front(delta), [op EXCEPT !.length = Last(delta).length + @,
                                         !.content = Last(delta).content \o @])
  ELSE Append(delta, op)

\* A trailing retain is implicit.
trimmed(delta) ==
  IF delta # <<>> /\ Last(delta).kind = "retain" THEN Front(delta) ELSE delta

\* The walk over every unit of a text, given their kinds; a unit without one
\* contributes nothing.
walk(s, t, kind) ==
  LET add(delta, u) ==
        IF kind[u] = Nil THEN delta ELSE deltaSnoc(delta, entry(kind[u], u.id))
  IN  trimmed(FoldLeft(add, <<>>, Snapshot(s, t)))

\* A retain or a delete past the end fails; what no entry reaches is kept.
ApplyDelta(text, delta) ==
  LET patch(st, op) ==
        IF ~st.ok \/ op.kind = "insert"
          THEN [st EXCEPT !.result = @ \o op.content]
        ELSE IF op.length > Len(text) - st.position THEN [st EXCEPT !.ok = FALSE]
        ELSE [st EXCEPT !.position = @ + op.length,
                !.result = IF op.kind = "delete" THEN @
                  ELSE @ \o SubSeq(text, st.position + 1, st.position + op.length)]
      finish(st) ==
        [ok |-> st.ok,
         result |-> IF st.ok THEN st.result \o SubSeq(text, st.position + 1, Len(text))
                    ELSE <<>>]
  IN  finish(FoldLeft(patch, [ok |-> TRUE, position |-> 0, result |-> <<>>], delta))

\* What the applications do with a delta: one that does not fit is ignored.
callback(old, delta) ==
  LET patched(p) == IF p.ok THEN p.result ELSE old
  IN  patched(ApplyDelta(old, delta))
=============================================================================
