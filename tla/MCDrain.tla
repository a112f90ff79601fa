------------------------------ MODULE MCDrain ------------------------------
(***************************************************************************)
(* Drain for TLC: replica 1 receives what clients 2 and 3 wrote after its  *)
(* own insertions and after each other's, in batches of at most MaxBatch.  *)
(***************************************************************************)
EXTENDS Drain

CONSTANT MaxBatch

u(client, k, n, left, right) ==
  [id |-> newId(client, k), len |-> n, originLeftId |-> left, originRightId |-> right]

\* An own insertion echoed back, a run on its own, two on both clients, ...
MCStruct ==
  {u(1, 0, 1, Nil, Nil),
   u(2, 0, 1, newId(1, 0), Nil),
   u(2, 1, 2, newId(2, 0), newId(1, 1)),
   u(3, 0, 1, Nil, newId(2, 2)),
   u(3, 1, 1, newId(2, 0), Nil)}

MCBatch == UNION {[1 .. n -> MCStruct] : n \in 1 .. MaxBatch}
=============================================================================
