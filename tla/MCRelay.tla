------------------------------ MODULE MCRelay ------------------------------
(***************************************************************************)
(* Relay for TLC: the peers are interchangeable, so safety is checked up   *)
(* to their permutations.                                                  *)
(***************************************************************************)
EXTENDS Relay, TLC

Symmetry == Permutations(Conn)
=============================================================================
