------------------------------- MODULE Reload -------------------------------
(***************************************************************************)
(* Replicas whose documents may be created again from their saved state:   *)
(* NewDoc with the client id the document had, then ApplyEncodedUpdate of  *)
(* what EncodeUpdate wrote (the two entry points yjswasm/main.go offers an *)
(* application that keeps its documents).                                  *)
(***************************************************************************)
EXTENDS Replicas

\* What was buffered is not part of the saved state: the replica has to be
\* told of it again.
Reload(r) ==
  LET load(saved) ==
        applySyncUpdate(newTransaction(newStore(r)), Decoded(saved.structs),
                        readDeleteSection(saved.deletes)).store
  IN  /\ doc' = [doc EXCEPT ![r] = load(EncodeUpdate(@))]
      /\ got' = [got EXCEPT ![r] = [ins |-> Integrated(doc[r]),
                                    del |-> Tombstones(doc[r])]]
      /\ UNCHANGED <<sent, cut>>

ReloadNext == Next \/ \E r \in Client : Reload(r)

ReloadSpec == Init /\ [][ReloadNext]_vars

\* Claimed of the local clock (store.go:63-64, "the next clock for the local
\* client (state-vector head) ... making generated ids maximal"): it is above
\* every clock the client has used.
ClockIsNext ==
  \A r \in Client : \A x \in Integrated(doc[r]) :
    clientOf(x) = r => clockOf(x) < doc[r].clock
=============================================================================
