------------------------------- MODULE Encode -------------------------------
(***************************************************************************)
(* EncodeUpdate taken apart.  It takes no lock (yjs/codec.go, EncodeUpdate *)
(* and generateDeleteSet): it follows the pointers of every list twice,    *)
(* once for the structs and once for the delete set, while transactions on *)
(* the same document may link, split and tombstone nodes.  Here a pointer  *)
(* is followed in a step of its own; the nodes found are grouped, joined   *)
(* and written in one.  A range over a Go map visits the root types in any *)
(* order, another one each time.                                           *)
(***************************************************************************)
EXTENDS Replicas

CONSTANT Self    \* the client whose document is being written

VARIABLES walk,      \* the running call; Nil: none
          written    \* the update the last call returned; Nil: none yet

encodeVars == <<walk, written>>
allVars == <<vars, encodeVars>>

-----------------------------------------------------------------------------
EncodeInit == Init /\ walk = Nil /\ written = Nil

\* A walk that begins: the roots to visit, the node to visit next, the nodes
\* visited.
newWalk(pass, roots, structs) ==
  [pass |-> pass, roots |-> roots, cur |-> Nil, seen |-> <<>>, structs |-> structs]

Begin ==
  /\ walk = Nil
  /\ \E roots \in SetToSeqs(Root) : walk' = newWalk("structs", roots, <<>>)
  /\ UNCHANGED <<vars, written>>

\* The head of the next list.
NextRoot ==
  /\ walk # Nil /\ walk.cur = Nil /\ walk.roots # <<>>
  /\ walk' = [walk EXCEPT !.cur = doc[Self].start[Head(walk.roots)], !.roots = Tail(@)]
  /\ UNCHANGED <<vars, written>>

\* A node, and the pointer to its right neighbour; the second walk looks for
\* tombstones.
Visit ==
  /\ walk # Nil /\ walk.cur # Nil
  /\ walk' = [walk EXCEPT !.cur = doc[Self].heap[@].right,
                          !.seen = IF walk.pass = "structs" \/ doc[Self].heap[walk.cur].deleted
                                   THEN Append(@, walk.cur) ELSE @]
  /\ UNCHANGED <<vars, written>>

done(pass) == walk # Nil /\ walk.pass = pass /\ walk.cur = Nil /\ walk.roots = <<>>

\* The structs are written, and the walk for the delete set begins.
WriteStructs ==
  /\ done("structs")
  /\ \E roots \in SetToSeqs(Root) :
       LET byClient == [c \in Client |-> {x \in ToSet(walk.seen) : clientOf(x) = c}]
       IN  walk' = newWalk("deletes", roots, encode(doc[Self], byClient, <<>>).structs)
  /\ UNCHANGED <<vars, written>>

WriteDeletes ==
  /\ done("deletes")
  /\ written' = [structs |-> walk.structs,
                 deletes |-> encode(doc[Self], <<>>,
                                    generateDeleteSet(doc[Self], walk.seen)).deletes]
  /\ walk' = Nil
  /\ UNCHANGED vars

EncodeNext ==
  \/ Begin \/ NextRoot \/ Visit \/ WriteStructs \/ WriteDeletes
  \/ \E r \in Client : Step(r) /\ UNCHANGED encodeVars

EncodeSpec == EncodeInit /\ [][EncodeNext]_allVars

-----------------------------------------------------------------------------
\* Claimed of EncodeUpdate (codec.go:166, "serializes the whole document state";
\* store.go:40-41, "every reader and writer of the document enters through one
\* of" the lock's entry points): whatever runs meanwhile, a unit of an update is
\* read back under the id it has in the document.
UnitsKeepTheirIds ==
  written # Nil =>
    \A i \in DOMAIN written.structs :
      LET section == written.structs[i]
          read == readStructs(section)
      IN  \A j \in DOMAIN read : read[j].id = decodeWireString(section.structs[j].content)[1]
=============================================================================
