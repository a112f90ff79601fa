------------------------------- MODULE Update -------------------------------
(***************************************************************************)
(* The update a document is sent as (yjs/codec.go): which structs and      *)
(* delete spans EncodeUpdate writes for a store and which update items the *)
(* wire codec reads back.  Bytes are abstracted; what is kept is the       *)
(* grouping of nodes into runs, what a run carries, the clocks that are    *)
(* not written but counted again by the reader, and the split of a run     *)
(* into one-unit items.                                                    *)
(***************************************************************************)
EXTENDS Transaction

CONSTANTS HighClocks, LowClocks    \* the clocks at which a client types a half
                                   \* of a surrogate pair

ASSUME SurrogateAssumption == HighClocks \cap LowClocks = {}
ASSUME RootsAssumption == IsFiniteSet(Root)    \* the keys of a map

\* Fault: runs are joined whatever their right origins.
joinableAnyRight(s, x, y) ==
  /\ Add(x, s.heap[x].len) = y
  /\ s.heap[y].originLeftId = LastId(s, x)
  /\ s.heap[x].right = y
  /\ s.heap[x].deleted = s.heap[y].deleted

\* Node y continues the run of node x as one item.
joinable(s, x, y) ==
  LET p == s.heap[x]
      n == s.heap[y]
  IN  /\ Add(x, p.len) = y
      /\ n.originLeftId = LastId(s, x)
      /\ n.originRightId = p.originRightId
      /\ p.right = y
      /\ p.deleted = n.deleted

joinRuns(s, nodes) ==
  FoldLeft(LAMBDA runs, x :
             IF runs # <<>> /\ joinable(s, Last(Last(runs)), x)
               THEN Append(Front(runs), Append(Last(runs), x))
               ELSE Append(runs, <<x>>),
           <<>>, nodes)

\* Fault: a head without origins is written without its root's name.
writtenNameNever(s, x) == Nil

\* The root's name, for a head that has no origins to find its parent by.
writtenName(s, x) ==
  IF s.heap[x].originLeftId = Nil /\ s.heap[x].originRightId = Nil
    THEN s.heap[x].parent ELSE Nil

\* The code points units spell: a high half takes a low one behind it along.
codePoints(units) ==
  FoldLeft(LAMBDA points, x :
             IF /\ points # <<>> /\ clockOf(x) \in LowClocks
                /\ Len(Last(points)) = 1 /\ clockOf(Last(points)[1]) \in HighClocks
               THEN Append(Front(points), Append(Last(points), x))
               ELSE Append(points, <<x>>),
           <<>>, units)

lone(point) == Len(point) = 1 /\ clockOf(point[1]) \in HighClocks \cup LowClocks

\* Fault: a half on its own is left out, as it has no UTF-8.
encodeWireStringOmits(units) == SelectSeq(codePoints(units), LAMBDA point : ~lone(point))

\* A half on its own becomes U+FFFD, here Nil: its name is lost, its clock is not.
encodeWireString(units) ==
  LET points == codePoints(units)
  IN  [i \in DOMAIN points |-> IF lone(points[i]) THEN <<Nil>> ELSE points[i]]

decodeWireString(points) == FlattenSeq(points)

\* A struct on the wire has no id of its own: the origins and the parent of its
\* head, and its content, in code points whose units have their ids for names.
encodeRun(s, run) ==
  [originLeftId |-> s.heap[run[1]].originLeftId,
   originRightId |-> s.heap[run[1]].originRightId,
   parentName |-> writtenName(s, run[1]),
   content |-> encodeWireString(FlattenSeq([i \in DOMAIN run |->
                 [k \in 1 .. s.heap[run[i]].len |-> Add(run[i], k - 1)]]))]

encodeStructs(s, nodes) ==
  LET runs == joinRuns(s, nodes)
  IN  [i \in DOMAIN runs |-> encodeRun(s, runs[i])]

\* One client's structs: only the clock of the first is written.
encodeClient(s, nodes) ==
  [client |-> clientOf(nodes[1]), clock |-> clockOf(nodes[1]),
   structs |-> encodeStructs(s, nodes)]

\* The clients something is written for, the largest first: each stands behind as
\* many as are larger.
sortedClientsDesc(C) ==
  [i \in 1 .. Cardinality(C) |->
     CHOOSE c \in C : Cardinality({d \in C : d > c}) = i - 1]

\* The nodes of one client by clock.
sortedByClock(nodes) ==
  [i \in 1 .. Cardinality(nodes) |->
     CHOOSE x \in nodes : Cardinality({y \in nodes : clockOf(y) < clockOf(x)}) = i - 1]

addRange(s, x) == [start |-> clockOf(x), end |-> clockOf(x) + s.heap[x].len]

encodeOrderRange(ranges) ==
  [i \in DOMAIN ranges |-> [clock |-> ranges[i].start,
                            length |-> ranges[i].end - ranges[i].start]]

\* The tombstones of a walk over the lists, by client: one range a node, in the
\* order of the walk.
generateDeleteSet(s, nodes) ==
  LET dead == SelectIn(nodes, {x \in ToSet(nodes) : s.heap[x].deleted})
      of(c) == SelectIn(dead, {x \in ToSet(nodes) : clientOf(x) = c})
      ranges(nodesOf) == [i \in DOMAIN nodesOf |-> addRange(s, nodesOf[i])]
  IN  [c \in {clientOf(x) : x \in ToSet(dead)} |-> ranges(of(c))]

\* The update written from the nodes two walks over the lists came by: byClient
\* those of the struct section, dead those of the delete set.
encode(s, byClient, dead) ==
  LET clients == sortedClientsDesc({c \in DOMAIN byClient : byClient[c] # {}})
      delClients == sortedClientsDesc(DOMAIN dead)
  IN  [structs |-> [i \in DOMAIN clients |-> encodeClient(s, sortedByClock(byClient[clients[i]]))],
       deletes |-> [i \in DOMAIN delClients |->
                      [client |-> delClients[i],
                       ranges |-> encodeOrderRange(dead[delClients[i]])]]]

\* The whole document; what is buffered in pending is not part of it.  The order
\* of the root types is that of a Go map, any one will do.
EncodeUpdate(s) ==
  LET roots == SetToSeq(Root)
      write(nodes) == encode(s, [c \in Client |-> {x \in ToSet(nodes) : clientOf(x) = c}],
                             generateDeleteSet(s, nodes))
  IN  write(FlattenSeq([i \in DOMAIN roots |-> Chain(s, roots[i])]))

-----------------------------------------------------------------------------
readStruct(u, client, clock) ==
  [id |-> newId(client, clock), len |-> Len(decodeWireString(u.content)),
   originLeftId |-> u.originLeftId, originRightId |-> u.originRightId,
   parentName |-> u.parentName]

\* Fault: every struct is taken for one unit.
readStructsOfOne(section) ==
  [i \in DOMAIN section.structs |->
     readStruct(section.structs[i], section.client, section.clock + i - 1)]

\* The structs of one client get the clocks that follow from the first one and
\* the lengths of their contents.
readStructs(section) ==
  LET clockAfter(read) == IF read = <<>> THEN section.clock
                          ELSE clockOf(Last(read).id) + Last(read).len
  IN  FoldLeft(LAMBDA read, u : Append(read, readStruct(u, section.client, clockAfter(read))),
               <<>>, section.structs)

readStructSection(sections) ==
  FlattenSeq([i \in DOMAIN sections |-> readStructs(sections[i])])

readDeleteSection(sections) ==
  LET spans(d) == [i \in DOMAIN d.ranges |->
                     [client |-> d.client, clock |-> d.ranges[i].clock,
                      length |-> d.ranges[i].length]]
  IN  FlattenSeq([i \in DOMAIN sections |-> spans(sections[i])])

\* The wire codec turns a run into one-unit items: chained left origins, one
\* right origin.
splitStruct(u) ==
  [k \in 1 .. u.len |->
     IF k = 1 THEN [u EXCEPT !.len = 1]
     ELSE [id |-> Add(u.id, k - 1), len |-> 1,
           originLeftId |-> Add(u.id, k - 2), originRightId |-> u.originRightId,
           parentName |-> Nil]]

splitStructs(structs) ==
  FlattenSeq([i \in DOMAIN structs |-> splitStruct(structs[i])])
=============================================================================
