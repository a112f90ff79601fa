# cert-yjs in TLA+

cert-yjs is a Go implementation of the Yjs text CRDT: documents edited on many
replicas at once, brought together by updates that may arrive in any order, in
any batches, repeatedly or late. This directory models its core in TLA+,
model-checks it on small instances with TLC and proves correct with TLAPS, for
instances of any size: the operations of a store, the transactions over it and the
invariants of replicas that rest on them, the encoding of a whole state, the update
loop, the relay server, the document lock and the framing of a TCP connection. Every
definition that stands for code is listed in `PROJECT.json` under `map` with the
lines it stands for.

## 1. The system

| Component | State | Operations | Talks to |
|---|---|---|---|
| Document store (`yjs/store.go`, `item.go`, `id.go`, `ytype.go`) | run list per client, doubly linked list and visible length per root type, local clock, buffers `pending` and `pendingDeletes`, observers | `getNodeIndex`, `GetNode`, `splitNode`, `repair`, `findIntegrationLeft`/`scanConflicts`, `integrateCore`, `deleteNode`, `findPos`, reads | called by transactions |
| Transactions (`transaction.go`, `sync.go`) | `insertSet`, `deleteSet`, `changed` of the open transaction | `applyUpdate`, `applyDeleteSpans`, `deleteRange`, `integrate`, `deleteNode`, `notify`, `transact` | store, observers |
| Text editing (`text.go`) | a handle on store and root type | `Insert`, `Delete`, `InsertIn`, `DeleteIn`, `CodeUnits`, `Snapshot`, `Len`, `Observe` | `transact`, store |
| Document handle (`doc.go`) | the shared store | `NewDoc`, `GetOrCreateText`, `Transact`, `ApplyEncodedUpdate` | codec, transactions |
| Codec (`codec.go`, `delete.go`, `range.go`) | none | `EncodeUpdate`, `joinRuns`, `generateDeleteSet`, `decodeUpdateItems`, `splitStructs` | reads the store |
| Observers (`observe.go`, `observeapp`) | a poll token; the mirror's view | `Poll`, `textDelta`, `ApplyDelta`, `Mirror` | called by `notify` |
| Document lock (`storeRef`) | an `RWMutex` | `rlock`, `wlock` and their releases | every entry point but `EncodeUpdate` |
| Relay server (`wsrelay`) | the room: document, connections, lock | `Join`, `process`, `Serve`, `Run` | `wsnet`, `ApplyEncodedUpdate` |
| WebSocket layer (`wsnet`) | sockets | `Listen`, `Accept`, `Connect`, `Send`, `Receive` | the operating system |
| Browser binding (`yjswasm/main.go`, `cert-yjs.mjs`) | document, open transaction, handlers, queued deltas, the last state told | `transact`, edits, `applyUpdate`, `encodeStateAsUpdate`, `observe`, `on`, `_settle` | `yjs`; the application's handlers |
| TCP channel (`grovenet`) | a socket and two mutexes a connection | `Listen`, `Accept`, `Connect`, `Send`, `Receive` | the operating system |
| Demos (`pingpong`, `wsecho`) | - | one message each | the two channels |
| `refs.go`, `report.go`, `strings.go` | none | conversions | - |

How they interact. An edit opens a transaction (write lock), changes the store,
is recorded in the transaction, and ends with `notify` calling the observers
under the same lock. What other replicas are told is encoded from the store by
the application and sent over any network; the relay server applies a message
to its own document and forwards it verbatim. A replica that receives one
decodes it and runs `applyUpdate` (structs) and `applyDeleteSpans` (deletions)
in one transaction. What cannot be applied yet waits in the two buffers and is
tried again at the next update.

What is hard here, by component:

- *Store*: concurrent insertions at one place must be ordered alike everywhere
  (the YATA scan); runs are split under edits, origins and delete spans; each
  unit is in two structures (linked list, run list) and counted in a third (the
  visible length).
- *Transactions*: structs and deletions come in any order and repeatedly; every
  dependency of a struct has to gate it and nothing else may.
- *Text editing*: a visible index next to tombstones or inside a run; the end of
  the clock.
- *Codec*: units joined into a run lose their own origins and their clocks, which
  the reader counts again; half of a surrogate pair has no UTF-8; the lists are
  walked without the lock.
- *Observers*: a delta is worked out after the fact from the list and two sets.
- *Lock*: callbacks run under the write lock and take one of their own.
- *Relay, channels*: network writes under a lock, half a message in a stream.
- *Browser binding*: handlers that edit the document while they are being called.
- *Restart*: a document created again from its saved state.

`PROJECT.json` lists each hazard at its line, with the properties that would
catch it going wrong.

What makes each component correct: the lists of a store agree with one another
(`ListsAgree`, `LenIsVisible`); replicas that were told the same show the same
(`Convergence`), and replicas that were not still agree on the order of what
they share (`OneOrder`), within the intention of each insertion
(`OriginsRespected`) and without ever moving anything (`OrderIsStable`);
nothing delivered is lost, doubled or left waiting (`NothingReadyPends`,
`NoInsertionDropped`, `DrainIsClosure`, `DeletesLand`); a user's edit does
at the index what it says (`InsertAtIndex`, `DeleteAtIndex`); a whole-state
update carries the state (`SyncCatchesUp`); the loop ends (`DrainEnds`); the
copies observers keep are the text (`MirrorLaw`, `PollCatchesUp`); a room
applies each peer's stream in order and tells every member all the others' in
one order (`AppliedInOrder`, `FanOut`, `Broadcast`) and goes on whoever fails
(`EveryMessageProcessed`); calls of several goroutines act one at a time
(`Exclusive`, `IsSerial`, `CheckHolds`) and return (`CallsReturn`); a channel
delivers whole messages in order (`FramesHold`, `FailuresAreLast`) and a failure
reaches everybody who uses it (`FailureEndsCalls`).

## 2. Modules

```
Selection  <-  Store  <-  Transaction  <-  Update  <-  Replicas  <-  Reload
Replicas  <-  Observe  <-  Mirror
              Observe  <-  Poller
Drain  <-  MCDrain
Drain  <-  Drain_proofs
Broadcast  <-  Relay  <-  MCRelay        (Relay instantiates Broadcast)
Selection  <-  Broadcast, Relay
Replicas  <-  Encode
Serial  <-  DocLock  <-  DocLock_proofs  (DocLock instantiates Serial)
Facade
Channel  <-  Channel_proofs

Selection_proofs  <-  Relay_proofs                                   (with Relay)
Selection_proofs  <-  Store_proofs  <-  Transaction_proofs  <-  Replicas_proofs
                      (with Store)      (with Transaction)      (with Replicas)
```

**Selection** is one operator, `SelectIn(s, S)`: the elements of a sequence that are
in a set, in their order. It is what SelectSeq is for a condition, as a recursive
function that can be proved about; the visible text of a root type, the delete set
and what a member of a room is owed are such selections.

**Store** (`store.go`, `item.go`, `ytype.go`). A store is a record and each
method a function from store to store. A node is named by the id of its first
unit, which it keeps for ever; its content is its length, since the unit at an
id never changes. `left`, `right`, `parent`, the origins and the tombstone of a
node, the run lists, the heads and the visible lengths are all there, so the
pointer surgery of `splitItem` and `integrateCore` is modelled and not assumed.
The loops over nodes (`scanConflicts`, `findPos`, the binary search) are folds
or recursive functions over the list.

**Transaction** (`transaction.go`, `text.go`, `sync.go`). The record of a
transaction and everything that runs inside one: `applyUpdate` pass by pass,
`deleteRange` with both cuts, the retry of buffered spans, `InsertIn`,
`DeleteIn`. Clock arithmetic is modulo `ClockMod`, 2^64 in the code.

**Update** (`codec.go`, `delete.go`). The sections of an update as they are
written and read back. Bytes are abstracted; kept are the grouping into runs,
the origins and parent a run is written with, its content in code points (a
surrogate pair is one, a lone half becomes U+FFFD), the one clock written for
each client, from which the reader counts the others by the lengths of what it
reads, the delete set by client, and the split into one-unit items. The clocks in
`HighClocks` and `LowClocks` are where a client types a half of a pair.

**Replicas** is the state machine: `doc[r]` is the store of replica r; `sent`
and `cut` are the structs and delete spans of every edit so far (the network);
`got[r]` is a history variable, the ids replica r was told of as inserted and
as deleted. Its actions are whole handlers: `Insert` and `Delete` (Text.Insert,
Text.Delete), `Deliver` (ApplySyncUpdate of any batch of what was sent) and
`Sync` (ApplyEncodedUpdate of another replica's EncodeUpdate). Each is one step,
because the code runs each under the document's write lock. Losing a message is
never delivering it; delay and reordering are delivering it later; `Redeliver`
adds repetition. `Deliver` stands for the incremental updates Yjs peers send
(a few structs, a few spans); this package itself writes whole states only
(`Sync`).

`Split` chooses the codec. With `TRUE` it is the wire codec, which hands the
store one-unit items. With `FALSE` runs arrive whole: `Codec` is a parameter of
`ApplyEncodedUpdate`, and the store is written to take runs, so the run
machinery is checked through a codec that does not split. Runs are then
delivered cut as they were sent, never re-cut: a longer run whose first unit is
present would be dropped (`store.go:464-470` says so of itself). A whole state, whose
runs are joined anew, is not exchanged with that codec in any run: `Convergence`,
`SyncCatchesUp` and `TypeOK` are false then, as TLC finds at once.

`MaxBuffered` bounds the delete spans a replica buffers: they are not deduplicated
(section 4), so with repetition there is no other bound.

**Encode** takes `EncodeUpdate` apart, one pointer a step, on the document `Self`
of Replicas while its other steps go on: the code takes no lock there. The node a
walk is at and those it came by are `walk`; grouping, joining and writing what was
found is one step at the end of each of the two walks.

**Reload** adds the creation of a document again from its saved state.

**Drain** takes `applyUpdate` apart: one step per loop iteration (`Drop`,
`Integrate`, `Requeue`), per pass (`NextPass`) and per call (`Begin`,
`Finish`), with local insertions between calls. Where a unit is placed is left
out; the store is the set of ids its run lists cover.

**Observe** (`observe.go`) holds the two halves of the pattern an application
follows: the walk that classifies the units of a text into a delta, joined and
trimmed as in the code, and the patch. Two state machines use it.

**Mirror** (`text.go` Observe, `transaction.go`, `observeapp`). Replica `Self` of
Replicas is observed. `tr` is its open transaction, and the write lock is held
exactly while there is one: `Begin`, any number of `EditInsert` and `EditDelete`,
`Commit`, which is the only step that changes the document and tells the
observers (`notify`). `Update` is an update from the network, a transaction of
its own; `Register` is Text.Observe with its initial load. `view[t]` is the copy
the callback keeps, with ApplyDelta's refusal of a delta that does not fit:
whether it ever refuses is for `MirrorLaw` to find out. Peers move between
transactions only. Their steps touch other variables than an open transaction
does, so nothing is lost.

**Poller** (`observe.go` Poll). `token[t]` is what the TextObserver of text t saw
at its last Poll, `polled[t]` the copy of the application. The document changes
as in Replicas.

**Relay** (`wsrelay`, `wsnet`). `Accept` and `Join` are Run's goroutine, the
disjuncts of `Serve` those of each connection. `mu` is the lock of the room;
`ApplyEncodedUpdate` takes it (the document's own lock nests inside and nobody
else takes that, so the apply is part of the step), `Send` and `SendFails` are
one write each, `Unlock` ends process. A connection is `new`, `open`, `broken`
(the peer is gone and the server does not know) or `closed` (killConn). A write
to an open connection blocks while `Capacity` messages lie unread; it may fail
late, having delivered or not; to a broken one it may succeed and be lost. Peers
(`Connect`, `PeerSend`, `PeerReceive`, `HangUp`) may do anything at any time.

**Broadcast** is what a room promises, without locks, goroutines or sockets.
`Relay` implements it with `log`, `inbox` and `joinedAt` as they are and as `gone`
the connections that are broken or closed. Its `Publish` waits until every living
member was handed the message before: that is what the lock held through the
fan-out gives.

**DocLock** (`store.go` storeRef, the entry points of `doc.go` and `text.go`,
`transaction.go`, `observeapp`). `call[g]` is what goroutine g called, `pc[g]` what
it does next. The RWMutex is external, as its documentation has it: a writer
announces itself (`Announce`), waits for the readers there are (`Locked`) and keeps
later ones out; `wunlock` lets those in. A read is two steps, `ReadFirst` and
`ReadLast`; a transaction any number of `Edit`s, `Notify`, the callback
(`CallbackLock`, `CallbackPatch`, with the Mirror's lock inside the document's) and
`Unlock`; `Check` reads the text and then the view inside a transaction. The text is
the number of edits in it, all that atomicity depends on.

**Serial** is what the lock is for: every call one step. `DocLock` implements it
with `text` without the edits of the open transaction. Replicas and Mirror, in which
a transaction is one step, rest on it.

**Facade** (`cert-yjs.mjs`, `main.go`). JavaScript is one thread: what runs is the
application at the top, the body of `transact`, or the handler `calling` that
`_settle` is in. `settling` is where the outermost `_settle` is; a call of it from a
handler's own edit returns at once, so `endTransact` leaves `settling` alone then. A
text is the number of edits in it, a delta the text it is of.

**Channel** (`grovenet`). Both ends of a connection and the bytes under way, one read
or write a byte. `LockSend` to `Sent` or `WriteFails` are Send, `LockReceive` to
`Received` or `ReadFails` are Receive. A read or write fails when either end is
closed, or, `MaxFaults` times, by itself; a closed peer may have bytes left to read
or not (a reset loses them). `sent` and `received` are history: what was locked out
and its fate, and what Receive returned.

Definitions commented *Fault* are variants of code that a plausible bug would
give; no specification uses them. They show that each property can fail.

## 3. Runs

| Run | Instance | What it shows |
|---|---|---|
| `ReplicasSync` | 3 replicas, 4 units, whole states | `OneOrder`, `OriginsRespected`, `OrderIsStable` |
| `ReplicasUnits` | 2 replicas, wire codec, a surrogate pair; structs in twos, spans and whole states in any order, repeated | `Convergence`, `NothingReadyPends`, `DeletesLand`, `SyncCatchesUp` |
| `Poller` | 2 texts, runs arrive whole, clocks of three values | `PollCatchesUp`, `Convergence`, `ListsAgree`, `LenIsVisible`, `OneOrder`, `DeletesLand`, `InsertAtIndex`, `DeleteAtIndex` |
| `Mirror` | 1 text, 3 units, 2 deletions, runs arrive whole | `MirrorLaw`, `TypeOK`, `ListsAgree`, `DeletesLand` |
| `MCDrain` | the loop, 3 clients, batches of up to 3 | `TypeOK`, `GapFree`, `NoInsertionDropped`, `NothingReadyPends`, `DrainIsClosure`, `DrainEnds` |
| `DocLock` | 3 goroutines, transactions of 2 edits | `TypeOK`, `Exclusive`, `CheckHolds`, `IsSerial`, `CallsReturn` |
| `MCRelay` | 3 peers, 3 messages, capacity 1 | `TypeOK`, `AppliedInOrder`, `FanOut`, `Broadcast` |
| `RelayLive` | 2 peers, 4 messages, capacity 1 | `EveryMessageProcessed` |
| `Channel` | 3 goroutines, 3 messages of 2 or 3 bytes, 1 fault | `TypeOK`, `FramesHold`, `FailuresAreLast`, `FailureEndsCalls` |
| `Reload` | 2 replicas | violation: `ClockIsNext` |
| `Encode` | 2 replicas, 3 units | violation: `UnitsKeepTheirIds` |
| `Facade` | 1 text, 2 edits | violation: `EventsTellTheState` |

**Bounds.** `MaxUnits` units altogether, `MaxInsert` in one insertion,
`MaxDeletes` delete edits, `MaxBatch` structs in one batch; `MaxClock` and
`MaxBatch` in Drain. They appear in guards only, so every behaviour within them
is explored. They are enough for the cases the code distinguishes: four units
of three clients are what the known hard cases of YATA need (two units with the
same left origin and different right origins, one more that hangs off the
first, and the unit between whose neighbours they compete); two-unit runs and
one-unit deletions already cut a run at both ends; three chained structs of two
clients in the reverse order need three passes. Clients are numbers, since the
code breaks ties by comparing them, so no run of documents uses symmetry. Three
units and two deletions are enough for a transaction that inserts and deletes
the same unit, splits a run that arrived whole and meets an older tombstone.
`PollCatchesUp` asks in every state what a poll would give, so `MaxPolls` = 1
compares a first and a second poll, and two texts are what it takes for
the clocks of one text to have holes. In `MCRelay` three peers are a sender, a
rival and a member that may fail, join late or never, and a capacity of one makes
every second write to a slow reader block; the peers are interchangeable and all
four properties are safety, so `SYMMETRY` is sound there. `RelayLive` uses none. In `Poller` a
`ClockMod` of three puts the end of the clock within reach. A buffer of two spans
holds the two runs of one deletion, or one twice. Three goroutines of `DocLock` are
a writer, one that waits and a reader that comes after it. `Channel` has two
goroutines at one end, so that sends and receives there meet, a header of two bytes,
so that it can be cut, and fewer bytes in flight than a message has.

**Deadlock.** In Replicas, Mirror, Poller and Relay a state in which the bounds
are used up and everything was delivered has no step: `CHECK_DEADLOCK FALSE`. `MCDrain`, `DocLock` and `Channel` check
deadlock: the loop must always be able to go on or return, and somebody can always
go on or be called.

**Fairness.** In Drain, weak fairness of `Loop`, the steps of a call that is
running: it holds the write lock, blocks on nothing and runs on one goroutine, so
the scheduler is all that is assumed. In Relay, DocLock and Channel strong fairness
of everything one goroutine does by itself (`Server(c)`, `Step(g)`, `progress(g)`):
the scheduler runs it, and where it waits for a `sync.Mutex` or an unbuffered channel
it is not passed over for ever (the mutex's starvation mode hands it to the one that
waits longest, Go serves the senders of a channel in order). Nothing is assumed of
what the program calls, of peers, or that anything fails. In Relay, a write to a connection that is open and
full is not enabled, and that it fails is never assumed: `Send` has no deadline
(`context.Background()`). So nothing makes a peer read, hang up or fail, and
`EveryMessageProcessed` says what it needs of them as a premise, `PeersRead`.
Without the premise TLC finds the room stopped for good by one peer that stays
connected and does not read: its writer waits with the lock of the room held.
Replicas, Mirror, Poller and Facade, whose properties are all safety, have none.

## 4. Findings

`Reload`. The comment on `clock` (`store.go:63-64`) says it is the next clock of
the local client. Structs of the local client that arrive in an update do not
advance it, so a document created under the client id it had before and given
its saved state inserts its next unit at clock 0, an id it already holds. A
fresh client id for every load avoids it.

`Encode`. `codec.go:166` says `EncodeUpdate` "serializes the whole document state",
`store.go:40-41` that every reader of the document enters through the lock. It does
not: `EncodeUpdate` and `generateDeleteSet` walk the lists without it. With a
transaction between two steps of the walk the update may miss a unit and hold a
later one of the same client. Only the first clock of a client is written, so the
reader takes the later unit for the missed one, and from then on the two documents
disagree about what an id is. `wsrelay` never encodes, and JavaScript has one thread;
a Go program that encodes while it edits is exposed.

`Facade`. The comment on `_settle` (`cert-yjs.mjs:184-186`) says the outer call
delivers for a handler that writes the document. It goes round again only if deltas
were queued: when an 'update' handler edits a text nobody observes, no 'update' event
tells of the edit, and a peer fed by these events misses it until a later one.

Not shown by a run: the comment on `pendingDeletes` (`store.go:84-85`) says the
buffer keeps "only the uncovered remainder" of a delete span, `applyDeleteSpans`
keeps the whole span (`transaction.go:165-167`). Harmless to the document, as
`DeletesLand` and `LenIsVisible` show. Nor is the buffer deduplicated: a span
repeated while its target is missing is kept once more each time, without a bound.
The 'update' event may also come without a change: the delete set is written in the
order of a Go map of roots, so two encodings of one state may differ.

## 5. Proofs

`Drain_proofs` proves, for every set of clients, structs and batches:

| Theorem | Statement |
|---|---|
| `TypeCorrect` | `Spec => []TypeOK` |
| `NoGaps` | `Spec => []GapFree` |
| `NothingLost` | `Spec => []NoInsertionDropped` |
| `NothingWaitsInVain` | `Spec => []NothingReadyPends` |
| `OrderDoesNotMatter` | `Spec => []DrainIsClosure` |

All follow from `Invariance`, the inductive invariant `IInv`. None of the five
is inductive alone, and the conjuncts say why:

- `Whole`: if one unit of a delivered struct is integrated, so are all. `hasNode`
  is asked about the first unit only, so without it `Drop` could lose the rest.
- `OwnFirst`, `Places`: the replica's own units are exactly those below its
  clock, and the locals of the call are empty between calls.
- `RestNotReady`: while a pass has made no progress, nothing put aside in it is
  ready. It turns the loop's exit condition into `NothingReadyPends`.
- `Least`: what is integrated lies in every closed set. It gives the second half
  of `DrainIsClosure`; the first half follows from the others when the call
  returns.

Assumptions: `StructAssumption` and its like are types. `TilesAssumption` says
that two structs that share a unit are one: true of the one-unit items the wire
codec makes, and of runs that are never re-cut. `ComesAfterOwn`, a guard of
`Begin`, says that peers refer to a unit of this replica only after it was
inserted: ids are made nowhere else. It is what makes a local insertion unable
to make a waiting struct ready, and it is what a reloaded document breaks
(section 4). Every struct is taken to find a parent, as all that `encodeRun`
writes do: one without origins carries its root's name.

`DocLock_proofs` proves, for every set of goroutines and every number of edits in
a transaction:

| Theorem | Statement |
|---|---|
| `TypeCorrect` | `Spec => []TypeOK` |
| `NobodyInTheWay` | `Spec => []Exclusive` |
| `CheckIsTrue` | `Spec => []CheckHolds` |
| `CallsAreAtomic` | `Spec => IsSerial`: DocLock implements Serial |

Its `IInv` says where the locks are and what that makes of the text:

- `WriterIsInside`, `ReadersAreInside`, `MuIsHeld`: `writer`, `readers` and `mu` are
  determined by where the goroutines are. `Exclusive` speaks of the labels only, and
  no step could keep it without knowing that the lock agrees with them.
- `EditsAreOpen`: edits nobody was told of are those of the open transaction, whose
  goroutine is inside. So inside any other call there are none.
- `CopiesAgree`: the mirror is the text without those edits, and what a walk or a
  `Check` saw first still holds. With `EditsAreOpen` it gives `CheckHolds`, and that
  the steps that take effect (the callback, `Register`, `ReadLast`, `MirrorText`) are
  steps of Serial; all others change nothing of its state.

It assumes that `Nil` is no goroutine and that `MaxEdits` is a natural number. The
lock itself is external: its rules are those of the documentation of sync.RWMutex.

`Channel_proofs` proves, for every set of goroutines, lengths of messages and of the
header, bytes in flight and number of faults:

| Theorem | Statement |
|---|---|
| `TypeCorrect` | `Spec => []TypeOK` |
| `FramesArrive` | `Spec => []FramesHold` |
| `NoSuccessAfterFailure` | `Spec => []FailuresAreLast` |

`FramesHold` speaks of whole messages, a step moves one byte. The `IInv` between them
says where every byte is: what the holder of sendMu still has is the end of the last
message (`HalfWritten`), what the holder of recvMu has read is the start of the next
(`HalfRead`), what is under way are bytes of messages, one after the other
(`UnderWay`). `NothingBetween` joins the three: the stream starts where its reader is
and ends where its writer is. It is only claimed of an end that is not closed: after a
failure the rest of a message is gone, and only the close keeps the next writer or
reader from going on in the middle of a frame. `Fates` carries the same for the
senders: an error closed the end, and a message is wholly written only if all before
it were. The proof assumes what `ChannelAssumption` says: the two ends share no
goroutine, and a header has at least one byte (`grovenet` writes eight).

`Relay_proofs` proves, for any set of connections, finite or not, any capacity of a
socket and any number of messages:

| Theorem | Statement |
|---|---|
| `TypeCorrect` | `Spec => []TypeOK` |
| `StreamsInOrder` | `Spec => []AppliedInOrder` |
| `MembersAreTold` | `Spec => []FanOut` |
| `RoomBroadcasts` | `Spec => Broadcast`: Relay implements module Broadcast |

`FanOut` is about inboxes, a step of the fan-out about one member still to be told.
The `IInv` between them:

- `Numbered`, `Taken`, `Logged`: messages carry their sender and number, and the log
  holds none that its Serve has not taken yet. So what is logged next continues its
  sender's stream, which is `AppliedInOrder`.
- `InHand`: while the lock is held its holder's message is the last of the log, and
  those still to be told of it joined before it was logged, and are not the sender.
  A member that joins waits for the lock, so it is owed nothing of a fan-out that is
  going on.
- `Delivered`: a living member was told all it is owed, but for the message in hand
  if it is still to come. It is claimed of open connections only; one that broke keeps
  the prefix it was told. This is `FanOut` with the fan-out's progress in it.
- `Joined`: nothing is told or logged of a connection before it joined.

The refinement maps a connection that hangs up or whose write fails while it is open
to Broadcast's `Lose`, `Join` to `Join`, `ApplyEncodedUpdate` of a good message to
`Publish` and a `Send` to an open connection to `Hand`; every other step leaves the
mapped state as it is. `Publish` asks that every living member has the message before:
that is `Delivered` with nothing left in hand, which the lock gives. Assumed is that
`Nil` is neither a connection nor a number and that a socket holds a message.

Four modules prove what happens to documents, each on the one before.

`Selection_proofs`: `SelectIn` of the empty sequence, of one element more, of a suffix
and its elements. `Store_proofs`: what each method does to a store. `Sound` is the
invariant of a store: one doubly linked list for each root type, with a head, holding
exactly the nodes of that parent (`Linked`); for each client a sorted gapless run list
holding exactly its nodes (`Runs`).

| Theorem | What it says of the method, for every sound store |
|---|---|
| `NodeIndex` | the binary search finds the node that covers a clock, and none if none does |
| `SplitKeeps` | a split keeps units, tombstones, lengths and the order of units |
| `IntegrationPlace` | the conflict scan ends at a place of the list the struct belongs to |
| `IntegrateKeeps` | integrating adds the struct's units to its root type, and moves no other |
| `DeleteKeeps` | deleting hides the units of its node and no others |
| `RepairKeeps` | repair cuts at the origins and finds a parent unless an origin is missing |
| `AddsCounted`, `HidesCounted` | both keep the visible length the number of units shown |
| `OneArrangement` | two orders that their units' origins justify agree on the units they share |
| `IntegrateArranges` | integrating a unit whose origins are there keeps such an order |
| `DeliveredArranges` | so does cutting a received struct in: the store stays part of its world |

The last three are about *where* a unit goes, which is no matter of one document. A
`World` holds the units ever inserted anywhere, with the origins and root type each was
inserted with, and a rank that grows along origins and along the units of one client.
`Yata` says that the world justifies an order of some of its units:

- `Between`: each unit stands between its origins.
- `Justified`: x stands before y only if that follows from their origins (x is no
  later than y's left origin, or x's right origin no later than y, or y's left origin
  is earlier than x's), or from the ids of their clients when they share the left
  origin. These are the cases the conflict scan of `findIntegrationLeft` tells apart.
- `NoCross`: the left origin of a unit's right origin is no later than its own.
- `Own`: no unit was inserted around an older unit of its own author.

Two units that stood in opposite orders in two such lists would, by `Justified` in
both, lead to another such pair of lower rank; there is none of the lowest, which is
`OneArrangement`. `Justified` is all about the scan: it is what the loop has to
establish of the units it passes and of those it leaves behind. `NoCross` and `Own`
are not about the scan but make it right. They rule out the crossing origins for which
its early exit would be wrong, so they must be kept for the list to stay an order that
can be inserted into.

`Transaction_proofs`: what a transaction adds to that. `Keeps` is common to all of
them: soundness, every unit and tombstone, the order of units, counted lengths, and
origins that are there.

| Theorem | What it says of the operation |
|---|---|
| `RangeDeleted` | `deleteRange` hides what is there of its range, and tells whether all was |
| `DeletesLandThere` | old and new delete spans hide all they name that is there; the rest waits |
| `DecodedIntegrates` | a struct whose dependencies are there gets a parent and a place |
| `UpdateApplied` | `applyUpdate` ends with nothing ready and nothing twice, loses and invents nothing |
| `InsertionTyped` | an insertion is refused or types the client's own next units, without wrapping, at its index |
| `DeletionRecorded` | a deletion records just the units it hid, which were shown, from its index on |

Where an edit lands is told by the units before the place (`First`: a set of units
with all that stand before them), since splits leave those alone and change every
number of a node. `Reached`: as many units of that set are shown as the index says, of
whatever nodes `findPos` passed and wherever it cut one. `Behind`: the units typed
stand right behind that set, in the order they were typed (`TypedSplices`,
`BehindMore`). `Swept`, with `SweepAt` for the walk under way: what is hidden are the
units between two such sets, as many shown ones as asked for or all that are left.

The models' loops are recursive functions and folds. They are followed by induction on
a set (`UpTo`): a set of numbers that holds 0 and with each number the next has all,
since otherwise there were a least one outside (`Least`). That a fold's function exists
is `FoldExists`; `FoldValues` gives its values one by one. So no induction theorem with
an operator parameter is needed.

`Replicas_proofs` proves, for any clients, finite set of root types, clock width and
bounds, whatever is lost, repeated, delayed, cut into batches or sent as a whole state:

| Theorem | Statement |
|---|---|
| `ListsAlwaysAgree` | `Spec => []ListsAgree` |
| `LenStaysVisible` | `Spec => []LenIsVisible` |
| `DeletesAlwaysLand` | `Spec => []DeletesLand` |
| `NothingReadyEverPends` | `Spec => []NothingReadyPends`, for the wire codec (`Split`) |
| `OrderStaysStable` | `Spec => OrderIsStable` |
| `OneOrderEverywhere` | `Spec => []OneOrder` |
| `OriginsAlwaysRespected` | `Spec => []OriginsRespected` |
| `InsertionsLandAtIndex` | `Spec => []InsertAtIndex` |
| `DeletionsLandAtIndex` | `Spec => []DeleteAtIndex` |
| `ReplicasConverge` | `Spec => []Convergence`, for the wire codec |
| `SyncsCatchUp` | `Spec => SyncCatchesUp`, for the wire codec |
| `TypesStay` | `Spec => []TypeOK`, for the wire codec, or where no whole states are exchanged |
| `AlwaysHolding` | `Spec => []IInv` |
| `AlwaysOneWorld` | `Spec => []OneWorld` |
| `WholeStateRead` | what is decoded of `EncodeUpdate` has the units and names the tombstones of the store |

`IInv` says of every replica, and of the network:

- `Good`: its store is sound, counted and anchored, and its clock is the size of its
  own run and below `ClockMod`. `LenIsVisible` is not inductive without the lists:
  what a step adds to the length has to be what it adds to what is shown. Without the
  clock a local insertion could reuse an id and break the run list; it is what a
  reloaded document loses (section 4), and Replicas has no reload.
- `Known`, `Carried`: nothing is integrated, buffered or under way that its author did
  not make (`Made`: the units below the clocks of their clients), and everything
  depends only on what was made. So a local insertion makes no buffered struct ready
  and no buffered span due, anywhere. Without it `NothingReadyPends` and `DeletesLand`
  fail at the replica that types.
- `Deletions`: of what it was told to delete, what is integrated is hidden and the rest
  is in the buffered spans, which name nothing else.
- `Insertions`, for one-unit structs: what it was told is integrated or buffered, once,
  and what is buffered is not ready. Of a longer run the store asks after the first
  unit only (section 2), so this is claimed of the wire codec, as is
  `NothingReadyPends`.

TLC checked the conjuncts beside the types on the instance of `ReplicasUnits` before
they were proved.

`IInv` is about one replica at a time; `OneWorld` is about all. It says that there is
one world whose units are those made so far, such that every replica is `Arranged` by
it, every struct sent or buffered is `Spelled` as in it (the same origins, the units
after the first typed behind one another), and the world is `Valid`: of each unit there
is an order, that of its author when it was typed, with all its author had typed before.

- An insertion extends the world by the units typed. Their origins are neighbours in
  the author's list, where nothing has to be scanned past (`TypedBeside`), and the
  author's list after it is the order `Valid` asks for.
- A delivery leaves the world as it is. `Valid` is what carries a unit to a replica
  other than its author's: `NoCross` and `Own` hold of it there because they held where
  it was typed, and orders agree (`ReadyElsewhere`). Then `IntegrateArranges` applies.
- A whole state carries what is spelled, though nodes are joined when it is written
  and cut again when it is read.

`OneOrder` and `OriginsRespected` follow at once, of runs decoded whole as well. For
`Convergence` and `SyncCatchesUp` the replicas must also have the same units. One told
of units and of all they depend on has them (`NothingIsMissed`): of those missing take
one of the least rank; it waits, though what it depends on is there, against
`Insertions`. `Insertions` is claimed of the wire codec only, so these two are as well.
`TypesStay` has its own invariant, `Bounded`: what was made was sent and is no more
than `MaxUnits`, and what waits is something that was sent. A run joined for a whole
state need not be, hence its hypothesis.

`InsertAtIndex` and `DeleteAtIndex` say of every state what an edit there would show.
A box action formula would skip an edit that is refused, or hides nothing, as a
stuttering step. They follow from `IInv` and the two theorems about edits. A root shows a row of units in the order of its list (`TextRow`); first units of
that order of which k are shown are the first k of the row (`RowSplit`); and a row is
known by its elements (`RowsEqual`), so the text after an edit is the one the property
puts together of parts.

Assumed are `InsertAssumption` (one insertion is shorter than the
clock has values), `RootsAssumption` (the roots are the keys of a map), that `Nil` is
no root and no id, that clients are numbers, and the types of the bounds.

Only model-checked:

- `Convergence` for runs decoded whole, where no whole states are exchanged (`Poller`).
- `MirrorLaw` and `PollCatchesUp`: deltas worked out from a walk of the list.
- Liveness under fairness: `DrainEnds`, `EveryMessageProcessed`, `CallsReturn`,
  `FailureEndsCalls`. ENABLED is out of the prover's reach.
- The three runs that expect a violation (section 4).

## 6. Not modelled

Bytes: varints, string lengths, the port and address encodings, JavaScript values.
They are pure and tested where they are written. GC and Skip structs are never
written by this code and skipped when read; input that does not decode is refused
whole (`Reject` in Relay). The text behind a lone half of a pair after it was sent
(U+FFFD for the receiver) is documented as unsupported (`codec.go:31-42`); what is
modelled is that its clock is kept. Reports and string views are conversions, the
demos exchange one message. `Connect` of `wsnet`, its read limit and the HTTP upgrade
are left to the peers of Relay. Handlers of the facade are not told apart: one
observer a text and one 'update' handler. The Rocq development under `src/` of the
repository consists of proofs about a translation of the Go code and was not
translated; neither were its statements.

## 7. Plan

1. *Done*: every module above. An abstract specification of `applyUpdate` as one step
   is not planned any more: `DrainIsClosure`, proved, says what it would.
2. *Done*: one origin for each id, and a rank that grows along dependencies (`World`).
3. *Done*: `OriginsRespected`, and `OneOrder` in full.
4. **Rooms of documents**: Relay's log applied to Replicas' stores, to check what a
   late joiner shows and keeps buffered.
