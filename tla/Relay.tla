------------------------------- MODULE Relay -------------------------------
(***************************************************************************)
(* The WebSocket server (wsrelay): one room, its connections and the       *)
(* goroutines that serve them, over the channels of wsnet.                 *)
(*                                                                         *)
(* Run is one goroutine that accepts and joins; Serve is one for each      *)
(* connection, which receives a message, takes the lock of the room,       *)
(* applies the message to the room's document and writes it to every other *)
(* connection, one at a time, before it lets the lock go.                  *)
(*                                                                         *)
(* A message is [from, n, good], the n-th of its sender; a good one        *)
(* decodes.  The document is the log of what was applied to it.  Of the    *)
(* two channels of a connection the histories are kept: what the peer sent *)
(* and how much of it the room took, what was written to the peer and how  *)
(* much of that it read.  Text frames, which Receive skips, are left out.  *)
(***************************************************************************)
EXTENDS Naturals, Sequences, FiniteSets, SequencesExt, Selection

CONSTANTS Conn,         \* the connections there may be
          Nil,
          Capacity,     \* messages that fit the buffers towards a peer
          MaxMessages   \* bound: messages sent altogether

ASSUME RelayAssumption ==
  /\ Nil \notin Conn \cup Nat
  /\ Capacity \in Nat \ {0}
  /\ MaxMessages \in Nat

VARIABLES link,      \* the state of each connection
          arriving,  \* the connection Run has accepted and not joined yet
          conns,     \* the connections of the room, in the order they joined
          mu,        \* who holds the lock of the room
          pc,        \* where the Serve of each connection is
          todo,      \* the connections the message in hand is still to go to
          sent, taken,     \* from each peer: what it sent, how much was received
          inbox, read,     \* to each peer: what was written, how much it read
          log,       \* the messages applied to the document, in order
          joinedAt   \* the length of the log when each connection joined

peerVars == <<sent, read>>
roomVars == <<arriving, conns, mu, pc, todo, taken, log, joinedAt>>
vars == <<link, inbox, peerVars, roomVars>>

-----------------------------------------------------------------------------
\* "new": not dialled; "broken": the peer is gone, the server does not know;
\* "closed": killConn was called.
Link == {"new", "open", "broken", "closed"}

Messages(senders, goods) == [from : senders, n : Nat, good : goods]

Init ==
  /\ link = [c \in Conn |-> "new"]
  /\ arriving = Nil
  /\ conns = <<>>
  /\ mu = Nil
  /\ pc = [c \in Conn |-> "none"]
  /\ todo = <<>>
  /\ sent = [c \in Conn |-> <<>>] /\ taken = [c \in Conn |-> 0]
  /\ inbox = [c \in Conn |-> <<>>] /\ read = [c \in Conn |-> 0]
  /\ log = <<>>
  /\ joinedAt = [c \in Conn |-> Nil]

allSent == UNION {ToSet(sent[c]) : c \in Conn}

\* The peers and the network: nothing is assumed of them.
Connect(c) ==
  /\ link[c] = "new"
  /\ link' = [link EXCEPT ![c] = "open"]
  /\ UNCHANGED <<inbox, peerVars, roomVars>>

PeerSend(c, good) ==
  /\ link[c] = "open"
  /\ Cardinality(allSent) < MaxMessages
  /\ sent' = [sent EXCEPT ![c] = Append(@, [from |-> c, n |-> Len(@) + 1, good |-> good])]
  /\ UNCHANGED <<link, inbox, read, roomVars>>

PeerReceive(c) ==
  /\ link[c] # "broken"
  /\ read[c] < Len(inbox[c])
  /\ read' = [read EXCEPT ![c] = @ + 1]
  /\ UNCHANGED <<link, inbox, sent, roomVars>>

HangUp(c) ==
  /\ link[c] = "open"
  /\ link' = [link EXCEPT ![c] = "broken"]
  /\ UNCHANGED <<inbox, peerVars, roomVars>>

-----------------------------------------------------------------------------
\* Run: the next upgraded connection, whose handler waits for it to be taken.
Accept(c) ==
  /\ arriving = Nil
  /\ link[c] # "new" /\ pc[c] = "none"
  /\ arriving' = c
  /\ pc' = [pc EXCEPT ![c] = "accepted"]
  /\ UNCHANGED <<link, inbox, peerVars, conns, mu, todo, taken, log, joinedAt>>

\* Join, under the lock, and the start of Serve.
Join(c) ==
  /\ arriving = c /\ mu = Nil
  /\ arriving' = Nil
  /\ conns' = Append(conns, c)
  /\ joinedAt' = [joinedAt EXCEPT ![c] = Len(log)]
  /\ pc' = [pc EXCEPT ![c] = "receive"]
  /\ UNCHANGED <<link, inbox, peerVars, mu, todo, taken, log>>

\* Serve: the next message of the peer; what arrived before it hung up may
\* still be read.
Receive(c) ==
  /\ pc[c] = "receive"
  /\ link[c] \in {"open", "broken"}
  /\ taken[c] < Len(sent[c])
  /\ taken' = [taken EXCEPT ![c] = @ + 1]
  /\ pc' = [pc EXCEPT ![c] = "lock"]
  /\ UNCHANGED <<link, inbox, peerVars, arriving, conns, mu, todo, log, joinedAt>>

\* The read fails and Serve returns; the room keeps the connection.
ReceiveFails(c) ==
  /\ pc[c] = "receive"
  /\ link[c] \in {"broken", "closed"}
  /\ link' = [link EXCEPT ![c] = "closed"]
  /\ pc' = [pc EXCEPT ![c] = "done"]
  /\ UNCHANGED <<inbox, peerVars, arriving, conns, mu, todo, taken, log, joinedAt>>

data(c) == sent[c][taken[c]]

\* Fault: the sender is sent its own message.
othersAndSelf(c) == conns

others(c) == SelectIn(conns, Conn \ {c})

\* process takes the lock and applies the message.
ApplyEncodedUpdate(c) ==
  /\ pc[c] = "lock" /\ mu = Nil
  /\ data(c).good
  /\ mu' = c
  /\ log' = Append(log, data(c))
  /\ todo' = others(c)
  /\ pc' = [pc EXCEPT ![c] = "send"]
  /\ UNCHANGED <<link, inbox, peerVars, arriving, conns, taken, joinedAt>>

\* Fault: the lock is kept when the message does not decode.
RejectLocked(c) ==
  /\ pc[c] = "lock" /\ mu = Nil
  /\ ~data(c).good
  /\ mu' = c
  /\ pc' = [pc EXCEPT ![c] = "receive"]
  /\ UNCHANGED <<link, inbox, peerVars, arriving, conns, todo, taken, log, joinedAt>>

\* Fault: what does not decode is logged all the same.
RejectApplied(c) ==
  /\ pc[c] = "lock" /\ mu = Nil
  /\ ~data(c).good
  /\ log' = Append(log, data(c))
  /\ pc' = [pc EXCEPT ![c] = "receive"]
  /\ UNCHANGED <<link, inbox, peerVars, arriving, conns, mu, todo, taken, joinedAt>>

\* ... which fails when it does not decode: nothing is applied or relayed.
Reject(c) ==
  /\ pc[c] = "lock" /\ mu = Nil
  /\ ~data(c).good
  /\ pc' = [pc EXCEPT ![c] = "receive"]
  /\ UNCHANGED <<link, inbox, peerVars, arriving, conns, mu, todo, taken, log, joinedAt>>

written(d, m) == inbox' = [inbox EXCEPT ![d] = Append(@, m)]

\* A write succeeds: the buffers had room.  To a peer that is gone it may
\* succeed too, and what was written is lost.
Send(c) ==
  /\ mu = c /\ todo # <<>>
  /\ \/ /\ link[Head(todo)] = "open"
        /\ Len(inbox[Head(todo)]) - read[Head(todo)] < Capacity
        /\ written(Head(todo), data(c))
     \/ link[Head(todo)] = "broken" /\ UNCHANGED inbox
  /\ todo' = Tail(todo)
  /\ UNCHANGED <<link, peerVars, arriving, conns, mu, pc, taken, log, joinedAt>>

\* Fault: a failed write ends the fan-out.
SendFailsReturns(c) ==
  /\ mu = c /\ todo # <<>>
  /\ link' = [link EXCEPT ![Head(todo)] = "closed"]
  /\ \/ link[Head(todo)] = "open" /\ written(Head(todo), data(c))
     \/ UNCHANGED inbox
  /\ todo' = <<>>
  /\ UNCHANGED <<peerVars, arriving, conns, mu, pc, taken, log, joinedAt>>

\* Fault: a failed write is tried again.
SendFailsRetries(c) ==
  /\ mu = c /\ todo # <<>>
  /\ link' = [link EXCEPT ![Head(todo)] = "closed"]
  /\ \/ link[Head(todo)] = "open" /\ written(Head(todo), data(c))
     \/ UNCHANGED inbox
  /\ UNCHANGED <<peerVars, arriving, conns, mu, pc, todo, taken, log, joinedAt>>

\* A write fails, and closes the connection; the peer may have got the message
\* all the same.  process goes on with the next connection.
SendFails(c) ==
  /\ mu = c /\ todo # <<>>
  /\ link' = [link EXCEPT ![Head(todo)] = "closed"]
  /\ \/ link[Head(todo)] = "open" /\ written(Head(todo), data(c))
     \/ UNCHANGED inbox
  /\ todo' = Tail(todo)
  /\ UNCHANGED <<peerVars, arriving, conns, mu, pc, taken, log, joinedAt>>

Unlock(c) ==
  /\ mu = c /\ todo = <<>>
  /\ mu' = Nil
  /\ pc' = [pc EXCEPT ![c] = "receive"]
  /\ UNCHANGED <<link, inbox, peerVars, arriving, conns, todo, taken, log, joinedAt>>

Peer(c) ==
  \/ Connect(c)
  \/ \E good \in BOOLEAN : PeerSend(c, good)
  \/ PeerReceive(c)
  \/ HangUp(c)

Serve(c) ==
  \/ Receive(c) \/ ReceiveFails(c)
  \/ ApplyEncodedUpdate(c) \/ Reject(c)
  \/ Send(c) \/ SendFails(c) \/ Unlock(c)

Next == \E c \in Conn : Peer(c) \/ Accept(c) \/ Join(c) \/ Serve(c)

Spec == Init /\ [][Next]_vars

\* What the server does for a connection: accept it, join it to the room, serve
\* it.  A write fails by itself only on a connection that is lost.
Server(c) ==
  \/ Accept(c) \/ Join(c) \/ Receive(c) \/ ReceiveFails(c)
  \/ ApplyEncodedUpdate(c) \/ Reject(c)
  \/ Send(c) \/ (SendFails(c) /\ link[Head(todo)] # "open") \/ Unlock(c)

\* The goroutines of the server are scheduled; one that waits for a mutex or for
\* an unbuffered channel is served in the end.  A write that can neither finish
\* nor fail is not enabled: nothing is assumed of the peers.
Fairness == \A c \in Conn : SF_vars(Server(c))

FairSpec == Spec /\ Fairness

-----------------------------------------------------------------------------
\* Properties

\* Every variable has its type; a connection is in the room once, from when its
\* Serve starts and for good; the lock is held by the Serve that fans out a
\* message and by nobody else.
TypeOK ==
  /\ link \in [Conn -> Link]
  /\ arriving \in Conn \cup {Nil} /\ mu \in Conn \cup {Nil}
  /\ pc \in [Conn -> {"none", "accepted", "receive", "lock", "send", "done"}]
  /\ conns \in Seq(Conn) /\ todo \in Seq(Conn)
  /\ sent \in [Conn -> Seq(Messages(Conn, BOOLEAN))] /\ taken \in [Conn -> Nat]
  /\ inbox \in [Conn -> Seq(Messages(Conn, {TRUE}))] /\ read \in [Conn -> Nat]
  /\ log \in Seq(Messages(Conn, {TRUE}))
  /\ joinedAt \in [Conn -> Nat \cup {Nil}]
  /\ \A c \in Conn : c \in ToSet(conns) <=> pc[c] \notin {"none", "accepted"}
  /\ IsInjective(conns)
  /\ \A c \in Conn : mu = c <=> pc[c] = "send"
  /\ \A c \in Conn : arriving = c <=> pc[c] = "accepted"
  /\ mu = Nil => todo = <<>>

\* The messages of one peer are applied in the order it sent them, each good
\* one once and none skipped, however the goroutines of the peers interleave
\* and whatever does not decode in between.
AppliedInOrder ==
  \A c \in Conn :
    LET handled == IF pc[c] = "lock" THEN taken[c] - 1 ELSE taken[c]
    IN  SelectIn(log, Messages({c}, BOOLEAN))
          = SelectIn(SubSeq(sent[c], 1, handled), Messages({c}, {TRUE}))

\* What peer c is owed: what the others sent and the room applied since c
\* joined.
Owed(c) ==
  SelectIn(SubSeq(log, joinedAt[c] + 1, Len(log)), Messages(Conn \ {c}, {TRUE}))

\* A member is told what the others' messages are, in the order they were
\* applied, without gap, repetition or echo; a member whose connection lives was
\* told all of them but the one now on its way to it.  What was applied before
\* it joined it is never told.
FanOut ==
  \A c \in ToSet(conns) :
    /\ IsPrefix(inbox[c], Owed(c))
    /\ link[c] = "open" =>
         Len(inbox[c]) = Len(Owed(c)) - (IF c \in ToSet(todo) THEN 1 ELSE 0)

\* The room implements the broadcast it promises.
Abstract ==
  INSTANCE Broadcast WITH
    Number <- 1 .. MaxMessages,
    gone <- {c \in Conn : link[c] \in {"broken", "closed"}}

Broadcast == Abstract!Spec

\* No peer that is connected stays unread for ever with its buffers full.
PeersRead ==
  \A c \in Conn :
    []<>(link[c] # "open" \/ Len(inbox[c]) - read[c] < Capacity)

\* Provided the peers read, whatever a connected peer sent is received and its
\* fan-out finished, or its connection is lost: no failed write, hang-up or
\* message that does not decode leaves the lock of the room held.  One peer that
\* stays connected and stops reading is all it takes to stop the room.
EveryMessageProcessed ==
  PeersRead =>
    \A c \in Conn :
      (taken[c] < Len(sent[c]))
        ~> (link[c] # "open" \/ (taken[c] = Len(sent[c]) /\ pc[c] = "receive"))
=============================================================================
