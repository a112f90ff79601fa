---------------------------- MODULE Relay_proofs ----------------------------
(***************************************************************************)
(* Proofs about module Relay, for any connections, capacity and number of  *)
(* messages: each stream is applied in order and once, a member is told    *)
(* what the others sent, and the room implements Broadcast.                *)
(***************************************************************************)
EXTENDS Relay, Selection_proofs, FiniteSetTheorems

\* A message, and one that decodes.
Message == Messages(Conn, BOOLEAN)
Good == Messages(Conn, {TRUE})

-----------------------------------------------------------------------------
\* What is owed

\* Owed(c), of a log and the length it had when c joined.
OwedOf(l, j, c) == SelectIn(SubSeq(l, j + 1, Len(l)), Messages(Conn \ {c}, {TRUE}))

\* What is owed is messages that decode, and nothing right after joining.
LEMMA OwedType ==
  ASSUME NEW l \in Seq(Good), NEW c \in Conn
  PROVE  /\ \A j \in 0 .. Len(l) : OwedOf(l, j, c) \in Seq(Good)
         /\ OwedOf(l, Len(l), c) = <<>>
<1> DEFINE S == Messages(Conn \ {c}, {TRUE})
<1>1. \A j \in 0 .. Len(l) : SubSeq(l, j + 1, Len(l)) \in Seq(Good)
  OBVIOUS
<1>2. SubSeq(l, Len(l) + 1, Len(l)) = <<>>
  OBVIOUS
<1> HIDE DEF S
<1>3. \A t \in Seq(Good) : SelectIn(t, S) \in Seq(Good \cap S)
  BY SelectType
<1>4. Seq(Good \cap S) \subseteq Seq(Good)
  BY SeqMonotonic
<1> QED BY <1>1, <1>2, <1>3, <1>4, SelectEmpty DEF OwedOf, S

\* A message that is logged is owed to everyone but its sender.
LEMMA OwedGrows ==
  ASSUME NEW l \in Seq(Good), NEW j \in 0 .. Len(l), NEW c \in Conn, NEW m \in Good
  PROVE  /\ m.from = c => OwedOf(Append(l, m), j, c) = OwedOf(l, j, c)
         /\ m.from # c => OwedOf(Append(l, m), j, c) = Append(OwedOf(l, j, c), m)
<1> DEFINE S == Messages(Conn \ {c}, {TRUE})
           rest == SubSeq(l, j + 1, Len(l))
<1>1. rest \in Seq(Good)
        /\ SubSeq(Append(l, m), j + 1, Len(Append(l, m))) = Append(rest, m)
  BY RestAppend
<1>2. m \in S <=> m.from # c
  BY DEF Good, Messages
<1> HIDE DEF S, rest
<1>3. SelectIn(Append(rest, m), S)
        = IF m \in S THEN Append(SelectIn(rest, S), m) ELSE SelectIn(rest, S)
  BY <1>1, SelectAppend
<1> QED BY <1>1, <1>2, <1>3 DEF OwedOf, S, rest

\* What the room applied of the messages of c, and what it was to apply of the
\* first h that c sent.
AppliedOf(l, c) == SelectIn(l, Messages({c}, BOOLEAN))
ToApply(s, h, c) == SelectIn(SubSeq(s, 1, h), Messages({c}, {TRUE}))

\* The next message of c is to be applied if it decodes.
LEMMA ToApplyGrows ==
  ASSUME NEW c \in Conn, NEW s \in Seq(Message), NEW h \in Nat, h < Len(s),
         s[h + 1].from = c
  PROVE  ToApply(s, h + 1, c)
           = IF s[h + 1].good THEN Append(ToApply(s, h, c), s[h + 1])
             ELSE ToApply(s, h, c)
<1> DEFINE S == Messages({c}, {TRUE})
           m == s[h + 1]
           t == SubSeq(s, 1, h)
<1>1. t \in Seq(Message) /\ m \in Message /\ SubSeq(s, 1, h + 1) = Append(t, m)
  BY SubSeqGrows
<1>2. m \in S <=> m.good
  BY <1>1 DEF Message, Messages
<1> HIDE DEF S, m, t
<1>3. SelectIn(Append(t, m), S)
        = IF m \in S THEN Append(SelectIn(t, S), m) ELSE SelectIn(t, S)
  BY <1>1, SelectAppend
<1> QED BY <1>1, <1>2, <1>3 DEF ToApply, S, m, t

\* What is logged is applied of its sender.
LEMMA AppliedGrows ==
  ASSUME NEW c \in Conn, NEW l \in Seq(Good), NEW m \in Good
  PROVE  AppliedOf(Append(l, m), c)
           = IF m.from = c THEN Append(AppliedOf(l, c), m) ELSE AppliedOf(l, c)
<1> DEFINE S == Messages({c}, BOOLEAN)
<1>1. m \in S <=> m.from = c
  BY DEF Good, Messages
<1> HIDE DEF S
<1>2. SelectIn(Append(l, m), S)
        = IF m \in S THEN Append(SelectIn(l, S), m) ELSE SelectIn(l, S)
  BY SelectAppend
<1> QED BY <1>1, <1>2 DEF AppliedOf, S

-----------------------------------------------------------------------------
\* The inductive invariant

\* What a peer sent is numbered, and all of it is within the bound.
Numbered ==
  /\ \A c \in Conn : \A i \in 1 .. Len(sent[c]) : sent[c][i].from = c /\ sent[c][i].n = i
  /\ IsFiniteSet(allSent) /\ Cardinality(allSent) <= MaxMessages

\* The message a Serve has in hand was sent, and decodes if it is fanned out.
Taken ==
  \A c \in Conn :
    /\ taken[c] <= Len(sent[c])
    /\ pc[c] \in {"lock", "send"} => taken[c] >= 1
    /\ pc[c] = "send" => data(c).good

\* How many messages of c its Serve is through with.
handled == [c \in Conn |-> IF pc[c] = "lock" THEN taken[c] - 1 ELSE taken[c]]

\* What is logged was handled.
Logged == \A i \in 1 .. Len(log) : log[i].n <= handled[log[i].from]

\* A connection is told nothing before it joined, and was dialled before.
Joined ==
  \A c \in Conn :
    /\ joinedAt[c] = Nil <=> pc[c] \in {"none", "accepted"}
    /\ joinedAt[c] = Nil => inbox[c] = <<>>
    /\ joinedAt[c] # Nil => joinedAt[c] <= Len(log)
    /\ link[c] = "new" => pc[c] = "none"

\* The message in hand is the last of the log, and still to go to members that
\* joined before it was logged, to each once.
InHand ==
  /\ IsInjective(todo)
  /\ \A d \in ToSet(todo) : mu # d /\ joinedAt[d] # Nil /\ joinedAt[d] < Len(log)
  /\ mu # Nil => log # <<>> /\ log[Len(log)] = data(mu)

\* A member was told a prefix of what it is owed; one that lives, all but the
\* message that is still to go to it.
Delivered ==
  \A c \in Conn :
    joinedAt[c] # Nil =>
      /\ IsPrefix(inbox[c], Owed(c))
      /\ link[c] = "open" =>
           Owed(c) = IF c \in ToSet(todo) THEN Append(inbox[c], log[Len(log)]) ELSE inbox[c]

\* All of it together.
IInv ==
  TypeOK /\ Numbered /\ Taken /\ AppliedInOrder /\ Logged /\ Joined /\ InHand /\ Delivered

-----------------------------------------------------------------------------
\* No peer sends more than the bound, being one of those that send.
LEMMA WithinBound ==
  ASSUME TypeOK, Numbered, NEW c \in Conn
  PROVE  Len(sent[c]) \in Nat /\ Len(sent[c]) <= MaxMessages
<1> DEFINE k == Len(sent[c])
           s == sent[c]
<1>1. s \in Seq(Message) /\ k \in Nat
  BY DEF TypeOK, Message
<1>2. s \in [1 .. k -> allSent]
  BY <1>1 DEF allSent, ToSet
<1>3. \A i \in 1 .. k : s[i].n = i
  BY DEF Numbered
<1>4. IsFiniteSet(allSent) /\ Cardinality(allSent) \in Nat /\ Cardinality(allSent) <= MaxMessages
  BY FS_CardinalityType DEF Numbered
<1> HIDE DEF s, k
<1>5. s \in Injection(1 .. k, allSent)
  BY <1>2, <1>3 DEF Injection, IsInjective
<1>6. Cardinality(1 .. k) <= Cardinality(allSent)
  BY <1>4, <1>5, FS_Injection
<1>7. Cardinality(1 .. k) = k
  BY <1>1, FS_Interval
<1>8. k <= MaxMessages
  BY <1>1, <1>4, <1>6, <1>7, RelayAssumption
<1> QED BY <1>1, <1>8 DEF k

\* The message in hand is one of those its peer sent.
LEMMA DataInHand ==
  ASSUME TypeOK, Numbered, Taken, NEW c \in Conn, pc[c] \in {"lock", "send"}
  PROVE  /\ taken[c] \in 1 .. Len(sent[c])
         /\ data(c) \in Message /\ data(c).from = c /\ data(c).n = taken[c]
         /\ data(c).good => data(c) \in Good
<1>1. sent[c] \in Seq(Message) /\ taken[c] \in Nat
  BY DEF TypeOK, Message
<1>2. taken[c] \in 1 .. Len(sent[c])
  BY <1>1 DEF Taken
<1>3. data(c) \in Message /\ data(c).from = c /\ data(c).n = taken[c]
  BY <1>1, <1>2 DEF data, Numbered
<1> QED BY <1>2, <1>3 DEF Message, Good, Messages

\* The others are members, each once.
LEMMA OthersOf ==
  ASSUME TypeOK, NEW c \in Conn
  PROVE  /\ others(c) \in Seq(Conn) /\ IsInjective(others(c))
         /\ ToSet(others(c)) = ToSet(conns) \ {c}
<1>1. /\ others(c) \in Seq(Conn) /\ IsInjective(others(c))
      /\ ToSet(others(c)) = ToSet(conns) \cap (Conn \ {c})
  <2>1. conns \in Seq(Conn) /\ IsInjective(conns)
    BY DEF TypeOK
  <2> QED BY <2>1, SelectInjective DEF others
<1>2. ToSet(conns) \subseteq Conn
  BY DEF TypeOK, ToSet
<1> QED BY <1>1, <1>2

\* What is still to go out, without its head.
LEMMA TodoTail ==
  ASSUME TypeOK, InHand, todo # <<>>
  PROVE  /\ Head(todo) \in Conn /\ Head(todo) \in ToSet(todo)
         /\ Tail(todo) \in Seq(Conn) /\ IsInjective(Tail(todo))
         /\ ToSet(Tail(todo)) = ToSet(todo) \ {Head(todo)}
BY TailInjective DEF TypeOK, InHand

\* The types, at the start and after every step.
LEMMA TypeInit == Init => TypeOK
<1> SUFFICES ASSUME Init PROVE TypeOK
  OBVIOUS
<1>1. \A A : <<>> \in Seq(A)
  OBVIOUS
<1>2. ToSet(<<>>) = {} /\ IsInjective(<<>>)
  BY DEF ToSet, IsInjective
<1> QED BY <1>1, <1>2, RelayAssumption DEF Init, TypeOK, Link

\* The types after every step; what is logged decodes because Taken says so.
LEMMA TypeStep ==
  ASSUME TypeOK, Numbered, Taken, InHand, [Next]_vars
  PROVE  TypeOK'
<1> USE RelayAssumption DEF TypeOK, peerVars, roomVars
<1>1. CASE UNCHANGED vars
  BY <1>1 DEF vars
<1>2. ASSUME NEW c \in Conn, Connect(c) \/ HangUp(c)
      PROVE  TypeOK'
  BY <1>2 DEF Connect, HangUp, Link
<1>3. ASSUME NEW c \in Conn, NEW good \in BOOLEAN, PeerSend(c, good)
      PROVE  TypeOK'
  <2>1. [from |-> c, n |-> Len(sent[c]) + 1, good |-> good] \in Messages(Conn, BOOLEAN)
    BY DEF Messages
  <2>2. sent' \in [Conn -> Seq(Messages(Conn, BOOLEAN))]
    BY <1>3, <2>1 DEF PeerSend
  <2> QED BY <1>3, <2>2 DEF PeerSend
<1>4. ASSUME NEW c \in Conn, PeerReceive(c)
      PROVE  TypeOK'
  <2>1. read' = [read EXCEPT ![c] = @ + 1] /\ read \in [Conn -> Nat]
    BY <1>4 DEF PeerReceive
  <2> HIDE DEF TypeOK
  <2>2. read' \in [Conn -> Nat]
    BY <2>1
  <2> QED BY <1>4, <2>2 DEF PeerReceive, TypeOK
<1>5. ASSUME NEW c \in Conn, Accept(c)
      PROVE  TypeOK'
  BY <1>5 DEF Accept
<1>6. ASSUME NEW c \in Conn, Join(c)
      PROVE  TypeOK'
  <2>1. c \notin ToSet(conns) /\ conns' = Append(conns, c)
    BY <1>6 DEF Join
  <2>2. conns' \in Seq(Conn) /\ IsInjective(conns') /\ ToSet(conns') = ToSet(conns) \cup {c}
    BY <2>1, AppendInjectively
  <2>3. Len(log) \in Nat
    OBVIOUS
  <2> QED BY <1>6, <2>2, <2>3 DEF Join
<1>7. ASSUME NEW c \in Conn, Receive(c)
      PROVE  TypeOK'
  <2>1. taken' = [taken EXCEPT ![c] = @ + 1] /\ taken \in [Conn -> Nat]
    BY <1>7 DEF Receive
  <2> HIDE DEF TypeOK
  <2>2. taken' \in [Conn -> Nat]
    BY <2>1
  <2> QED BY <1>7, <2>2 DEF Receive, TypeOK
<1>8. ASSUME NEW c \in Conn, ReceiveFails(c)
      PROVE  TypeOK'
  BY <1>8 DEF ReceiveFails, Link
<1>9. ASSUME NEW c \in Conn, ApplyEncodedUpdate(c)
      PROVE  TypeOK'
  <2>1. data(c) \in Messages(Conn, {TRUE})
    BY <1>9, DataInHand DEF ApplyEncodedUpdate, Good
  <2>2. log' \in Seq(Messages(Conn, {TRUE}))
    BY <1>9, <2>1 DEF ApplyEncodedUpdate
  <2>3. todo' \in Seq(Conn)
    BY <1>9, OthersOf DEF ApplyEncodedUpdate, others
  <2> QED BY <1>9, <2>2, <2>3 DEF ApplyEncodedUpdate
<1>10. ASSUME NEW c \in Conn, Reject(c) \/ Unlock(c)
       PROVE  TypeOK'
  BY <1>10 DEF Reject, Unlock
<1>11. ASSUME NEW c \in Conn, Send(c) \/ SendFails(c)
       PROVE  TypeOK'
  <2>1. pc[c] = "send" /\ todo # <<>>
    BY <1>11 DEF Send, SendFails
  <2>2. data(c) \in Messages(Conn, {TRUE})
    BY <2>1, DataInHand DEF Taken, Good
  <2>3. Head(todo) \in Conn /\ Tail(todo) \in Seq(Conn)
    BY <2>1, TodoTail
  <2>4. inbox' \in [Conn -> Seq(Messages(Conn, {TRUE}))]
    <3>1. inbox' = inbox \/ inbox' = [inbox EXCEPT ![Head(todo)] = Append(@, data(c))]
      BY <1>11 DEF Send, SendFails, written
    <3>2. Append(inbox[Head(todo)], data(c)) \in Seq(Messages(Conn, {TRUE}))
      BY <2>2, <2>3
    <3> HIDE DEF data
    <3> QED BY <2>3, <3>1, <3>2
  <2>5. link' \in [Conn -> Link]
    BY <1>11, <2>3 DEF Send, SendFails, Link
  <2>6. todo' = Tail(todo) /\ mu # Nil
    BY <1>11 DEF Send, SendFails
  <2> QED BY <1>11, <2>3, <2>4, <2>5, <2>6 DEF Send, SendFails
<1> HIDE DEF TypeOK
<1> QED BY <1>1, <1>2, <1>3, <1>4, <1>5, <1>6, <1>7, <1>8, <1>9, <1>10, <1>11
        DEF Next, Peer, Serve
-----------------------------------------------------------------------------
\* The streams of the peers

\* What every step leaves alone but a message that is sent, received, applied or
\* rejected: the streams, the log, and where a Serve is with a message in hand.
LEMMA StreamsStay ==
  ASSUME TypeOK, [Next]_vars
  PROVE  \/ /\ UNCHANGED <<sent, taken, log>>
            /\ \A c \in Conn : \/ pc'[c] = pc[c]
                               \/ pc[c] # "lock" /\ pc'[c] \notin {"lock", "send"}
         \/ \E c \in Conn :
              \/ \E good \in BOOLEAN : PeerSend(c, good)
              \/ Receive(c) \/ ApplyEncodedUpdate(c) \/ Reject(c)
<1> USE DEF TypeOK, peerVars, roomVars
<1>1. CASE UNCHANGED vars
  BY <1>1 DEF vars
<1>2. ASSUME NEW c \in Conn,
             Connect(c) \/ PeerReceive(c) \/ HangUp(c) \/ Send(c) \/ SendFails(c)
      PROVE  UNCHANGED <<sent, taken, log, pc>>
  BY <1>2 DEF Connect, PeerReceive, HangUp, Send, SendFails
<1>3. ASSUME NEW c \in Conn, Accept(c) \/ Join(c) \/ ReceiveFails(c) \/ Unlock(c)
      PROVE  /\ UNCHANGED <<sent, taken, log>>
             /\ \A d \in Conn : \/ pc'[d] = pc[d]
                                \/ pc[d] # "lock" /\ pc'[d] \notin {"lock", "send"}
  BY <1>3 DEF Accept, Join, ReceiveFails, Unlock
<1> HIDE DEF TypeOK
<1> QED BY <1>1, <1>2, <1>3 DEF Next, Peer, Serve

\* A message more.
LEMMA PeerSends ==
  ASSUME TypeOK, NEW c \in Conn, NEW good \in BOOLEAN, PeerSend(c, good)
  PROVE  /\ sent[c] \in Seq(Message) /\ Len(sent[c]) \in Nat
         /\ \E m \in Message :
              /\ m.from = c /\ m.n = Len(sent[c]) + 1
              /\ sent' = [sent EXCEPT ![c] = Append(@, m)]
         /\ Len(sent'[c]) = Len(sent[c]) + 1
         /\ \A i \in 1 .. Len(sent[c]) : sent'[c][i] = sent[c][i]
         /\ \A d \in Conn \ {c} : sent'[d] = sent[d]
         /\ UNCHANGED <<taken, log, pc>>
<1> DEFINE m == [from |-> c, n |-> Len(sent[c]) + 1, good |-> good]
<1>1. sent[c] \in Seq(Message) /\ Len(sent[c]) \in Nat /\ c \in DOMAIN sent
  BY DEF TypeOK, Message
<1>2. m \in Message /\ m.from = c /\ m.n = Len(sent[c]) + 1
  BY <1>1 DEF Message, Messages
<1>3. sent' = [sent EXCEPT ![c] = Append(@, m)] /\ UNCHANGED <<taken, log, pc>>
  BY DEF PeerSend, roomVars
<1> HIDE DEF m
<1>4. sent'[c] = Append(sent[c], m) /\ \A d \in Conn \ {c} : sent'[d] = sent[d]
  BY <1>3 DEF TypeOK
<1>5. Len(sent'[c]) = Len(sent[c]) + 1 /\ \A i \in 1 .. Len(sent[c]) : sent'[c][i] = sent[c][i]
  BY <1>1, <1>2, <1>4
<1> QED BY <1>1, <1>2, <1>3, <1>4, <1>5

\* What is sent stays numbered, and within the bound.
LEMMA NumberedStep ==
  ASSUME TypeOK, Numbered, [Next]_vars
  PROVE  Numbered'
<1>1. CASE UNCHANGED sent
  BY <1>1 DEF Numbered, allSent
<1>2. ASSUME NEW c \in Conn, NEW good \in BOOLEAN, PeerSend(c, good)
      PROVE  Numbered'
  <2>1. PICK m \in Message : /\ m.from = c /\ m.n = Len(sent[c]) + 1
                             /\ sent' = [sent EXCEPT ![c] = Append(@, m)]
    BY <1>2, PeerSends
  <2>2. sent[c] \in Seq(Message) /\ sent'[c] = Append(sent[c], m)
    BY <2>1 DEF TypeOK, Message
  <2>3. ASSUME NEW d \in Conn, NEW i \in 1 .. Len(sent'[d])
        PROVE  sent'[d][i].from = d /\ sent'[d][i].n = i
    <3>1. CASE d # c
      BY <1>2, <3>1, PeerSends DEF Numbered
    <3>2. CASE d = c /\ i = Len(sent[c]) + 1
      BY <2>1, <2>2, <3>2
    <3>3. CASE d = c /\ i # Len(sent[c]) + 1
      <4>1. i \in 1 .. Len(sent[c]) /\ sent'[c][i] = sent[c][i]
        BY <1>2, <3>3, PeerSends
      <4> QED BY <3>3, <4>1 DEF Numbered
    <3> QED BY <3>1, <3>2, <3>3
  <2>4. ToSet(sent'[c]) = ToSet(sent[c]) \cup {m}
    BY <2>2, AppendSet
  <2>5. allSent' = allSent \cup {m}
    <3>1. \A d \in Conn : ToSet(sent'[d]) = IF d = c THEN ToSet(sent[c]) \cup {m} ELSE ToSet(sent[d])
      BY <1>2, <2>4, PeerSends
    <3>2. allSent' = UNION {ToSet(sent'[d]) : d \in Conn}
      BY DEF allSent
    <3> QED BY <3>1, <3>2 DEF allSent
  <2>6. IsFiniteSet(allSent) /\ Cardinality(allSent) \in Nat
    BY FS_CardinalityType DEF Numbered
  <2>7. IsFiniteSet(allSent') /\ Cardinality(allSent') <= Cardinality(allSent) + 1
    BY <2>5, <2>6, FS_AddElement
  <2>8. Cardinality(allSent) < MaxMessages /\ Cardinality(allSent') \in Nat
    BY <1>2, <2>7, FS_CardinalityType DEF PeerSend
  <2>9. Cardinality(allSent') <= MaxMessages
    BY <2>6, <2>7, <2>8, RelayAssumption
  <2> QED BY <2>3, <2>7, <2>9 DEF Numbered
<1> QED BY <1>1, <1>2, StreamsStay DEF Receive, ApplyEncodedUpdate, Reject, peerVars

\* A message in hand stays one that was sent, and the same.
LEMMA TakenStep ==
  ASSUME TypeOK, Taken, [Next]_vars
  PROVE  /\ Taken'
         /\ \A c \in Conn : pc[c] = "send" => data(c)' = data(c)
<1> USE DEF Taken, data
<1>5. \A c \in Conn : taken[c] \in Nat /\ Len(sent[c]) \in Nat
  BY DEF TypeOK
<1>1. CASE /\ UNCHANGED <<sent, taken, log>>
           /\ \A c \in Conn : \/ pc'[c] = pc[c]
                              \/ pc[c] # "lock" /\ pc'[c] \notin {"lock", "send"}
  BY <1>1
<1>2. ASSUME NEW c \in Conn, NEW good \in BOOLEAN, PeerSend(c, good)
      PROVE  /\ Taken'
             /\ \A d \in Conn : pc[d] = "send" => data(d)' = data(d)
  <2>1. UNCHANGED <<taken, pc>>
    BY <1>2, PeerSends
  <2>2. \A d \in Conn : pc[d] = "send" => taken[d] \in 1 .. Len(sent[d])
    BY <1>5
  <2>3. \A d \in Conn : \A i \in 1 .. Len(sent[d]) : sent'[d][i] = sent[d][i]
    BY <1>2, PeerSends
  <2>4. \A d \in Conn : taken[d] <= Len(sent'[d])
    BY <1>5, <1>2, PeerSends
  <2> QED BY <2>1, <2>2, <2>3, <2>4
<1>3. ASSUME NEW c \in Conn, Receive(c)
      PROVE  /\ Taken'
             /\ \A d \in Conn : pc[d] = "send" => data(d)' = data(d)
  <2>1. /\ sent' = sent /\ pc'[c] = "lock" /\ pc[c] = "receive" /\ taken'[c] = taken[c] + 1
        /\ taken[c] < Len(sent[c])
        /\ \A d \in Conn \ {c} : pc'[d] = pc[d] /\ taken'[d] = taken[d]
    BY <1>3 DEF Receive, peerVars, TypeOK
  <2> QED BY <1>5, <2>1
<1>4. ASSUME NEW c \in Conn, ApplyEncodedUpdate(c) \/ Reject(c)
      PROVE  /\ Taken'
             /\ \A d \in Conn : pc[d] = "send" => data(d)' = data(d)
  <2>1. /\ UNCHANGED <<sent, taken>> /\ pc[c] = "lock"
        /\ (pc'[c] = "send" /\ data(c).good) \/ pc'[c] = "receive"
        /\ \A d \in Conn \ {c} : pc'[d] = pc[d]
    BY <1>4 DEF ApplyEncodedUpdate, Reject, peerVars, TypeOK
  <2> QED BY <2>1
<1> QED BY <1>1, <1>2, <1>3, <1>4, StreamsStay

\* What a step does to how far the streams were handled and to the log.
LEMMA HandledStep ==
  ASSUME TypeOK, Numbered, Taken, [Next]_vars
  PROVE  /\ \A c \in Conn : handled[c] \in Nat /\ handled[c] <= Len(sent[c])
         /\ \/ /\ log' = log
               /\ \A c \in Conn : handled'[c] = handled[c]
            \/ \E c \in Conn :
                 /\ sent' = sent
                 /\ handled[c] < Len(sent[c]) /\ handled'[c] = handled[c] + 1
                 /\ data(c) = sent[c][handled[c] + 1]
                 /\ \A d \in Conn \ {c} : handled'[d] = handled[d]
                 /\ \/ data(c).good /\ log' = Append(log, data(c))
                    \/ ~data(c).good /\ log' = log
<1> USE DEF handled
<1>1. /\ \A c \in Conn : taken[c] \in Nat /\ Len(sent[c]) \in Nat /\ taken[c] <= Len(sent[c])
      /\ \A c \in Conn : pc[c] = "lock" => taken[c] >= 1
  BY DEF TypeOK, Taken
<1>2. \A c \in Conn : handled[c] \in Nat /\ handled[c] <= Len(sent[c])
  BY <1>1
<1>3. CASE /\ UNCHANGED <<sent, taken, log>>
           /\ \A c \in Conn : \/ pc'[c] = pc[c]
                              \/ pc[c] # "lock" /\ pc'[c] \notin {"lock", "send"}
  <2>1. \A c \in Conn : handled'[c] = handled[c]
    BY <1>3
  <2> QED BY <1>2, <1>3, <2>1
<1>4. ASSUME NEW c \in Conn, NEW good \in BOOLEAN, PeerSend(c, good)
      PROVE  log' = log /\ \A d \in Conn : handled'[d] = handled[d]
  BY <1>4 DEF PeerSend, roomVars
<1>5. ASSUME NEW c \in Conn, Receive(c)
      PROVE  log' = log /\ \A d \in Conn : handled'[d] = handled[d]
  <2>1. /\ pc'[c] = "lock" /\ pc[c] = "receive" /\ taken'[c] = taken[c] + 1 /\ log' = log
        /\ \A d \in Conn \ {c} : pc'[d] = pc[d] /\ taken'[d] = taken[d]
    BY <1>5 DEF Receive, TypeOK
  <2> QED BY <1>1, <2>1
<1>6. ASSUME NEW c \in Conn, ApplyEncodedUpdate(c) \/ Reject(c)
      PROVE  /\ sent' = sent
             /\ handled[c] < Len(sent[c]) /\ handled'[c] = handled[c] + 1
             /\ data(c) = sent[c][handled[c] + 1]
             /\ \A d \in Conn \ {c} : handled'[d] = handled[d]
             /\ \/ data(c).good /\ log' = Append(log, data(c))
                \/ ~data(c).good /\ log' = log
  <2>1. /\ UNCHANGED <<sent, taken>> /\ pc[c] = "lock" /\ pc'[c] # "lock"
        /\ \A d \in Conn \ {c} : pc'[d] = pc[d]
    BY <1>6 DEF ApplyEncodedUpdate, Reject, peerVars, TypeOK
  <2>2. \/ data(c).good /\ log' = Append(log, data(c))
        \/ ~data(c).good /\ log' = log
    BY <1>6 DEF ApplyEncodedUpdate, Reject
  <2>3. (taken[c] - 1) + 1 = taken[c]
    BY <1>1
  <2> QED BY <1>1, <2>1, <2>2, <2>3 DEF data
<1> QED BY <1>2, <1>3, <1>4, <1>5, <1>6, StreamsStay

\* What is logged stays handled; the message that is logged comes after all those
\* its sender's are in the log.
LEMMA LoggedStep ==
  ASSUME TypeOK, Numbered, Taken, Logged, [Next]_vars
  PROVE  Logged'
<1>1. log \in Seq(Good) /\ Len(log) \in Nat /\ \A i \in 1 .. Len(log) : log[i] \in Good
  BY DEF TypeOK, Good
<1>2. \A m \in Good : m.from \in Conn /\ m.n \in Nat
  BY DEF Good, Messages
<1>3. CASE log' = log /\ \A c \in Conn : handled'[c] = handled[c]
  BY <1>1, <1>2, <1>3 DEF Logged
<1>4. ASSUME NEW c \in Conn, handled'[c] = handled[c] + 1,
             \A d \in Conn \ {c} : handled'[d] = handled[d]
      PROVE  \A i \in 1 .. Len(log) : log[i].n <= handled'[log[i].from]
  <2> TAKE i \in 1 .. Len(log)
  <2>1. log[i].from \in Conn /\ log[i].n \in Nat /\ log[i].n <= handled[log[i].from]
    BY <1>1, <1>2 DEF Logged
  <2>2. handled[c] \in Nat
    BY HandledStep
  <2>3. CASE log[i].from = c
    <3>1. log[i].n <= handled[c]
      BY <2>1, <2>3
    <3> HIDE DEF handled
    <3>2. log[i].n <= handled[c] + 1
      BY <2>1, <2>2, <3>1
    <3> QED BY <1>4, <2>3, <3>2
  <2>4. CASE log[i].from # c
    BY <1>4, <2>1, <2>4
  <2> QED BY <2>3, <2>4
<1>5. ASSUME NEW c \in Conn,
             handled[c] < Len(sent[c]), handled'[c] = handled[c] + 1,
             data(c) = sent[c][handled[c] + 1],
             \A d \in Conn \ {c} : handled'[d] = handled[d],
             log' = Append(log, data(c)), data(c).good
      PROVE  Logged'
  <2>1. handled[c] \in Nat /\ Len(sent[c]) \in Nat
    <3>1. sent[c] \in Seq(Message)
      BY DEF TypeOK, Message
    <3> QED BY <3>1, HandledStep
  <2>2. handled[c] + 1 \in 1 .. Len(sent[c])
    BY <1>5, <2>1
  <2>3. data(c).from = c /\ data(c).n = handled[c] + 1
    BY <1>5, <2>2 DEF Numbered
  <2>4. Len(log') = Len(log) + 1 /\ log'[Len(log) + 1] = data(c)
          /\ \A i \in 1 .. Len(log) : log'[i] = log[i]
    BY <1>1, <1>5
  <2>5. \A i \in 1 .. Len(log) : log[i].n <= handled'[log[i].from]
    BY <1>4, <1>5
  <2> SUFFICES ASSUME NEW i \in 1 .. Len(log) + 1
               PROVE  log'[i].n <= handled'[log'[i].from]
    BY <2>4 DEF Logged
  <2>6. CASE i \in 1 .. Len(log)
    BY <2>4, <2>5, <2>6
  <2>7. CASE i = Len(log) + 1
    BY <1>5, <2>1, <2>3, <2>4, <2>7
  <2> QED BY <1>1, <2>6, <2>7
<1> QED BY <1>3, <1>4, <1>5, HandledStep DEF Logged

\* The messages of a peer stay applied in the order it sent them (module Relay,
\* AppliedInOrder).
LEMMA AppliedInOrderStep ==
  ASSUME TypeOK, Numbered, Taken, AppliedInOrder, [Next]_vars
  PROVE  AppliedInOrder'
<1> DEFINE Applied(c) == AppliedOf(log, c) = ToApply(sent[c], handled[c], c)
<1>1. AppliedInOrder <=> \A c \in Conn : Applied(c)
  BY DEF AppliedInOrder, AppliedOf, ToApply, handled
<1>2. AppliedInOrder' <=> \A c \in Conn : AppliedOf(log', c) = ToApply(sent'[c], handled'[c], c)
  BY DEF AppliedInOrder, AppliedOf, ToApply, handled
<1>3. log \in Seq(Good) /\ \A c \in Conn : sent[c] \in Seq(Message)
  BY DEF TypeOK, Good, Message
<1>4. CASE log' = log /\ \A c \in Conn : handled'[c] = handled[c]
  <2> SUFFICES ASSUME NEW c \in Conn
               PROVE  ToApply(sent'[c], handled[c], c) = ToApply(sent[c], handled[c], c)
    BY <1>1, <1>2, <1>4
  <2>1. CASE sent' = sent
    BY <2>1
  <2>2. ASSUME NEW d \in Conn, NEW good \in BOOLEAN, PeerSend(d, good)
        PROVE  SubSeq(sent'[c], 1, handled[c]) = SubSeq(sent[c], 1, handled[c])
    <3>1. CASE c = d
      <4>1. PICK m \in Message : sent' = [sent EXCEPT ![c] = Append(@, m)]
        BY <2>2, <3>1, PeerSends
      <4>2. sent'[c] = Append(sent[c], m)
        BY <4>1 DEF TypeOK
      <4>3. handled[c] \in 0 .. Len(sent[c])
        BY HandledStep
      <4> QED BY <1>3, <4>2, <4>3, SubSeqAppend
    <3>2. CASE c # d
      BY <2>2, <3>2, PeerSends
    <3> QED BY <3>1, <3>2
  <2>3. sent' = sent \/ \E d \in Conn : \E good \in BOOLEAN : PeerSend(d, good)
    BY StreamsStay DEF Receive, ApplyEncodedUpdate, Reject, peerVars
  <2> QED BY <2>1, <2>2, <2>3 DEF ToApply
<1>5. ASSUME NEW c \in Conn, sent' = sent,
             handled[c] < Len(sent[c]), handled'[c] = handled[c] + 1,
             data(c) = sent[c][handled[c] + 1],
             \A d \in Conn \ {c} : handled'[d] = handled[d],
             \/ data(c).good /\ log' = Append(log, data(c))
             \/ ~data(c).good /\ log' = log
      PROVE  AppliedInOrder'
  <2>1. handled[c] \in Nat /\ Len(sent[c]) \in Nat
    BY HandledStep, <1>3
  <2>2. handled[c] + 1 \in 1 .. Len(sent[c])
    BY <1>5, <2>1
  <2>3. data(c) \in Message /\ data(c).from = c
    BY <1>3, <1>5, <2>2 DEF Numbered
  <2>4. data(c).good => data(c) \in Good
    BY <2>3 DEF Good, Message, Messages
  <2>5. ToApply(sent[c], handled[c] + 1, c)
          = IF data(c).good THEN Append(ToApply(sent[c], handled[c], c), data(c))
            ELSE ToApply(sent[c], handled[c], c)
    BY <1>3, <1>5, <2>1, <2>3, ToApplyGrows
  <2>6. ASSUME NEW d \in Conn
        PROVE  AppliedOf(log', d) = IF d = c /\ data(c).good
                                    THEN Append(AppliedOf(log, d), data(c))
                                    ELSE AppliedOf(log, d)
    <3>1. CASE ~data(c).good
      BY <1>5, <3>1
    <3>2. CASE data(c).good
      <4> DEFINE m == data(c)
      <4>1. m \in Good /\ m.from = c /\ log' = Append(log, m)
        BY <1>5, <2>3, <2>4, <3>2
      <4> HIDE DEF m
      <4>2. AppliedOf(log', d) = IF d = c THEN Append(AppliedOf(log, d), m) ELSE AppliedOf(log, d)
        BY <1>3, <4>1, AppliedGrows
      <4> QED BY <3>2, <4>2 DEF m
    <3> QED BY <3>1, <3>2
  <2> QED BY <1>1, <1>2, <1>5, <2>5, <2>6
<1> QED BY <1>4, <1>5, HandledStep

-----------------------------------------------------------------------------
\* The members and the fan-out

\* The log only grows, and joinedAt is set once.
LEMMA LogGrows ==
  ASSUME TypeOK, Numbered, Taken, [Next]_vars
  PROVE  /\ Len(log) \in Nat /\ Len(log') \in Nat /\ Len(log) <= Len(log')
         /\ \/ log' = log
            \/ \E c \in Conn : ApplyEncodedUpdate(c)
         /\ \/ joinedAt' = joinedAt
            \/ \E c \in Conn : Join(c)
<1>1. log' = log \/ \E c \in Conn : ApplyEncodedUpdate(c)
  BY StreamsStay DEF PeerSend, Receive, Reject, roomVars
<1>2. joinedAt' = joinedAt \/ \E c \in Conn : Join(c)
  BY DEF Next, Peer, Serve, Connect, PeerSend, PeerReceive, HangUp, Accept, Receive,
         ReceiveFails, ApplyEncodedUpdate, Reject, Send, SendFails, Unlock, vars, roomVars
<1>3. log \in Seq(Good) /\ Len(log) \in Nat
  BY DEF TypeOK, Good
<1>4. ASSUME NEW c \in Conn, ApplyEncodedUpdate(c)
      PROVE  Len(log') = Len(log) + 1
  <2>1. data(c) \in Good /\ log' = Append(log, data(c))
    BY <1>4, DataInHand DEF ApplyEncodedUpdate
  <2> HIDE DEF data
  <2> QED BY <1>3, <2>1
<1> QED BY <1>1, <1>2, <1>3, <1>4

\* A connection stays one that was dialled before it joined and told nothing.
LEMMA JoinedStep ==
  ASSUME TypeOK, Numbered, Taken, Joined, InHand, [Next]_vars
  PROVE  Joined'
<1> USE DEF Joined, peerVars, roomVars
<1>0. /\ joinedAt \in [Conn -> Nat \cup {Nil}] /\ Nil \notin Nat
      /\ pc \in [Conn -> {"none", "accepted", "receive", "lock", "send", "done"}]
      /\ link \in [Conn -> Link] /\ inbox \in [Conn -> Seq(Good)]
      /\ Len(log) \in Nat /\ Len(log') \in Nat /\ Len(log) <= Len(log')
  <2>1. Len(log) \in Nat /\ Len(log') \in Nat /\ Len(log) <= Len(log')
    BY LogGrows
  <2> QED BY <2>1, RelayAssumption DEF TypeOK, Good
<1>1. CASE UNCHANGED vars
  BY <1>1 DEF vars
<1>2. ASSUME NEW c \in Conn,
             \/ PeerReceive(c) \/ (\E good \in BOOLEAN : PeerSend(c, good))
             \/ Receive(c) \/ ReceiveFails(c) \/ Reject(c) \/ Unlock(c) \/ ApplyEncodedUpdate(c)
      PROVE  Joined'
  <2>1. /\ UNCHANGED <<joinedAt, inbox>>
        /\ \A d \in Conn : \/ pc'[d] = pc[d]
                           \/ /\ pc[d] \notin {"none", "accepted"}
                              /\ pc'[d] \notin {"none", "accepted"}
        /\ \A d \in Conn : link'[d] = link[d] \/ link'[d] # "new"
    <3>1. \A d \in Conn : mu = d => pc[d] = "send"
      BY DEF TypeOK
    <3> QED BY <1>0, <1>2, <3>1
            DEF PeerReceive, PeerSend, Receive, ReceiveFails, Reject, Unlock, ApplyEncodedUpdate
  <2> QED BY <1>0, <2>1
<1>3. ASSUME NEW c \in Conn, Connect(c) \/ HangUp(c)
      PROVE  Joined'
  BY <1>0, <1>3 DEF Connect, HangUp
<1>4. ASSUME NEW c \in Conn, Accept(c)
      PROVE  Joined'
  BY <1>0, <1>4 DEF Accept
<1>5. ASSUME NEW c \in Conn, Join(c)
      PROVE  Joined'
  <2>1. /\ joinedAt' = [joinedAt EXCEPT ![c] = Len(log)] /\ pc' = [pc EXCEPT ![c] = "receive"]
        /\ UNCHANGED <<inbox, link, log>> /\ pc[c] = "accepted"
    BY <1>5 DEF Join, TypeOK
  <2> QED BY <1>0, <2>1
<1>6. ASSUME NEW c \in Conn, Send(c) \/ SendFails(c)
      PROVE  Joined'
  <2> DEFINE h == Head(todo)
  <2>1. h \in Conn /\ joinedAt[h] # Nil
    BY <1>6, TodoTail DEF Send, SendFails, InHand
  <2>2. /\ UNCHANGED <<joinedAt, pc>>
        /\ inbox' = inbox \/ inbox' = [inbox EXCEPT ![h] = Append(@, data(c))]
        /\ link' = link \/ link' = [link EXCEPT ![h] = "closed"]
    BY <1>6 DEF Send, SendFails, written
  <2> HIDE DEF h
  <2> QED BY <1>0, <2>1, <2>2
<1> QED BY <1>1, <1>2, <1>3, <1>4, <1>5, <1>6 DEF Next, Peer, Serve

\* The message in hand stays the last of the log, and to go to members that
\* joined before it.
LEMMA InHandStep ==
  ASSUME TypeOK, Numbered, Taken, Joined, InHand, [Next]_vars
  PROVE  InHand'
<1> USE DEF peerVars, roomVars
<1>0. /\ joinedAt \in [Conn -> Nat \cup {Nil}] /\ Nil \notin Nat /\ Nil \notin Conn
      /\ Len(log) \in Nat /\ Len(log') \in Nat
      /\ mu \in Conn \cup {Nil} /\ \A c \in Conn : mu = c <=> pc[c] = "send"
      /\ todo \in Seq(Conn) /\ ToSet(<<>>) = {} /\ IsInjective(<<>>)
  <2>1. ToSet(<<>>) = {} /\ IsInjective(<<>>)
    BY DEF ToSet, IsInjective
  <2> QED BY <2>1, LogGrows, RelayAssumption DEF TypeOK
<1>1. ASSUME NEW c \in Conn, mu = c
      PROVE  data(c)' = data(c)
  BY <1>0, <1>1, TakenStep
<1>2. CASE UNCHANGED <<mu, todo, log, joinedAt>>
  <2>1. ASSUME NEW c \in Conn, mu = c
        PROVE  log # <<>> /\ log[Len(log)] = data(mu)'
    <3>1. data(c)' = data(mu)'
      BY <1>2, <2>1 DEF data
    <3>2. log # <<>> /\ log[Len(log)] = data(c)
      BY <1>0, <2>1 DEF InHand
    <3> QED BY <1>1, <2>1, <3>1, <3>2
  <2> QED BY <1>0, <1>2, <2>1 DEF InHand
<1>3. ASSUME NEW c \in Conn, Join(c)
      PROVE  InHand'
  BY <1>0, <1>3 DEF Join, InHand, TypeOK
<1>4. ASSUME NEW c \in Conn, ApplyEncodedUpdate(c)
      PROVE  InHand'
  <2>1. /\ mu' = c /\ log' = Append(log, data(c)) /\ todo' = others(c)
        /\ UNCHANGED <<joinedAt, sent, taken>> /\ mu = Nil
    BY <1>4 DEF ApplyEncodedUpdate
  <2>2. data(c)' = data(c)
    BY <2>1 DEF data
  <2>3. data(c) \in Good
    BY <1>4, DataInHand DEF ApplyEncodedUpdate
  <2>4. log \in Seq(Good)
    BY DEF TypeOK, Good
  <2>5. log' # <<>> /\ Len(log') = Len(log) + 1 /\ log'[Len(log')] = data(c)
    <3> DEFINE m == data(c)
    <3>1. m \in Good /\ log' = Append(log, m)
      BY <2>1, <2>3
    <3> HIDE DEF m
    <3>2. log' # <<>> /\ Len(log') = Len(log) + 1 /\ log'[Len(log')] = m
      BY <2>4, <3>1
    <3> QED BY <3>2 DEF m
  <2>6. IsInjective(todo') /\ ToSet(todo') = ToSet(conns) \ {c}
    BY <2>1, OthersOf
  <2>7. \A d \in ToSet(conns) : d \in Conn /\ joinedAt[d] # Nil /\ joinedAt[d] <= Len(log)
    <3>1. \A d \in ToSet(conns) : d \in Conn /\ pc[d] \notin {"none", "accepted"}
      <4>1. conns \in Seq(Conn)
        BY DEF TypeOK
      <4>2. ToSet(conns) \subseteq Conn
        BY <4>1 DEF ToSet
      <4> QED BY <4>2 DEF TypeOK
    <3> QED BY <3>1 DEF Joined
  <2>8. \A d \in ToSet(todo') : c # d /\ joinedAt[d] # Nil /\ joinedAt[d] < Len(log')
    BY <1>0, <2>5, <2>6, <2>7
  <2> QED BY <2>1, <2>2, <2>5, <2>6, <2>8 DEF InHand
<1>5. ASSUME NEW c \in Conn, Send(c) \/ SendFails(c)
      PROVE  InHand'
  <2>1. todo' = Tail(todo) /\ todo # <<>> /\ UNCHANGED <<mu, log, joinedAt, sent, taken>>
    BY <1>5 DEF Send, SendFails
  <2>2. IsInjective(todo') /\ ToSet(todo') \subseteq ToSet(todo)
    BY <2>1, TodoTail
  <2> QED BY <2>1, <2>2 DEF InHand, data
<1>6. ASSUME NEW c \in Conn, Unlock(c)
      PROVE  InHand'
  BY <1>0, <1>6 DEF Unlock, InHand
<1>7. ASSUME NEW c \in Conn,
             \/ Connect(c) \/ PeerReceive(c) \/ (\E good \in BOOLEAN : PeerSend(c, good))
             \/ HangUp(c) \/ Accept(c) \/ Receive(c) \/ ReceiveFails(c) \/ Reject(c)
      PROVE  UNCHANGED <<mu, todo, log, joinedAt>>
  BY <1>7 DEF Connect, PeerReceive, PeerSend, HangUp, Accept, Receive, ReceiveFails, Reject
<1> QED BY <1>2, <1>3, <1>4, <1>5, <1>6, <1>7 DEF Next, Peer, Serve, vars

\* What a member was told stays what it is owed, and all of it but the message
\* that is still to go to it while it lives.
LEMMA DeliveredStep ==
  ASSUME TypeOK, Numbered, Taken, Joined, InHand, Delivered, [Next]_vars
  PROVE  Delivered'
<1> USE DEF peerVars, roomVars
<1> DEFINE owed(d) == OwedOf(log, joinedAt[d], d)
           told(d) == /\ IsPrefix(inbox[d], owed(d))
                      /\ link[d] = "open" =>
                           owed(d) = IF d \in ToSet(todo) THEN Append(inbox[d], log[Len(log)])
                                     ELSE inbox[d]
<1>1. Delivered <=> \A d \in Conn : joinedAt[d] # Nil => told(d)
  BY DEF Delivered, Owed, OwedOf
<1>2. Delivered' <=> \A d \in Conn : joinedAt'[d] # Nil => told(d)'
  BY DEF Delivered, Owed, OwedOf
<1>3. /\ log \in Seq(Good) /\ Nil \notin Nat /\ Nil \notin Conn /\ ToSet(<<>>) = {}
      /\ joinedAt \in [Conn -> Nat \cup {Nil}]
      /\ \A d \in Conn : joinedAt[d] # Nil => joinedAt[d] \in 0 .. Len(log)
      /\ inbox \in [Conn -> Seq(Good)] /\ link \in [Conn -> Link]
  <2>1. Len(log) \in Nat /\ log \in Seq(Good)
    BY LogGrows DEF TypeOK, Good
  <2>2. joinedAt \in [Conn -> Nat \cup {Nil}] /\ Nil \notin Nat /\ Nil \notin Conn
    BY RelayAssumption DEF TypeOK
  <2>3. ToSet(<<>>) = {}
    BY DEF ToSet
  <2>4. \A d \in Conn : joinedAt[d] # Nil => joinedAt[d] \in 0 .. Len(log)
    BY <2>1, <2>2 DEF Joined
  <2>5. inbox \in [Conn -> Seq(Good)] /\ link \in [Conn -> Link]
    BY DEF TypeOK, Good
  <2> QED BY <2>1, <2>2, <2>3, <2>4, <2>5
<1>4. \A d \in Conn : joinedAt[d] # Nil => owed(d) \in Seq(Good)
  BY <1>3, OwedType
<1>5. ASSUME UNCHANGED <<inbox, todo, log>>, NEW d \in Conn,
             joinedAt[d] # Nil, joinedAt'[d] = joinedAt[d], link'[d] = "open" => link[d] = "open"
      PROVE  told(d)'
  BY <1>1, <1>5
<1>6. ASSUME NEW c \in Conn, Connect(c)
      PROVE  Delivered'
  <2>1. joinedAt[c] = Nil /\ UNCHANGED <<inbox, todo, log, joinedAt>>
          /\ \A d \in Conn \ {c} : link'[d] = link[d]
    BY <1>3, <1>6 DEF Connect, Joined
  <2> HIDE DEF told
  <2> QED BY <1>2, <1>5, <2>1
<1>7. ASSUME NEW c \in Conn,
             \/ PeerReceive(c) \/ (\E good \in BOOLEAN : PeerSend(c, good))
             \/ HangUp(c) \/ Accept(c) \/ Receive(c) \/ ReceiveFails(c) \/ Reject(c) \/ Unlock(c)
      PROVE  Delivered'
  <2>1. /\ UNCHANGED <<inbox, todo, log, joinedAt>>
        /\ \A d \in Conn : link'[d] = "open" => link[d] = "open"
    BY <1>3, <1>7 DEF PeerReceive, PeerSend, HangUp, Accept, Receive, ReceiveFails, Reject, Unlock
  <2> HIDE DEF told
  <2> QED BY <1>2, <1>5, <2>1
<1>8. ASSUME NEW c \in Conn, Join(c)
      PROVE  Delivered'
  <2>1. /\ joinedAt' = [joinedAt EXCEPT ![c] = Len(log)] /\ UNCHANGED <<inbox, link, todo, log>>
        /\ todo = <<>> /\ inbox[c] = <<>>
    BY <1>8 DEF Join, TypeOK, Joined
  <2>2. \A d \in Conn \ {c} : joinedAt'[d] = joinedAt[d]
    BY <1>3, <2>1
  <2>3. joinedAt'[c] = Len(log)
    BY <1>3, <2>1
  <2>4. OwedOf(log, Len(log), c) = <<>>
    BY <1>3, OwedType
  <2>5. IsPrefix(<<>>, <<>>)
    BY DEF IsPrefix
  <2>6. told(c)'
    BY <1>3, <2>1, <2>3, <2>4, <2>5
  <2> HIDE DEF told
  <2> QED BY <1>2, <1>5, <2>1, <2>2, <2>6
<1>9. ASSUME NEW c \in Conn, ApplyEncodedUpdate(c)
      PROVE  Delivered'
  <2> DEFINE m == data(c)
  <2>1. /\ log' = Append(log, m) /\ todo' = others(c) /\ todo = <<>>
        /\ UNCHANGED <<joinedAt, inbox, link>>
    BY <1>9 DEF ApplyEncodedUpdate, TypeOK
  <2>2. m \in Good /\ m.from = c
    BY <1>9, DataInHand DEF ApplyEncodedUpdate
  <2>3. \A d \in Conn : joinedAt[d] # Nil => d \in ToSet(conns)
    BY DEF Joined, TypeOK
  <2>4. \A d \in Conn : joinedAt[d] # Nil => (d \in ToSet(todo') <=> d # c)
    BY <2>1, <2>3, OthersOf
  <2> HIDE DEF m
  <2>5. log'[Len(log')] = m
    BY <1>3, <2>1, <2>2
  <2> SUFFICES ASSUME NEW d \in Conn, joinedAt[d] # Nil
               PROVE  told(d)'
    BY <1>2, <2>1
  <2>6. inbox[d] \in Seq(Good) /\ IsPrefix(inbox[d], owed(d))
          /\ (link[d] = "open" => owed(d) = inbox[d])
    BY <1>1, <1>3, <2>1
  <2>7. owed(d)' = OwedOf(Append(log, m), joinedAt[d], d)
    BY <2>1
  <2>8. owed(d)' = IF d = c THEN owed(d) ELSE Append(owed(d), m)
    BY <1>3, <2>2, <2>7, OwedGrows
  <2>9. owed(d) \in Seq(Good)
    BY <1>4
  <2> HIDE DEF owed
  <2>10. IsPrefix(inbox[d], Append(owed(d), m))
    BY <2>2, <2>6, <2>9, PrefixGrows
  <2> QED BY <2>1, <2>4, <2>5, <2>6, <2>8, <2>10
<1>10. ASSUME NEW c \in Conn, Send(c) \/ SendFails(c)
       PROVE  Delivered'
  <2> PICK h \in Conn : h = Head(todo)
    BY <1>10, TodoTail DEF Send, SendFails
  <2> PICK m : m = data(c)
    OBVIOUS
  <2>1. /\ h \in ToSet(todo) /\ joinedAt[h] # Nil
        /\ ToSet(todo') = ToSet(todo) \ {h}
        /\ m = log[Len(log)]
    BY <1>3, <1>10, TodoTail DEF Send, SendFails, InHand
  <2>2. /\ UNCHANGED <<log, joinedAt>>
        /\ \A d \in Conn \ {h} : inbox'[d] = inbox[d] /\ link'[d] = link[d]
        /\ \/ inbox'[h] = Append(inbox[h], m) /\ link[h] = "open"
           \/ inbox'[h] = inbox[h] /\ link'[h] # "open"
    BY <1>3, <1>10, <2>1 DEF Send, SendFails, written
  <2>3. \A d \in Conn : owed(d)' = owed(d)
    BY <2>2
  <2>4. ASSUME NEW d \in Conn, joinedAt[d] # Nil, d # h
        PROVE  told(d)'
    <3>1. told(d)
      BY <1>1, <2>4
    <3> HIDE DEF owed
    <3> QED BY <2>1, <2>2, <2>3, <2>4, <3>1
  <2>5. told(h)'
    <3>1. told(h)
      BY <1>1, <2>1
    <3>2. CASE inbox'[h] = Append(inbox[h], m) /\ link[h] = "open"
      <4> HIDE DEF owed
      <4>1. owed(h) = inbox'[h]
        BY <2>1, <3>1, <3>2
      <4>2. IsPrefix(owed(h), owed(h))
        <5>1. owed(h) \in Seq(Good)
          BY <1>4, <2>1
        <5> QED BY <5>1 DEF IsPrefix
      <4> QED BY <2>1, <2>3, <4>1, <4>2
    <3>3. CASE inbox'[h] = inbox[h] /\ link'[h] # "open"
      <4> HIDE DEF owed
      <4> QED BY <2>3, <3>1, <3>3
    <3> QED BY <2>2, <3>2, <3>3
  <2> HIDE DEF told
  <2> QED BY <1>2, <2>2, <2>4, <2>5
<1>11. CASE UNCHANGED vars
  <2>1. UNCHANGED <<inbox, todo, log, joinedAt, link>>
    BY <1>11 DEF vars
  <2> HIDE DEF told
  <2> QED BY <1>2, <1>5, <2>1
<1> QED BY <1>6, <1>7, <1>8, <1>9, <1>10, <1>11 DEF Next, Peer, Serve

-----------------------------------------------------------------------------
\* The theorems

\* The invariant holds at the start and after every step.
LEMMA InvInit == Init => IInv
<1> SUFFICES ASSUME Init PROVE IInv
  OBVIOUS
<1>1. TypeOK
  BY TypeInit
<1>2. ToSet(<<>>) = {} /\ IsInjective(<<>>) /\ Len(<<>>) = 0
        /\ \A A : <<>> \in Seq(A)
  BY DEF ToSet, IsInjective
<1>3. Numbered
  <2>1. allSent = {}
    BY <1>2 DEF Init, allSent
  <2> QED BY <1>2, <2>1, FS_EmptySet, RelayAssumption DEF Init, Numbered
<1>4. Taken
  BY <1>2 DEF Init, Taken
<1>5. AppliedInOrder
  <2>1. \A S : SelectIn(<<>>, S) = <<>>
    BY SelectEmpty
  <2>2. SubSeq(<<>>, 1, 0) = <<>>
    OBVIOUS
  <2> QED BY <2>1, <2>2 DEF Init, AppliedInOrder
<1>6. Logged /\ Joined /\ InHand /\ Delivered
  BY <1>2 DEF Init, Logged, Joined, InHand, Delivered
<1> QED BY <1>1, <1>3, <1>4, <1>5, <1>6 DEF IInv

\* Every step keeps the invariant.
LEMMA InvStep == IInv /\ [Next]_vars => IInv'
BY TypeStep, NumberedStep, TakenStep, AppliedInOrderStep, LoggedStep, JoinedStep,
   InHandStep, DeliveredStep DEF IInv

\* The inductive invariant holds throughout.
THEOREM Invariance == Spec => []IInv
<1>1. Init => IInv
  BY InvInit
<1>2. IInv /\ [Next]_vars => IInv'
  BY InvStep
<1> QED BY <1>1, <1>2, PTL DEF Spec

\* Every variable keeps its type, a connection is in the room once and for good,
\* and the lock is held by the Serve that fans out a message (module Relay,
\* TypeOK).
THEOREM TypeCorrect == Spec => []TypeOK
<1>1. IInv => TypeOK
  BY DEF IInv
<1> QED BY <1>1, Invariance, PTL

\* The messages of one peer are applied in the order it sent them, each good one
\* once and none skipped (module Relay, AppliedInOrder).
THEOREM StreamsInOrder == Spec => []AppliedInOrder
<1>1. IInv => AppliedInOrder
  BY DEF IInv
<1> QED BY <1>1, Invariance, PTL

\* A member is told what the others' messages are, in the order they were
\* applied, without gap, repetition or echo (module Relay, FanOut).
THEOREM MembersAreTold == Spec => []FanOut
<1>1. IInv => FanOut
  <2> SUFFICES ASSUME IInv, NEW c \in ToSet(conns)
               PROVE  /\ IsPrefix(inbox[c], Owed(c))
                      /\ link[c] = "open" =>
                           Len(inbox[c]) = Len(Owed(c)) - (IF c \in ToSet(todo) THEN 1 ELSE 0)
    BY DEF FanOut
  <2>1. conns \in Seq(Conn) /\ log \in Seq(Good)
    BY DEF IInv, TypeOK, Good
  <2>2. c \in Conn
    BY <2>1 DEF ToSet
  <2>3. inbox[c] \in Seq(Good) /\ joinedAt[c] # Nil
    BY <2>2 DEF IInv, TypeOK, Joined, Good
  <2>4. /\ IsPrefix(inbox[c], Owed(c))
        /\ link[c] = "open" =>
             Owed(c) = IF c \in ToSet(todo) THEN Append(inbox[c], log[Len(log)]) ELSE inbox[c]
    BY <2>2, <2>3 DEF IInv, Delivered
  <2>5. CASE c \in ToSet(todo)
    <3>1. log # <<>>
      <4>1. joinedAt[c] < Len(log) /\ joinedAt[c] \in Nat
        BY <2>2, <2>3, <2>5 DEF IInv, InHand, TypeOK
      <4> QED BY <2>1, <4>1
    <3>2. log[Len(log)] \in Good
      BY <2>1, <3>1
    <3>3. Len(Append(inbox[c], log[Len(log)])) = Len(inbox[c]) + 1 /\ Len(inbox[c]) \in Nat
      BY <2>3, <3>2
    <3> QED BY <2>4, <2>5, <3>3
  <2>6. CASE c \notin ToSet(todo)
    BY <2>3, <2>4, <2>6
  <2> QED BY <2>5, <2>6
<1> QED BY <1>1, Invariance, PTL

-----------------------------------------------------------------------------
\* The room implements Broadcast

\* The connections that are lost.
lost == {c \in Conn : link[c] \in {"broken", "closed"}}

\* A member is owed the same by the room and by Broadcast.
LEMMA SameOwed == \A d : Abstract!Owed(d) = Owed(d)
BY DEF Abstract!Owed, Owed, Messages, Abstract!SelectIn, SelectIn

\* The room starts as Broadcast does.
LEMMA RefineInit == Init => Abstract!Init
BY DEF Init, Abstract!Init

\* A message that is applied is published: its number is above those its sender
\* published, and every member still there was handed the last one.
LEMMA PublishStep ==
  ASSUME IInv, NEW c \in Conn, ApplyEncodedUpdate(c)
  PROVE  \E n \in 1 .. MaxMessages : Abstract!Publish(c, n)
<1> USE DEF IInv
<1>1. /\ taken[c] \in 1 .. Len(sent[c]) /\ data(c) \in Good
      /\ data(c).from = c /\ data(c).n = taken[c]
  BY DataInHand DEF ApplyEncodedUpdate
<1>2. taken[c] \in 1 .. MaxMessages
  BY <1>1, WithinBound, RelayAssumption
<1>3. data(c) = [from |-> c, n |-> taken[c], good |-> TRUE]
  BY <1>1 DEF Good, Messages
<1>4. joinedAt[c] # Nil /\ mu = Nil /\ todo = <<>> /\ pc[c] = "lock"
  BY DEF ApplyEncodedUpdate, Joined, TypeOK
<1>5. \A i \in 1 .. Len(log) : log[i].from = c => log[i].n < taken[c]
  <2> SUFFICES ASSUME NEW i \in 1 .. Len(log), log[i].from = c
               PROVE  log[i].n < taken[c]
    OBVIOUS
  <2>1. log[i].n <= taken[c] - 1
    BY <1>4 DEF Logged, handled
  <2>2. log[i].n \in Nat
    <3>1. log \in Seq(Good)
      BY DEF TypeOK, Good
    <3>2. log[i] \in Good
      BY <3>1
    <3> QED BY <3>2 DEF Good, Messages
  <2> QED BY <1>1, <1>2, <2>1, <2>2
<1>6. ASSUME NEW d \in Conn \ lost, joinedAt[d] # Nil
      PROVE  inbox[d] = Owed(d)
  <2>1. link[d] = "open"
    BY <1>6 DEF lost, Joined, TypeOK, Link
  <2>2. d \notin ToSet(todo)
    BY <1>4 DEF ToSet
  <2> QED BY <1>6, <2>1, <2>2 DEF Delivered
<1>7. \A d : Abstract!Owed(d) = Owed(d)
  BY SameOwed
<1>8. log' = Append(log, data(c)) /\ UNCHANGED <<joinedAt, inbox, link>>
  BY DEF ApplyEncodedUpdate
<1>9. lost' = lost
  BY <1>8 DEF lost
<1>10. Abstract!Publish(c, taken[c])
  BY <1>3, <1>4, <1>5, <1>6, <1>7, <1>8, <1>9 DEF Abstract!Publish, lost
<1> QED BY <1>2, <1>10

\* A write hands a member that is connected its next message, or loses it with or
\* without; to one that is lost already it does nothing.
LEMMA HandStep ==
  ASSUME IInv, NEW c \in Conn, Send(c) \/ SendFails(c)
  PROVE  \/ \E d \in Conn : Abstract!Hand(d) \/ Abstract!Lose(d)
         \/ UNCHANGED <<log, joinedAt, inbox, lost>>
<1> USE DEF IInv
<1> PICK d \in Conn : d = Head(todo)
  BY TodoTail DEF Send, SendFails
<1>1. d \in ToSet(todo) /\ mu = c /\ c # Nil
  BY TodoTail, RelayAssumption DEF Send, SendFails
<1>2. /\ joinedAt[d] # Nil /\ joinedAt[d] \in Nat /\ joinedAt[d] < Len(log)
      /\ log \in Seq(Good) /\ log # <<>> /\ log[Len(log)] = data(c)
      /\ inbox \in [Conn -> Seq(Good)] /\ link \in [Conn -> Link]
  BY <1>1 DEF InHand, TypeOK, Good
<1>3. link[d] \in {"open", "broken", "closed"}
  BY <1>2 DEF Joined, Link
<1>4. Abstract!Owed(d) = Owed(d)
  BY SameOwed
<1>5. link[d] = "open" => Owed(d) = Append(inbox[d], data(c))
  BY <1>1, <1>2 DEF Delivered
<1>6. ASSUME link[d] = "open", inbox' = [inbox EXCEPT ![d] = Append(@, data(c))]
      PROVE  Abstract!Handed(d)
  <2> DEFINE m == data(c)
             s == inbox[d]
  <2>1. m \in Good /\ s \in Seq(Good) /\ Owed(d) = Append(s, m)
    BY <1>2, <1>5, <1>6
  <2> HIDE DEF m, s
  <2>2. Len(s) < Len(Owed(d)) /\ Owed(d)[Len(s) + 1] = m
    BY <2>1
  <2> QED BY <1>2, <1>4, <1>6, <2>2 DEF Abstract!Handed, m, s
<1>7. UNCHANGED <<log, joinedAt>>
  BY DEF Send, SendFails
<1>8. CASE Send(c)
  <2>1. CASE link[d] = "open"
    <3>1. inbox' = [inbox EXCEPT ![d] = Append(@, data(c))] /\ link' = link
      BY <1>8, <2>1 DEF Send, written
    <3>2. Abstract!Hand(d)
      BY <1>6, <1>7, <2>1, <3>1 DEF Abstract!Hand
    <3> QED BY <3>2
  <2>2. CASE link[d] # "open"
    BY <1>7, <1>8, <2>2 DEF Send, lost
  <2> QED BY <2>1, <2>2
<1>9. CASE SendFails(c)
  <2>1. link' = [link EXCEPT ![d] = "closed"]
          /\ \/ link[d] = "open" /\ inbox' = [inbox EXCEPT ![d] = Append(@, data(c))]
             \/ inbox' = inbox
    BY <1>9 DEF SendFails, written
  <2>2. CASE link[d] = "open"
    <3>1. d \notin lost /\ lost' = lost \cup {d}
      BY <1>2, <2>1, <2>2 DEF lost
    <3>2. Abstract!Handed(d) \/ inbox' = inbox
      BY <1>6, <2>1
    <3>3. Abstract!Lose(d)
      BY <1>7, <3>1, <3>2 DEF Abstract!Lose, lost
    <3> QED BY <3>3
  <2>3. CASE link[d] # "open"
    <3>1. lost' = lost
      BY <1>2, <1>3, <2>1, <2>3 DEF lost
    <3> QED BY <1>7, <2>1, <2>3, <3>1
  <2> QED BY <2>2, <2>3
<1> QED BY <1>8, <1>9

\* Every step of the room is one of Broadcast's, or none.
LEMMA RefineStep ==
  ASSUME IInv, [Next]_vars
  PROVE  [Abstract!Next]_(Abstract!vars)
<1> DEFINE Stays == UNCHANGED <<log, joinedAt, inbox, lost>>
<1> USE DEF peerVars, roomVars
<1>1. Stays => UNCHANGED Abstract!vars
  BY DEF Abstract!vars, lost
<1>2. CASE UNCHANGED vars
  BY <1>1, <1>2 DEF vars, lost
<1>3. ASSUME NEW c \in Conn,
             \/ Connect(c) \/ PeerReceive(c) \/ (\E good \in BOOLEAN : PeerSend(c, good))
             \/ Accept(c) \/ Receive(c) \/ ReceiveFails(c) \/ Reject(c) \/ Unlock(c)
      PROVE  Stays
  <2>1. UNCHANGED <<log, joinedAt, inbox>>
    BY <1>3 DEF Connect, PeerReceive, PeerSend, Accept, Receive, ReceiveFails, Reject, Unlock
  <2>2. link \in [Conn -> Link]
    BY DEF IInv, TypeOK
  <2>3. \A d \in Conn : link'[d] \in {"broken", "closed"} <=> link[d] \in {"broken", "closed"}
    BY <1>3, <2>2 DEF Connect, PeerReceive, PeerSend, Accept, Receive, ReceiveFails, Reject, Unlock
  <2>4. lost' = lost
    BY <2>3 DEF lost
  <2> QED BY <2>1, <2>4
<1>4. ASSUME NEW c \in Conn, HangUp(c)
      PROVE  Abstract!Lose(c)
  <2>1. UNCHANGED <<log, joinedAt, inbox>> /\ link[c] = "open" /\ link' = [link EXCEPT ![c] = "broken"]
    BY <1>4 DEF HangUp
  <2>2. link \in [Conn -> Link]
    BY DEF IInv, TypeOK
  <2>3. c \notin lost /\ lost' = lost \cup {c}
    BY <2>1, <2>2 DEF lost
  <2> QED BY <2>1, <2>3 DEF Abstract!Lose, lost
<1>5. ASSUME NEW c \in Conn, Join(c)
      PROVE  Abstract!Join(c)
  BY <1>5 DEF Join, Abstract!Join, IInv, Joined, TypeOK
<1>6. ASSUME NEW c \in Conn, ApplyEncodedUpdate(c)
      PROVE  Abstract!Next
  BY <1>6, PublishStep DEF Abstract!Next
<1>7. ASSUME NEW c \in Conn, Send(c) \/ SendFails(c)
      PROVE  Abstract!Next \/ Stays
  BY <1>7, HandStep DEF Abstract!Next
<1>8. Abstract!Next \/ Stays
  BY <1>2, <1>3, <1>4, <1>5, <1>6, <1>7
     DEF Next, Peer, Serve, Abstract!Next, vars, lost
<1> QED BY <1>1, <1>8

\* The room implements the broadcast it promises, for any connections and number
\* of messages (module Relay, Broadcast).
THEOREM RoomBroadcasts == Spec => Broadcast
<1>1. Init => Abstract!Init
  BY RefineInit
<1>2. IInv /\ [Next]_vars => [Abstract!Next]_(Abstract!vars)
  BY RefineStep
<1> QED BY <1>1, <1>2, Invariance, PTL DEF Spec, Broadcast, Abstract!Spec
=============================================================================
