--------------------------- MODULE Channel_proofs ---------------------------
(***************************************************************************)
(* Proofs about module Channel, for any goroutines, lengths and bounds:    *)
(* messages arrive whole, in order and once, and no Send succeeds after    *)
(* one that failed.  The bytes of an end are one sequence, cut into what   *)
(* its peer received, has read, is under way, and is still to be written.  *)
(***************************************************************************)
EXTENDS Channel, SequenceTheorems, TLAPS

\* The other end of the other end is this one.
LEMMA Peers ==
  /\ \A e \in End : peer(e) \in End /\ peer(e) # e /\ peer(peer(e)) = e
  /\ \A e, f \in End : f # e => f = peer(e)
<1>1. peer("dialer") = "acceptor" /\ peer("acceptor") = "dialer"
  BY DEF peer, End
<1> QED BY <1>1 DEF End

\* What the assumption says of the constants, one by one.
LEMMA Constants ==
  /\ Nil \notin Goroutine
  /\ HeaderLen \in Nat \ {0} /\ \A len \in DataLens : len \in Nat
  BY ChannelAssumption DEF Goroutine

\* A goroutine is at an end.
LEMMA Ends == \A g \in Goroutine : endOf(g) \in End
  BY DEF endOf, End

\* The bytes of a message with its header, and the i-th of those of the n-th.
size(len) == HeaderLen + len
byte(n, len, i) == [message |-> n, dataLen |-> len, at |-> i]

\* A frame is a sequence of bytes, one at each place.
LEMMA Frames ==
  ASSUME NEW n \in Nat, NEW len \in DataLens
  PROVE  /\ frame(n, len) \in Seq(Byte)
         /\ Len(frame(n, len)) = size(len)
         /\ frame(n, len) # <<>>
         /\ \A i \in 1 .. size(len) : frame(n, len)[i] = byte(n, len, i)
<1>1. size(len) \in Nat \ {0}
  BY Constants DEF size
<1>2. frame(n, len) = [i \in 1 .. size(len) |-> byte(n, len, i)]
  BY DEF frame, size, byte
<1>3. \A i \in 1 .. size(len) : byte(n, len, i) \in Byte
  BY <1>1 DEF byte, Byte
<1>4. frame(n, len) \in [1 .. size(len) -> Byte]
  BY <1>2, <1>3
<1>5. frame(n, len) \in Seq(Byte)
  BY <1>1, <1>4, IsASeq
<1>6. Len(frame(n, len)) = size(len)
  BY <1>1, <1>4, <1>5, LenProperties
<1> QED BY <1>1, <1>2, <1>5, <1>6

\* The messages sent with the fate of the last one written down.
LEMMA WithFate ==
  ASSUME NEW s \in Seq(Message), NEW fate \in {"ok", "error"}
  PROVE  LET told == [s EXCEPT ![Len(s)].fate = fate]
         IN  /\ told \in Seq(Message) /\ Len(told) = Len(s)
             /\ \A i \in 1 .. Len(s) :
                  /\ told[i].dataLen = s[i].dataLen
                  /\ told[i].fate = IF i = Len(s) THEN fate ELSE s[i].fate
<1> DEFINE n == Len(s)
           told == [s EXCEPT ![n].fate = fate]
           new(m) == [m EXCEPT !.fate = fate]
<1>1. n \in Nat /\ s \in [1 .. n -> Message]
  BY LenProperties
<1>2. \A m \in Message : new(m) \in Message /\ new(m).fate = fate /\ new(m).dataLen = m.dataLen
  BY DEF Message
<1> HIDE DEF n
<1>3. told = [i \in 1 .. n |-> IF i = n THEN new(s[i]) ELSE s[i]]
  BY <1>1
<1>4. \A i \in 1 .. n : told[i] = IF i = n THEN new(s[i]) ELSE s[i]
  BY <1>3
<1> HIDE DEF new, told
<1>5. told \in [1 .. n -> Message]
  BY <1>1, <1>2, <1>3
<1>6. told \in Seq(Message) /\ Len(told) = n
  BY <1>1, <1>5, IsASeq, LenProperties
<1>7. \A i \in 1 .. n : s[i] \in Message
  BY <1>1
<1>8. \A i \in 1 .. n : /\ told[i].dataLen = s[i].dataLen
                       /\ told[i].fate = IF i = n THEN fate ELSE s[i].fate
  BY <1>2, <1>4, <1>7
<1> QED BY <1>6, <1>8 DEF n, told

-----------------------------------------------------------------------------
\* Types

\* Every variable has its type at the start.
LEMMA TypeInit == Init => TypeOK
<1> SUFFICES ASSUME Init PROVE TypeOK
  OBVIOUS
<1> USE ChannelAssumption
<1>1. \A T : <<>> \in Seq(T) /\ Len(<<>>) = 0
  OBVIOUS
<1> QED BY <1>1 DEF Init, TypeOK, End

\* Every step keeps the types (module Channel, TypeOK).
LEMMA TypeStep == TypeOK /\ [Next]_vars => TypeOK'
<1> SUFFICES ASSUME TypeOK, [Next]_vars
             PROVE  TypeOK'
  OBVIOUS
<1> USE ChannelAssumption, Ends, Peers
    DEF TypeOK, mutexes, calls, history, returns, fails, sending, receiving
<1>1. ASSUME Connect \/ Accept
      PROVE  TypeOK'
  BY <1>1 DEF Connect, Accept, End
<1>2. ASSUME NEW g \in Goroutine, Call(g)
      PROVE  TypeOK'
  BY <1>2 DEF Call
<1>3. ASSUME NEW g \in Goroutine, LockSend(g)
      PROVE  TypeOK'
  <2> DEFINE e == endOf(g)
  <2> PICK len \in DataLens :
        /\ bytes' = [bytes EXCEPT ![g] = frame(Len(sent[e]) + 1, len)]
        /\ sent' = [sent EXCEPT ![e] = Append(@, [dataLen |-> len, fate |-> "open"])]
    BY <1>3 DEF LockSend
  <2>1. [dataLen |-> len, fate |-> "open"] \in Message
    BY DEF Message
  <2>2. sent' \in [End -> Seq(Message)]
    BY <2>1
  <2>3. bytes' \in [Goroutine -> Seq(Byte)]
    BY Frames
  <2> QED BY <1>3, <2>2, <2>3 DEF LockSend
<1>4. ASSUME NEW g \in Goroutine, Write(g)
      PROVE  TypeOK'
  <2> DEFINE e == endOf(g)
  <2>1. Head(bytes[g]) \in Byte /\ Tail(bytes[g]) \in Seq(Byte)
    BY <1>4 DEF Write
  <2>2. bytes' \in [Goroutine -> Seq(Byte)] /\ stream' \in [End -> Seq(Byte)]
    BY <1>4, <2>1 DEF Write
  <2>3. \A f \in End : Len(stream'[f]) <= Capacity
    BY <1>4, <2>1 DEF Write
  <2> QED BY <1>4, <2>2, <2>3 DEF Write
<1>5. ASSUME NEW g \in Goroutine, NEW fate \in {"ok", "error"}, SendReturns(g, fate),
             sendMu[endOf(g)] = g, conn' \in [End -> {"none", "open", "closed"}],
             faults' \in 0 .. MaxFaults
      PROVE  TypeOK'
  <2> DEFINE e == endOf(g)
             n == Len(sent[e])
             last == [sent[e] EXCEPT ![n].fate = fate]
  <2>1. sent' = [sent EXCEPT ![e] = last]
    BY <1>5 DEF SendReturns
  <2>2. last \in Seq(Message)
    <3>1. sent[e] \in Seq(Message)
      BY Ends
    <3> QED BY <3>1, WithFate
  <2>3. sent' \in [End -> Seq(Message)]
    BY <2>1, <2>2
  <2>4. bytes' \in [Goroutine -> Seq(Byte)]
    BY <1>5 DEF SendReturns
  <2> HIDE DEF last
  <2> QED BY <1>5, <2>3, <2>4 DEF SendReturns
<1>6. ASSUME NEW g \in Goroutine, LockReceive(g)
      PROVE  TypeOK'
  BY <1>6 DEF LockReceive
<1>7. ASSUME NEW g \in Goroutine, Read(g)
      PROVE  TypeOK'
  <2> DEFINE e == endOf(g)
  <2>1. Head(stream[e]) \in Byte /\ Tail(stream[e]) \in Seq(Byte)
        /\ Len(Tail(stream[e])) <= Capacity
    BY <1>7 DEF Read
  <2>2. bytes' \in [Goroutine -> Seq(Byte)] /\ stream' \in [End -> Seq(Byte)]
    BY <1>7, <2>1 DEF Read
  <2>3. \A f \in End : Len(stream'[f]) <= Capacity
    BY <1>7, <2>1 DEF Read
  <2> QED BY <1>7, <2>2, <2>3 DEF Read
<1>8. ASSUME NEW g \in Goroutine, Received(g)
      PROVE  TypeOK'
  <2>1. received' \in [End -> Seq(Seq(Byte))]
    BY <1>8 DEF Received
  <2>2. bytes' \in [Goroutine -> Seq(Byte)]
    BY <1>8 DEF Received
  <2> QED BY <1>8, <2>1, <2>2 DEF Received
<1>9. ASSUME NEW g \in Goroutine, ReadFails(g)
      PROVE  TypeOK'
  <2>1. bytes' \in [Goroutine -> Seq(Byte)]
    BY <1>9 DEF ReadFails
  <2> QED BY <1>9, <2>1 DEF ReadFails
<1>10. ASSUME NEW g \in Goroutine, Sent(g) \/ WriteFails(g)
       PROVE  TypeOK'
  <2>1. CASE Sent(g)
    BY <1>5, <2>1 DEF Sent
  <2>2. CASE WriteFails(g)
    <3>1. faults' \in 0 .. MaxFaults
      BY <2>2 DEF WriteFails
    <3>2. conn' \in [End -> {"none", "open", "closed"}]
      BY <2>2 DEF WriteFails
    <3> QED BY <1>5, <2>2, <3>1, <3>2 DEF WriteFails
  <2> QED BY <1>10, <2>1, <2>2
<1>11. CASE UNCHANGED vars
  BY <1>11 DEF vars
<1> QED BY <1>1, <1>2, <1>3, <1>4, <1>6, <1>7, <1>8, <1>9, <1>10, <1>11
        DEF Next, SendStep, ReceiveStep

-----------------------------------------------------------------------------
\* The inductive invariant

\* What a goroutine has of that message: what it still has to write, or has read.
EndOfFrame(s, n, len) ==
  /\ Len(s) <= size(len)
  /\ \A i \in 1 .. Len(s) : s[i] = byte(n, len, size(len) - Len(s) + i)
StartOfFrame(s, n, len) ==
  /\ Len(s) <= size(len)
  /\ \A i \in 1 .. Len(s) : s[i] = byte(n, len, i)

\* Where a byte is in all an end sends, and where the next one is.
here(b) == <<b.message, b.at>>
after(b) == IF b.at < size(b.dataLen) THEN <<b.message, b.at + 1>>
                                            ELSE <<b.message + 1, 1>>

\* Only a goroutine that holds a mutex is in the middle of a message.
OutsideNothing == \A g \in Goroutine : bytes[g] # <<>> => sending(g) \/ receiving(g)

\* What the holder of sendMu still has to write is the end of the last message.
HalfWritten ==
  \A e \in End : sendMu[e] # Nil =>
    LET n == Len(sent[e])
    IN  /\ n > 0 /\ sent[e][n].fate = "open"
        /\ EndOfFrame(bytes[sendMu[e]], n, sent[e][n].dataLen)

\* What the holder of recvMu has read is the beginning of the next message.
HalfRead ==
  \A e \in End : recvMu[e] # Nil /\ bytes[recvMu[e]] # <<>> =>
    LET n == Len(received[e]) + 1
    IN  /\ n <= Len(sent[peer(e)])
        /\ StartOfFrame(bytes[recvMu[e]], n, sent[peer(e)][n].dataLen)

\* What is under way are bytes of messages, one after the other.
UnderWay ==
  \A e \in End : \A i \in 1 .. Len(stream[e]) :
    LET b == stream[e][i]
    IN  /\ b.message \in 1 .. Len(sent[peer(e)])
        /\ b.dataLen = sent[peer(e)][b.message].dataLen
        /\ b.at \in 1 .. size(b.dataLen)
        /\ i < Len(stream[e]) => here(stream[e][i + 1]) = after(b)

\* The next byte an end writes, and the next one it expects.
next(e) == IF sendMu[e] # Nil /\ bytes[sendMu[e]] # <<>>
             THEN here(Head(bytes[sendMu[e]]))
             ELSE <<Len(sent[e]) + 1, 1>>
expected(e) == IF recvMu[e] # Nil /\ bytes[recvMu[e]] # <<>>
                 THEN after(bytes[recvMu[e]][Len(bytes[recvMu[e]])])
                 ELSE <<Len(received[e]) + 1, 1>>

\* The stream begins with what its reader expects and ends before what its writer
\* has next, as long as either keeps its connection.
NothingBetween ==
  \A e \in End :
    /\ conn[e] # "closed" /\ stream[e] # <<>> => here(Head(stream[e])) = expected(e)
    /\ conn[peer(e)] # "closed" /\ stream[e] # <<>> =>
         after(stream[e][Len(stream[e])]) = next(peer(e))
    /\ conn[e] # "closed" /\ conn[peer(e)] # "closed" /\ stream[e] = <<>> =>
         expected(e) = next(peer(e))

\* A failed Send closed its end, the message being sent is the last one, and it is
\* not wholly written unless all before it were.
Fates ==
  \A e \in End :
    /\ \A i \in 1 .. Len(sent[e]) :
         /\ sent[e][i].fate = "error" => conn[e] = "closed"
         /\ sent[e][i].fate = "open" => i = Len(sent[e]) /\ sendMu[e] # Nil
    /\ sendMu[e] # Nil /\ bytes[sendMu[e]] = <<>> =>
         \A i \in 1 .. Len(sent[e]) - 1 : sent[e][i].fate = "ok"
    /\ \A i, j \in 1 .. Len(sent[e]) :
         i < j /\ sent[e][j].fate = "ok" => sent[e][i].fate = "ok"

\* What the holders of the mutexes have.
Holders == OutsideNothing /\ HalfWritten /\ HalfRead
\* All of it.
IInv == TypeOK /\ Holders /\ UnderWay /\ NothingBetween /\ FramesHold /\ Fates

-----------------------------------------------------------------------------
\* What a step leaves as it is

\* The end of a Send writes down its fate and changes nothing else of its end.
LEMMA FateOnly ==
  ASSUME TypeOK, NEW g \in Goroutine, NEW fate \in {"ok", "error"}, SendReturns(g, fate),
         NEW e \in End
  PROVE  /\ Len(sent'[e]) = Len(sent[e])
         /\ e # endOf(g) => sent'[e] = sent[e]
         /\ \A i \in 1 .. Len(sent[e]) :
              /\ sent'[e][i].dataLen = sent[e][i].dataLen
              /\ sent'[e][i].fate = IF e = endOf(g) /\ i = Len(sent[e])
                                      THEN fate ELSE sent[e][i].fate
<1>1. sent[e] \in Seq(Message)
  BY DEF TypeOK
<1>2. CASE e = endOf(g)
  <2>1. sent'[e] = [sent[e] EXCEPT ![Len(sent[e])].fate = fate]
    BY <1>2 DEF SendReturns, TypeOK
  <2> QED BY <1>1, <1>2, <2>1, WithFate
<1>3. CASE e # endOf(g)
  BY <1>3 DEF SendReturns, TypeOK
<1> QED BY <1>2, <1>3

\* A message once sent keeps its number and its length.
LEMMA SentKeeps ==
  ASSUME TypeOK, [Next]_vars, NEW e \in End
  PROVE  /\ Len(sent[e]) <= Len(sent'[e])
         /\ \A n \in 1 .. Len(sent[e]) : sent'[e][n].dataLen = sent[e][n].dataLen
<1> USE Ends DEF TypeOK
<1>1. ASSUME NEW g \in Goroutine, LockSend(g)
      PROVE  /\ Len(sent[e]) <= Len(sent'[e])
             /\ \A n \in 1 .. Len(sent[e]) : sent'[e][n].dataLen = sent[e][n].dataLen
  BY <1>1 DEF LockSend, Message
<1>2. ASSUME NEW g \in Goroutine, Sent(g) \/ WriteFails(g)
      PROVE  /\ Len(sent[e]) <= Len(sent'[e])
             /\ \A n \in 1 .. Len(sent[e]) : sent'[e][n].dataLen = sent[e][n].dataLen
  <2>1. PICK fate \in {"ok", "error"} : SendReturns(g, fate)
    BY <1>2 DEF Sent, WriteFails
  <2> QED BY <2>1, FateOnly
<1>3. ASSUME UNCHANGED sent
      PROVE  /\ Len(sent[e]) <= Len(sent'[e])
             /\ \A n \in 1 .. Len(sent[e]) : sent'[e][n].dataLen = sent[e][n].dataLen
  BY <1>3
<1> QED BY <1>1, <1>2, <1>3 DEF Next, SendStep, ReceiveStep, Connect, Accept, Call, Write,
           LockReceive, Read, Received, ReadFails, vars, history

-----------------------------------------------------------------------------
\* Frames, whole and in parts

\* A frame is all that is to be written at first; writing its head leaves an end.
LEMMA FrameParts ==
  ASSUME NEW n \in Nat, NEW len \in DataLens
  PROVE  /\ EndOfFrame(frame(n, len), n, len)
         /\ \A s \in Seq(Byte) : s # <<>> /\ EndOfFrame(s, n, len) =>
              /\ EndOfFrame(Tail(s), n, len)
              /\ Head(s) = byte(n, len, size(len) - Len(s) + 1)
              /\ Tail(s) # <<>> => here(Head(Tail(s))) = after(Head(s))
              /\ Tail(s) = <<>> => after(Head(s)) = <<n + 1, 1>>
<1>1. size(len) \in Nat \ {0}
  BY Constants DEF size
<1>2. EndOfFrame(frame(n, len), n, len)
  <2>1. Len(frame(n, len)) = size(len)
        /\ \A i \in 1 .. size(len) : frame(n, len)[i] = byte(n, len, i)
    BY Frames
  <2>2. \A i \in 1 .. size(len) : size(len) - size(len) + i = i
    BY <1>1
  <2>3. \A i \in 1 .. size(len) : frame(n, len)[i] = byte(n, len, size(len) - size(len) + i)
    BY <2>1, <2>2
  <2> QED BY <1>1, <2>1, <2>3 DEF EndOfFrame
<1>3. ASSUME NEW s \in Seq(Byte), s # <<>>, EndOfFrame(s, n, len)
      PROVE  /\ EndOfFrame(Tail(s), n, len)
             /\ Head(s) = byte(n, len, size(len) - Len(s) + 1)
             /\ Tail(s) # <<>> => here(Head(Tail(s))) = after(Head(s))
             /\ Tail(s) = <<>> => after(Head(s)) = <<n + 1, 1>>
  <2>1. /\ Tail(s) \in Seq(Byte) /\ Len(s) \in Nat \ {0} /\ Len(Tail(s)) = Len(s) - 1
        /\ \A i \in 1 .. Len(s) - 1 : Tail(s)[i] = s[i + 1]
    BY <1>3, HeadTailProperties
  <2>2. Len(s) <= size(len) /\ \A i \in 1 .. Len(s) : s[i] = byte(n, len, size(len) - Len(s) + i)
    BY <1>3 DEF EndOfFrame
  <2>3. EndOfFrame(Tail(s), n, len)
    <3>1. \A i \in 1 .. Len(s) - 1 : i + 1 \in 1 .. Len(s)
                                   /\ size(len) - Len(s) + (i + 1) = size(len) - (Len(s) - 1) + i
      BY <1>1, <2>1
    <3> QED BY <1>1, <2>1, <2>2, <3>1 DEF EndOfFrame
  <2>4. Head(s) = byte(n, len, size(len) - Len(s) + 1)
    BY <1>3, <2>1, <2>2
  <2>5. ASSUME Tail(s) # <<>>
        PROVE  here(Head(Tail(s))) = after(Head(s))
    <3>1. Len(s) > 1
      BY <2>1, <2>5
    <3>2. Head(Tail(s)) = byte(n, len, size(len) - Len(s) + 2)
      BY <1>3, <2>1, <2>2, <2>5, <3>1
    <3> QED BY <1>1, <2>1, <2>2, <2>4, <3>1, <3>2 DEF byte, here, after
  <2>6. ASSUME Tail(s) = <<>>
        PROVE  after(Head(s)) = <<n + 1, 1>>
    <3>1. Len(<<>>) = 0
      OBVIOUS
    <3>2. Len(s) - 1 = 0 /\ Len(s) \in Nat
      BY <2>1, <2>6, <3>1, Zenon
    <3>3. Len(s) = 1
      BY <3>2
    <3> QED BY <1>1, <2>4, <3>3 DEF byte, after
  <2> QED BY <2>3, <2>4, <2>5, <2>6
<1> QED BY <1>2, <1>3

\* Reading the next byte leaves a start, and a start as long as a frame is one.
LEMMA FrameGrows ==
  ASSUME NEW n \in Nat, NEW len \in DataLens, NEW s \in Seq(Byte),
         StartOfFrame(s, n, len)
  PROVE  /\ Len(s) = size(len) => s = frame(n, len)
         /\ Len(s) < size(len) =>
              StartOfFrame(Append(s, byte(n, len, Len(s) + 1)), n, len)
<1>1. size(len) \in Nat \ {0}
  BY Constants DEF size
<1>2. ASSUME Len(s) = size(len)
      PROVE  s = frame(n, len)
  <2>1. \A i \in 1 .. Len(s) : s[i] = frame(n, len)[i]
    BY <1>1, <1>2, Frames DEF StartOfFrame
  <2> QED BY <1>2, <2>1, Frames, SeqEqual
<1>3. ASSUME Len(s) < size(len)
      PROVE  StartOfFrame(Append(s, byte(n, len, Len(s) + 1)), n, len)
  <2>1. byte(n, len, Len(s) + 1) \in Byte
    BY DEF byte, Byte
  <2> QED BY <1>1, <1>3, <2>1, AppendProperties DEF StartOfFrame
<1> QED BY <1>2, <1>3

-----------------------------------------------------------------------------
\* The holders of the mutexes

\* A goroutine holds at most one mutex, of its own end.
LEMMA OneMutex ==
  ASSUME TypeOK, NEW e \in End, NEW f \in End
  PROVE  /\ sendMu[e] # Nil => sendMu[e] \in Goroutine /\ sendMu[e] # recvMu[f]
         /\ sendMu[e] # Nil /\ e # f => sendMu[e] # sendMu[f]
         /\ recvMu[e] # Nil /\ e # f => recvMu[e] # recvMu[f]
         /\ recvMu[e] # Nil => recvMu[e] \in Goroutine
  BY DEF TypeOK

\* A goroutine that takes a mutex holds none, so it is in the middle of nothing.
LEMMA StartsWithNothing ==
  ASSUME TypeOK, OutsideNothing, NEW g \in Goroutine,
         \/ pc[g] = "Send" /\ sendMu[endOf(g)] = Nil
         \/ pc[g] = "Receive" /\ recvMu[endOf(g)] = Nil
  PROVE  bytes[g] = <<>> /\ ~sending(g) /\ ~receiving(g)
  BY Ends, Constants DEF TypeOK, OutsideNothing, sending, receiving

\* Only a holder is in the middle of a message (sendMu, recvMu).
LEMMA OutsideStep == TypeOK /\ OutsideNothing /\ [Next]_vars => OutsideNothing'
<1> SUFFICES ASSUME TypeOK, OutsideNothing, [Next]_vars
             PROVE  OutsideNothing'
  OBVIOUS
<1> USE Ends, Constants
    DEF TypeOK, OutsideNothing, sending, receiving, returns, mutexes, calls, history
<1>1. ASSUME NEW g \in Goroutine, LockSend(g)
      PROVE  OutsideNothing'
  BY <1>1 DEF LockSend
<1>2. ASSUME NEW g \in Goroutine, Write(g) \/ Read(g)
      PROVE  OutsideNothing'
  BY <1>2 DEF Write, Read
<1>3. ASSUME NEW g \in Goroutine, Sent(g) \/ WriteFails(g)
      PROVE  OutsideNothing'
  BY <1>3 DEF Sent, WriteFails, SendReturns
<1>4. ASSUME NEW g \in Goroutine, LockReceive(g)
      PROVE  OutsideNothing'
  BY <1>4 DEF LockReceive
<1>5. ASSUME NEW g \in Goroutine, Received(g) \/ ReadFails(g)
      PROVE  OutsideNothing'
  <2>1. recvMu' = [recvMu EXCEPT ![endOf(g)] = Nil] /\ sendMu' = sendMu
    BY <1>5 DEF Received, ReadFails
  <2>2. bytes' = [bytes EXCEPT ![g] = <<>>] /\ recvMu[endOf(g)] = g
    BY <1>5 DEF Received, ReadFails
  <2> QED BY <2>1, <2>2
<1>6. ASSUME UNCHANGED <<bytes, mutexes>>
      PROVE  OutsideNothing'
  BY <1>6
<1> QED BY <1>1, <1>2, <1>3, <1>4, <1>5, <1>6
        DEF Next, SendStep, ReceiveStep, Connect, Accept, Call, vars

\* LockSend takes the frame of a new message to write.
LEMMA NewMessage ==
  ASSUME TypeOK, NEW g \in Goroutine, LockSend(g)
  PROVE  LET e == endOf(g)
             n == Len(sent[e]) + 1
         IN  /\ Len(sent'[e]) = n /\ sent'[e][n].fate = "open"
             /\ sent'[e][n].dataLen \in DataLens
             /\ \A i \in 1 .. n - 1 : sent'[e][i] = sent[e][i]
             /\ \A f \in End \ {e} : sent'[f] = sent[f]
             /\ bytes' = [bytes EXCEPT ![g] = frame(n, sent'[e][n].dataLen)]
<1> DEFINE e == endOf(g)
           n == Len(sent[e]) + 1
<1>1. PICK len \in DataLens :
        /\ bytes' = [bytes EXCEPT ![g] = frame(n, len)]
        /\ sent' = [sent EXCEPT ![e] = Append(@, [dataLen |-> len, fate |-> "open"])]
  BY DEF LockSend
<1>2. sent[e] \in Seq(Message) /\ [dataLen |-> len, fate |-> "open"] \in Message
  BY Ends DEF TypeOK, Message
<1>3. /\ sent'[e] = Append(sent[e], [dataLen |-> len, fate |-> "open"])
      /\ \A f \in End \ {e} : sent'[f] = sent[f]
  BY <1>1, Ends DEF TypeOK
<1>4. /\ Len(sent'[e]) = n /\ sent'[e][n] = [dataLen |-> len, fate |-> "open"]
      /\ \A i \in 1 .. n - 1 : sent'[e][i] = sent[e][i]
  BY <1>2, <1>3
<1>5. sent'[e][n].dataLen = len /\ sent'[e][n].fate = "open"
  BY <1>4
<1> QED BY <1>1, <1>3, <1>4, <1>5

-----------------------------------------------------------------------------
\* The bytes a reader takes

\* A message sent has the length of a message.
LEMMA SentLens ==
  ASSUME TypeOK, NEW e \in End, NEW n \in 1 .. Len(sent[e])
  PROVE  sent[e][n].dataLen \in DataLens
<1>1. sent[e] \in Seq(Message)
  BY DEF TypeOK
<1>2. sent[e][n] \in Message
  BY <1>1, ElementOfSeq
<1> QED BY <1>2 DEF Message

\* The byte Read takes is the next one of the message its caller is reading.
LEMMA NextByte ==
  ASSUME TypeOK, HalfRead, UnderWay, NothingBetween, NEW g \in Goroutine, Read(g)
  PROVE  LET e == endOf(g)
             n == Len(received[e]) + 1
             len == sent[peer(e)][n].dataLen
         IN  /\ n \in 1 .. Len(sent[peer(e)]) /\ len \in DataLens
             /\ StartOfFrame(bytes[g], n, len) /\ Len(bytes[g]) < size(len)
             /\ Head(stream[e]) = byte(n, len, Len(bytes[g]) + 1)
<1> DEFINE e == endOf(g)
           p == peer(e)
           n == Len(received[e]) + 1
           len == sent[p][n].dataLen
           b == Head(stream[e])
<1>1. e \in End /\ p \in End /\ g # Nil
  BY Ends, Peers, Constants
<1>2. /\ recvMu[e] = g /\ ~complete(bytes[g]) /\ conn[e] = "open"
      /\ stream[e] # <<>>
  BY DEF Read, receiving
<1>3. stream[e] \in Seq(Byte) /\ Len(stream[e]) \in Nat \ {0} /\ b = stream[e][1] /\ b \in Byte
  BY <1>1, <1>2 DEF TypeOK
<1>4. /\ b.message \in 1 .. Len(sent[p]) /\ b.dataLen = sent[p][b.message].dataLen
      /\ b.at \in 1 .. size(b.dataLen)
  BY <1>1, <1>3 DEF UnderWay
<1>5. here(b) = expected(e)
  BY <1>1, <1>2 DEF NothingBetween
<1>6. /\ Len(received[e]) \in Nat /\ bytes[g] \in Seq(Byte)
      /\ sent[p] \in Seq(Message) /\ Len(sent[p]) \in Nat
  BY <1>1 DEF TypeOK
<1>7. b = byte(b.message, b.dataLen, b.at)
  BY <1>3 DEF Byte, byte
<1>8. \A m \in 1 .. Len(sent[p]) : sent[p][m].dataLen \in DataLens
  BY <1>1, SentLens
<1>9. CASE bytes[g] = <<>>
  <2>1. <<b.message, b.at>> = <<n, 1>>
    BY <1>1, <1>2, <1>5, <1>9 DEF here, expected
  <2>2. Len(bytes[g]) = 0
    BY <1>9
  <2>3. n \in 1 .. Len(sent[p]) /\ len \in DataLens
    BY <1>4, <1>8, <2>1
  <2>4. size(len) \in Nat \ {0}
    BY <2>3, Constants DEF size
  <2>5. b = byte(n, len, 1)
    BY <1>4, <1>7, <2>1
  <2> QED BY <2>2, <2>3, <2>4, <2>5 DEF StartOfFrame
<1>10. CASE bytes[g] # <<>>
  <2>1. n <= Len(sent[p]) /\ StartOfFrame(bytes[g], n, len)
    BY <1>1, <1>2, <1>10 DEF HalfRead
  <2>2. n \in 1 .. Len(sent[p]) /\ len \in DataLens /\ Len(bytes[g]) \in Nat \ {0}
    BY <1>6, <1>8, <1>10, <2>1
  <2>3. HeaderLen \in Nat \ {0} /\ len \in Nat /\ size(len) = HeaderLen + len
    BY <2>2, Constants DEF size
  <2>4. Head(bytes[g]) = byte(n, len, 1) /\ bytes[g][Len(bytes[g])] = byte(n, len, Len(bytes[g]))
    BY <1>6, <1>10, <2>1, <2>2 DEF StartOfFrame
  <2>5. Len(bytes[g]) < size(len)
    <3>1. Head(bytes[g]).dataLen = len
      BY <2>4 DEF byte
    <3>2. Len(bytes[g]) <= size(len)
      BY <2>1 DEF StartOfFrame
    <3> HIDE DEF len
    <3>3. Len(bytes[g]) # size(len)
      <4>1. ASSUME Len(bytes[g]) = size(len)
            PROVE  complete(bytes[g])
        <5>1. Len(bytes[g]) >= HeaderLen
          BY <2>3, <4>1
        <5> QED BY <2>3, <3>1, <4>1, <5>1 DEF complete
      <4> QED BY <1>2, <4>1
    <3>4. size(len) \in Nat
      BY <2>3
    <3> QED BY <2>2, <3>2, <3>3, <3>4
  <2>6. <<b.message, b.at>> = <<n, Len(bytes[g]) + 1>>
    <3>1. expected(e) = after(byte(n, len, Len(bytes[g])))
      BY <1>1, <1>2, <1>10, <2>4 DEF expected
    <3>2. after(byte(n, len, Len(bytes[g]))) = <<n, Len(bytes[g]) + 1>>
      BY <2>5 DEF after, byte
    <3> QED BY <1>5, <3>1, <3>2 DEF here
  <2>7. b.message = n /\ b.at = Len(bytes[g]) + 1
    BY <2>6
  <2>8. b = byte(n, len, Len(bytes[g]) + 1)
    BY <1>4, <1>7, <2>7
  <2> QED BY <2>1, <2>2, <2>5, <2>8
<1> QED BY <1>9, <1>10

\* What Receive returns is the next message, whole.
LEMMA WholeMessage ==
  ASSUME TypeOK, HalfRead, NEW g \in Goroutine, Received(g)
  PROVE  LET e == endOf(g)
             n == Len(received[e]) + 1
         IN  /\ n <= Len(sent[peer(e)])
             /\ bytes[g] = frame(n, sent[peer(e)][n].dataLen)
             /\ expected(e) = <<n + 1, 1>>
<1> DEFINE e == endOf(g)
           p == peer(e)
           n == Len(received[e]) + 1
           len == sent[p][n].dataLen
<1>1. e \in End /\ p \in End /\ g # Nil /\ recvMu[e] = g /\ complete(bytes[g])
  BY Ends, Peers, Constants DEF Received, receiving
<1>2. /\ Len(received[e]) \in Nat /\ bytes[g] \in Seq(Byte)
      /\ sent[p] \in Seq(Message) /\ Len(sent[p]) \in Nat
  BY <1>1 DEF TypeOK
<1>3. bytes[g] # <<>> /\ Len(bytes[g]) \in Nat \ {0}
  <2>1. Len(<<>>) = 0
    OBVIOUS
  <2>2. Len(bytes[g]) >= HeaderLen
    BY <1>1 DEF complete
  <2> QED BY <1>2, <2>1, <2>2, Constants
<1>4. n <= Len(sent[p]) /\ StartOfFrame(bytes[g], n, len)
  BY <1>1, <1>3 DEF HalfRead
<1>5. n \in Nat /\ len \in DataLens
  BY <1>1, <1>2, <1>4, SentLens
<1>6. Head(bytes[g]) = byte(n, len, 1) /\ bytes[g][Len(bytes[g])] = byte(n, len, Len(bytes[g]))
  BY <1>2, <1>3, <1>4 DEF StartOfFrame
<1>7. Len(bytes[g]) = size(len)
  BY <1>1, <1>6 DEF complete, byte, size
<1>8. bytes[g] = frame(n, len)
  BY <1>2, <1>4, <1>5, <1>7, FrameGrows DEF size
<1>9. expected(e) = <<n + 1, 1>>
  <2>1. expected(e) = after(byte(n, len, size(len)))
    BY <1>1, <1>3, <1>6, <1>7 DEF expected
  <2> QED BY <1>3, <1>7, <2>1 DEF after, byte
<1> QED BY <1>4, <1>8, <1>9

-----------------------------------------------------------------------------
\* The holders step by step

\* What a step leaves as it is when the writer, or the reader, of an end takes none.
WriterStays(e) == /\ sendMu'[e] = sendMu[e] /\ bytes'[sendMu[e]] = bytes[sendMu[e]]
                  /\ sent'[e] = sent[e]
ReaderStays(e) == /\ recvMu'[e] = recvMu[e] /\ bytes'[recvMu[e]] = bytes[recvMu[e]]
                  /\ received'[e] = received[e]

\* A goroutine changes no bytes but its own.
LEMMA OnlyItsBytes ==
  ASSUME TypeOK, NEW g \in Goroutine, SendStep(g) \/ ReceiveStep(g), NEW h \in Goroutine \ {g}
  PROVE  bytes'[h] = bytes[h]
<1>1. ASSUME LockSend(g)
      PROVE  bytes'[h] = bytes[h]
  BY <1>1, NewMessage DEF TypeOK
<1>2. ASSUME Write(g) \/ Sent(g) \/ WriteFails(g)
      PROVE  bytes'[h] = bytes[h]
  BY <1>2 DEF Write, Sent, WriteFails, SendReturns, returns, TypeOK
<1>3. ASSUME ReceiveStep(g)
      PROVE  bytes'[h] = bytes[h]
  BY <1>3 DEF ReceiveStep, LockReceive, Read, Received, ReadFails, returns, calls, TypeOK
<1> QED BY <1>1, <1>2, <1>3 DEF SendStep

\* Only the goroutines of an end, in Send, change what its writer has.
LEMMA WriterSteps ==
  ASSUME TypeOK, [Next]_vars, NEW e \in End, sendMu[e] # Nil \/ sendMu'[e] # Nil
  PROVE  WriterStays(e) \/ \E g \in Goroutine : endOf(g) = e /\ SendStep(g)
<1>1. ASSUME NEW g \in Goroutine, SendStep(g), e # endOf(g)
      PROVE  WriterStays(e)
  <2>1. sendMu'[e] = sendMu[e]
    BY <1>1 DEF SendStep, LockSend, Write, Sent, WriteFails, SendReturns, TypeOK, mutexes
  <2>2. sendMu[e] # g
    BY <1>1, Constants DEF TypeOK
  <2>3. bytes'[sendMu[e]] = bytes[sendMu[e]]
    BY <1>1, <2>1, <2>2, OnlyItsBytes DEF TypeOK
  <2>4. sent'[e] = sent[e]
    <3>1. CASE LockSend(g)
      BY <1>1, <3>1, NewMessage
    <3>2. CASE Write(g)
      BY <3>2 DEF Write, history
    <3>3. CASE Sent(g) \/ WriteFails(g)
      BY <1>1, <3>3, FateOnly DEF Sent, WriteFails
    <3> QED BY <1>1, <3>1, <3>2, <3>3 DEF SendStep
  <2> QED BY <2>1, <2>3, <2>4 DEF WriterStays
<1>2. ASSUME NEW g \in Goroutine, ReceiveStep(g)
      PROVE  WriterStays(e)
  <2>1. sendMu' = sendMu /\ sent' = sent
    BY <1>2 DEF ReceiveStep, LockReceive, Read, Received, ReadFails, mutexes, history
  <2>2. sendMu[e] # g
    BY <1>2, <2>1, Ends, OneMutex, Constants
       DEF ReceiveStep, LockReceive, Read, Received, ReadFails, receiving, TypeOK
  <2>3. bytes'[sendMu[e]] = bytes[sendMu[e]]
    BY <1>2, <2>1, <2>2, OnlyItsBytes DEF TypeOK
  <2> QED BY <2>1, <2>3 DEF WriterStays
<1>3. ASSUME UNCHANGED <<bytes, sendMu, sent>>
      PROVE  WriterStays(e)
  BY <1>3 DEF WriterStays
<1> QED BY <1>1, <1>2, <1>3 DEF Next, Connect, Accept, Call, vars, mutexes, calls, history

\* Only the goroutines of an end, in Receive, change what its reader has.
LEMMA ReaderSteps ==
  ASSUME TypeOK, [Next]_vars, NEW e \in End, recvMu[e] # Nil \/ recvMu'[e] # Nil
  PROVE  ReaderStays(e) \/ \E g \in Goroutine : endOf(g) = e /\ ReceiveStep(g)
<1>1. ASSUME NEW g \in Goroutine, ReceiveStep(g), e # endOf(g)
      PROVE  ReaderStays(e)
  <2>1. recvMu'[e] = recvMu[e]
    BY <1>1 DEF ReceiveStep, LockReceive, Read, Received, ReadFails, TypeOK, mutexes
  <2>2. recvMu[e] # g
    BY <1>1, Constants DEF TypeOK
  <2>3. bytes'[recvMu[e]] = bytes[recvMu[e]]
    BY <1>1, <2>1, <2>2, OnlyItsBytes DEF TypeOK
  <2>4. received'[e] = received[e]
    BY <1>1, Ends DEF ReceiveStep, LockReceive, Read, Received, ReadFails, TypeOK, history
  <2> QED BY <2>1, <2>3, <2>4 DEF ReaderStays
<1>2. ASSUME NEW g \in Goroutine, SendStep(g)
      PROVE  ReaderStays(e)
  <2>1. recvMu' = recvMu /\ received' = received
    BY <1>2 DEF SendStep, LockSend, Write, Sent, WriteFails, SendReturns, mutexes, history
  <2>2. recvMu[e] # g
    BY <1>2, <2>1, Ends, OneMutex, Constants
       DEF SendStep, LockSend, Write, Sent, WriteFails, SendReturns, sending, TypeOK
  <2>3. bytes'[recvMu[e]] = bytes[recvMu[e]]
    BY <1>2, <2>1, <2>2, OnlyItsBytes DEF TypeOK
  <2> QED BY <2>1, <2>3 DEF ReaderStays
<1>3. ASSUME UNCHANGED <<bytes, recvMu, received>>
      PROVE  ReaderStays(e)
  BY <1>3 DEF ReaderStays
<1> QED BY <1>1, <1>2, <1>3 DEF Next, Connect, Accept, Call, vars, mutexes, calls, history

\* What is written so far stays the rest of a frame (Send).
LEMMA WrittenStep == TypeOK /\ HalfWritten /\ [Next]_vars => HalfWritten'
<1> DEFINE Written(e) == LET n == Len(sent[e])
                         IN  /\ n > 0 /\ sent[e][n].fate = "open"
                             /\ EndOfFrame(bytes[sendMu[e]], n, sent[e][n].dataLen)
<1> SUFFICES ASSUME TypeOK, HalfWritten, [Next]_vars,
                    NEW e \in End, sendMu'[e] # Nil
             PROVE  Written(e)'
  BY DEF HalfWritten
<1>1. CASE WriterStays(e)
  BY <1>1 DEF HalfWritten, WriterStays
<1>2. ASSUME NEW g \in Goroutine, LockSend(g), e = endOf(g)
      PROVE  Written(e)'
  <2>1. sendMu'[e] = g
    BY <1>2 DEF LockSend, TypeOK
  <2>2. \A len : bytes' = [bytes EXCEPT ![g] = frame(Len(sent[e]) + 1, len)]
           => bytes'[g] = frame(Len(sent[e]) + 1, len)
    BY DEF TypeOK
  <2>3. Len(sent[e]) \in Nat
    BY DEF TypeOK
  <2> QED BY <1>2, <2>1, <2>2, <2>3, NewMessage, FrameParts
<1>3. ASSUME NEW g \in Goroutine, Write(g), e = endOf(g)
      PROVE  Written(e)'
  <2> DEFINE n == Len(sent[e])
  <2>1. sendMu[e] = g /\ sendMu'[e] = g /\ sent' = sent
    BY <1>3 DEF Write, sending, mutexes, history
  <2>2. bytes[g] \in Seq(Byte) /\ bytes[g] # <<>> /\ bytes'[g] = Tail(bytes[g])
    BY <1>3 DEF Write, TypeOK
  <2>3. Written(e) /\ g # Nil
    BY <2>1, Constants DEF HalfWritten
  <2>4. n \in 1 .. Len(sent[e])
    BY <2>3 DEF TypeOK
  <2>5. EndOfFrame(Tail(bytes[g]), n, sent[e][n].dataLen)
    BY <2>1, <2>2, <2>3, <2>4, SentLens, FrameParts
  <2> QED BY <2>1, <2>2, <2>3, <2>5
<1>4. ASSUME NEW g \in Goroutine, Sent(g) \/ WriteFails(g), e = endOf(g)
      PROVE  FALSE
  BY <1>4 DEF Sent, WriteFails, SendReturns, TypeOK
<1> HIDE DEF Written
<1> QED BY <1>1, <1>2, <1>3, <1>4, WriterSteps DEF SendStep

\* What is read so far stays the start of a frame (Receive).
LEMMA ReadStep ==
  TypeOK /\ OutsideNothing /\ HalfRead /\ UnderWay /\ NothingBetween /\ [Next]_vars => HalfRead'
<1> DEFINE Start(e) == LET n == Len(received[e]) + 1
                       IN  /\ n <= Len(sent[peer(e)])
                           /\ StartOfFrame(bytes[recvMu[e]], n, sent[peer(e)][n].dataLen)
<1> SUFFICES ASSUME TypeOK, OutsideNothing, HalfRead, UnderWay, NothingBetween, [Next]_vars,
                    NEW e \in End, recvMu'[e] # Nil, bytes'[recvMu'[e]] # <<>>
             PROVE  Start(e)'
  BY DEF HalfRead
<1>a. /\ Len(sent[peer(e)]) <= Len(sent'[peer(e)])
      /\ \A n \in 1 .. Len(sent[peer(e)]) :
           sent'[peer(e)][n].dataLen = sent[peer(e)][n].dataLen
  BY SentKeeps, Peers
<1>b. Len(received[e]) \in Nat /\ Len(sent[peer(e)]) \in Nat /\ Len(sent'[peer(e)]) \in Nat
  BY TypeStep, Peers DEF TypeOK
<1>1. CASE ReaderStays(e)
  BY <1>1, <1>a, <1>b DEF HalfRead, ReaderStays
<1>2. ASSUME NEW g \in Goroutine, LockReceive(g), e = endOf(g)
      PROVE  FALSE
  <2>1. recvMu'[e] = g /\ bytes' = bytes
    BY <1>2 DEF LockReceive, TypeOK, calls
  <2>2. bytes[g] = <<>>
    BY <1>2, StartsWithNothing DEF LockReceive
  <2> QED BY <2>1, <2>2
<1>3. ASSUME NEW g \in Goroutine, Read(g), e = endOf(g)
      PROVE  Start(e)'
  <2> DEFINE n == Len(received[e]) + 1
             len == sent[peer(e)][n].dataLen
  <2>1. recvMu'[e] = g /\ received' = received /\ sent' = sent
    BY <1>3 DEF Read, receiving, mutexes, history
  <2>2. bytes'[g] = Append(bytes[g], byte(n, len, Len(bytes[g]) + 1)) /\ bytes[g] \in Seq(Byte)
    BY <1>3, NextByte DEF Read, TypeOK
  <2>3. /\ n \in 1 .. Len(sent[peer(e)]) /\ len \in DataLens
        /\ StartOfFrame(bytes[g], n, len) /\ Len(bytes[g]) < size(len)
    BY <1>3, NextByte
  <2>4. StartOfFrame(bytes'[g], n, len)
    BY <2>2, <2>3, FrameGrows
  <2> QED BY <1>b, <2>1, <2>3, <2>4
<1>4. ASSUME NEW g \in Goroutine, Received(g) \/ ReadFails(g), e = endOf(g)
      PROVE  FALSE
  BY <1>4 DEF Received, ReadFails, TypeOK
<1> HIDE DEF Start
<1> QED BY <1>1, <1>2, <1>3, <1>4, ReaderSteps DEF ReceiveStep

-----------------------------------------------------------------------------
\* The streams

\* The stream to an end grows by what its peer writes, and shrinks by what it reads.
LEMMA StreamSteps ==
  ASSUME TypeOK, [Next]_vars, NEW e \in End
  PROVE  \/ stream'[e] = stream[e]
         \/ \E g \in Goroutine : \/ Write(g) /\ peer(endOf(g)) = e
                                 \/ Read(g) /\ endOf(g) = e
<1>1. ASSUME NEW g \in Goroutine, Write(g), peer(endOf(g)) # e
      PROVE  stream'[e] = stream[e]
  BY <1>1 DEF Write, TypeOK
<1>2. ASSUME NEW g \in Goroutine, Read(g), endOf(g) # e
      PROVE  stream'[e] = stream[e]
  BY <1>2 DEF Read, TypeOK
<1> QED BY <1>1, <1>2 DEF Next, SendStep, ReceiveStep, Connect, Accept, Call, LockSend, Sent,
           WriteFails, SendReturns, LockReceive, Received, ReadFails, vars

\* An end that is closed stays closed; one that fails is closed.
LEMMA StaysClosed ==
  ASSUME TypeOK, [Next]_vars, NEW e \in End, conn'[e] # "closed"
  PROVE  conn[e] # "closed"
<1> USE DEF TypeOK, End
<1>1. ASSUME NEW g \in Goroutine, WriteFails(g) \/ ReadFails(g)
      PROVE  conn[e] # "closed"
  BY <1>1 DEF WriteFails, ReadFails
<1>2. ASSUME Connect \/ Accept
      PROVE  conn[e] # "closed"
  BY <1>2 DEF Connect, Accept
<1>3. ASSUME conn' = conn
      PROVE  conn[e] # "closed"
  BY <1>3
<1> QED BY <1>1, <1>2, <1>3 DEF Next, SendStep, ReceiveStep, Call, LockSend, Write, Sent,
           LockReceive, Read, Received, vars

\* The byte Write puts on the stream is the one that was next.
LEMMA WrittenByte ==
  ASSUME TypeOK, HalfWritten, NEW g \in Goroutine, Write(g)
  PROVE  LET e == endOf(g)
             n == Len(sent[e])
             b == Head(bytes[g])
         IN  /\ n \in Nat \ {0} /\ b \in Byte /\ b.message = n
             /\ b.dataLen = sent[e][n].dataLen /\ b.at \in 1 .. size(b.dataLen)
             /\ here(b) = next(e) /\ after(b) = next(e)'
<1> DEFINE e == endOf(g)
           n == Len(sent[e])
           b == Head(bytes[g])
           len == sent[e][n].dataLen
<1>1. e \in End /\ sendMu[e] = g /\ g # Nil /\ bytes[g] # <<>> /\ bytes[g] \in Seq(Byte)
  BY Ends, Constants DEF Write, sending, TypeOK
<1>2. n \in Nat \ {0} /\ EndOfFrame(bytes[g], n, len)
  <2>1. n > 0 /\ EndOfFrame(bytes[g], n, len)
    BY <1>1 DEF HalfWritten
  <2>2. n \in Nat
    BY <1>1 DEF TypeOK
  <2> QED BY <2>1, <2>2
<1>3. len \in DataLens /\ size(len) \in Nat \ {0}
  <2>1. len \in DataLens
    BY <1>1, <1>2, SentLens
  <2> HIDE DEF len
  <2>2. size(len) \in Nat \ {0}
    BY <2>1, Constants DEF size
  <2> QED BY <2>1, <2>2
<1>4. /\ b = byte(n, len, size(len) - Len(bytes[g]) + 1)
      /\ Tail(bytes[g]) # <<>> => here(Head(Tail(bytes[g]))) = after(b)
      /\ Tail(bytes[g]) = <<>> => after(b) = <<n + 1, 1>>
  BY <1>1, <1>2, <1>3, FrameParts
<1>5. b \in Byte
  BY <1>1
<1>6. b.message = n /\ b.dataLen = len /\ b.at = size(len) - Len(bytes[g]) + 1
  BY <1>4 DEF byte
<1>7. Len(bytes[g]) \in Nat \ {0} /\ Len(bytes[g]) <= size(len)
  BY <1>1, <1>2 DEF EndOfFrame
<1>8. b.at \in 1 .. size(len)
  <2> HIDE DEF b, len
  <2> QED BY <1>3, <1>6, <1>7
<1>9. here(b) = next(e)
  BY <1>1 DEF next
<1>10. after(b) = next(e)'
  <2>1. sendMu'[e] = g /\ bytes'[g] = Tail(bytes[g]) /\ sent' = sent
    BY <1>1 DEF Write, mutexes, history, TypeOK
  <2> QED BY <1>1, <1>4, <2>1 DEF next
<1> QED BY <1>2, <1>5, <1>6, <1>8, <1>9, <1>10

\* What is under way stays in order (Write, Read).
LEMMA UnderWayStep ==
  TypeOK /\ HalfWritten /\ UnderWay /\ NothingBetween /\ [Next]_vars => UnderWay'
<1> DEFINE Valid(e, b) == /\ b.message \in 1 .. Len(sent[peer(e)])
                          /\ b.dataLen = sent[peer(e)][b.message].dataLen
                          /\ b.at \in 1 .. size(b.dataLen)
           Follow(s, i) == i < Len(s) => here(s[i + 1]) = after(s[i])
<1> SUFFICES ASSUME TypeOK, HalfWritten, UnderWay, NothingBetween, [Next]_vars,
                    NEW e \in End, NEW i \in 1 .. Len(stream'[e])
             PROVE  Valid(e, stream[e][i])' /\ Follow(stream[e], i)'
  BY DEF UnderWay
<1>1. \A b \in Byte : Valid(e, b) => /\ b.message \in 1 .. Len(sent'[peer(e)])
                                    /\ b.dataLen = sent'[peer(e)][b.message].dataLen
                                    /\ b.at \in 1 .. size(b.dataLen)
  <2>1. /\ Len(sent[peer(e)]) <= Len(sent'[peer(e)])
        /\ \A n \in 1 .. Len(sent[peer(e)]) :
             sent'[peer(e)][n].dataLen = sent[peer(e)][n].dataLen
    BY SentKeeps, Peers
  <2>2. Len(sent[peer(e)]) \in Nat /\ Len(sent'[peer(e)]) \in Nat
    BY TypeStep, Peers DEF TypeOK
  <2> QED BY <2>1, <2>2
<1>2. /\ stream[e] \in Seq(Byte) /\ Len(stream[e]) \in Nat
      /\ \A j \in 1 .. Len(stream[e]) : stream[e][j] \in Byte
  BY DEF TypeOK
<1>3. \A j \in 1 .. Len(stream[e]) : Valid(e, stream[e][j]) /\ Follow(stream[e], j)
  BY DEF UnderWay
<1>4. CASE stream'[e] = stream[e]
  BY <1>1, <1>2, <1>3, <1>4
<1>5. ASSUME NEW g \in Goroutine, Read(g), endOf(g) = e
      PROVE  Valid(e, stream[e][i])' /\ Follow(stream[e], i)'
  <2>1. stream[e] # <<>> /\ stream'[e] = Tail(stream[e])
    BY <1>5 DEF Read, TypeOK
  <2>2. /\ Len(stream'[e]) = Len(stream[e]) - 1
        /\ \A j \in 1 .. Len(stream'[e]) : stream'[e][j] = stream[e][j + 1]
    BY <1>2, <2>1, HeadTailProperties
  <2>3. i + 1 \in 1 .. Len(stream[e]) /\ stream'[e][i] = stream[e][i + 1]
    BY <1>2, <2>2
  <2>4. Valid(e, stream[e][i])'
    BY <1>1, <1>2, <1>3, <2>3
  <2>5. ASSUME i < Len(stream'[e])
        PROVE  here(stream'[e][i + 1]) = after(stream'[e][i])
    <3>1. stream'[e][i + 1] = stream[e][(i + 1) + 1] /\ i + 1 < Len(stream[e])
      BY <1>2, <2>2, <2>5
    <3> QED BY <1>3, <2>3, <3>1
  <2> QED BY <2>4, <2>5
<1>6. ASSUME NEW g \in Goroutine, Write(g), peer(endOf(g)) = e
      PROVE  Valid(e, stream[e][i])' /\ Follow(stream[e], i)'
  <2> DEFINE b == Head(bytes[g])
             s == stream[e]
  <2>1. peer(e) = endOf(g) /\ peer(e) \in End
    BY <1>6, Ends, Peers
  <2>2. b \in Byte /\ Valid(e, b) /\ here(b) = next(peer(e))
    BY <1>6, <2>1, WrittenByte
  <2>3. stream'[e] = Append(s, b)
    BY <1>6 DEF Write, TypeOK
  <2> HIDE DEF b
  <2>4. /\ Len(stream'[e]) = Len(s) + 1 /\ stream'[e][Len(s) + 1] = b
        /\ \A j \in 1 .. Len(s) : stream'[e][j] = s[j]
    BY <1>2, <2>2, <2>3, AppendProperties
  <2>5. conn[peer(e)] # "closed"
    BY <1>6, <2>1 DEF Write
  <2>6. s # <<>> => after(s[Len(s)]) = here(b)
    BY <2>2, <2>5 DEF NothingBetween
  <2>7. CASE i = Len(s) + 1
    <3>1. stream'[e][i] = b /\ ~(i < Len(stream'[e]))
      BY <1>2, <2>4, <2>7
    <3> QED BY <1>1, <2>2, <3>1
  <2>8. CASE i \in 1 .. Len(s)
    <3>1. Valid(e, stream[e][i])'
      BY <1>1, <1>2, <1>3, <2>4, <2>8
    <3>2. CASE i < Len(s)
      BY <1>2, <1>3, <2>4, <2>8, <3>1, <3>2
    <3>3. CASE i = Len(s)
      <4>1. s # <<>>
        BY <2>8, <3>3
      <4> QED BY <1>2, <2>4, <2>6, <2>8, <3>1, <3>3, <4>1
    <3> QED BY <1>2, <2>8, <3>1, <3>2, <3>3
  <2> QED BY <1>2, <2>4, <2>7, <2>8
<1> HIDE DEF Valid, Follow
<1> QED BY <1>4, <1>5, <1>6, StreamSteps

\* Without a writer before and after nothing is sent.
LEMMA NoWriter ==
  ASSUME TypeOK, [Next]_vars, NEW e \in End, sendMu[e] = Nil, sendMu'[e] = Nil
  PROVE  sent'[e] = sent[e]
<1>1. ASSUME NEW g \in Goroutine, LockSend(g)
      PROVE  sent'[e] = sent[e]
  BY <1>1, Constants, NewMessage DEF LockSend, TypeOK
<1>2. ASSUME NEW g \in Goroutine, Sent(g) \/ WriteFails(g)
      PROVE  sent'[e] = sent[e]
  BY <1>2, Constants DEF Sent, WriteFails, SendReturns, sending, TypeOK
<1> QED BY <1>1, <1>2 DEF Next, SendStep, ReceiveStep, Connect, Accept, Call, Write,
           LockReceive, Read, Received, ReadFails, vars, history

\* What the writer has next changes only when it writes, or its end is closed.
LEMMA NextSteps ==
  ASSUME TypeOK, OutsideNothing, HalfWritten, [Next]_vars, NEW e \in End, conn'[e] # "closed"
  PROVE  next(e)' = next(e) \/ \E g \in Goroutine : Write(g) /\ endOf(g) = e
<1>1. CASE sendMu[e] = Nil /\ sendMu'[e] = Nil
  BY <1>1, NoWriter DEF next
<1>2. CASE WriterStays(e)
  BY <1>2 DEF WriterStays, next
<1>3. ASSUME NEW g \in Goroutine, LockSend(g), endOf(g) = e
      PROVE  next(e)' = next(e)
  <2> DEFINE n == Len(sent'[e])
  <2>1. /\ sendMu[e] = Nil /\ sendMu'[e] = g /\ g # Nil
        /\ n = Len(sent[e]) + 1 /\ n \in Nat
    BY <1>3, Constants, NewMessage DEF LockSend, TypeOK
  <2>2. bytes'[g] = frame(n, sent'[e][n].dataLen) /\ sent'[e][n].dataLen \in DataLens
    BY <1>3, NewMessage DEF TypeOK
  <2>3. bytes'[g] # <<>> /\ Head(bytes'[g]) = byte(n, sent'[e][n].dataLen, 1)
    <3>1. size(sent'[e][n].dataLen) \in Nat \ {0}
      BY <2>2, Constants DEF size
    <3> HIDE DEF n
    <3> QED BY <2>1, <2>2, <3>1, Frames
  <2>4. here(Head(bytes'[g])) = <<n, 1>>
    BY <2>3 DEF here, byte
  <2> QED BY <2>1, <2>3, <2>4 DEF next
<1>4. ASSUME NEW g \in Goroutine, Sent(g), endOf(g) = e
      PROVE  next(e)' = next(e)
  <2>1. sendMu[e] = g /\ bytes[g] = <<>> /\ sendMu'[e] = Nil
    BY <1>4 DEF Sent, SendReturns, sending, TypeOK
  <2>2. Len(sent'[e]) = Len(sent[e])
    BY <1>4, FateOnly DEF Sent
  <2> QED BY <2>1, <2>2 DEF next
<1>5. ASSUME NEW g \in Goroutine, WriteFails(g), endOf(g) = e
      PROVE  FALSE
  BY <1>5 DEF WriteFails, TypeOK
<1> QED BY <1>1, <1>2, <1>3, <1>4, <1>5, WriterSteps DEF SendStep

\* What the reader expects changes only when it reads, or its end is closed.
LEMMA ExpectedSteps ==
  ASSUME TypeOK, OutsideNothing, HalfRead, [Next]_vars, NEW e \in End, conn'[e] # "closed"
  PROVE  expected(e)' = expected(e) \/ \E g \in Goroutine : Read(g) /\ endOf(g) = e
<1>1. CASE recvMu[e] = Nil /\ recvMu'[e] = Nil
  <2>1. received'[e] = received[e]
    <3>1. ASSUME NEW g \in Goroutine, Received(g)
          PROVE  received'[e] = received[e]
      BY <1>1, <3>1, Constants DEF Received, receiving, TypeOK
    <3> QED BY <3>1 DEF Next, SendStep, ReceiveStep, Connect, Accept, Call, LockSend, Write,
               Sent, WriteFails, SendReturns, LockReceive, Read, ReadFails, vars, history
  <2> QED BY <1>1, <2>1 DEF expected
<1>2. CASE ReaderStays(e)
  BY <1>2 DEF ReaderStays, expected
<1>3. ASSUME NEW g \in Goroutine, LockReceive(g), endOf(g) = e
      PROVE  expected(e)' = expected(e)
  <2>1. /\ recvMu[e] = Nil /\ recvMu'[e] = g /\ bytes' = bytes /\ received' = received
        /\ bytes[g] = <<>>
    BY <1>3, StartsWithNothing DEF LockReceive, TypeOK, calls, history
  <2> QED BY <2>1 DEF expected
<1>4. ASSUME NEW g \in Goroutine, Received(g), endOf(g) = e
      PROVE  expected(e)' = expected(e)
  <2>1. recvMu'[e] = Nil /\ received'[e] = Append(received[e], bytes[g])
    BY <1>4 DEF Received, TypeOK
  <2>2. received[e] \in Seq(Seq(Byte)) /\ bytes[g] \in Seq(Byte)
    BY DEF TypeOK
  <2>3. Len(received'[e]) = Len(received[e]) + 1
    BY <2>1, <2>2
  <2>4. expected(e) = <<Len(received[e]) + 1 + 1, 1>>
    BY <1>4, WholeMessage
  <2> QED BY <2>1, <2>3, <2>4 DEF expected
<1>5. ASSUME NEW g \in Goroutine, ReadFails(g), endOf(g) = e
      PROVE  FALSE
  BY <1>5 DEF ReadFails, TypeOK
<1> QED BY <1>1, <1>2, <1>3, <1>4, <1>5, ReaderSteps DEF ReceiveStep

\* The byte Read takes is behind the reader then.
LEMMA ReadByte ==
  ASSUME TypeOK, HalfRead, UnderWay, NothingBetween, NEW g \in Goroutine, Read(g)
  PROVE  expected(endOf(g))' = after(Head(stream[endOf(g)]))
<1> DEFINE e == endOf(g)
           b == Head(stream[e])
<1>1. recvMu'[e] = g /\ bytes'[g] = Append(bytes[g], b) /\ g # Nil
  BY Constants DEF Read, receiving, mutexes, TypeOK
<1>2. bytes[g] \in Seq(Byte) /\ b \in Byte
  <2>1. stream[e] \in Seq(Byte) /\ stream[e] # <<>>
    BY Ends DEF Read, TypeOK
  <2> QED BY <2>1, HeadTailProperties DEF TypeOK
<1> HIDE DEF b
<1>3. /\ bytes'[g] # <<>> /\ bytes'[g][Len(bytes'[g])] = b
  BY <1>1, <1>2, AppendProperties
<1> QED BY <1>1, <1>3 DEF expected, b

\* No byte is lost or doubled between writer and reader, while neither closed.
LEMMA BetweenStep ==
  TypeOK /\ Holders /\ UnderWay /\ NothingBetween /\ [Next]_vars => NothingBetween'
<1> DEFINE Between(e) ==
      /\ conn[e] # "closed" /\ stream[e] # <<>> => here(Head(stream[e])) = expected(e)
      /\ conn[peer(e)] # "closed" /\ stream[e] # <<>> =>
           after(stream[e][Len(stream[e])]) = next(peer(e))
      /\ conn[e] # "closed" /\ conn[peer(e)] # "closed" /\ stream[e] = <<>> =>
           expected(e) = next(peer(e))
<1> SUFFICES ASSUME TypeOK, Holders, UnderWay, NothingBetween, [Next]_vars, NEW e \in End
             PROVE  Between(e)'
  BY DEF NothingBetween
<1>1. Between(e)
  BY DEF NothingBetween
<1>2. /\ conn'[e] # "closed" => conn[e] # "closed"
      /\ conn'[peer(e)] # "closed" => conn[peer(e)] # "closed"
  BY StaysClosed, Peers
<1>3. stream[e] \in Seq(Byte)
  BY DEF TypeOK
<1>4. ASSUME NEW g \in Goroutine, Write(g), peer(endOf(g)) = e
      PROVE  Between(e)'
  <2> DEFINE b == Head(bytes[g])
  <2>1. peer(e) = endOf(g) /\ peer(e) \in End
    BY <1>4, Ends, Peers
  <2>2. b \in Byte /\ here(b) = next(peer(e)) /\ after(b) = next(peer(e))'
    BY <1>4, <2>1, WrittenByte DEF Holders
  <2>3. stream'[e] = Append(stream[e], b)
    BY <1>4 DEF Write, TypeOK
  <2> HIDE DEF b
  <2>4. /\ stream'[e] # <<>> /\ stream'[e][Len(stream'[e])] = b
        /\ Head(stream'[e]) = IF stream[e] = <<>> THEN b ELSE Head(stream[e])
    BY <1>3, <2>2, <2>3, AppendProperties, HeadTailAppend
  <2>5. conn'[e] # "closed" => expected(e)' = expected(e)
    <3>1. ASSUME NEW h \in Goroutine, Read(h), endOf(h) = e
          PROVE  FALSE
      BY <1>3, <1>4, <2>3, <3>1, <2>2 DEF Read, Write, TypeOK
    <3> QED BY <3>1, ExpectedSteps DEF Holders
  <2>6. conn[peer(e)] # "closed"
    BY <1>4, <2>1 DEF Write
  <2> QED BY <1>1, <1>2, <2>2, <2>4, <2>5, <2>6
<1>5. ASSUME NEW g \in Goroutine, Read(g), endOf(g) = e
      PROVE  Between(e)'
  <2>1. stream[e] # <<>> /\ stream'[e] = Tail(stream[e])
    BY <1>5 DEF Read, TypeOK
  <2>2. /\ Len(stream[e]) \in Nat \ {0} /\ Len(stream'[e]) = Len(stream[e]) - 1
        /\ stream'[e] \in Seq(Byte)
        /\ \A j \in 1 .. Len(stream'[e]) : stream'[e][j] = stream[e][j + 1]
    BY <1>3, <2>1, HeadTailProperties
  <2>3. expected(e)' = after(Head(stream[e]))
    BY <1>5, ReadByte DEF Holders
  <2>4. conn'[peer(e)] # "closed" => next(peer(e))' = next(peer(e))
    <3>1. ASSUME NEW h \in Goroutine, Write(h), endOf(h) = peer(e)
          PROVE  FALSE
      BY <1>5, <3>1, Peers DEF Read, Write, calls, mutexes, history, TypeOK
    <3> QED BY <3>1, NextSteps, Peers DEF Holders
  <2>5. CASE stream'[e] = <<>>
    <3>1. Len(stream'[e]) = 0
      BY <2>5
    <3>2. Len(stream[e]) = 1
      <4>1. Len(stream[e]) - 1 = 0 /\ Len(stream[e]) \in Nat \ {0}
        BY <2>2, <3>1, Zenon
      <4> QED BY <4>1
    <3>3. Head(stream[e]) = stream[e][Len(stream[e])]
      BY <1>3, <2>1, <3>2
    <3> QED BY <1>1, <1>2, <2>1, <2>3, <2>4, <2>5, <3>3
  <2>6. CASE stream'[e] # <<>>
    <3>1. Len(stream'[e]) \in Nat \ {0}
      BY <2>2, <2>6, EmptySeq
    <3>2. Head(stream'[e]) = stream[e][2] /\ Len(stream[e]) > 1
      BY <2>2, <2>6, <3>1
    <3>3. stream'[e][Len(stream'[e])] = stream[e][Len(stream[e])]
      <4>1. /\ Len(stream'[e]) \in 1 .. Len(stream'[e])
            /\ Len(stream'[e]) + 1 = Len(stream[e])
        <5>1. /\ Len(stream'[e]) = Len(stream[e]) - 1
              /\ Len(stream[e]) \in Nat \ {0}
          BY <2>2
        <5>2. Len(stream'[e]) \in 1 .. Len(stream'[e])
          BY <3>1
        <5>3. \A k \in Nat : k - 1 + 1 = k
          OBVIOUS
        <5> QED BY <5>1, <5>2, <5>3
      <4> QED BY <2>2, <4>1
    <3>4. here(stream[e][1 + 1]) = after(stream[e][1])
      BY <2>2, <3>2 DEF UnderWay
    <3>5. Head(stream[e]) = stream[e][1]
      BY <1>3, <2>1
    <3> QED BY <1>1, <1>2, <2>1, <2>3, <2>4, <2>6, <3>2, <3>3, <3>4, <3>5
  <2> QED BY <2>5, <2>6
<1>6. ASSUME \A g \in Goroutine : ~(Write(g) /\ peer(endOf(g)) = e),
             \A g \in Goroutine : ~(Read(g) /\ endOf(g) = e)
      PROVE  Between(e)'
  <2>1. stream'[e] = stream[e]
    BY <1>6, StreamSteps
  <2>2. conn'[e] # "closed" => expected(e)' = expected(e)
    BY <1>6, ExpectedSteps DEF Holders
  <2>3. conn'[peer(e)] # "closed" => next(peer(e))' = next(peer(e))
    <3>1. \A g \in Goroutine : endOf(g) = peer(e) => peer(endOf(g)) = e
      BY Peers
    <3> QED BY <1>6, <3>1, NextSteps, Peers DEF Holders
  <2> QED BY <1>1, <1>2, <2>1, <2>2, <2>3
<1> HIDE DEF Between
<1> QED BY <1>4, <1>5, <1>6

-----------------------------------------------------------------------------
\* What was received, and what became of what was sent

\* A message received is whole and the next one (Receive).
LEMMA FramesStep == TypeOK /\ HalfRead /\ FramesHold /\ [Next]_vars => FramesHold'
<1> DEFINE Held(e) == LET out == sent[peer(e)]
                      IN  /\ Len(received[e]) <= Len(out)
                          /\ \A i \in DOMAIN received[e] : received[e][i] = frame(i, out[i].dataLen)
<1> SUFFICES ASSUME TypeOK, HalfRead, FramesHold, [Next]_vars, NEW e \in End
             PROVE  Held(e)'
  BY DEF FramesHold
<1>1. /\ Len(received[e]) <= Len(sent[peer(e)])
      /\ \A i \in DOMAIN received[e] : received[e][i] = frame(i, sent[peer(e)][i].dataLen)
  BY DEF FramesHold
<1>2. /\ Len(sent[peer(e)]) <= Len(sent'[peer(e)])
      /\ \A n \in 1 .. Len(sent[peer(e)]) :
           sent'[peer(e)][n].dataLen = sent[peer(e)][n].dataLen
  BY SentKeeps, Peers
<1>3. /\ received[e] \in Seq(Seq(Byte)) /\ Len(received[e]) \in Nat
      /\ DOMAIN received[e] = 1 .. Len(received[e])
      /\ Len(sent[peer(e)]) \in Nat /\ Len(sent'[peer(e)]) \in Nat
  BY TypeStep, Peers DEF TypeOK
<1>4. ASSUME received'[e] = received[e]
      PROVE  Held(e)'
  <2>1. Len(received'[e]) <= Len(sent'[peer(e)])
    BY <1>1, <1>2, <1>3, <1>4
  <2>2. \A i \in DOMAIN received[e] : sent'[peer(e)][i].dataLen = sent[peer(e)][i].dataLen
    <3>1. \A i \in DOMAIN received[e] : i \in 1 .. Len(sent[peer(e)])
      BY <1>1, <1>3
    <3> QED BY <1>2, <3>1
  <2> QED BY <1>1, <1>4, <2>1, <2>2
<1>5. ASSUME NEW g \in Goroutine, Received(g), endOf(g) = e
      PROVE  Held(e)'
  <2> DEFINE n == Len(received[e]) + 1
  <2>1. received'[e] = Append(received[e], bytes[g]) /\ sent' = sent
    BY <1>5 DEF Received, TypeOK
  <2>2. n <= Len(sent[peer(e)]) /\ bytes[g] = frame(n, sent[peer(e)][n].dataLen)
    BY <1>5, WholeMessage
  <2>3. bytes[g] \in Seq(Byte)
    BY DEF TypeOK
  <2>4. /\ Len(received'[e]) = n /\ DOMAIN received'[e] = 1 .. n /\ received'[e][n] = bytes[g]
        /\ \A i \in 1 .. Len(received[e]) : received'[e][i] = received[e][i]
    BY <1>3, <2>1, <2>3, AppendProperties
  <2>5. \A i \in 1 .. n : i = n \/ i \in 1 .. Len(received[e])
    <3>1. Len(received[e]) \in Nat
      BY <1>3
    <3> QED BY <3>1
  <2> QED BY <1>1, <1>3, <2>1, <2>2, <2>4, <2>5
<1>6. ASSUME NEW g \in Goroutine, Received(g), endOf(g) # e
      PROVE  received'[e] = received[e]
  BY <1>6, Ends DEF Received, TypeOK
<1> HIDE DEF Held
<1> QED BY <1>4, <1>5, <1>6 DEF Next, SendStep, ReceiveStep, Connect, Accept, Call, LockSend,
           Write, Sent, WriteFails, SendReturns, LockReceive, Read, ReadFails, vars, history

\* A failed Send is the last one to say anything but error (Send).
LEMMA FatesStep == TypeOK /\ HalfWritten /\ Fates /\ [Next]_vars => Fates'
<1> DEFINE Told(e) ==
      /\ \A i \in 1 .. Len(sent[e]) :
           /\ sent[e][i].fate = "error" => conn[e] = "closed"
           /\ sent[e][i].fate = "open" => i = Len(sent[e]) /\ sendMu[e] # Nil
      /\ sendMu[e] # Nil /\ bytes[sendMu[e]] = <<>> =>
           \A i \in 1 .. Len(sent[e]) - 1 : sent[e][i].fate = "ok"
      /\ \A i, j \in 1 .. Len(sent[e]) :
           i < j /\ sent[e][j].fate = "ok" => sent[e][i].fate = "ok"
<1> SUFFICES ASSUME TypeOK, HalfWritten, Fates, [Next]_vars, NEW e \in End
             PROVE  Told(e)'
  BY DEF Fates
<1>1. Told(e)
  BY DEF Fates
<1>2. conn[e] = "closed" => conn'[e] = "closed"
  BY StaysClosed
<1>3. /\ Len(sent[e]) \in Nat
      /\ \A i \in 1 .. Len(sent[e]) : sent[e][i].fate \in {"open", "ok", "error"}
  <2>1. sent[e] \in Seq(Message)
    BY DEF TypeOK
  <2>2. \A i \in 1 .. Len(sent[e]) : sent[e][i] \in Message
    BY <2>1, ElementOfSeq
  <2> QED BY <2>1, <2>2 DEF Message
<1>4. CASE WriterStays(e)
  BY <1>1, <1>2, <1>4 DEF WriterStays
<1>5. ASSUME NEW g \in Goroutine, LockSend(g), endOf(g) = e
      PROVE  Told(e)'
  <2> DEFINE n == Len(sent[e]) + 1
  <2>1. sendMu[e] = Nil /\ sendMu'[e] = g /\ g # Nil
    BY <1>5, Constants DEF LockSend, TypeOK
  <2>2. /\ Len(sent'[e]) = n /\ sent'[e][n].fate = "open"
        /\ \A i \in 1 .. n - 1 : sent'[e][i] = sent[e][i]
    BY <1>5, NewMessage
  <2>3. bytes'[g] # <<>>
    <3>1. sent'[e][n].dataLen \in DataLens /\ bytes'[g] = frame(n, sent'[e][n].dataLen)
      BY <1>5, NewMessage DEF TypeOK
    <3> QED BY <1>3, <3>1, Frames
  <2>4. \A i \in 1 .. n : i = n \/ i \in 1 .. Len(sent[e])
    BY <1>3
  <2>5. \A i \in 1 .. n :
          /\ sent'[e][i].fate = "error" => conn'[e] = "closed"
          /\ sent'[e][i].fate = "open" => i = n
    BY <1>1, <1>2, <2>1, <2>2, <2>4
  <2>6. \A i, j \in 1 .. n : i < j /\ sent'[e][j].fate = "ok" => sent'[e][i].fate = "ok"
    <3>1. \A i, j \in 1 .. n : i < j => i \in 1 .. Len(sent[e])
      BY <1>3
    <3>2. \A j \in 1 .. n : sent'[e][j].fate = "ok" => j \in 1 .. Len(sent[e])
      BY <2>2, <2>4
    <3> HIDE DEF n
    <3> QED BY <1>1, <2>2, <3>1, <3>2
  <2> QED BY <2>1, <2>2, <2>3, <2>5, <2>6
<1>6. ASSUME NEW g \in Goroutine, Write(g), endOf(g) = e
      PROVE  Told(e)'
  <2>1. /\ sendMu[e] = g /\ sendMu' = sendMu /\ sent' = sent /\ conn' = conn
        /\ conn[e] = "open"
    BY <1>6 DEF Write, sending, mutexes, history
  <2>2. \A i \in 1 .. Len(sent[e]) - 1 : i \in 1 .. Len(sent[e]) /\ i # Len(sent[e])
    BY <1>3
  <2>3. \A i \in 1 .. Len(sent[e]) - 1 : sent[e][i].fate = "ok"
    BY <1>1, <1>3, <2>1, <2>2
  <2> QED BY <1>1, <2>1, <2>3
<1>7. ASSUME NEW g \in Goroutine, NEW fate \in {"ok", "error"}, SendReturns(g, fate),
             endOf(g) = e, fate = "error" => conn'[e] = "closed",
             fate = "ok" => sendMu[e] = g /\ bytes[g] = <<>>
      PROVE  Told(e)'
  <2>1. sendMu'[e] = Nil
    BY <1>7 DEF SendReturns, TypeOK
  <2>2. /\ Len(sent'[e]) = Len(sent[e])
        /\ \A i \in 1 .. Len(sent[e]) :
             sent'[e][i].fate = IF i = Len(sent[e]) THEN fate ELSE sent[e][i].fate
    BY <1>7, FateOnly
  <2>3. fate = "ok" => \A i \in 1 .. Len(sent[e]) - 1 : sent[e][i].fate = "ok"
    BY <1>1, <1>7, Constants
  <2>4. \A i, j \in 1 .. Len(sent[e]) :
          i < j => i \in 1 .. Len(sent[e]) - 1 /\ i # Len(sent[e])
    BY <1>3
  <2>5. \A i, j \in 1 .. Len(sent[e]) :
          i < j /\ sent'[e][j].fate = "ok" => sent'[e][i].fate = "ok"
    <3> SUFFICES ASSUME NEW i \in 1 .. Len(sent[e]), NEW j \in 1 .. Len(sent[e]),
                        i < j, sent'[e][j].fate = "ok"
                 PROVE  sent'[e][i].fate = "ok"
      OBVIOUS
    <3>1. sent'[e][i].fate = sent[e][i].fate /\ i \in 1 .. Len(sent[e]) - 1
      BY <2>2, <2>4
    <3>2. CASE j = Len(sent[e])
      BY <2>2, <2>3, <3>1, <3>2
    <3>3. CASE j # Len(sent[e])
      BY <1>1, <2>2, <3>1, <3>3
    <3> QED BY <3>2, <3>3
  <2> QED BY <1>1, <1>2, <1>7, <2>1, <2>2, <2>5
<1>8. ASSUME NEW g \in Goroutine, Sent(g) \/ WriteFails(g), endOf(g) = e
      PROVE  Told(e)'
  BY <1>7, <1>8 DEF Sent, WriteFails, sending, TypeOK
<1>9. CASE sendMu[e] = Nil /\ sendMu'[e] = Nil
  <2>1. sent'[e] = sent[e]
    BY <1>9, NoWriter
  <2> QED BY <1>1, <1>2, <1>9, <2>1
<1> HIDE DEF Told
<1> QED BY <1>4, <1>5, <1>6, <1>8, <1>9, WriterSteps DEF SendStep

\* No Send that succeeded comes after one that failed.
LEMMA LastFailure == TypeOK /\ Fates => FailuresAreLast
<1> SUFFICES ASSUME TypeOK, Fates, NEW e \in End
             PROVE  \A i, j \in DOMAIN sent[e] :
                      i < j /\ sent[e][j].fate = "ok" => sent[e][i].fate = "ok"
  BY DEF FailuresAreLast
<1>1. DOMAIN sent[e] = 1 .. Len(sent[e])
  BY DEF TypeOK
<1> QED BY <1>1 DEF Fates

-----------------------------------------------------------------------------
\* The invariant and the safety properties

\* The invariant holds at the start.
LEMMA InvInit == Init => IInv
<1> SUFFICES ASSUME Init PROVE IInv
  OBVIOUS
<1>1. TypeOK
  BY TypeInit
<1>2. \A T : <<>> \in Seq(T) /\ Len(<<>>) = 0 /\ DOMAIN <<>> = {}
  OBVIOUS
<1>3. Holders
  BY DEF Init, Holders, OutsideNothing, HalfWritten, HalfRead
<1>4. UnderWay /\ NothingBetween
  BY <1>2, Peers DEF Init, UnderWay, NothingBetween, next, expected
<1>5. FramesHold /\ Fates
  BY <1>2, Peers DEF Init, FramesHold, Fates
<1> QED BY <1>1, <1>3, <1>4, <1>5 DEF IInv

\* Every step keeps it.
LEMMA InvStep == IInv /\ [Next]_vars => IInv'
  BY TypeStep, OutsideStep, WrittenStep, ReadStep, UnderWayStep, BetweenStep, FramesStep,
     FatesStep DEF IInv, Holders

\* The strengthening holds in every reachable state.
THEOREM Invariance == Spec => []IInv
  BY InvInit, InvStep, PTL DEF Spec

\* Every variable keeps its type, and a mutex is held inside the call.
THEOREM TypeCorrect == Spec => []TypeOK
<1>1. IInv => TypeOK
  BY DEF IInv
<1> QED BY <1>1, Invariance, PTL

\* Messages arrive whole, in order and once.
THEOREM FramesArrive == Spec => []FramesHold
<1>1. IInv => FramesHold
  BY DEF IInv
<1> QED BY <1>1, Invariance, PTL

\* No Send of an end succeeds after one that failed.
THEOREM NoSuccessAfterFailure == Spec => []FailuresAreLast
<1>1. IInv => FailuresAreLast
  BY LastFailure DEF IInv
<1> QED BY <1>1, Invariance, PTL

=============================================================================
