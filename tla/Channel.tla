------------------------------ MODULE Channel ------------------------------
(***************************************************************************)
(* One TCP connection of grovenet: goroutines at both ends send and        *)
(* receive whole messages over two byte streams.  A message is framed by   *)
(* its length, so a stream cut or entered in the middle of a message is    *)
(* lost for good; Send and Receive close the connection on any error.      *)
(*                                                                         *)
(* A byte is a record of the message it belongs to and its place there;    *)
(* the header has HeaderLen of them.  net.Conn moves bytes one at a time   *)
(* here; nothing is taken from the locks it has inside.                    *)
(***************************************************************************)
EXTENDS Naturals, Sequences, FiniteSets

CONSTANTS Dialers,      \* goroutines of the end that connects
          Acceptors,    \* goroutines of the end that accepts
          Nil,
          HeaderLen,    \* the bytes of the length prefix
          DataLens,     \* the lengths of messages
          Capacity,     \* bound: bytes in flight one way
          MaxSends,     \* bound: messages sent
          MaxFaults     \* bound: reads and writes that fail by themselves

ASSUME ChannelAssumption ==
  /\ Dialers \cap Acceptors = {} /\ Nil \notin Dialers \cup Acceptors
  /\ {HeaderLen, Capacity} \subseteq Nat \ {0}
  /\ DataLens \subseteq Nat /\ {MaxSends, MaxFaults} \subseteq Nat

VARIABLES conn,      \* an end: "none", "open" or "closed"
          stream,    \* the bytes under way to an end
          sendMu, recvMu,    \* the holder of a mutex of an end, or Nil
          pc,        \* what a goroutine is calling
          bytes,     \* what it still has to write, or has read so far
          sent,      \* the messages of an end as they were locked out, and their fate
          received,  \* what Receive returned at an end
          faults

mutexes == <<sendMu, recvMu>>
calls == <<pc, bytes>>
history == <<sent, received>>
vars == <<conn, stream, mutexes, calls, history, faults>>

End == {"dialer", "acceptor"}
Goroutine == Dialers \cup Acceptors
endOf(g) == IF g \in Dialers THEN "dialer" ELSE "acceptor"
peer(e) == CHOOSE other \in End : other # e

\* The bytes of the n-th message of an end: the header, then the data.
frame(n, len) == [i \in 1..HeaderLen + len |-> [message |-> n, dataLen |-> len, at |-> i]]

-----------------------------------------------------------------------------
Init ==
  /\ conn = [e \in End |-> "none"]
  /\ stream = [e \in End |-> <<>>]
  /\ sendMu = [e \in End |-> Nil] /\ recvMu = [e \in End |-> Nil]
  /\ pc = [g \in Goroutine |-> "idle"] /\ bytes = [g \in Goroutine |-> <<>>]
  /\ sent = [e \in End |-> <<>>] /\ received = [e \in End |-> <<>>]
  /\ faults = 0

\* makeConnection.  A dial that fails leaves nothing behind.
Connect ==
  /\ conn["dialer"] = "none"
  /\ conn' = [conn EXCEPT !["dialer"] = "open"]
  /\ UNCHANGED <<stream, mutexes, calls, history, faults>>

Accept ==
  /\ conn["acceptor"] = "none" /\ conn["dialer"] # "none"
  /\ conn' = [conn EXCEPT !["acceptor"] = "open"]
  /\ UNCHANGED <<stream, mutexes, calls, history, faults>>

\* The messages of both ends, those about to be sent included.
sends == Len(sent["dialer"]) + Len(sent["acceptor"])
         + Cardinality({g \in Goroutine : pc[g] = "Send" /\ sendMu[endOf(g)] # g})

Call(g) ==
  /\ pc[g] = "idle" /\ conn[endOf(g)] # "none"
  /\ \E call \in {"Send", "Receive"} :
       /\ call = "Send" => sends < MaxSends
       /\ pc' = [pc EXCEPT ![g] = call]
  /\ UNCHANGED <<conn, stream, mutexes, bytes, history, faults>>

\* A read or write of e fails: e or its peer is closed, or the network says so.
fails(e) ==
  \/ "closed" \in {conn[e], conn[peer(e)]} /\ UNCHANGED faults
  \/ faults < MaxFaults /\ faults' = faults + 1

returns(g) == pc' = [pc EXCEPT ![g] = "idle"] /\ bytes' = [bytes EXCEPT ![g] = <<>>]

sending(g) == sendMu[endOf(g)] = g
receiving(g) == recvMu[endOf(g)] = g

-----------------------------------------------------------------------------
\* Fault: Send takes no lock.
LockSendFree(g) ==
  /\ pc[g] = "Send" /\ bytes[g] = <<>> /\ ~sending(g)
  /\ sendMu' = [sendMu EXCEPT ![endOf(g)] = g]
  /\ \E len \in DataLens :
       /\ bytes' = [bytes EXCEPT ![g] = frame(Len(sent[endOf(g)]) + 1, len)]
       /\ sent' = [sent EXCEPT ![endOf(g)] = Append(@, [dataLen |-> len, fate |-> "open"])]
  /\ UNCHANGED <<conn, stream, recvMu, pc, received, faults>>

LockSend(g) ==
  /\ pc[g] = "Send" /\ sendMu[endOf(g)] = Nil
  /\ sendMu' = [sendMu EXCEPT ![endOf(g)] = g]
  /\ \E len \in DataLens :
       /\ bytes' = [bytes EXCEPT ![g] = frame(Len(sent[endOf(g)]) + 1, len)]
       /\ sent' = [sent EXCEPT ![endOf(g)] = Append(@, [dataLen |-> len, fate |-> "open"])]
  /\ UNCHANGED <<conn, stream, recvMu, pc, received, faults>>

Write(g) ==
  /\ sending(g) /\ bytes[g] # <<>>
  /\ conn[endOf(g)] = "open" /\ Len(stream[peer(endOf(g))]) < Capacity
  /\ stream' = [stream EXCEPT ![peer(endOf(g))] = Append(@, Head(bytes[g]))]
  /\ bytes' = [bytes EXCEPT ![g] = Tail(@)]
  /\ UNCHANGED <<conn, mutexes, pc, history, faults>>

\* The end of Send: the mutex is released, and the caller learns the fate.
SendReturns(g, fate) ==
  /\ sendMu' = [sendMu EXCEPT ![endOf(g)] = Nil]
  /\ sent' = [sent EXCEPT ![endOf(g)][Len(sent[endOf(g)])].fate = fate]
  /\ returns(g)
  /\ UNCHANGED <<stream, recvMu, received>>

Sent(g) ==
  /\ sending(g) /\ bytes[g] = <<>>
  /\ SendReturns(g, "ok")
  /\ UNCHANGED <<conn, faults>>

\* Fault: the connection is kept after a write that failed.
WriteFailsKept(g) ==
  /\ sending(g) /\ bytes[g] # <<>>
  /\ fails(endOf(g))
  /\ SendReturns(g, "error")
  /\ UNCHANGED conn

WriteFails(g) ==
  /\ sending(g) /\ bytes[g] # <<>>
  /\ fails(endOf(g))
  /\ conn' = [conn EXCEPT ![endOf(g)] = "closed"]
  /\ SendReturns(g, "error")

-----------------------------------------------------------------------------
\* Fault: Receive takes no lock.
LockReceiveFree(g) ==
  /\ pc[g] = "Receive" /\ bytes[g] = <<>> /\ ~receiving(g)
  /\ recvMu' = [recvMu EXCEPT ![endOf(g)] = g]
  /\ UNCHANGED <<conn, stream, sendMu, calls, history, faults>>

LockReceive(g) ==
  /\ pc[g] = "Receive" /\ recvMu[endOf(g)] = Nil
  /\ recvMu' = [recvMu EXCEPT ![endOf(g)] = g]
  /\ UNCHANGED <<conn, stream, sendMu, calls, history, faults>>

\* The header is there, and as many bytes of data as it says.
complete(read) == Len(read) >= HeaderLen /\ Len(read) = HeaderLen + Head(read).dataLen

Read(g) ==
  LET e == endOf(g)
  IN  /\ receiving(g) /\ ~complete(bytes[g])
      /\ conn[e] = "open" /\ stream[e] # <<>>
      /\ bytes' = [bytes EXCEPT ![g] = Append(@, Head(stream[e]))]
      /\ stream' = [stream EXCEPT ![e] = Tail(@)]
      /\ UNCHANGED <<conn, mutexes, pc, history, faults>>

Received(g) ==
  /\ receiving(g) /\ complete(bytes[g])
  /\ received' = [received EXCEPT ![endOf(g)] = Append(@, bytes[g])]
  /\ recvMu' = [recvMu EXCEPT ![endOf(g)] = Nil]
  /\ returns(g)
  /\ UNCHANGED <<conn, stream, sendMu, sent, faults>>

\* Fault: the connection is kept after a read that failed.
ReadFailsKept(g) ==
  /\ receiving(g) /\ ~complete(bytes[g])
  /\ fails(endOf(g))
  /\ recvMu' = [recvMu EXCEPT ![endOf(g)] = Nil]
  /\ returns(g)
  /\ UNCHANGED <<conn, stream, sendMu, history>>

\* Fault: a read that failed returns with the mutex locked.
ReadFailsLocked(g) ==
  /\ receiving(g) /\ ~complete(bytes[g])
  /\ fails(endOf(g))
  /\ conn' = [conn EXCEPT ![endOf(g)] = "closed"]
  /\ returns(g)
  /\ UNCHANGED <<stream, mutexes, history>>

ReadFails(g) ==
  /\ receiving(g) /\ ~complete(bytes[g])
  /\ fails(endOf(g))
  /\ conn' = [conn EXCEPT ![endOf(g)] = "closed"]
  /\ recvMu' = [recvMu EXCEPT ![endOf(g)] = Nil]
  /\ returns(g)
  /\ UNCHANGED <<stream, sendMu, history>>

-----------------------------------------------------------------------------
SendStep(g) == LockSend(g) \/ Write(g) \/ Sent(g) \/ WriteFails(g)
ReceiveStep(g) == LockReceive(g) \/ Read(g) \/ Received(g) \/ ReadFails(g)

Next ==
  \/ Connect \/ Accept
  \/ \E g \in Goroutine : Call(g) \/ SendStep(g) \/ ReceiveStep(g)

Spec == Init /\ [][Next]_vars

\* A call takes every step it can again and again: goroutines are scheduled,
\* sync.Mutex starves nobody, and a read or write on a dead connection returns.
\* Nothing makes a goroutine call, nor the network fail.
progress(g) == SendStep(g) \/ ReceiveStep(g)
Fairness == \A g \in Goroutine : SF_vars(progress(g))
FairSpec == Spec /\ Fairness

-----------------------------------------------------------------------------
Byte == [message : Nat, dataLen : DataLens, at : Nat]
Message == [dataLen : DataLens, fate : {"open", "ok", "error"}]

\* The variables keep their types, and a mutex is held by a goroutine of its
\* end that is inside the call.
TypeOK ==
  /\ conn \in [End -> {"none", "open", "closed"}]
  /\ stream \in [End -> Seq(Byte)]
  /\ sendMu \in [End -> Goroutine \cup {Nil}] /\ recvMu \in [End -> Goroutine \cup {Nil}]
  /\ pc \in [Goroutine -> {"idle", "Send", "Receive"}]
  /\ bytes \in [Goroutine -> Seq(Byte)]
  /\ sent \in [End -> Seq(Message)] /\ received \in [End -> Seq(Seq(Byte))]
  /\ faults \in 0 .. MaxFaults
  /\ \A e \in End :
       /\ Len(stream[e]) <= Capacity
       /\ sendMu[e] # Nil => pc[sendMu[e]] = "Send" /\ endOf(sendMu[e]) = e
       /\ recvMu[e] # Nil => pc[recvMu[e]] = "Receive" /\ endOf(recvMu[e]) = e

\* What Receive returns at one end are the first messages Send took at the
\* other, whole, in that order, each once, whoever calls and whatever failed.
FramesHold ==
  \A e \in End :
    LET out == sent[peer(e)]
    IN  /\ Len(received[e]) <= Len(out)
        /\ \A i \in DOMAIN received[e] : received[e][i] = frame(i, out[i].dataLen)

\* After a Send that failed no Send of that end succeeds: a caller that sees one
\* succeed knows that none before it was cut.
FailuresAreLast ==
  \A e \in End : \A i, j \in DOMAIN sent[e] :
    i < j /\ sent[e][j].fate = "ok" => sent[e][i].fate = "ok"

\* One failure anywhere ends every call on the connection, at both ends and in
\* both directions: the close is all that tells the others.
FailureEndsCalls ==
  \A g \in Goroutine : faults > 0 /\ pc[g] # "idle" ~> pc[g] = "idle"
=============================================================================
