----------------------------- MODULE Broadcast -----------------------------
(***************************************************************************)
(* What a room promises its members, whatever locks, sockets and failures  *)
(* it is made of: one log of messages; a member is handed what the others  *)
(* publish after it joined, in the order of the log and once each; the     *)
(* next message is published only when every member still there was handed *)
(* the last one.  A member may be lost at any time, with or without the    *)
(* message it was being handed.                                            *)
(***************************************************************************)
EXTENDS Naturals, Sequences, Selection

CONSTANTS Conn,     \* the members there may be
          Number,   \* the numbers of a member's messages
          Nil

VARIABLES log,       \* the published messages
          joinedAt,  \* the length of the log when a member joined; Nil: not yet
          inbox,     \* what a member was handed
          gone       \* the members that were lost

vars == <<log, joinedAt, inbox, gone>>

\* What member c is to be handed altogether, so far.
Owed(c) ==
  SelectIn(SubSeq(log, joinedAt[c] + 1, Len(log)),
           [from : Conn \ {c}, n : Nat, good : {TRUE}])

Init ==
  /\ log = <<>>
  /\ joinedAt = [c \in Conn |-> Nil]
  /\ inbox = [c \in Conn |-> <<>>]
  /\ gone = {}

Join(c) ==
  /\ joinedAt[c] = Nil
  /\ joinedAt' = [joinedAt EXCEPT ![c] = Len(log)]
  /\ UNCHANGED <<log, inbox, gone>>

Publish(c, n) ==
  /\ joinedAt[c] # Nil
  /\ \A i \in 1 .. Len(log) : log[i].from = c => log[i].n < n
  /\ \A d \in Conn \ gone : joinedAt[d] # Nil => inbox[d] = Owed(d)
  /\ log' = Append(log, [from |-> c, n |-> n, good |-> TRUE])
  /\ UNCHANGED <<joinedAt, inbox, gone>>

Handed(c) ==
  /\ joinedAt[c] # Nil
  /\ Len(inbox[c]) < Len(Owed(c))
  /\ inbox' = [inbox EXCEPT ![c] = Append(@, Owed(c)[Len(@) + 1])]

Hand(c) == c \notin gone /\ Handed(c) /\ UNCHANGED <<log, joinedAt, gone>>

Lose(c) ==
  /\ c \notin gone
  /\ gone' = gone \cup {c}
  /\ Handed(c) \/ UNCHANGED inbox
  /\ UNCHANGED <<log, joinedAt>>

Next ==
  \E c \in Conn : Join(c) \/ (\E n \in Number : Publish(c, n)) \/ Hand(c) \/ Lose(c)

Spec == Init /\ [][Next]_vars
=============================================================================
