------------------------------- MODULE Poller -------------------------------
(***************************************************************************)
(* The pull side of the observers: a TextObserver per text of replica      *)
(* Self, and an application that patches its copy with what Poll returns.  *)
(* The document is edited and updated as in Replicas.                      *)
(***************************************************************************)
EXTENDS Observe

CONSTANTS Self,
          MaxPolls   \* bound: polls altogether

ASSUME PollerAssumption == Self \in Client /\ MaxPolls \in Nat

VARIABLES token,    \* what each TextObserver saw at its last Poll
          polled,   \* the application's copy of each text
          polls     \* the polls so far

pollVars == <<token, polled, polls>>
allVars == <<vars, pollVars>>

-----------------------------------------------------------------------------
\* Fault: what was a tombstone at the last Poll is reported again.
deletedContainsNever(seen, x) == FALSE

deletedContains(seen, x) == x \in seen.deleted

\* Against what was seen at the last Poll: per client the end of its clocks in
\* this text, and the tombstones.
pollDelta(s, t, seen) ==
  walk(s, t, [u \in ToSet(Snapshot(s, t)) |->
    IF clockOf(u.id) < seen.stateVector[clientOf(u.id)]
      THEN IF deletedContains(seen, u.id) THEN Nil
           ELSE IF u.deleted THEN "delete" ELSE "retain"
    ELSE IF u.deleted THEN Nil ELSE "insert"])

\* Fault: the last clock seen instead of one past it.
tokenShort(s, t) ==
  LET units == ToSet(Snapshot(s, t))
      ends(c) == {clockOf(u.id) : u \in {v \in units : clientOf(v.id) = c}}
  IN  [stateVector |-> [c \in Client |-> Max(ends(c) \cup {0})],
       deleted |-> {u.id : u \in {v \in units : v.deleted}}]

\* The token of a poll of text t.
tokenOf(s, t) ==
  LET units == ToSet(Snapshot(s, t))
      ends(c) == {clockOf(u.id) + 1 : u \in {v \in units : clientOf(v.id) = c}}
  IN  [stateVector |-> [c \in Client |-> Max(ends(c) \cup {0})],
       deleted |-> {u.id : u \in {v \in units : v.deleted}}]

-----------------------------------------------------------------------------
\* NewObserver: nothing was seen.
NewObserver == [stateVector |-> [c \in Client |-> 0], deleted |-> {}]

PollInit ==
  /\ Init
  /\ token = [t \in Root |-> NewObserver]
  /\ polled = [t \in Root |-> <<>>]
  /\ polls = 0

\* Poll, and the patch of the copy.
Poll(t) ==
  /\ polls < MaxPolls
  /\ polls' = polls + 1
  /\ token' = [token EXCEPT ![t] = tokenOf(doc[Self], t)]
  /\ polled' = [polled EXCEPT ![t] = callback(@, pollDelta(doc[Self], t, token[t]))]
  /\ UNCHANGED vars

PollNext ==
  \/ \E r \in Client : Step(r) /\ UNCHANGED pollVars
  \/ \E t \in Root : Poll(t)

PollSpec == PollInit /\ [][PollNext]_allVars

-----------------------------------------------------------------------------
\* A poll at any time brings the poller's copy up to the text, whatever
\* happened since the last one; the tokens of two roots are independent,
\* though a client's clocks run through both.
PollCatchesUp ==
  \A t \in Root :
    callback(polled[t], pollDelta(doc[Self], t, token[t])) = Text(doc[Self], t)
=============================================================================
