------------------------------ MODULE Completion ------------------------------
(***************************************************************************)
(* What the idempotent consumer of completion events promises, with its    *)
(* workers, their crashes and lost replies left out: an event has its      *)
(* effect once, and a message is closed only when its event has had the    *)
(* effect the message asks for or the message is kept as a dead letter.    *)
(***************************************************************************)
EXTENDS Naturals

CONSTANTS Message, Event, EventOf, Amount, MaxAttempts

NoEffect == 0

VARIABLES
  effect,    \* the increment each event has had
  total,     \* the sum of all increments
  failures,  \* the attempts at each message reported as failed
  archived,  \* the messages kept as dead letters
  closed     \* the messages that will not be delivered again

vars == <<effect, total, failures, archived, closed>>

Apply(m) ==
  /\ effect[EventOf[m]] = NoEffect
  /\ effect' = [effect EXCEPT ![EventOf[m]] = Amount[m]]
  /\ total' = total + Amount[m]
  /\ UNCHANGED <<failures, archived, closed>>

Report(m) ==
  /\ failures' = [failures EXCEPT ![m] = @ + 1]
  /\ UNCHANGED <<effect, total, archived, closed>>

Conflicts(m) == effect[EventOf[m]] \notin {NoEffect, Amount[m]}

Archive(m) ==
  /\ m \notin archived
  /\ Conflicts(m) \/ failures[m] >= MaxAttempts
  /\ archived' = archived \cup {m}
  /\ UNCHANGED <<effect, total, failures, closed>>

Close(m) ==
  /\ effect[EventOf[m]] = Amount[m] \/ m \in archived
  /\ closed' = closed \cup {m}
  /\ UNCHANGED <<effect, total, failures, archived>>

Init ==
  /\ effect = [e \in Event |-> NoEffect]
  /\ total = 0
  /\ failures = [m \in Message |-> 0]
  /\ archived = {}
  /\ closed = {}

Next == \E m \in Message : Apply(m) \/ Report(m) \/ Archive(m) \/ Close(m)

Spec == Init /\ [][Next]_vars
=============================================================================
