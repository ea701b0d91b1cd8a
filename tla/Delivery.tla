------------------------------- MODULE Delivery -------------------------------
(***************************************************************************)
(* What the broadcast of websocket messages promises, with the connections *)
(* to Redis, the backoff and the lifespan left out.                        *)
(*                                                                         *)
(* An instance relays the messages of the channel one after another.  It   *)
(* may skip messages (those published while it was not subscribed), but    *)
(* one that it takes it owes to every member socket of the message's user, *)
(* once.  It takes no other before each was sent to or has stopped being a *)
(* member, unless its relay ends for good.                                 *)
(***************************************************************************)
EXTENDS Naturals, Sequences

CONSTANTS Instance, Socket, User, Home, Owner

VARIABLES
  log,      \* the user of each message on the channel
  at,       \* the last message each instance has taken or skipped
  owed,     \* the sockets it still owes that message
  members,  \* the sockets that take part
  inbox,    \* the messages sent to each socket
  ended     \* the instances whose relay is over

vars == <<log, at, owed, members, inbox, ended>>

Publish ==
  /\ \E u \in User : log' = Append(log, u)
  /\ UNCHANGED <<at, owed, members, inbox, ended>>

Join(s) ==
  /\ members' = members \cup {s}
  /\ UNCHANGED <<log, at, owed, inbox, ended>>

Leave(s) ==
  /\ members' = members \ {s}
  /\ UNCHANGED <<log, at, owed, inbox, ended>>

Skip(i) ==
  /\ i \notin ended /\ owed[i] = {}
  /\ \E n \in at[i]..Len(log) : at' = [at EXCEPT ![i] = n]
  /\ UNCHANGED <<log, owed, members, inbox, ended>>

Take(i) ==
  /\ i \notin ended /\ owed[i] = {} /\ at[i] < Len(log)
  /\ at' = [at EXCEPT ![i] = @ + 1]
  /\ owed' = [owed EXCEPT ![i] =
                {s \in members : Home[s] = i /\ Owner[s] = log[at[i] + 1]}]
  /\ UNCHANGED <<log, members, inbox, ended>>

Settle(s) == owed' = [owed EXCEPT ![Home[s]] = @ \ {s}]

Send(s) ==
  /\ s \in owed[Home[s]]
  /\ Settle(s)
  /\ inbox' = [inbox EXCEPT ![s] = Append(@, at[Home[s]])]
  /\ UNCHANGED <<log, at, members, ended>>

(* A member that is not sent to is no member any more.                     *)
Expel(s) ==
  /\ s \in owed[Home[s]]
  /\ Settle(s)
  /\ members' = members \ {s}
  /\ UNCHANGED <<log, at, inbox, ended>>

(* The relay ends in the middle of a message: some of those owed get it.   *)
End(i) ==
  /\ \E sent \in SUBSET owed[i] :
       inbox' = [s \in Socket |->
                   IF s \in sent THEN Append(inbox[s], at[i]) ELSE inbox[s]]
  /\ owed' = [owed EXCEPT ![i] = {}]
  /\ ended' = ended \cup {i}
  /\ UNCHANGED <<log, at, members>>

Init ==
  /\ log = <<>>
  /\ at = [i \in Instance |-> 0]
  /\ owed = [i \in Instance |-> {}]
  /\ members = {}
  /\ inbox = [s \in Socket |-> <<>>]
  /\ ended = {}

Next ==
  \/ Publish
  \/ \E s \in Socket : Join(s) \/ Leave(s) \/ Send(s) \/ Expel(s)
  \/ \E i \in Instance : Skip(i) \/ Take(i) \/ End(i)

Spec == Init /\ [][Next]_vars
=============================================================================
