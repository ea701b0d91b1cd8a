------------------------------- MODULE Realtime -------------------------------
(***************************************************************************)
(* Websocket messages: a client's message is published on a Redis channel, *)
(* and the subscriber of every API instance sends it to the sockets that   *)
(* instance has open for the same user (routers/realtime.py,               *)
(* connection_manager.py, realtime_broker.py, realtime_event_handler.py,   *)
(* reconnect_backoff.py, and the lifespan of main.py that owns the         *)
(* subscriber).                                                            *)
(*                                                                         *)
(* The coroutines of an instance interleave at every await, and what one   *)
(* does between two of them is a step.  The channel is the sequence of all *)
(* messages in the order Redis published them; a message is its position.  *)
(***************************************************************************)
EXTENDS Naturals, Sequences

CONSTANTS
  Instance,       \* the API processes
  Socket,         \* the websocket connections; each is made once
  User,
  Home,           \* the instance that serves a socket
  Owner,          \* the user whose ticket opened it
  MaxMessages,    \* bound: messages published in all
  InitialDelay,   \* reconnect_delay_seconds
  MaximumDelay,   \* maximum_reconnect_delay_seconds
  Events          \* which of "redis", "fatal", "publish", "leave", "reject"
                  \* and "stop" may happen: lost connections, errors that are
                  \* no lost connections, a PUBLISH that fails, clients that
                  \* leave, invalid payloads, and the end of an instance

ASSUME PlacementAssumption ==
  /\ Home \in [Socket -> Instance]
  /\ Owner \in [Socket -> User]
ASSUME DelayAssumption ==
  /\ InitialDelay \in Nat \ {0} /\ MaximumDelay \in Nat
  /\ InitialDelay <= MaximumDelay
ASSUME BoundAssumption == MaxMessages \in Nat

VARIABLES
  log,          \* Redis: the user of each message published on the channel
  phase,        \* the lifespan: "orphaned" is a server whose lifespan failed
  sub,          \* where the subscriber task is
  link,         \* its pubsub connection
  ready,        \* _subscribed_event
  once,         \* _has_subscribed_once
  delay,        \* _next_delay of the backoff
  at,           \* the last message read from the connection
  upto,         \* the last message Redis wrote to it
  pending,      \* the sockets the current broadcast has not sent to
  registered,   \* the sockets in _connections_by_user
  pc,           \* the handler of each socket
  conn,         \* the connection: "closed" by the application, "gone" if
                \* the client left
  inbox,        \* observer: the messages sent to each socket
  joined,       \* observer: the last message read before its registration
  taken         \* observer: the messages each instance broadcast

subscriber == <<phase, sub, link, ready, once, delay, at, upto, taken>>
sockets    == <<registered, pc, conn, inbox, joined>>
vars       == <<log, phase, sub, link, ready, once, delay, at, upto, pending,
                registered, pc, conn, inbox, joined, taken>>

Phases  == {"starting", "serving", "orphaned", "down"}
Stages  == {"connecting", "listening", "broadcasting", "backoff", "ended"}
Links   == {"down", "sent", "up", "broken"}
Serving == {"receiving", "publishing"}

-----------------------------------------------------------------------------
(* How a round of listen() ends.                                           *)

(* The exception leaves listen(): it fails the task group of the lifespan, *)
(* which cancels a startup, or tears down the lifespan of a server that    *)
(* goes on serving requests.                                               *)
Raise(i) ==
  /\ sub' = [sub EXCEPT ![i] = "ended"]
  /\ phase' = [phase EXCEPT ![i] = IF @ = "serving" THEN "orphaned" ELSE "down"]
  /\ link' = [link EXCEPT ![i] = "down"]
  /\ ready' = [ready EXCEPT ![i] = FALSE]
  /\ pending' = [pending EXCEPT ![i] = {}]
  /\ UNCHANGED <<once, delay, at, upto, taken>>

(* Mutant: a backoff without its maximum.                                  *)
Doubled(d) == 2 * d

NextDelay(d) == IF 2 * d < MaximumDelay THEN 2 * d ELSE MaximumDelay

Backoff(i) ==
  /\ sub' = [sub EXCEPT ![i] = "backoff"]
  /\ link' = [link EXCEPT ![i] = "down"]
  /\ ready' = [ready EXCEPT ![i] = FALSE]
  /\ delay' = [delay EXCEPT ![i] = NextDelay(@)]
  /\ UNCHANGED <<phase, once, at, upto, pending, taken>>

(* Mutant: the test of _has_subscribed_once the wrong way round.           *)
RetryAtFirst(i) == IF once[i] THEN Raise(i) ELSE Backoff(i)

(* A connection or timeout error ends listen() before the first            *)
(* confirmation, and is retried after it.                                  *)
ConnectionError(i) == IF once[i] THEN Backoff(i) ELSE Raise(i)

-----------------------------------------------------------------------------
(* The subscriber.                                                         *)

Subscribe(i) ==
  /\ sub[i] = "connecting"
  /\ sub' = [sub EXCEPT ![i] = "listening"]
  /\ link' = [link EXCEPT ![i] = "sent"]
  /\ UNCHANGED <<log, phase, ready, once, delay, at, upto, pending, taken, sockets>>

SubscribeFails(i) ==
  /\ "redis" \in Events
  /\ sub[i] = "connecting"
  /\ ConnectionError(i)
  /\ UNCHANGED <<log, sockets>>

(* Redis takes the SUBSCRIBE: it sends the confirmation, and then what is  *)
(* published from now on.                                                  *)
Register(i) ==
  /\ link[i] = "sent"
  /\ link' = [link EXCEPT ![i] = "up"]
  /\ at' = [at EXCEPT ![i] = Len(log)]
  /\ upto' = [upto EXCEPT ![i] = Len(log)]
  /\ UNCHANGED <<log, phase, sub, ready, once, delay, pending, taken, sockets>>

(* The connection is lost; what has arrived can still be read.             *)
Break(i) ==
  /\ "redis" \in Events
  /\ link[i] \in {"sent", "up"}
  /\ link' = [link EXCEPT ![i] = IF @ = "up" THEN "broken" ELSE "down"]
  /\ UNCHANGED <<log, phase, sub, ready, once, delay, at, upto, pending, taken, sockets>>

(* Mutant: only the first confirmation is taken.                           *)
ConfirmOnce(i) ==
  /\ sub[i] = "listening" /\ link[i] \in {"up", "broken"} /\ ~ ready[i]
  /\ ~ once[i]
  /\ ready' = [ready EXCEPT ![i] = TRUE]
  /\ once' = [once EXCEPT ![i] = TRUE]
  /\ delay' = [delay EXCEPT ![i] = InitialDelay]
  /\ UNCHANGED <<log, phase, sub, link, at, upto, pending, taken, sockets>>

(* The first thing read from a connection is the confirmation.             *)
Confirm(i) ==
  /\ sub[i] = "listening" /\ link[i] \in {"up", "broken"} /\ ~ ready[i]
  /\ ready' = [ready EXCEPT ![i] = TRUE]
  /\ once' = [once EXCEPT ![i] = TRUE]
  /\ delay' = [delay EXCEPT ![i] = InitialDelay]
  /\ UNCHANGED <<log, phase, sub, link, at, upto, pending, taken, sockets>>

(* Mutant: a broadcast to every connection.                                *)
Everyone(i, u) == {s \in registered : Home[s] = i}

Recipients(i, u) == {s \in registered : Home[s] = i /\ Owner[s] = u}

(* A message is read: handle() broadcasts it over a snapshot of the        *)
(* sockets its user has.                                                   *)
Take(i) ==
  /\ sub[i] = "listening" /\ ready[i] /\ at[i] < upto[i]
  /\ at' = [at EXCEPT ![i] = @ + 1]
  /\ taken' = [taken EXCEPT ![i] = @ \cup {at[i] + 1}]
  /\ pending' = [pending EXCEPT ![i] = Recipients(i, log[at[i] + 1])]
  /\ sub' = [sub EXCEPT ![i] = "broadcasting"]
  /\ UNCHANGED <<log, phase, link, ready, once, delay, upto, sockets>>

(* Mutant: a broadcast that does not wait for its sends.                   *)
FinishEarly(i) ==
  /\ sub[i] = "broadcasting"
  /\ sub' = [sub EXCEPT ![i] = "listening"]
  /\ pending' = [pending EXCEPT ![i] = {}]
  /\ UNCHANGED <<log, phase, link, ready, once, delay, at, upto, taken, sockets>>

Finish(i) ==
  /\ sub[i] = "broadcasting" /\ pending[i] = {}
  /\ sub' = [sub EXCEPT ![i] = "listening"]
  /\ UNCHANGED <<log, phase, link, ready, once, delay, at, upto, pending, taken, sockets>>

(* Reading raises: the connection is lost, or silent for socket_timeout.   *)
ReadFails(i) ==
  /\ "redis" \in Events
  /\ sub[i] = "listening"
  /\ link[i] = "up" => ready[i] /\ at[i] = upto[i]
  /\ ConnectionError(i)
  /\ UNCHANGED <<log, sockets>>

(* Any other RedisError is raised, AuthenticationError and                 *)
(* AuthorizationError, which are ConnectionErrors, among them.             *)
FatalError(i) ==
  /\ "fatal" \in Events
  /\ sub[i] \in {"connecting", "listening"}
  /\ Raise(i)
  /\ UNCHANGED <<log, sockets>>

Reconnect(i) ==
  /\ sub[i] = "backoff"
  /\ sub' = [sub EXCEPT ![i] = "connecting"]
  /\ UNCHANGED <<log, phase, link, ready, once, delay, at, upto, pending, taken, sockets>>

-----------------------------------------------------------------------------
(* The lifespan.                                                           *)

(* wait_until_subscribed returns: the event was set, and may be clear again*)
(* by now.                                                                 *)
Started(i) ==
  /\ phase[i] = "starting" /\ once[i]
  /\ phase' = [phase EXCEPT ![i] = "serving"]
  /\ UNCHANGED <<log, sub, link, ready, once, delay, at, upto, pending, taken, sockets>>

(* Mutant: a timeout for connecting alone.                                 *)
ConnectTimeout(i) ==
  /\ phase[i] = "starting" /\ sub[i] = "connecting"
  /\ Raise(i)
  /\ UNCHANGED <<log, sockets>>

(* wait_for gives up: the task group cancels the subscriber.               *)
StartTimeout(i) ==
  /\ phase[i] = "starting"
  /\ Raise(i)
  /\ UNCHANGED <<log, sockets>>

(* The server shuts down once its requests are over.                       *)
Stop(i) ==
  /\ "stop" \in Events
  /\ phase[i] = "serving"
  /\ \A s \in Socket : Home[s] = i => pc[s] \in {"none", "ended"}
  /\ phase' = [phase EXCEPT ![i] = "down"]
  /\ sub' = [sub EXCEPT ![i] = "ended"]
  /\ link' = [link EXCEPT ![i] = "down"]
  /\ ready' = [ready EXCEPT ![i] = FALSE]
  /\ pending' = [pending EXCEPT ![i] = {}]
  /\ UNCHANGED <<log, once, delay, at, upto, taken, sockets>>

-----------------------------------------------------------------------------
(* The handler of a socket, broadcast_messages.                            *)

Connect(s) ==
  /\ phase[Home[s]] \in {"serving", "orphaned"}
  /\ pc[s] = "none"
  /\ pc' = [pc EXCEPT ![s] = "receiving"]
  /\ conn' = [conn EXCEPT ![s] = "open"]
  /\ registered' = registered \cup {s}
  /\ joined' = [joined EXCEPT ![s] = at[Home[s]]]
  /\ UNCHANGED <<log, subscriber, pending, inbox>>

(* A valid message: PUBLISH reaches Redis, which writes it to every        *)
(* connection that is subscribed.                                          *)
Publish(s) ==
  /\ pc[s] = "receiving" /\ conn[s] = "open"
  /\ Len(log) < MaxMessages
  /\ log' = Append(log, Owner[s])
  /\ upto' = [i \in Instance |->
                IF link[i] = "up" THEN Len(log) + 1 ELSE upto[i]]
  /\ pc' = [pc EXCEPT ![s] = "publishing"]
  /\ UNCHANGED <<phase, sub, link, ready, once, delay, at, pending, registered,
                 conn, inbox, joined, taken>>

Published(s) ==
  /\ pc[s] = "publishing"
  /\ pc' = [pc EXCEPT ![s] = "receiving"]
  /\ UNCHANGED <<log, subscriber, pending, registered, conn, inbox, joined>>

(* The application closes the websocket and waits for the close handshake. *)
Close(s) ==
  /\ pc' = [pc EXCEPT ![s] = "closing"]
  /\ conn' = [conn EXCEPT ![s] = "closed"]
  /\ UNCHANGED <<log, subscriber, pending, registered, inbox, joined>>

(* RedisError, before PUBLISH or instead of its reply.                     *)
PublishFails(s) ==
  /\ "publish" \in Events
  /\ pc[s] \in Serving
  /\ pc[s] = "receiving" => conn[s] = "open"
  /\ Close(s)

(* An invalid payload.                                                     *)
Reject(s) ==
  /\ "reject" \in Events
  /\ pc[s] = "receiving" /\ conn[s] = "open"
  /\ Close(s)

(* Mutant: a handler that returns without its finally.                     *)
KeepRegistered(s) ==
  /\ pc[s] = "closing" \/ (pc[s] = "receiving" /\ conn[s] = "gone")
  /\ pc' = [pc EXCEPT ![s] = "ended"]
  /\ UNCHANGED <<log, subscriber, pending, registered, conn, inbox, joined>>

(* The handler ends, after its close or because the client is gone.        *)
Disconnect(s) ==
  /\ pc[s] = "closing" \/ (pc[s] = "receiving" /\ conn[s] = "gone")
  /\ pc' = [pc EXCEPT ![s] = "ended"]
  /\ registered' = registered \ {s}
  /\ UNCHANGED <<log, subscriber, pending, conn, inbox, joined>>

Leave(s) ==
  /\ "leave" \in Events
  /\ conn[s] = "open"
  /\ conn' = [conn EXCEPT ![s] = "gone"]
  /\ UNCHANGED <<log, subscriber, pending, registered, pc, inbox, joined>>

-----------------------------------------------------------------------------
(* _send_to_connection, one task for each socket of a snapshot.            *)

Remaining(s) == [pending EXCEPT ![Home[s]] = @ \ {s}]

(* A client that is gone without notice is sent to as well.                *)
Send(s) ==
  /\ s \in pending[Home[s]]
  /\ pc[s] \in Serving
  /\ inbox' = [inbox EXCEPT ![s] = Append(@, at[Home[s]])]
  /\ pending' = Remaining(s)
  /\ UNCHANGED <<log, subscriber, registered, pc, conn, joined>>

(* Mutant: a send that fails leaves the socket in the registry.            *)
KeepDisconnected(s) ==
  /\ s \in pending[Home[s]]
  /\ conn[s] = "gone"
  /\ pending' = Remaining(s)
  /\ UNCHANGED <<log, subscriber, registered, pc, conn, inbox, joined>>

(* WebSocketDisconnect.                                                    *)
SendDisconnected(s) ==
  /\ s \in pending[Home[s]]
  /\ conn[s] = "gone"
  /\ registered' = registered \ {s}
  /\ pending' = Remaining(s)
  /\ UNCHANGED <<log, subscriber, pc, conn, inbox, joined>>

(* RuntimeError: the socket has begun to close, or its handler has ended.  *)
(* The task group cancels the other sends, of which some got through, and  *)
(* raises.                                                                 *)
SendRefused(s) ==
  LET i == Home[s] IN
  /\ s \in pending[i]
  /\ pc[s] \in {"closing", "ended"}
  /\ \E sent \in SUBSET {t \in pending[i] : pc[t] \in Serving} :
       inbox' = [t \in Socket |->
                   IF t \in sent THEN Append(inbox[t], at[i]) ELSE inbox[t]]
  /\ Raise(i)
  /\ UNCHANGED <<log, registered, pc, conn, joined>>

Init ==
  /\ log = <<>>
  /\ phase = [i \in Instance |-> "starting"]
  /\ sub = [i \in Instance |-> "connecting"]
  /\ link = [i \in Instance |-> "down"]
  /\ ready = [i \in Instance |-> FALSE]
  /\ once = [i \in Instance |-> FALSE]
  /\ delay = [i \in Instance |-> InitialDelay]
  /\ at = [i \in Instance |-> 0]
  /\ upto = [i \in Instance |-> 0]
  /\ pending = [i \in Instance |-> {}]
  /\ registered = {}
  /\ pc = [s \in Socket |-> "none"]
  /\ conn = [s \in Socket |-> "none"]
  /\ inbox = [s \in Socket |-> <<>>]
  /\ joined = [s \in Socket |-> 0]
  /\ taken = [i \in Instance |-> {}]

Listen(i) ==
  \/ Subscribe(i) \/ SubscribeFails(i) \/ Register(i) \/ Break(i) \/ Confirm(i)
  \/ Take(i) \/ Finish(i) \/ ReadFails(i) \/ FatalError(i) \/ Reconnect(i)

Lifespan(i) == Started(i) \/ StartTimeout(i) \/ Stop(i)

Handle(s) ==
  \/ Connect(s) \/ Publish(s) \/ Published(s) \/ PublishFails(s) \/ Reject(s)
  \/ Disconnect(s) \/ Leave(s)

SendTask(s) == Send(s) \/ SendDisconnected(s) \/ SendRefused(s)

Next ==
  \/ \E i \in Instance : Listen(i) \/ Lifespan(i)
  \/ \E s \in Socket : Handle(s) \/ SendTask(s)

Spec == Init /\ [][Next]_vars

(* The event loop runs what is ready, the startup timeout and the end of a *)
(* sleep included, and a send ends.  Redis may fail for as long as it likes*)
(* but, asked again and again, takes a subscription and confirms it.       *)
FairSpec ==
  /\ Spec
  /\ \A i \in Instance :
       /\ WF_vars(Take(i)) /\ WF_vars(Finish(i)) /\ WF_vars(ReadFails(i))
       /\ WF_vars(Reconnect(i)) /\ WF_vars(StartTimeout(i))
       /\ SF_vars(Subscribe(i)) /\ SF_vars(Register(i)) /\ SF_vars(Confirm(i))
  /\ \A s \in Socket : WF_vars(SendTask(s))

-----------------------------------------------------------------------------
(* Properties.                                                             *)

(* The type of every variable.                                             *)
TypeOK ==
  /\ log \in Seq(User)
  /\ phase \in [Instance -> Phases]
  /\ sub \in [Instance -> Stages]
  /\ link \in [Instance -> Links]
  /\ ready \in [Instance -> BOOLEAN]
  /\ once \in [Instance -> BOOLEAN]
  /\ delay \in [Instance -> InitialDelay..MaximumDelay]
  /\ at \in [Instance -> 0..Len(log)]
  /\ upto \in [Instance -> 0..Len(log)]
  /\ pending \in [Instance -> SUBSET Socket]
  /\ registered \in SUBSET Socket
  /\ pc \in [Socket -> Serving \cup {"none", "closing", "ended"}]
  /\ conn \in [Socket -> {"none", "open", "gone", "closed"}]
  /\ inbox \in [Socket -> Seq(1..Len(log))]
  /\ joined \in [Socket -> 0..Len(log)]
  /\ taken \in [Instance -> SUBSET (1..Len(log))]

(* A socket gets only messages of its own user, in the order they were     *)
(* published and none twice, whatever reconnects and closes come between.  *)
DeliveredInOrder ==
  \A s \in Socket : \A m \in 1..Len(inbox[s]) :
    /\ log[inbox[s][m]] = Owner[s]
    /\ \A n \in 1..(m - 1) : inbox[s][n] < inbox[s][m]

Received(s) == {inbox[s][n] : n \in 1..Len(inbox[s])}

(* What the instance of s broadcast to its user since it was registered.   *)
Due(s) == {n \in taken[Home[s]] : n > joined[s] /\ log[n] = Owner[s]}

(* The message of a broadcast that is still under way for s, or was cut    *)
(* short by the end of the subscriber.                                     *)
InFlight(s) ==
  IF s \in pending[Home[s]] \/ sub[Home[s]] = "ended" THEN {at[Home[s]]} ELSE {}

(* No gaps: every message an instance has read was sent to every socket    *)
(* that was and still is open for its user, however many of the others     *)
(* closed or left during the broadcast.                                    *)
NoGaps ==
  \A s \in registered : conn[s] = "open" => Due(s) \subseteq Received(s) \cup InFlight(s)

(* The registry is what is served: a registered socket has a handler that  *)
(* will remove it, and an open socket that is being served is registered,  *)
(* whichever of a failed send and the handler removed others first.        *)
RegistryIsServed ==
  /\ \A s \in registered : pc[s] \in Serving \cup {"closing"}
  /\ \A s \in Socket :
       pc[s] \in Serving /\ conn[s] = "open" => s \in registered

(* Claimed by test_broadcast_removes_disconnected_client_and_continues: a  *)
(* broadcast that meets a socket that is no longer connected goes on with  *)
(* the others, so every open one has every message that was broadcast.     *)
BroadcastContinues ==
  \A s \in registered : conn[s] = "open" /\ s \notin pending[Home[s]] =>
    Due(s) \subseteq Received(s)

(* Startup is decided, with a Redis that does not answer too.              *)
StartupEnds == \A i \in Instance : phase[i] = "starting" ~> phase[i] # "starting"

(* A subscriber that lost its connection is subscribed again, however often*)
(* it loses it, unless it ends.                                            *)
Resubscribes ==
  \A i \in Instance : sub[i] = "backoff" ~> ready[i] \/ sub[i] = "ended"

(* And it ends by an error of Redis that is no lost connection, or by a    *)
(* socket that closed: an instance that has started survives every loss of *)
(* its connection, wherever in a startup, broadcast or reconnect it comes. *)
OnlyClosesOrphan ==
  "fatal" \notin Events =>
    \A i \in Instance : phase[i] = "orphaned" =>
      \E s \in Socket : Home[s] = i /\ pc[s] \in {"closing", "ended"}

(* A message Redis wrote to a connection is broadcast, or that connection  *)
(* is lost: no socket holds the subscriber up for ever.                    *)
MessagesAreRead ==
  \A i \in Instance, n \in 1..MaxMessages :
    link[i] = "up" /\ at[i] < n /\ n <= upto[i] ~> at[i] >= n \/ link[i] # "up"

-----------------------------------------------------------------------------
(* What the instances do, their connections aside, is what Delivery        *)
(* promises: a broadcast is the message an instance owes to its pending    *)
(* sockets, a new subscription skips, and a subscriber ends for good.      *)
Promise == INSTANCE Delivery WITH
  owed <- pending, members <- registered, ended <- {i \in Instance : sub[i] = "ended"}

(* Every step of the subscribers, handlers, sends and lifespans is a step  *)
(* of the relay, or none: no reconnect, cancelled broadcast or failed send *)
(* repeats a message, reorders it, or loses it for a socket that remains.  *)
KeepsPromise == Promise!Spec
=============================================================================
