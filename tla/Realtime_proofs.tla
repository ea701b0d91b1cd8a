--------------------------- MODULE Realtime_proofs ---------------------------
(* What holds of Realtime for every number of instances, sockets, users    *)
(* and messages, every placement of the sockets, and every choice of       *)
(* Events.                                                                 *)
EXTENDS Realtime, TLAPS

-----------------------------------------------------------------------------
(* The invariant.                                                          *)

(* A broadcast is under way only on a confirmed connection, and a          *)
(* connection that is being subscribed has not been read.                  *)
Lifecycle ==
  \A i \in Instance :
    /\ link[i] = "sent" => sub[i] = "listening" /\ ~ ready[i]
    /\ ready[i] => /\ link[i] \in {"up", "broken"}
                   /\ sub[i] \in {"listening", "broadcasting"}
    /\ sub[i] = "broadcasting" => ready[i]
    /\ pending[i] # {} => sub[i] = "broadcasting"

(* The messages taken are among those read, and what is still to be sent   *)
(* is the last of them, to sockets of its user at this instance.           *)
Reading ==
  \A i \in Instance :
    /\ taken[i] \subseteq 1..at[i]
    /\ \A s \in pending[i] :
         Home[s] = i /\ at[i] > 0 /\ log[at[i]] = Owner[s]

(* A socket has been sent nothing its instance has not read, and nothing   *)
(* later than what is still to be sent to it.                              *)
Bounded ==
  \A s \in Socket : \A m \in 1..Len(inbox[s]) :
    /\ inbox[s][m] <= at[Home[s]]
    /\ s \in pending[Home[s]] => inbox[s][m] < at[Home[s]]

Inv ==
  TypeOK /\ Lifecycle /\ Reading /\ Bounded /\ DeliveredInOrder
    /\ RegistryIsServed /\ NoGaps

LEMMA InitInv == Init => Inv
<1> SUFFICES ASSUME Init PROVE Inv  OBVIOUS
<1> USE PlacementAssumption, DelayAssumption DEF Init
<1>1. TypeOK  BY DEF TypeOK, Phases, Stages, Links, Serving
<1>2. Lifecycle /\ Reading  BY DEF Lifecycle, Reading
<1>3. Bounded /\ DeliveredInOrder  BY DEF Bounded, DeliveredInOrder
<1>4. RegistryIsServed /\ NoGaps  BY DEF RegistryIsServed, NoGaps, Serving
<1> QED  BY <1>1, <1>2, <1>3, <1>4 DEF Inv

-----------------------------------------------------------------------------
(* Types.                                                                  *)

LEMMA NextDelayType ==
  \A d \in InitialDelay..MaximumDelay : NextDelay(d) \in InitialDelay..MaximumDelay
BY DelayAssumption DEF NextDelay

(* What Raise leaves of the variables it assigns.                          *)
LEMMA RaiseType ==
  ASSUME TypeOK, NEW i \in Instance, Raise(i)
  PROVE  /\ phase' \in [Instance -> Phases]
         /\ sub' \in [Instance -> Stages]
         /\ link' \in [Instance -> Links]
         /\ ready' \in [Instance -> BOOLEAN]
         /\ pending' \in [Instance -> SUBSET Socket]
         /\ UNCHANGED <<once, delay, at, upto, taken>>
BY DEF TypeOK, Raise, Phases, Stages, Links

LEMMA ConnectionErrorType ==
  ASSUME TypeOK, NEW i \in Instance, ConnectionError(i)
  PROVE  /\ phase' \in [Instance -> Phases]
         /\ sub' \in [Instance -> Stages]
         /\ link' \in [Instance -> Links]
         /\ ready' \in [Instance -> BOOLEAN]
         /\ delay' \in [Instance -> InitialDelay..MaximumDelay]
         /\ pending' \in [Instance -> SUBSET Socket]
         /\ UNCHANGED <<once, at, upto, taken>>
<1>1. CASE Raise(i)  BY <1>1, RaiseType DEF TypeOK
<1>2. CASE Backoff(i)
  BY <1>2, NextDelayType DEF Backoff, TypeOK, Stages, Links
<1> QED  BY <1>1, <1>2 DEF ConnectionError

(* Every step of an instance keeps the types.                              *)
LEMMA InstanceType ==
  ASSUME TypeOK, NEW i \in Instance, Listen(i) \/ Lifespan(i)
  PROVE  TypeOK'
<1> USE DEF sockets
<1>1. CASE Subscribe(i) \/ Break(i) \/ Finish(i) \/ Reconnect(i) \/ Started(i)
  BY <1>1 DEF TypeOK, Subscribe, Break, Finish, Reconnect, Started, Phases,
              Stages, Links
<1>2. CASE SubscribeFails(i) \/ ReadFails(i)
  BY <1>2, ConnectionErrorType DEF TypeOK, SubscribeFails, ReadFails
<1>3. CASE Register(i)
  BY <1>3 DEF TypeOK, Register, Links
<1>4. CASE Confirm(i)
  BY <1>4, DelayAssumption DEF TypeOK, Confirm
<1>5. CASE Take(i)
  <2>1. at[i] + 1 \in 1..Len(log)  BY <1>5 DEF Take, TypeOK
  <2>2. pending' \in [Instance -> SUBSET Socket]
    BY <1>5 DEF Take, TypeOK, Recipients
  <2> QED  BY <1>5, <2>1, <2>2 DEF Take, TypeOK, Stages
<1>6. CASE FatalError(i) \/ StartTimeout(i)
  BY <1>6, RaiseType DEF TypeOK, FatalError, StartTimeout
<1>7. CASE Stop(i)
  BY <1>7 DEF TypeOK, Stop, Phases, Stages, Links
<1> QED
  BY <1>1, <1>2, <1>3, <1>4, <1>5, <1>6, <1>7 DEF Listen, Lifespan

(* Every step of a socket keeps the types.                                 *)
LEMMA SocketType ==
  ASSUME TypeOK, Reading, NEW s \in Socket, Handle(s) \/ SendTask(s)
  PROVE  TypeOK'
<1> USE PlacementAssumption DEF subscriber
<1>1. CASE Connect(s)
  BY <1>1 DEF TypeOK, Connect, Serving
<1>2. CASE Publish(s)
  <2>1. /\ log' \in Seq(User) /\ Len(log') = Len(log) + 1
        /\ Len(log) \in Nat
    BY <1>2 DEF Publish, TypeOK
  <2>2. /\ at' \in [Instance -> 0..Len(log')]
        /\ upto' \in [Instance -> 0..Len(log')]
        /\ joined' \in [Socket -> 0..Len(log')]
        /\ taken' \in [Instance -> SUBSET (1..Len(log'))]
    BY <1>2, <2>1 DEF Publish, TypeOK
  <2>3. inbox' \in [Socket -> Seq(1..Len(log'))]
    BY <1>2, <2>1 DEF Publish, TypeOK
  <2> QED  BY <1>2, <2>1, <2>2, <2>3 DEF Publish, TypeOK, Serving
<1>3. CASE Published(s) \/ PublishFails(s) \/ Reject(s) \/ Disconnect(s) \/ Leave(s)
  BY <1>3 DEF TypeOK, Published, PublishFails, Reject, Close, Disconnect, Leave,
              Serving
<1>4. CASE Send(s)
  <2>1. at[Home[s]] \in 1..Len(log)
    BY <1>4 DEF Send, TypeOK, Reading
  <2>2. inbox' \in [Socket -> Seq(1..Len(log))]
    BY <1>4, <2>1 DEF Send, TypeOK
  <2> QED  BY <1>4, <2>2 DEF Send, Remaining, TypeOK
<1>5. CASE SendDisconnected(s)
  BY <1>5 DEF SendDisconnected, Remaining, TypeOK
<1>6. CASE SendRefused(s)
  <2> DEFINE i == Home[s]
  <2>1. at[i] \in 1..Len(log)
    BY <1>6 DEF SendRefused, TypeOK, Reading
  <2>2. inbox' \in [Socket -> Seq(1..Len(log))]
    <3>1. PICK sent \in SUBSET Socket :
            inbox' = [t \in Socket |->
                        IF t \in sent THEN Append(inbox[t], at[i]) ELSE inbox[t]]
      BY <1>6, PlacementAssumption DEF SendRefused, TypeOK
    <3>2. \A t \in Socket : Append(inbox[t], at[i]) \in Seq(1..Len(log))
      BY <2>1 DEF TypeOK
    <3> QED  BY <3>1, <3>2 DEF TypeOK
  <2>3. Raise(i)  BY <1>6 DEF SendRefused
  <2> QED  BY <1>6, <2>2, <2>3, RaiseType DEF SendRefused, TypeOK
<1> QED
  BY <1>1, <1>2, <1>3, <1>4, <1>5, <1>6 DEF Handle, SendTask

LEMMA NextType == TypeOK /\ Reading /\ [Next]_vars => TypeOK'
<1> SUFFICES ASSUME TypeOK, Reading, [Next]_vars PROVE TypeOK'  OBVIOUS
<1>1. CASE UNCHANGED vars  BY <1>1 DEF vars, TypeOK
<1> QED  BY <1>1, InstanceType, SocketType DEF Next

-----------------------------------------------------------------------------
(* The lifecycle of a connection.                                          *)

(* An exception takes the instance out of every stage the invariant is     *)
(* about.                                                                  *)
LEMMA RaiseLifecycle ==
  ASSUME TypeOK, Lifecycle, NEW i \in Instance, Raise(i) \/ ConnectionError(i),
         sub[i] # "broadcasting" \/ Raise(i)
  PROVE  Lifecycle'
BY DEF TypeOK, Lifecycle, Raise, ConnectionError, Backoff

LEMMA NextLifecycle == TypeOK /\ Lifecycle /\ [Next]_vars => Lifecycle'
<1> SUFFICES ASSUME TypeOK, Lifecycle, [Next]_vars PROVE Lifecycle'  OBVIOUS
<1> USE PlacementAssumption
<1>1. ASSUME NEW i \in Instance,
             SubscribeFails(i) \/ ReadFails(i) \/ FatalError(i) \/ StartTimeout(i)
      PROVE  Lifecycle'
  BY <1>1, RaiseLifecycle DEF SubscribeFails, ReadFails, FatalError, StartTimeout
<1>2. ASSUME NEW i \in Instance,
             Subscribe(i) \/ Register(i) \/ Break(i) \/ Confirm(i)
      PROVE  Lifecycle'
  <2>1. CASE Subscribe(i)  BY <2>1 DEF TypeOK, Lifecycle, Subscribe
  <2>2. CASE Register(i)  BY <2>2 DEF TypeOK, Lifecycle, Register
  <2>3. CASE Break(i)  BY <2>3 DEF TypeOK, Lifecycle, Break
  <2>4. CASE Confirm(i)  BY <2>4 DEF TypeOK, Lifecycle, Confirm
  <2> QED  BY <1>2, <2>1, <2>2, <2>3, <2>4
<1>3. ASSUME NEW i \in Instance,
             Take(i) \/ Finish(i) \/ Reconnect(i) \/ Started(i) \/ Stop(i)
      PROVE  Lifecycle'
  <2>1. CASE Take(i)  BY <2>1 DEF TypeOK, Lifecycle, Take
  <2>2. CASE Finish(i)  BY <2>2 DEF TypeOK, Lifecycle, Finish
  <2>3. CASE Reconnect(i)  BY <2>3 DEF TypeOK, Lifecycle, Reconnect
  <2>4. CASE Started(i)  BY <2>4 DEF Lifecycle, Started
  <2>5. CASE Stop(i)  BY <2>5 DEF TypeOK, Lifecycle, Stop
  <2> QED  BY <1>3, <2>1, <2>2, <2>3, <2>4, <2>5
<1>4. ASSUME NEW s \in Socket, Handle(s) PROVE Lifecycle'
  BY <1>4 DEF Handle, Connect, Publish, Published, PublishFails, Reject, Close,
              Disconnect, Leave, subscriber, Lifecycle
<1>5. ASSUME NEW s \in Socket, Send(s) \/ SendDisconnected(s) PROVE Lifecycle'
  BY <1>5 DEF TypeOK, Lifecycle, Send, SendDisconnected, Remaining, subscriber
<1>6. ASSUME NEW s \in Socket, SendRefused(s) PROVE Lifecycle'
  BY <1>6, RaiseLifecycle DEF SendRefused, TypeOK
<1>7. CASE UNCHANGED vars  BY <1>7 DEF vars, Lifecycle
<1> QED
  BY <1>1, <1>2, <1>3, <1>4, <1>5, <1>6, <1>7 DEF Next, Listen, Lifespan, SendTask

-----------------------------------------------------------------------------
(* What a step does to the messages.  Most leave them alone, and at most   *)
(* take sockets out of a broadcast.                                        *)

Quiet ==
  /\ UNCHANGED <<log, at, inbox, taken>>
  /\ \A i \in Instance : pending'[i] \subseteq pending[i]

LEMMA RaiseQuiet ==
  ASSUME TypeOK, NEW i \in Instance, Raise(i) \/ ConnectionError(i)
  PROVE  /\ UNCHANGED <<at, taken>>
         /\ \A j \in Instance : pending'[j] \subseteq pending[j]
BY DEF TypeOK, Raise, ConnectionError, Backoff

LEMMA StepEffect ==
  ASSUME TypeOK, [Next]_vars
  PROVE  \/ Quiet
         \/ \E i \in Instance : Register(i) \/ Take(i)
         \/ \E s \in Socket : Publish(s) \/ Send(s) \/ SendRefused(s)
<1> USE PlacementAssumption DEF Quiet
<1>1. ASSUME NEW i \in Instance,
             SubscribeFails(i) \/ ReadFails(i) \/ FatalError(i) \/ StartTimeout(i)
      PROVE  Quiet
  BY <1>1, RaiseQuiet
     DEF SubscribeFails, ReadFails, FatalError, StartTimeout, sockets
<1>2. ASSUME NEW i \in Instance,
             \/ Subscribe(i) \/ Break(i) \/ Confirm(i) \/ Finish(i)
             \/ Reconnect(i) \/ Started(i) \/ Stop(i)
      PROVE  Quiet
  BY <1>2 DEF TypeOK, Subscribe, Break, Confirm, Finish, Reconnect, Started, Stop,
              sockets
<1>3. ASSUME NEW s \in Socket, Handle(s), ~ Publish(s) PROVE Quiet
  BY <1>3 DEF Handle, Connect, Published, PublishFails, Reject, Close, Disconnect,
              Leave, subscriber
<1>4. ASSUME NEW s \in Socket, SendDisconnected(s) PROVE Quiet
  BY <1>4 DEF TypeOK, SendDisconnected, Remaining, subscriber
<1>5. CASE UNCHANGED vars  BY <1>5 DEF vars
<1> QED
  BY <1>1, <1>2, <1>3, <1>4, <1>5 DEF Next, Listen, Lifespan, SendTask

LEMMA NextReading ==
  TypeOK /\ Lifecycle /\ Reading /\ [Next]_vars => Reading'
<1> SUFFICES ASSUME TypeOK, Lifecycle, Reading, [Next]_vars PROVE Reading'
  OBVIOUS
<1> USE PlacementAssumption DEF Reading
<1>1. CASE Quiet  BY <1>1 DEF Quiet
<1>2. ASSUME NEW i \in Instance, Register(i) PROVE Reading'
  <2>1. pending[i] = {}  BY <1>2 DEF Register, Lifecycle
  <2>2. at[i] \in Nat /\ at[i] <= Len(log) /\ at'[i] = Len(log)
    BY <1>2 DEF Register, TypeOK
  <2>3. taken'[i] \subseteq 1..at'[i]  BY <1>2, <2>2 DEF Register
  <2> QED  BY <1>2, <2>1, <2>3 DEF Register, TypeOK
<1>3. ASSUME NEW i \in Instance, Take(i) PROVE Reading'
  <2>1. at[i] \in Nat /\ at'[i] = at[i] + 1  BY <1>3 DEF Take, TypeOK
  <2>2. taken'[i] \subseteq 1..at'[i]  BY <1>3, <2>1 DEF Take, TypeOK
  <2>3. \A s \in pending'[i] :
          Home[s] = i /\ at'[i] > 0 /\ log'[at'[i]] = Owner[s]
    BY <1>3, <2>1 DEF Take, TypeOK, Recipients
  <2>4. \A j \in Instance \ {i} :
          at'[j] = at[j] /\ taken'[j] = taken[j] /\ pending'[j] = pending[j]
    BY <1>3 DEF Take, TypeOK
  <2> QED  BY <1>3, <2>2, <2>3, <2>4 DEF Take
<1>4. ASSUME NEW s \in Socket, Publish(s) PROVE Reading'
  <2>1. \A n \in 1..Len(log) : log'[n] = log[n]
    BY <1>4 DEF Publish, TypeOK
  <2> QED  BY <1>4, <2>1 DEF Publish, TypeOK
<1>5. ASSUME NEW s \in Socket, Send(s) PROVE Reading'
  BY <1>5 DEF Send, Remaining, TypeOK, subscriber
<1>6. ASSUME NEW s \in Socket, SendRefused(s) PROVE Reading'
  <2>1. /\ UNCHANGED <<log, at, taken>>
        /\ \A j \in Instance : pending'[j] \subseteq pending[j]
    BY <1>6, RaiseQuiet DEF SendRefused, TypeOK
  <2> QED  BY <2>1
<1> QED  BY <1>1, <1>2, <1>3, <1>4, <1>5, <1>6, StepEffect

-----------------------------------------------------------------------------
(* Order and ownership.                                                    *)

Ordered == Bounded /\ DeliveredInOrder

(* One more message at the end of a socket's, the last one its instance    *)
(* read and still due to it.                                               *)
LEMMA AppendDelivers ==
  ASSUME TypeOK, Reading, Ordered, NEW s \in Socket, s \in pending[Home[s]],
         NEW box, box = Append(inbox[s], at[Home[s]])
  PROVE  /\ \A m \in 1..Len(box) :
              /\ box[m] <= at[Home[s]]
              /\ log[box[m]] = Owner[s]
              /\ \A n \in 1..(m - 1) : box[n] < box[m]
<1> USE PlacementAssumption DEF TypeOK
<1>1. /\ inbox[s] \in Seq(1..Len(log)) /\ at[Home[s]] \in 1..Len(log)
      /\ log[at[Home[s]]] = Owner[s]
  BY DEF Reading
<1>2. /\ Len(box) = Len(inbox[s]) + 1 /\ Len(inbox[s]) \in Nat
      /\ \A m \in 1..Len(inbox[s]) : box[m] = inbox[s][m]
      /\ box[Len(box)] = at[Home[s]]
  BY <1>1
<1>3. \A m \in 1..Len(inbox[s]) :
        /\ inbox[s][m] < at[Home[s]] /\ log[inbox[s][m]] = Owner[s]
        /\ \A n \in 1..(m - 1) : inbox[s][n] < inbox[s][m]
  BY DEF Ordered, Bounded, DeliveredInOrder
<1>4. \A m \in 1..Len(inbox[s]) : inbox[s][m] \in Nat  BY <1>1
<1> QED  BY <1>1, <1>2, <1>3, <1>4

LEMMA NextOrdered ==
  TypeOK /\ Lifecycle /\ Reading /\ Ordered /\ [Next]_vars => Ordered'
<1> SUFFICES ASSUME TypeOK, Lifecycle, Reading, Ordered, [Next]_vars
             PROVE  Ordered'
  OBVIOUS
<1> USE PlacementAssumption DEF Ordered
<1>0. \A t \in Socket : \A m \in 1..Len(inbox[t]) : inbox[t][m] \in 1..Len(log)
  BY DEF TypeOK
<1>1. CASE Quiet
  BY <1>1 DEF Quiet, Bounded, DeliveredInOrder
<1>2. ASSUME NEW i \in Instance, Register(i) PROVE Ordered'
  <2>1. pending[i] = {}  BY <1>2 DEF Register, Lifecycle
  <2>2. /\ UNCHANGED <<log, inbox, pending>>
        /\ at[i] <= at'[i] /\ \A j \in Instance \ {i} : at'[j] = at[j]
    BY <1>2 DEF Register, TypeOK, sockets
  <2>3. \A t \in Socket : Home[t] = i =>
          \A m \in 1..Len(inbox[t]) : inbox[t][m] <= at'[i]
    BY <1>0, <1>2 DEF Register, TypeOK
  <2> QED  BY <2>1, <2>2, <2>3 DEF Bounded, DeliveredInOrder
<1>3. ASSUME NEW i \in Instance, Take(i) PROVE Ordered'
  <2>1. /\ UNCHANGED <<log, inbox>> /\ at[i] \in Nat /\ at'[i] = at[i] + 1
        /\ \A j \in Instance \ {i} : at'[j] = at[j] /\ pending'[j] = pending[j]
    BY <1>3 DEF Take, TypeOK, sockets
  <2>2. \A t \in Socket : Home[t] = i =>
          \A m \in 1..Len(inbox[t]) : inbox[t][m] < at'[i]
    BY <1>0, <2>1 DEF Bounded
  <2> QED  BY <1>0, <2>1, <2>2 DEF Bounded, DeliveredInOrder
<1>4. ASSUME NEW s \in Socket, Publish(s) PROVE Ordered'
  <2>1. \A n \in 1..Len(log) : log'[n] = log[n]
    BY <1>4 DEF Publish, TypeOK
  <2>2. UNCHANGED <<at, pending, inbox>>  BY <1>4 DEF Publish
  <2> QED  BY <1>0, <2>1, <2>2 DEF Bounded, DeliveredInOrder
<1>5. ASSUME NEW s \in Socket, Send(s) PROVE Ordered'
  <2>1. /\ UNCHANGED <<log, at>> /\ s \in pending[Home[s]]
        /\ inbox'[s] = Append(inbox[s], at[Home[s]])
        /\ \A t \in Socket \ {s} : inbox'[t] = inbox[t]
        /\ \A j \in Instance : pending'[j] \subseteq pending[j]
        /\ s \notin pending'[Home[s]]
    BY <1>5 DEF Send, Remaining, TypeOK, subscriber
  <2>2. \A m \in 1..Len(inbox'[s]) :
          /\ inbox'[s][m] <= at[Home[s]]
          /\ log[inbox'[s][m]] = Owner[s]
          /\ \A n \in 1..(m - 1) : inbox'[s][n] < inbox'[s][m]
    BY <2>1, AppendDelivers
  <2>3. \A t \in Socket \ {s} : t \in pending'[Home[t]] => t \in pending[Home[t]]
    BY <2>1
  <2>4. Bounded'
    BY <2>1, <2>2, <2>3 DEF Bounded
  <2>5. DeliveredInOrder'
    <3>1. ASSUME NEW t \in Socket \ {s}, NEW m \in 1..Len(inbox'[t])
          PROVE  /\ log'[inbox'[t][m]] = Owner[t]
                 /\ \A n \in 1..(m - 1) : inbox'[t][n] < inbox'[t][m]
      BY <2>1 DEF DeliveredInOrder
    <3> QED  BY <2>1, <2>2, <3>1 DEF DeliveredInOrder
  <2> QED  BY <2>4, <2>5
<1>6. ASSUME NEW s \in Socket, SendRefused(s) PROVE Ordered'
  <2> DEFINE i == Home[s]
  <2>1. /\ UNCHANGED <<log, at>> /\ pending'[i] = {}
        /\ \A j \in Instance \ {i} : pending'[j] = pending[j]
    BY <1>6 DEF SendRefused, Raise, TypeOK
  <2>2. PICK sent \in SUBSET pending[i] :
          inbox' = [t \in Socket |->
                      IF t \in sent THEN Append(inbox[t], at[i]) ELSE inbox[t]]
    BY <1>6 DEF SendRefused
  <2>3. ASSUME NEW t \in Socket
        PROVE  \A m \in 1..Len(inbox'[t]) :
                 /\ inbox'[t][m] <= at[Home[t]]
                 /\ log[inbox'[t][m]] = Owner[t]
                 /\ \A n \in 1..(m - 1) : inbox'[t][n] < inbox'[t][m]
    <3>1. CASE t \in sent
      <4>1. Home[t] = i /\ t \in pending[Home[t]]  BY <3>1 DEF Reading
      <4>2. inbox'[t] = Append(inbox[t], at[Home[t]])  BY <2>2, <3>1, <4>1
      <4> QED  BY <4>1, <4>2, AppendDelivers
    <3>2. CASE t \notin sent
      <4>1. inbox'[t] = inbox[t]  BY <2>2, <3>2
      <4> QED  BY <4>1 DEF Bounded, DeliveredInOrder
    <3> QED  BY <3>1, <3>2
  <2>4. ASSUME NEW t \in Socket, t \in pending'[Home[t]]
        PROVE  inbox'[t] = inbox[t] /\ t \in pending[Home[t]]
    <3>1. Home[t] # i /\ t \in pending[Home[t]]  BY <2>1, <2>4
    <3>2. t \notin sent  BY <3>1, <2>2 DEF Reading
    <3> QED  BY <2>2, <3>1, <3>2
  <2> QED  BY <2>1, <2>3, <2>4 DEF Bounded, DeliveredInOrder
<1> QED  BY <1>1, <1>2, <1>3, <1>4, <1>5, <1>6, StepEffect

-----------------------------------------------------------------------------
(* The registry.                                                           *)

LEMMA NextRegistry == TypeOK /\ RegistryIsServed /\ [Next]_vars => RegistryIsServed'
<1> SUFFICES ASSUME TypeOK, RegistryIsServed, [Next]_vars PROVE RegistryIsServed'
  OBVIOUS
<1> USE DEF TypeOK, RegistryIsServed, Serving
<1>1. ASSUME UNCHANGED <<registered, pc, conn>> PROVE RegistryIsServed'
  BY <1>1
<1>2. ASSUME NEW i \in Instance, Listen(i) \/ Lifespan(i) PROVE RegistryIsServed'
  BY <1>1, <1>2
     DEF Listen, Lifespan, Subscribe, SubscribeFails, Register, Break, Confirm,
         Take, Finish, ReadFails, FatalError, Reconnect, Started, StartTimeout,
         Stop, sockets
<1>3. ASSUME NEW s \in Socket, Connect(s) \/ Publish(s) \/ Published(s)
      PROVE  RegistryIsServed'
  <2>1. CASE Connect(s)  BY <2>1 DEF Connect
  <2>2. CASE Publish(s)  BY <2>2 DEF Publish
  <2>3. CASE Published(s)  BY <2>3 DEF Published
  <2> QED  BY <1>3, <2>1, <2>2, <2>3
<1>4. ASSUME NEW s \in Socket, PublishFails(s) \/ Reject(s) PROVE RegistryIsServed'
  BY <1>4 DEF PublishFails, Reject, Close
<1>5. ASSUME NEW s \in Socket, Disconnect(s) \/ Leave(s) PROVE RegistryIsServed'
  BY <1>5 DEF Disconnect, Leave
<1>6. ASSUME NEW s \in Socket, SendTask(s) PROVE RegistryIsServed'
  BY <1>1, <1>6 DEF SendTask, Send, SendDisconnected, SendRefused
<1>7. CASE UNCHANGED vars  BY <1>1, <1>7 DEF vars
<1> QED  BY <1>2, <1>3, <1>4, <1>5, <1>6, <1>7 DEF Next, Handle

-----------------------------------------------------------------------------
(* No gaps.                                                                *)

(* A step that reads no message and lets no socket join opens no gap, if   *)
(* what it takes out of a broadcast was sent or is excused.                *)
LEMMA KeepsUp ==
  ASSUME TypeOK, NoGaps, NEW s \in registered, conn[s] = "open",
         UNCHANGED <<at, taken, joined>>,
         \A n \in 1..Len(log) : log'[n] = log[n],
         Received(s) \subseteq Received(s)',
         InFlight(s) \subseteq InFlight(s)' \cup Received(s)'
  PROVE  Due(s)' \subseteq Received(s)' \cup InFlight(s)'
<1>1. s \in Socket /\ Home[s] \in Instance
  BY PlacementAssumption DEF TypeOK
<1>2. Due(s)' = Due(s)  BY <1>1 DEF Due, TypeOK
<1>3. Due(s) \subseteq Received(s) \cup InFlight(s)  BY DEF NoGaps
<1> QED  BY <1>2, <1>3

(* Steps that leave the broadcasts as they are, but for ending some.       *)
Steady ==
  /\ UNCHANGED <<log, at, taken, inbox, joined>>
  /\ \A j \in Instance :
       /\ sub[j] = "ended" => sub'[j] = "ended"
       /\ pending'[j] = pending[j] \/ sub'[j] = "ended"

LEMMA RaiseSteady ==
  ASSUME TypeOK, NEW i \in Instance,
         Raise(i) \/ (ConnectionError(i) /\ sub[i] # "ended"),
         UNCHANGED <<log, inbox, joined>>
  PROVE  Steady
BY DEF TypeOK, Steady, Raise, ConnectionError, Backoff

LEMMA InstanceSteady ==
  ASSUME TypeOK, NEW i \in Instance, Listen(i) \/ Lifespan(i),
         ~ Register(i), ~ Take(i)
  PROVE  Steady
<1>1. CASE SubscribeFails(i) \/ ReadFails(i) \/ FatalError(i) \/ StartTimeout(i)
  BY <1>1, RaiseSteady
     DEF SubscribeFails, ReadFails, FatalError, StartTimeout, sockets
<1>2. CASE Subscribe(i) \/ Break(i) \/ Confirm(i) \/ Finish(i) \/ Reconnect(i)
  BY <1>2 DEF TypeOK, Steady, Subscribe, Break, Confirm, Finish, Reconnect, sockets
<1>3. CASE Started(i) \/ Stop(i)
  BY <1>3 DEF TypeOK, Steady, Started, Stop, sockets
<1> QED  BY <1>1, <1>2, <1>3 DEF Listen, Lifespan

LEMMA SteadyKeepsUp ==
  ASSUME TypeOK, NoGaps, Steady, NEW s \in registered, conn[s] = "open"
  PROVE  Due(s)' \subseteq Received(s)' \cup InFlight(s)'
<1>1. s \in Socket /\ Home[s] \in Instance
  BY PlacementAssumption DEF TypeOK
<1>2. InFlight(s) \subseteq InFlight(s)' /\ Received(s)' = Received(s)
  BY <1>1 DEF Steady, InFlight, Received
<1> QED  BY <1>2, KeepsUp DEF Steady

(* Appending a message to what a socket was sent.                          *)
LEMMA AppendReceives ==
  ASSUME TypeOK, NEW t \in Socket, NEW n \in Nat, inbox'[t] = Append(inbox[t], n)
  PROVE  Received(t)' = Received(t) \cup {n}
<1>1. inbox[t] \in Seq(Nat)  BY DEF TypeOK
<1>2. /\ Len(inbox'[t]) = Len(inbox[t]) + 1 /\ Len(inbox[t]) \in Nat
      /\ \A m \in 1..Len(inbox[t]) : inbox'[t][m] = inbox[t][m]
      /\ inbox'[t][Len(inbox[t]) + 1] = n
  BY <1>1
<1> QED  BY <1>2 DEF Received

LEMMA NextNoGaps == Inv /\ [Next]_vars => NoGaps'
<1> SUFFICES ASSUME Inv, [Next]_vars,
                    NEW s \in registered', conn'[s] = "open"
             PROVE  Due(s)' \subseteq Received(s)' \cup InFlight(s)'
  BY DEF NoGaps
<1> USE PlacementAssumption DEF Inv
<1> DEFINE Goal == Due(s)' \subseteq Received(s)' \cup InFlight(s)'
           h == Home[s]
<1>0. s \in Socket /\ h \in Instance /\ at[h] \in Nat
  <2>1. registered' \in SUBSET Socket  BY NextType DEF TypeOK
  <2> QED  BY <2>1 DEF TypeOK
<1>1. ASSUME NEW i \in Instance, Listen(i) \/ Lifespan(i), ~ Register(i), ~ Take(i)
      PROVE  Goal
  <2>1. UNCHANGED sockets
    BY <1>1
       DEF Listen, Lifespan, Subscribe, SubscribeFails, Break, Confirm, Finish,
           ReadFails, FatalError, Reconnect, Started, StartTimeout, Stop
  <2>2. s \in registered /\ conn[s] = "open"  BY <2>1 DEF sockets
  <2> QED  BY <1>1, <2>2, InstanceSteady, SteadyKeepsUp
<1>2. ASSUME NEW i \in Instance, Register(i) PROVE Goal
  <2>1. /\ s \in registered /\ conn[s] = "open"
        /\ UNCHANGED <<log, sub, pending, taken, inbox, joined>>
    BY <1>2 DEF Register, sockets
  <2>2. /\ sub[i] = "listening" /\ pending[i] = {}
        /\ \A j \in Instance \ {i} : at'[j] = at[j]
    BY <1>2 DEF Register, Lifecycle, TypeOK
  <2>3. InFlight(s) \subseteq InFlight(s)'  BY <1>0, <2>1, <2>2 DEF InFlight
  <2>4. Due(s)' = Due(s) /\ Received(s)' = Received(s)
    BY <2>1 DEF Due, Received
  <2> QED  BY <2>1, <2>3, <2>4 DEF NoGaps
<1>3. ASSUME NEW i \in Instance, Take(i) PROVE Goal
  <2>1. /\ s \in registered /\ conn[s] = "open"
        /\ UNCHANGED <<log, inbox, joined>>
    BY <1>3 DEF Take, sockets
  <2>2. Due(s) \subseteq Received(s) \cup InFlight(s) /\ Received(s)' = Received(s)
    BY <2>1 DEF NoGaps, Received
  <2>3. CASE h # i
    <3>1. /\ at'[h] = at[h] /\ taken'[h] = taken[h] /\ sub'[h] = sub[h]
          /\ pending'[h] = pending[h]
      BY <1>0, <1>3, <2>3 DEF Take, TypeOK
    <3> QED  BY <2>1, <2>2, <3>1 DEF Due, InFlight
  <2>4. CASE h = i
    <3>1. InFlight(s) = {}
      BY <1>3, <2>4 DEF Take, Lifecycle, InFlight
    <3>2. Due(s)' \subseteq Due(s) \cup {n \in {at[i] + 1} : log[n] = Owner[s]}
      BY <1>0, <1>3, <2>1, <2>4 DEF Take, TypeOK, Due
    <3>3. log[at[i] + 1] = Owner[s] => InFlight(s)' = {at[i] + 1}
      BY <1>0, <1>3, <2>1, <2>4 DEF Take, TypeOK, Recipients, InFlight
    <3> QED  BY <2>2, <3>1, <3>2, <3>3
  <2> QED  BY <2>3, <2>4
<1>4. ASSUME NEW t \in Socket, Connect(t) PROVE Goal
  <2>1. CASE t = s
    <3>1. taken'[h] \subseteq 1..at[h] /\ joined'[s] = at[h]
      BY <1>0, <1>4, <2>1 DEF Connect, subscriber, Reading, TypeOK
    <3>2. Due(s)' = {}  BY <1>0, <3>1 DEF Due
    <3> QED  BY <3>2
  <2>2. CASE t # s
    <3>1. /\ s \in registered /\ conn[s] = "open" /\ joined'[s] = joined[s]
          /\ UNCHANGED <<log, at, taken, sub, pending, inbox>>
      BY <1>0, <1>4, <2>2 DEF Connect, subscriber, TypeOK
    <3>2. /\ Due(s)' = Due(s) /\ Received(s)' = Received(s)
          /\ InFlight(s)' = InFlight(s)
      BY <3>1 DEF Due, Received, InFlight
    <3> QED  BY <3>1, <3>2 DEF NoGaps
  <2> QED  BY <2>1, <2>2
<1>5. ASSUME NEW t \in Socket, Publish(t) PROVE Goal
  <2>1. /\ s \in registered /\ conn[s] = "open"
        /\ UNCHANGED <<at, taken, joined, sub, pending, inbox>>
    BY <1>5 DEF Publish
  <2>2. \A n \in 1..Len(log) : log'[n] = log[n]  BY <1>5 DEF Publish, TypeOK
  <2>3. InFlight(s)' = InFlight(s) /\ Received(s)' = Received(s)
    BY <2>1 DEF InFlight, Received
  <2> QED  BY <2>1, <2>2, <2>3, KeepsUp
<1>6. ASSUME NEW t \in Socket,
             Published(t) \/ PublishFails(t) \/ Reject(t) \/ Disconnect(t) \/ Leave(t)
      PROVE  Goal
  <2>1. s \in registered /\ conn[s] = "open"
    BY <1>0, <1>6
       DEF Published, PublishFails, Reject, Close, Disconnect, Leave, TypeOK
  <2>2. Steady
    BY <1>6 DEF Published, PublishFails, Reject, Close, Disconnect, Leave,
                Steady, subscriber
  <2> QED  BY <2>1, <2>2, SteadyKeepsUp
<1>7. ASSUME NEW t \in Socket, Send(t) PROVE Goal
  <2>1. /\ s \in registered /\ conn[s] = "open"
        /\ UNCHANGED <<log, at, taken, joined, sub>>
        /\ inbox'[t] = Append(inbox[t], at[Home[t]])
        /\ \A u \in Socket \ {t} : inbox'[u] = inbox[u]
        /\ \A j \in Instance : pending[j] \ {t} \subseteq pending'[j]
    BY <1>7 DEF Send, Remaining, TypeOK, subscriber
  <2>2. CASE t = s
    <3>1. Received(s)' = Received(s) \cup {at[h]}
      BY <1>0, <2>1, <2>2, AppendReceives
    <3>2. InFlight(s) \subseteq {at[h]}  BY DEF InFlight
    <3> QED  BY <2>1, <3>1, <3>2, KeepsUp
  <2>3. CASE t # s
    <3>1. Received(s)' = Received(s)  BY <1>0, <2>1, <2>3 DEF Received
    <3>2. InFlight(s) \subseteq InFlight(s)'
      BY <1>0, <2>1, <2>3 DEF InFlight
    <3> QED  BY <2>1, <3>1, <3>2, KeepsUp
  <2> QED  BY <2>2, <2>3
<1>8. ASSUME NEW t \in Socket, SendDisconnected(t) PROVE Goal
  <2>1. /\ s \in registered /\ conn[s] = "open" /\ t # s
        /\ UNCHANGED <<log, at, taken, joined, sub, inbox>>
        /\ \A j \in Instance : pending[j] \ {t} \subseteq pending'[j]
    BY <1>0, <1>8 DEF SendDisconnected, Remaining, TypeOK, subscriber
  <2>2. InFlight(s) \subseteq InFlight(s)' /\ Received(s)' = Received(s)
    BY <1>0, <2>1 DEF InFlight, Received
  <2> QED  BY <2>1, <2>2, KeepsUp
<1>9. ASSUME NEW t \in Socket, SendRefused(t) PROVE Goal
  <2> DEFINE i == Home[t]
  <2>1. /\ s \in registered /\ conn[s] = "open"
        /\ UNCHANGED <<log, at, taken, joined>>
        /\ sub'[i] = "ended"
        /\ \A j \in Instance \ {i} : sub'[j] = sub[j] /\ pending'[j] = pending[j]
    BY <1>9 DEF SendRefused, Raise, TypeOK
  <2>2. InFlight(s) \subseteq InFlight(s)'  BY <1>0, <2>1 DEF InFlight
  <2>3. Received(s) \subseteq Received(s)'
    <3>1. inbox'[s] = inbox[s] \/ inbox'[s] = Append(inbox[s], at[i])
      BY <1>0, <1>9 DEF SendRefused
    <3>2. at[i] \in Nat  BY DEF TypeOK
    <3>3. CASE inbox'[s] = inbox[s]  BY <3>3 DEF Received
    <3>4. CASE inbox'[s] = Append(inbox[s], at[i])
      BY <1>0, <3>2, <3>4, AppendReceives
    <3> QED  BY <3>1, <3>3, <3>4
  <2> QED  BY <2>1, <2>2, <2>3, KeepsUp
<1>10. CASE UNCHANGED vars
  <2>1. s \in registered /\ conn[s] = "open" /\ Steady
    BY <1>10 DEF vars, Steady
  <2> QED  BY <2>1, SteadyKeepsUp
<1> QED
  <2>1. \A i \in Instance : Listen(i) \/ Lifespan(i) => Goal
    BY <1>1, <1>2, <1>3
  <2>2. \A t \in Socket : Handle(t) \/ SendTask(t) => Goal
    BY <1>4, <1>5, <1>6, <1>7, <1>8, <1>9 DEF Handle, SendTask
  <2> QED  BY <1>10, <2>1, <2>2 DEF Next

-----------------------------------------------------------------------------
(* Orphans.                                                                *)

(* A server serves once its subscription was confirmed, and then a lost    *)
(* connection is retried.                                                  *)
Confirmed == \A i \in Instance : phase[i] = "serving" => once[i]

Closed(i) == \E s \in Socket : Home[s] = i /\ pc[s] \in {"closing", "ended"}

(* Only the exceptions that OnlyClosesOrphan names take a server that      *)
(* serves out of its lifespan.                                             *)
LEMMA OrphanedBy ==
  ASSUME TypeOK, Confirmed, [Next]_vars, NEW i \in Instance,
         phase[i] # "orphaned", phase'[i] = "orphaned"
  PROVE  "fatal" \in Events \/ Closed(i)'
<1> USE PlacementAssumption DEF TypeOK
<1>1. ASSUME NEW j \in Instance, SubscribeFails(j) \/ ReadFails(j) PROVE FALSE
  BY <1>1 DEF SubscribeFails, ReadFails, ConnectionError, Raise, Backoff, Confirmed
<1>2. ASSUME NEW j \in Instance, FatalError(j) PROVE "fatal" \in Events
  BY <1>2 DEF FatalError
<1>3. ASSUME NEW j \in Instance, StartTimeout(j) \/ Started(j) \/ Stop(j)
      PROVE  FALSE
  BY <1>3 DEF StartTimeout, Raise, Started, Stop
<1>4. ASSUME NEW s \in Socket, SendRefused(s) PROVE Closed(i)'
  BY <1>4 DEF SendRefused, Raise, Closed
<1>5. UNCHANGED phase => FALSE  OBVIOUS
<1> QED
  BY <1>1, <1>2, <1>3, <1>4, <1>5
     DEF Next, vars, Listen, Lifespan, Handle, SendTask, Subscribe, Register,
         Break, Confirm, Take, Finish, Reconnect, Connect, Publish, Published,
         PublishFails, Reject, Close, Disconnect, Leave, Send, SendDisconnected,
         subscriber

LEMMA NextConfirmed == TypeOK /\ Confirmed /\ [Next]_vars => Confirmed'
<1> SUFFICES ASSUME TypeOK, Confirmed, [Next]_vars PROVE Confirmed'  OBVIOUS
<1> USE DEF TypeOK, Confirmed
<1>1. ASSUME NEW i \in Instance,
             SubscribeFails(i) \/ ReadFails(i) \/ FatalError(i) \/ StartTimeout(i)
      PROVE  Confirmed'
  BY <1>1 DEF SubscribeFails, ReadFails, FatalError, StartTimeout, ConnectionError,
              Raise, Backoff
<1>2. ASSUME NEW i \in Instance, Confirm(i) \/ Started(i) \/ Stop(i)
      PROVE  Confirmed'
  <2>1. CASE Confirm(i)  BY <2>1 DEF Confirm
  <2>2. CASE Started(i)  BY <2>2 DEF Started
  <2>3. CASE Stop(i)  BY <2>3 DEF Stop
  <2> QED  BY <1>2, <2>1, <2>2, <2>3
<1>3. ASSUME NEW i \in Instance,
             \/ Subscribe(i) \/ Register(i) \/ Break(i) \/ Take(i) \/ Finish(i)
             \/ Reconnect(i)
      PROVE  Confirmed'
  BY <1>3 DEF Subscribe, Register, Break, Take, Finish, Reconnect
<1>4. ASSUME NEW s \in Socket, Handle(s) \/ SendTask(s) PROVE Confirmed'
  BY <1>4 DEF Handle, SendTask, Connect, Publish, Published, PublishFails, Reject,
              Close, Disconnect, Leave, Send, SendDisconnected, SendRefused, Raise,
              subscriber
<1> QED  BY <1>1, <1>2, <1>3, <1>4 DEF Next, vars, Listen, Lifespan

(* A socket that has begun to close stays closed.                          *)
LEMMA ClosedStays ==
  ASSUME TypeOK, [Next]_vars, NEW s \in Socket, pc[s] \in {"closing", "ended"}
  PROVE  pc'[s] \in {"closing", "ended"}
<1> USE DEF TypeOK
<1>1. ASSUME NEW i \in Instance, Listen(i) \/ Lifespan(i) PROVE pc' = pc
  BY <1>1 DEF Listen, Lifespan, Subscribe, SubscribeFails, Register, Break, Confirm,
              Take, Finish, ReadFails, FatalError, Reconnect, Started, StartTimeout,
              Stop, sockets
<1>2. ASSUME NEW t \in Socket, Handle(t) \/ SendTask(t)
      PROVE  pc'[s] \in {"closing", "ended"}
  BY <1>2 DEF Handle, SendTask, Connect, Publish, Published, PublishFails, Reject,
              Close, Disconnect, Leave, Send, SendDisconnected, SendRefused, Serving
<1> QED  BY <1>1, <1>2 DEF Next, vars

LEMMA NextOrphans ==
  TypeOK /\ Confirmed /\ OnlyClosesOrphan /\ [Next]_vars => OnlyClosesOrphan'
<1> SUFFICES ASSUME TypeOK, Confirmed, OnlyClosesOrphan, [Next]_vars,
                    "fatal" \notin Events, NEW i \in Instance, phase'[i] = "orphaned"
             PROVE  Closed(i)'
  BY DEF OnlyClosesOrphan, Closed
<1>1. CASE phase[i] = "orphaned"
  BY <1>1, ClosedStays DEF OnlyClosesOrphan, Closed
<1>2. CASE phase[i] # "orphaned"
  BY <1>2, OrphanedBy
<1> QED  BY <1>1, <1>2

-----------------------------------------------------------------------------
(* The theorems.                                                           *)

LEMMA NextInv == Inv /\ [Next]_vars => Inv'
BY NextType, NextLifecycle, NextReading, NextOrdered, NextRegistry, NextNoGaps
   DEF Inv, Ordered

LEMMA Invariance == Spec => []Inv
BY InitInv, NextInv, PTL DEF Spec

(* Every variable of Realtime keeps its type; in particular nothing is     *)
(* read that was not published, and the backoff keeps its bounds.          *)
THEOREM TypeCorrect == Spec => []TypeOK
BY Invariance, PTL DEF Inv

(* A socket is sent its own user's messages only, in the order of their    *)
(* publication, and none twice.                                            *)
THEOREM InOrder == Spec => []DeliveredInOrder
BY Invariance, PTL DEF Inv

(* The sockets the connection manager holds are those being served.        *)
THEOREM RegistryServed == Spec => []RegistryIsServed
BY Invariance, PTL DEF Inv

(* While its subscriber lives, an instance sends every message it reads to *)
(* every socket that is open for the message's user.                       *)
THEOREM Gapless == Spec => []NoGaps
BY Invariance, PTL DEF Inv

(* Without errors of Redis other than lost connections, a server that has  *)
(* started loses its subscriber only to a socket that closed.              *)
THEOREM OrphansOnlyByCloses == Spec => []OnlyClosesOrphan
<1>1. Init => Confirmed /\ OnlyClosesOrphan
  BY DEF Init, Confirmed, OnlyClosesOrphan
<1>2. Inv /\ Confirmed /\ OnlyClosesOrphan /\ [Next]_vars
        => Confirmed' /\ OnlyClosesOrphan'
  BY NextConfirmed, NextOrphans DEF Inv
<1> QED  BY <1>1, <1>2, Invariance, PTL DEF Spec

-----------------------------------------------------------------------------
(* No subscriber is stuck.                                                 *)

(* A server that starts or serves has a subscriber, ...                    *)
Attended ==
  \A i \in Instance : phase[i] \in {"starting", "serving"} <=> sub[i] # "ended"

(* ... which Redis owes all that was published since it subscribed, and    *)
(* whose connection is gone only if connections are lost at all; ...       *)
Connected ==
  \A i \in Instance :
    /\ at[i] <= upto[i]
    /\ link[i] = "up" => upto[i] = Len(log)
    /\ link[i] = "broken" => "redis" \in Events
    /\ link[i] = "down" /\ sub[i] = "listening" => "redis" \in Events

(* ... and a socket it has still to send to has had a handler.             *)
Handled == \A i \in Instance : \A s \in pending[i] : pc[s] # "none"

Alive == Attended /\ Connected /\ Handled

(* A step that is due to the subscriber of i, by the guards of Subscribe,  *)
(* Reconnect, Register, Confirm, Take, ReadFails, Finish and of the sends  *)
(* of a broadcast.                                                         *)
StepDue(i) ==
  \/ sub[i] \in {"connecting", "backoff"}
  \/ sub[i] = "listening" /\ link[i] = "sent"
  \/ sub[i] = "listening" /\ link[i] \in {"up", "broken"} /\ ~ ready[i]
  \/ sub[i] = "listening" /\ ready[i] /\ at[i] < upto[i]
  \/ sub[i] = "listening" /\ link[i] \in {"down", "broken"} /\ "redis" \in Events
  \/ sub[i] = "broadcasting" /\ pending[i] = {}
  \/ sub[i] = "broadcasting" /\ \E s \in pending[i] :
       Home[s] = i /\ pc[s] \in Serving \cup {"closing", "ended"}

(* Or it waits for a message on a connection that is up, and has taken all *)
(* that were published.                                                    *)
CaughtUp(i) ==
  sub[i] = "listening" /\ ready[i] /\ link[i] = "up" /\ at[i] = Len(log)

NeverStuck ==
  \A i \in Instance : phase[i] \in {"starting", "serving"} => StepDue(i) \/ CaughtUp(i)

(* An exception ends the subscriber and, with it, the lifespan.            *)
LEMMA RaiseAlive ==
  ASSUME TypeOK, Alive, NEW i \in Instance, sub[i] # "ended",
         Raise(i) \/ ConnectionError(i), UNCHANGED <<log, pc>>
  PROVE  Alive'
<1>1. CASE Raise(i)
  <2>1. Attended'  BY <1>1 DEF TypeOK, Alive, Attended, Raise
  <2>2. Connected'  BY <1>1 DEF TypeOK, Alive, Connected, Raise
  <2>3. Handled'  BY <1>1 DEF TypeOK, Alive, Handled, Raise
  <2> QED  BY <2>1, <2>2, <2>3 DEF Alive
<1>2. CASE Backoff(i)
  <2>1. Attended'  BY <1>2 DEF TypeOK, Alive, Attended, Backoff
  <2>2. Connected'  BY <1>2 DEF TypeOK, Alive, Connected, Backoff
  <2>3. Handled'  BY <1>2 DEF TypeOK, Alive, Handled, Backoff
  <2> QED  BY <2>1, <2>2, <2>3 DEF Alive
<1> QED  BY <1>1, <1>2 DEF ConnectionError

LEMMA ListenAlive ==
  ASSUME Inv, Alive, NEW i \in Instance, Listen(i) \/ Lifespan(i)
  PROVE  Alive'
<1> USE DEF Inv, sockets
<1>1. CASE SubscribeFails(i) \/ ReadFails(i) \/ FatalError(i) \/ StartTimeout(i)
  BY <1>1, RaiseAlive
     DEF SubscribeFails, ReadFails, FatalError, StartTimeout, Alive, Attended
<1>2. CASE Subscribe(i) \/ Reconnect(i)
  BY <1>2 DEF TypeOK, Alive, Attended, Connected, Handled, Subscribe, Reconnect
<1>3. CASE Register(i)
  BY <1>3 DEF TypeOK, Alive, Attended, Connected, Handled, Register
<1>4. CASE Break(i)
  BY <1>4 DEF TypeOK, Alive, Attended, Connected, Handled, Break
<1>5. CASE Confirm(i) \/ Started(i)
  BY <1>5 DEF TypeOK, Alive, Attended, Connected, Handled, Confirm, Started
<1>6. CASE Take(i)
  <2>1. \A s \in registered : pc[s] # "none"
    BY DEF RegistryIsServed, Serving
  <2>2. Handled'
    BY <1>6, <2>1 DEF TypeOK, Alive, Handled, Take, Recipients
  <2>3. Attended' /\ Connected'
    BY <1>6 DEF TypeOK, Alive, Attended, Connected, Take
  <2> QED  BY <2>2, <2>3 DEF Alive
<1>7. CASE Finish(i)
  <2>1. link[i] \in {"up", "broken"}
    BY <1>7 DEF Lifecycle, Finish
  <2> QED  BY <1>7, <2>1 DEF TypeOK, Alive, Attended, Connected, Handled, Finish
<1>8. CASE Stop(i)
  BY <1>8 DEF TypeOK, Alive, Attended, Connected, Handled, Stop
<1> QED  BY <1>1, <1>2, <1>3, <1>4, <1>5, <1>6, <1>7, <1>8 DEF Listen, Lifespan

LEMMA SocketAlive ==
  ASSUME Inv, Alive, NEW s \in Socket, Handle(s) \/ SendTask(s)
  PROVE  Alive'
<1> USE PlacementAssumption DEF Inv, subscriber
<1>1. CASE Publish(s)
  <2>1. Len(log') = Len(log) + 1  BY <1>1 DEF TypeOK, Publish
  <2>2. Connected'  BY <1>1, <2>1 DEF TypeOK, Alive, Connected, Publish
  <2>3. Attended' /\ Handled'  BY <1>1 DEF TypeOK, Alive, Attended, Handled, Publish
  <2> QED  BY <2>2, <2>3 DEF Alive
<1>2. CASE Handle(s) /\ ~ Publish(s)
  <2>1. UNCHANGED <<log, subscriber, pending>> /\ (pc' = pc \/ \E p : p # "none" /\ pc' = [pc EXCEPT ![s] = p])
    BY <1>2 DEF Handle, Connect, Published, PublishFails, Reject, Close, Disconnect, Leave
  <2> QED  BY <2>1 DEF TypeOK, Alive, Attended, Connected, Handled
<1>3. CASE Send(s) \/ SendDisconnected(s)
  BY <1>3 DEF TypeOK, Alive, Attended, Connected, Handled, Send, SendDisconnected, Remaining
<1>4. CASE SendRefused(s)
  <2>1. Home[s] \in Instance /\ sub[Home[s]] # "ended" /\ Raise(Home[s]) /\ UNCHANGED <<log, pc>>
    BY <1>4 DEF SendRefused, Lifecycle
  <2> QED  BY <2>1, RaiseAlive
<1> QED  BY <1>1, <1>2, <1>3, <1>4 DEF SendTask

(* A server that starts or serves has a subscriber with something to do,   *)
(* or with nothing left to do but wait: no lost connection, reconnect,     *)
(* confirmation or slow socket leaves it in a state without a next step,   *)
(* and one that waits has read every message.                              *)
THEOREM SubscribersGoOn == Spec => [](Attended /\ NeverStuck)
<1>1. Init => Alive
  BY DEF Init, Alive, Attended, Connected, Handled
<1>2. Inv /\ Alive /\ [Next]_vars => Alive'
  <2> SUFFICES ASSUME Inv, Alive, [Next]_vars  PROVE Alive'  OBVIOUS
  <2>1. CASE UNCHANGED vars
    BY <2>1 DEF vars, Alive, Attended, Connected, Handled
  <2> QED  BY <2>1, ListenAlive, SocketAlive DEF Next
<1>3. Inv /\ Alive => Attended /\ NeverStuck
  <2> SUFFICES ASSUME Inv, Alive, NEW i \in Instance, sub[i] # "ended"
               PROVE  StepDue(i) \/ CaughtUp(i)
    BY DEF Alive, Attended, NeverStuck
  <2>1. CASE sub[i] = "broadcasting"
    <3>1. \A s \in pending[i] : s \in Socket /\ Home[s] = i /\ pc[s] # "none"
      BY DEF Inv, TypeOK, Reading, Alive, Handled
    <3> QED  BY <2>1, <3>1 DEF StepDue, Inv, TypeOK
  <2>2. CASE sub[i] = "listening"
    <3>1. at[i] <= upto[i] /\ (link[i] = "up" => upto[i] = Len(log))
      BY DEF Alive, Connected
    <3>2. at[i] \in Nat /\ upto[i] \in Nat /\ link[i] \in Links /\ ready[i] \in BOOLEAN
      BY DEF Inv, TypeOK
    <3> QED  BY <2>2, <3>1, <3>2 DEF StepDue, CaughtUp, Alive, Connected, Links
  <2> QED  BY <2>1, <2>2 DEF StepDue, Inv, TypeOK, Stages
<1> QED  BY <1>1, <1>2, <1>3, Invariance, PTL DEF Spec
=============================================================================
