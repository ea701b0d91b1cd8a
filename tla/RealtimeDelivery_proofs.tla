------------------------ MODULE RealtimeDelivery_proofs ------------------------
(* Realtime implements Delivery, for every number of instances, sockets,   *)
(* users and messages: every step of it is a step of the relay or a        *)
(* stutter.                                                                *)
EXTENDS Realtime_proofs

Ended == {i \in Instance : sub[i] = "ended"}

(* The steps of the subscriber between two messages: nothing the relay     *)
(* promises has changed.                                                   *)
Unnoticed == UNCHANGED <<log, at, pending, registered, inbox, Ended>>

LEMMA UnnoticedStutters == Unnoticed => UNCHANGED Promise!vars
BY DEF Unnoticed, Promise!vars, Ended

(* An exception ends the relay, between two messages or in the middle of   *)
(* one.                                                                    *)
LEMMA RaiseEnds ==
  ASSUME TypeOK, NEW i \in Instance, NEW sent \in SUBSET pending[i],
         sub' = [sub EXCEPT ![i] = "ended"],
         pending' = [pending EXCEPT ![i] = {}],
         inbox' = [s \in Socket |->
                     IF s \in sent THEN Append(inbox[s], at[i]) ELSE inbox[s]],
         UNCHANGED <<log, at, registered>>
  PROVE  Promise!End(i)
<1>1. Ended' = Ended \cup {i}  BY DEF TypeOK, Ended
<1> QED  BY <1>1 DEF Promise!End, Ended

LEMMA RaiseQuietly ==
  ASSUME TypeOK, NEW i \in Instance, Raise(i), UNCHANGED <<log, registered, inbox>>
  PROVE  Promise!End(i)
<1>1. inbox' = [s \in Socket |->
                  IF s \in {} THEN Append(inbox[s], at[i]) ELSE inbox[s]]
  BY DEF TypeOK
<1>2. {} \in SUBSET pending[i]  OBVIOUS
<1> QED  BY <1>1, <1>2, RaiseEnds DEF Raise

LEMMA ErrorEndsOrHides ==
  ASSUME TypeOK, NEW i \in Instance, sub[i] # "ended", ConnectionError(i),
         UNCHANGED <<log, registered, inbox>>
  PROVE  Promise!End(i) \/ Unnoticed
<1>1. CASE Raise(i)  BY <1>1, RaiseQuietly
<1>2. CASE Backoff(i)  BY <1>2 DEF Backoff, TypeOK, Unnoticed, Ended
<1> QED  BY <1>1, <1>2 DEF ConnectionError

-----------------------------------------------------------------------------
(* The steps of an instance.                                               *)

LEMMA InstanceKeepsPromise ==
  ASSUME TypeOK, Lifecycle, NEW i \in Instance, Listen(i) \/ Lifespan(i)
  PROVE  Promise!Skip(i) \/ Promise!Take(i) \/ Promise!End(i) \/ Unnoticed
<1> USE DEF sockets
<1>1. CASE Subscribe(i) \/ Break(i) \/ Confirm(i) \/ Finish(i) \/ Reconnect(i)
  BY <1>1 DEF TypeOK, Subscribe, Break, Confirm, Finish, Reconnect, Unnoticed, Ended
<1>2. CASE SubscribeFails(i) \/ ReadFails(i)
  BY <1>2, ErrorEndsOrHides DEF SubscribeFails, ReadFails
<1>3. CASE FatalError(i) \/ StartTimeout(i)
  BY <1>3, RaiseQuietly DEF FatalError, StartTimeout
<1>4. CASE Register(i)
  <2>1. sub[i] = "listening" /\ pending[i] = {}
    BY <1>4 DEF Register, Lifecycle
  <2>2. Len(log) \in at[i]..Len(log)
    BY DEF TypeOK
  <2> QED  BY <1>4, <2>1, <2>2 DEF Register, Promise!Skip, Ended
<1>5. CASE Take(i)
  <2>1. sub[i] = "listening" /\ pending[i] = {}
    BY <1>5 DEF Take, Lifecycle
  <2>2. at[i] < Len(log)
    BY <1>5 DEF Take, TypeOK
  <2>3. Ended' = Ended
    BY <1>5 DEF Take, TypeOK, Ended
  <2> QED
    BY <1>5, <2>1, <2>2, <2>3 DEF Take, Recipients, Promise!Take, Ended
<1>6. CASE Started(i)
  BY <1>6 DEF Started, Unnoticed, Ended
<1>7. CASE Stop(i)
  <2>1. inbox' = [s \in Socket |->
                    IF s \in {} THEN Append(inbox[s], at[i]) ELSE inbox[s]]
    BY <1>7 DEF TypeOK, Stop
  <2>2. {} \in SUBSET pending[i]  OBVIOUS
  <2> QED  BY <1>7, <2>1, <2>2, RaiseEnds DEF Stop
<1> QED
  BY <1>1, <1>2, <1>3, <1>4, <1>5, <1>6, <1>7 DEF Listen, Lifespan

-----------------------------------------------------------------------------
(* The steps of a socket and of the sends to it.                           *)

LEMMA SocketKeepsPromise ==
  ASSUME TypeOK, NEW s \in Socket, Handle(s) \/ SendTask(s)
  PROVE  \/ Promise!Publish \/ Promise!Join(s) \/ Promise!Leave(s)
         \/ Promise!Send(s) \/ Promise!Expel(s)
         \/ \E i \in Instance : Promise!End(i)
         \/ Unnoticed
<1> USE PlacementAssumption DEF subscriber
<1>1. CASE Connect(s)
  BY <1>1 DEF Connect, Promise!Join
<1>2. CASE Publish(s)
  BY <1>2 DEF Publish, Promise!Publish
<1>3. CASE Published(s) \/ PublishFails(s) \/ Reject(s) \/ Leave(s)
  BY <1>3 DEF Published, PublishFails, Reject, Close, Leave, Unnoticed, Ended
<1>4. CASE Disconnect(s)
  BY <1>4 DEF Disconnect, Promise!Leave
<1>5. CASE Send(s)
  BY <1>5 DEF Send, Remaining, Promise!Send, Promise!Settle
<1>6. CASE SendDisconnected(s)
  BY <1>6 DEF SendDisconnected, Remaining, Promise!Expel, Promise!Settle
<1>7. CASE SendRefused(s)
  <2>1. PICK sent \in SUBSET pending[Home[s]] :
          inbox' = [t \in Socket |->
                      IF t \in sent THEN Append(inbox[t], at[Home[s]]) ELSE inbox[t]]
    BY <1>7 DEF SendRefused
  <2> QED  BY <1>7, <2>1, RaiseEnds DEF SendRefused, Raise
<1> QED
  BY <1>1, <1>2, <1>3, <1>4, <1>5, <1>6, <1>7 DEF Handle, SendTask

LEMMA StepKeepsPromise ==
  TypeOK /\ Lifecycle /\ [Next]_vars => [Promise!Next]_(Promise!vars)
<1> SUFFICES ASSUME TypeOK, Lifecycle, [Next]_vars
             PROVE  Promise!Next \/ UNCHANGED Promise!vars
  OBVIOUS
<1>1. ASSUME NEW i \in Instance, Listen(i) \/ Lifespan(i)
      PROVE  Promise!Next \/ Unnoticed
  BY <1>1, InstanceKeepsPromise DEF Promise!Next
<1>2. ASSUME NEW s \in Socket, Handle(s) \/ SendTask(s)
      PROVE  Promise!Next \/ Unnoticed
  BY <1>2, SocketKeepsPromise DEF Promise!Next
<1>3. ASSUME UNCHANGED vars PROVE Unnoticed
  BY <1>3 DEF vars, Unnoticed, Ended
<1> QED  BY <1>1, <1>2, <1>3, UnnoticedStutters DEF Next

LEMMA InitKeepsPromise == Init => Promise!Init
<1>1. Init => Ended = {}  BY DEF Init, Ended
<1> QED  BY <1>1 DEF Init, Promise!Init, Ended

(* The subscriber, its reconnects, the handlers and the sends implement the*)
(* relay: what an instance reads it sends to all members of the message's  *)
(* user, once and before the next message, until its relay ends.           *)
THEOREM ImplementsDelivery == Spec => KeepsPromise
<1>1. Inv => TypeOK /\ Lifecycle  BY DEF Inv
<1> QED
  BY <1>1, Invariance, InitKeepsPromise, StepKeepsPromise, PTL
     DEF Spec, KeepsPromise, Promise!Spec
=============================================================================
