-------------------------- MODULE LoginLimit_proofs --------------------------
(***************************************************************************)
(* Proofs about LoginLimit, for any number of clients, processes and       *)
(* requests, any limit and window, and any grain of time.                  *)
(***************************************************************************)
EXTENDS LoginLimit, TLAPS

(* A counter exists while its window lasts, in Redis no longer.            *)
Counted ==
  \A d \in Decider, c \in Client :
    /\ left[d][c] > 0 => count[d][c] > 0
    /\ d = Redis /\ left[d][c] = 0 => count[d][c] = 0

-----------------------------------------------------------------------------
(* What a step does to one decider's window for one client.                *)

Same(d, c) ==
  /\ count'[d][c] = count[d][c] /\ left'[d][c] = left[d][c]
  /\ admitted'[d][c] = admitted[d][c] /\ tried'[d][c] = tried[d][c]
  /\ wait'[d][c] = wait[d][c]

Starts(d, c) ==
  /\ left[d][c] = 0 /\ left'[d][c] = Window /\ count'[d][c] = 1
  /\ tried'[d][c] = Push(tried[d][c])
  /\ admitted'[d][c] \in {admitted[d][c], Push(admitted[d][c])}
  /\ wait'[d][c] = NoWait

Continues(d, c) ==
  /\ left[d][c] > 0 /\ left'[d][c] = left[d][c] /\ count'[d][c] = count[d][c] + 1
  /\ tried'[d][c] = Push(tried[d][c])
  /\ \/ admitted'[d][c] = admitted[d][c]
     \/ count[d][c] < Limit /\ admitted'[d][c] = Push(admitted[d][c])

Told(d, c) ==
  \/ wait'[d][c] = wait[d][c]
  \/ d = Redis /\ wait'[d][c] = 1000 * AtLeastOne(TTL(left[d][c]))
  \/ d # Redis /\ wait'[d][c] = 1000 * AtLeastOne(Ceil(left[d][c]))

Refused(d, c) ==
  /\ left[d][c] > 0 /\ left'[d][c] = left[d][c] /\ count'[d][c] = count[d][c]
  /\ admitted'[d][c] = admitted[d][c] /\ tried'[d][c] = tried[d][c]

Forgets(d, c) ==
  /\ d # Redis
  /\ left'[d][c] = 0 /\ count'[d][c] = 0
  /\ admitted'[d][c] = [m \in 1..(2 * Limit) |-> Window]
  /\ tried'[d][c] = [m \in 1..Limit |-> Window]
  /\ wait'[d][c] = NoWait

Ages(d, c) ==
  /\ left'[d][c] = Less(left[d][c])
  /\ count'[d][c] = IF d = Redis /\ left'[d][c] = 0 THEN 0 ELSE count[d][c]
  /\ admitted'[d][c] = Older(admitted[d][c])
  /\ tried'[d][c] = Older(tried[d][c])
  /\ wait'[d][c] = IF wait[d][c] = NoWait THEN NoWait ELSE Less(wait[d][c])

Effect(d, c) ==
  \/ Same(d, c) \/ Starts(d, c) \/ Forgets(d, c) \/ Ages(d, c)
  \/ Continues(d, c) /\ Told(d, c)
  \/ Refused(d, c) /\ Told(d, c)

(* A check touches the window of its own decider and client alone.         *)
LEMMA ElsewhereKept ==
  ASSUME TypeOK, NEW d \in Decider, NEW c \in Client,
         NEW e \in Decider, NEW b \in Client, d # e \/ c # b
  PROVE  /\ \A starts : Count(e, b, starts) =>
              /\ count'[d][c] = count[d][c] /\ left'[d][c] = left[d][c]
              /\ tried'[d][c] = tried[d][c]
         /\ \A starts : Admit(e, b, starts) =>
              admitted'[d][c] = admitted[d][c] /\ wait'[d][c] = wait[d][c]
         /\ \A s : Refuse(e, b, s) =>
              admitted'[d][c] = admitted[d][c] /\ wait'[d][c] = wait[d][c]
<1> USE DEF TypeOK
<1>1. ASSUME NEW starts, Count(e, b, starts)
      PROVE  /\ count'[d][c] = count[d][c] /\ left'[d][c] = left[d][c]
             /\ tried'[d][c] = tried[d][c]
  <2>1. CASE d # e  BY <1>1, <2>1 DEF Count
  <2>2. CASE d = e /\ c # b  BY <1>1, <2>2 DEF Count
  <2> QED BY <2>1, <2>2
<1>2. ASSUME NEW starts, Admit(e, b, starts)
      PROVE  admitted'[d][c] = admitted[d][c] /\ wait'[d][c] = wait[d][c]
  <2>1. CASE d # e  BY <1>2, <2>1 DEF Admit
  <2>2. CASE d = e /\ c # b  BY <1>2, <2>2 DEF Admit
  <2> QED BY <2>1, <2>2
<1>3. ASSUME NEW s, Refuse(e, b, s)
      PROVE  admitted'[d][c] = admitted[d][c] /\ wait'[d][c] = wait[d][c]
  <2>1. CASE d # e  BY <1>3, <2>1 DEF Refuse
  <2>2. CASE d = e /\ c # b  BY <1>3, <2>2 DEF Refuse
  <2> QED BY <2>1, <2>2
<1> QED BY <1>1, <1>2, <1>3

(* A step counts, refuses, forgets or ages, or leaves a window alone.      *)
LEMMA StepEffect ==
  ASSUME TypeOK, Counted, [Next]_vars
  PROVE  \A d \in Decider, c \in Client : Effect(d, c)
<1> USE SettingsAssumption, InstanceAssumption
<1> TAKE d \in Decider, c \in Client
<1>0. /\ count[d][c] \in Nat /\ left[d][c] \in 0..Window
      /\ count \in [Decider -> [Client -> Nat]]
      /\ left \in [Decider -> [Client -> 0..Window]]
      /\ admitted \in [Decider -> [Client -> [1..(2 * Limit) -> 0..Window]]]
      /\ tried \in [Decider -> [Client -> [1..Limit -> 0..Window]]]
      /\ wait \in [Decider -> [Client -> {NoWait} \cup Nat]]
  <2>1. /\ count \in [Decider -> [Client -> Nat]]
        /\ left \in [Decider -> [Client -> 0..Window]]
        /\ admitted \in [Decider -> [Client -> [1..(2 * Limit) -> 0..Window]]]
        /\ tried \in [Decider -> [Client -> [1..Limit -> 0..Window]]]
        /\ wait \in [Decider -> [Client -> {NoWait} \cup Nat]]
    BY DEF TypeOK
  <2> QED BY <2>1
<1>00. Redis \in Decider /\ Instance \subseteq Decider
  BY DEF Decider
<1>w. Window \in Nat
  BY DEF Window
<1>c. left[d][c] > 0 => count[d][c] > 0
  BY DEF Counted
<1>a. ASSUME NEW e \in Client, Script(e), d # Redis \/ c # e
      PROVE  count'[d][c] = count[d][c] /\ left'[d][c] = left[d][c] /\ tried'[d][c] = tried[d][c]
  BY <1>00, <1>a, ElsewhereKept DEF Script
<1>1. ASSUME NEW e \in Client, Check(e) PROVE Effect(d, c)
  <2>1. CASE d # Redis \/ c # e
    <3>1. /\ count'[d][c] = count[d][c] /\ left'[d][c] = left[d][c]
          /\ tried'[d][c] = tried[d][c]
      BY <1>a, <1>1, <2>1 DEF Check
    <3>2. admitted'[d][c] = admitted[d][c] /\ wait'[d][c] = wait[d][c]
      BY <1>00, <1>1, <2>1, ElsewhereKept DEF Check
    <3> QED BY <3>1, <3>2 DEF Effect, Same
  <2>2. CASE d = Redis /\ c = e
    <3>1. /\ count'[d][c] = IF count[d][c] = 0 THEN 1 ELSE count[d][c] + 1
          /\ left'[d][c] = IF count[d][c] = 0 THEN Window ELSE left[d][c]
          /\ tried'[d][c] = Push(tried[d][c])
      BY <1>0, <1>1, <2>2 DEF Check, Script, Count
    <3>2. CASE count'[d][c] <= Limit
      <4>1. /\ admitted'[d][c] = Push(admitted[d][c])
            /\ wait'[d][c] = IF count[d][c] = 0 THEN NoWait ELSE wait[d][c]
        BY <1>0, <1>1, <2>2, <3>2 DEF Check, Admit
      <4>2. CASE count[d][c] = 0
        <5>1. left[d][c] = 0
          BY <1>0, <1>w, <1>c, <4>2
        <5> QED
          BY <3>1, <4>1, <4>2, <5>1 DEF Effect, Starts
      <4>3. CASE count[d][c] # 0
        <5>1. left[d][c] > 0
          BY <1>0, <2>2, <4>3 DEF Counted
        <5> QED
          BY <1>0, <3>1, <3>2, <4>1, <4>3, <5>1 DEF Effect, Continues, Told
      <4> QED BY <4>2, <4>3
    <3>3. CASE ~ (count'[d][c] <= Limit)
      <4>1. count[d][c] # 0
        BY <1>0, <3>1, <3>3
      <4>2. left[d][c] > 0 /\ left'[d][c] = left[d][c]
        BY <1>0, <2>2, <3>1, <4>1 DEF Counted
      <4>3. /\ admitted'[d][c] = admitted[d][c]
            /\ \/ wait'[d][c] = wait[d][c]
               \/ wait'[d][c] = 1000 * AtLeastOne(TTL(left[d][c]))
        BY <1>0, <1>1, <2>2, <3>3, <4>2 DEF Check, Refuse
      <4> QED
        BY <1>0, <2>2, <3>1, <4>1, <4>2, <4>3 DEF Effect, Continues, Told
    <3> QED BY <3>2, <3>3
  <2> QED BY <2>1, <2>2
<1>2. ASSUME NEW r \in Request, NEW e \in Client, NEW i \in Instance, CheckFails(r, e, i)
      PROVE  Effect(d, c)
  BY <1>2 DEF CheckFails, Effect, Same
<1>3. ASSUME NEW r \in Request, NEW e \in Client, NEW i \in Instance, CheckLost(r, e, i)
      PROVE  Effect(d, c)
  <2>1. CASE d # Redis \/ c # e
    <3>1. /\ count'[d][c] = count[d][c] /\ left'[d][c] = left[d][c]
          /\ tried'[d][c] = tried[d][c]
      BY <1>a, <1>3, <2>1 DEF CheckLost
    <3>2. admitted'[d][c] = admitted[d][c] /\ wait'[d][c] = wait[d][c]
      <4>1. CASE d # Redis
        BY <1>0, <1>3, <4>1 DEF CheckLost
      <4>2. CASE d = Redis /\ c # e
        BY <1>0, <1>3, <4>2 DEF CheckLost
      <4> QED BY <2>1, <4>1, <4>2
    <3> QED BY <3>1, <3>2 DEF Effect, Same
  <2>2. CASE d = Redis /\ c = e
    <3>1. /\ count'[d][c] = IF count[d][c] = 0 THEN 1 ELSE count[d][c] + 1
          /\ left'[d][c] = IF count[d][c] = 0 THEN Window ELSE left[d][c]
          /\ tried'[d][c] = Push(tried[d][c])
          /\ admitted' = admitted
          /\ wait'[d][c] = IF count[d][c] = 0 THEN NoWait ELSE wait[d][c]
      BY <1>0, <1>3, <2>2 DEF CheckLost, Script, Count
    <3>2. CASE count[d][c] = 0
      <4>1. left[d][c] = 0
        BY <1>0, <1>w, <1>c, <3>2
      <4> QED
        BY <3>1, <3>2, <4>1 DEF Effect, Starts
    <3>3. CASE count[d][c] # 0
      <4>1. left[d][c] > 0
        BY <1>0, <2>2, <3>3 DEF Counted
      <4> QED
        BY <1>0, <3>1, <3>3, <4>1 DEF Effect, Continues, Told
    <3> QED BY <3>2, <3>3
  <2> QED BY <2>1, <2>2
<1>4. ASSUME NEW r \in Request, FallBack(r) PROVE Effect(d, c)
  <2>1. PICK e \in Client, i \in Instance : LocalCheck(i, e)
    BY <1>4 DEF FallBack, TypeOK
  <2>2. CASE d # i \/ c # e
    <3>1. /\ count'[d][c] = count[d][c] /\ left'[d][c] = left[d][c]
          /\ tried'[d][c] = tried[d][c]
      BY <1>00, <2>1, <2>2, ElsewhereKept DEF LocalCheck
    <3>2. admitted'[d][c] = admitted[d][c] /\ wait'[d][c] = wait[d][c]
      BY <1>00, <2>1, <2>2, ElsewhereKept DEF LocalCheck
    <3> QED BY <3>1, <3>2 DEF Effect, Same
  <2>3. CASE d = i /\ c = e
    <3>0. d # Redis
      BY <2>3
    <3>1. CASE left[d][c] = 0
      BY <1>0, <2>1, <2>3, <3>1 DEF LocalCheck, Count, Admit, Effect, Starts
    <3>2. CASE left[d][c] # 0 /\ count[d][c] < Limit
      BY <1>0, <2>1, <2>3, <3>2 DEF LocalCheck, Count, Admit, Effect, Continues, Told
    <3>3. CASE left[d][c] # 0 /\ ~ (count[d][c] < Limit)
      BY <1>0, <2>1, <2>3, <3>0, <3>3 DEF LocalCheck, Refuse, Effect, Refused, Told
    <3> QED BY <3>1, <3>2, <3>3
  <2> QED BY <2>2, <2>3
<1>5. ASSUME NEW i \in Instance, Restart(i) PROVE Effect(d, c)
  <2>1. CASE d # i
    BY <1>0, <1>5, <2>1 DEF Restart, Effect, Same
  <2>2. CASE d = i
    BY <1>0, <1>5, <2>2 DEF Restart, Effect, Forgets, Zero, LongAgo, Unrefused
  <2> QED BY <2>1, <2>2
<1>6. ASSUME Tick PROVE Effect(d, c)
  BY <1>0, <1>6 DEF Tick, Effect, Ages
<1>7. ASSUME UNCHANGED vars PROVE Effect(d, c)
  BY <1>7 DEF vars, Effect, Same
<1> QED
  BY <1>1, <1>2, <1>3, <1>4, <1>5, <1>6, <1>7 DEF Next

-----------------------------------------------------------------------------
(* The arithmetic of a window.                                             *)

LEMMA WindowPositive == Window \in Nat /\ Window >= 1000
BY SettingsAssumption DEF Window

(* What an age and the time left are after one step of time.               *)
LEMMA AgeRises ==
  ASSUME NEW a \in Int, NEW w \in Int, NEW l \in Int, NEW t \in Int, a >= w - l
  PROVE  /\ a + t >= w - (l - t)
         /\ l <= t => a + t >= w
OBVIOUS

LEMMA AgeStaysBelow ==
  ASSUME NEW a \in Int, NEW w \in Int, NEW l \in Int, NEW t \in Int, a <= w - l
  PROVE  a + t <= w - (l - t)
OBVIOUS

LEMMA CappedAge ==
  ASSUME NEW a \in Int, NEW w \in Int, NEW t \in Int, t >= 0, a <= w,
         NEW b, b = IF a + t < w THEN a + t ELSE w
  PROVE  /\ b \in Int /\ b >= a /\ b <= a + t
         /\ b >= w \/ b = a + t
OBVIOUS

LEMMA PushType ==
  ASSUME NEW n \in Nat \ {0}, NEW ages \in [1..n -> 0..Window]
  PROVE  Push(ages) \in [1..n -> 0..Window]
BY WindowPositive DEF Push

LEMMA OlderType ==
  ASSUME NEW n \in Nat, NEW ages \in [1..n -> 0..Window]
  PROVE  Older(ages) \in [1..n -> 0..Window]
BY WindowPositive, GrainAssumption DEF Older

LEMMA LessType ==
  ASSUME NEW ms \in Nat
  PROVE  Less(ms) \in Nat /\ Less(ms) <= ms
BY GrainAssumption DEF Less

(* A Retry-After of Redis is at most half a second short and one long; that*)
(* of a process is not short.                                              *)
LEMMA RetryAfter ==
  ASSUME NEW ms \in Nat, ms > 0
  PROVE  /\ 1000 * AtLeastOne(TTL(ms)) \in Nat
         /\ ms <= 1000 * AtLeastOne(TTL(ms)) + 500
         /\ 1000 * AtLeastOne(TTL(ms)) <= ms + 1000
         /\ 1000 * AtLeastOne(Ceil(ms)) \in Nat
         /\ ms <= 1000 * AtLeastOne(Ceil(ms))
         /\ 1000 * AtLeastOne(Ceil(ms)) <= ms + 1000
BY DEF AtLeastOne, TTL, Ceil

-----------------------------------------------------------------------------
(* Types.                                                                  *)

Typed == TypeOK /\ Counted

LEMMA InitTyped == Init => Typed
<1> SUFFICES ASSUME Init PROVE Typed
  OBVIOUS
<1> USE SettingsAssumption, WindowPositive
<1>1. TypeOK
  BY DEF Init, TypeOK, Zero, LongAgo, Unrefused
<1>2. Counted
  BY DEF Init, Counted, Zero
<1> QED BY <1>1, <1>2 DEF Typed

(* What the parts of a check keep.                                         *)
LEMMA CountType ==
  ASSUME TypeOK, NEW d \in Decider, NEW c \in Client, NEW starts \in BOOLEAN,
         Count(d, c, starts)
  PROVE  /\ count' \in [Decider -> [Client -> Nat]]
         /\ left' \in [Decider -> [Client -> 0..Window]]
         /\ tried' \in [Decider -> [Client -> [1..Limit -> 0..Window]]]
<1>1. count' \in [Decider -> [Client -> Nat]]
  BY DEF TypeOK, Count
<1>2. left' \in [Decider -> [Client -> 0..Window]]
  BY WindowPositive DEF TypeOK, Count
<1>3. Push(tried[d][c]) \in [1..Limit -> 0..Window]
  <2>1. tried[d][c] \in [1..Limit -> 0..Window]
    BY DEF TypeOK
  <2> QED BY <2>1, PushType, SettingsAssumption
<1>4. tried' \in [Decider -> [Client -> [1..Limit -> 0..Window]]]
  BY <1>3 DEF TypeOK, Count
<1> QED BY <1>1, <1>2, <1>4

LEMMA AdmitType ==
  ASSUME TypeOK, NEW d \in Decider, NEW c \in Client, NEW starts \in BOOLEAN,
         Admit(d, c, starts)
  PROVE  /\ admitted' \in [Decider -> [Client -> [1..(2 * Limit) -> 0..Window]]]
         /\ wait' \in [Decider -> [Client -> {NoWait} \cup Nat]]
<1>1. Push(admitted[d][c]) \in [1..(2 * Limit) -> 0..Window]
  <2>1. admitted[d][c] \in [1..(2 * Limit) -> 0..Window]
    BY DEF TypeOK
  <2>2. 2 * Limit \in Nat \ {0}
    BY SettingsAssumption
  <2> QED BY <2>1, <2>2, PushType
<1>2. admitted' \in [Decider -> [Client -> [1..(2 * Limit) -> 0..Window]]]
  BY <1>1 DEF TypeOK, Admit
<1>3. wait' \in [Decider -> [Client -> {NoWait} \cup Nat]]
  BY DEF TypeOK, Admit
<1> QED BY <1>2, <1>3

LEMMA RefuseType ==
  ASSUME TypeOK, NEW d \in Decider, NEW c \in Client, NEW s, 1000 * s \in Nat,
         Refuse(d, c, s)
  PROVE  /\ admitted' \in [Decider -> [Client -> [1..(2 * Limit) -> 0..Window]]]
         /\ wait' \in [Decider -> [Client -> {NoWait} \cup Nat]]
BY DEF TypeOK, Refuse

LEMMA NextTypeOK ==
  ASSUME Typed, [Next]_vars
  PROVE  TypeOK'
<1>0. TypeOK /\ Counted
  BY DEF Typed
<1>d. Redis \in Decider /\ Instance \subseteq Decider
  BY DEF Decider
<1>1. ASSUME NEW c \in Client, Check(c) PROVE TypeOK'
  <2>1. Count(Redis, c, count[Redis][c] = 0)
    BY <1>1 DEF Check, Script
  <2>2. CASE count'[Redis][c] <= Limit
    BY <1>0, <1>1, <1>d, <2>1, <2>2, CountType, AdmitType DEF Check, TypeOK
  <2>3. CASE ~ (count'[Redis][c] <= Limit)
    <3>1. left'[Redis][c] \in Nat /\ left'[Redis][c] > 0
      <4>1. /\ count[Redis][c] \in Nat /\ left[Redis][c] \in 0..Window
            /\ left[Redis][c] = 0 => count[Redis][c] = 0
            /\ count'[Redis][c] = IF count[Redis][c] = 0 THEN 1 ELSE count[Redis][c] + 1
            /\ left'[Redis][c] = IF count[Redis][c] = 0 THEN Window ELSE left[Redis][c]
        BY <1>0, <1>d, <2>1 DEF TypeOK, Counted, Count
      <4> QED BY <4>1, WindowPositive
    <3>2. 1000 * AtLeastOne(TTL(left'[Redis][c])) \in Nat
      BY <3>1, RetryAfter
    <3>3. Refuse(Redis, c, AtLeastOne(TTL(left'[Redis][c])))
      BY <1>1, <2>3 DEF Check
    <3> QED
      BY <1>0, <1>1, <1>d, <2>1, <3>2, <3>3, CountType, RefuseType DEF Check, TypeOK
  <2> QED BY <2>2, <2>3
<1>2. ASSUME NEW r \in Request, NEW c \in Client, NEW i \in Instance, CheckFails(r, c, i)
      PROVE  TypeOK'
  BY <1>0, <1>2 DEF CheckFails, TypeOK
<1>3. ASSUME NEW r \in Request, NEW c \in Client, NEW i \in Instance, CheckLost(r, c, i)
      PROVE  TypeOK'
  <2>1. Count(Redis, c, count[Redis][c] = 0)
    BY <1>3 DEF CheckLost, Script
  <2>2. wait' \in [Decider -> [Client -> {NoWait} \cup Nat]]
    BY <1>0, <1>3 DEF CheckLost, TypeOK
  <2>3. fallback' \in [Request -> {NoCheck} \cup Client \X Instance]
    BY <1>0, <1>3 DEF CheckLost, TypeOK
  <2> QED
    BY <1>0, <1>3, <1>d, <2>1, <2>2, <2>3, CountType DEF CheckLost, TypeOK
<1>4. ASSUME NEW r \in Request, FallBack(r) PROVE TypeOK'
  <2>1. PICK c \in Client, i \in Instance : LocalCheck(i, c)
    BY <1>0, <1>4 DEF FallBack, TypeOK
  <2>2. fallback' \in [Request -> {NoCheck} \cup Client \X Instance]
    BY <1>0, <1>4 DEF FallBack, TypeOK
  <2>3. left[i][c] \in Nat
    BY <1>0, <1>d, WindowPositive DEF TypeOK
  <2>4. CASE left[i][c] = 0 \/ count[i][c] < Limit
    BY <1>0, <1>d, <2>1, <2>2, <2>4, CountType, AdmitType DEF LocalCheck, TypeOK
  <2>5. CASE ~ (left[i][c] = 0 \/ count[i][c] < Limit)
    <3>1. 1000 * AtLeastOne(Ceil(left[i][c])) \in Nat
      BY <2>3, <2>5, RetryAfter
    <3> QED
      BY <1>0, <1>d, <2>1, <2>2, <2>5, <3>1, RefuseType DEF LocalCheck, TypeOK
  <2> QED BY <2>4, <2>5
<1>5. ASSUME NEW i \in Instance, Restart(i) PROVE TypeOK'
  <2>1. /\ Zero \in [Client -> Nat] /\ Zero \in [Client -> 0..Window]
        /\ Unrefused \in [Client -> {NoWait} \cup Nat]
        /\ LongAgo(2 * Limit) \in [Client -> [1..(2 * Limit) -> 0..Window]]
        /\ LongAgo(Limit) \in [Client -> [1..Limit -> 0..Window]]
    BY WindowPositive DEF Zero, Unrefused, LongAgo
  <2>2. fallback' \in [Request -> {NoCheck} \cup Client \X Instance]
    BY <1>0, <1>5 DEF Restart, TypeOK
  <2> QED BY <1>0, <1>5, <1>d, <2>1, <2>2 DEF Restart, TypeOK
<1>6. ASSUME Tick PROVE TypeOK'
  <2>1. left' \in [Decider -> [Client -> 0..Window]]
    BY <1>0, <1>6, WindowPositive, LessType DEF Tick, TypeOK
  <2>2. count' \in [Decider -> [Client -> Nat]]
    BY <1>0, <1>6, <1>d DEF Tick, TypeOK
  <2>3. \A d \in Decider, c \in Client :
          /\ Older(admitted[d][c]) \in [1..(2 * Limit) -> 0..Window]
          /\ Older(tried[d][c]) \in [1..Limit -> 0..Window]
    <3> TAKE d \in Decider, c \in Client
    <3>1. /\ admitted[d][c] \in [1..(2 * Limit) -> 0..Window]
          /\ tried[d][c] \in [1..Limit -> 0..Window]
      BY <1>0 DEF TypeOK
    <3>2. 2 * Limit \in Nat /\ Limit \in Nat
      BY SettingsAssumption
    <3> QED BY <3>1, <3>2, OlderType
  <2>4. /\ admitted' \in [Decider -> [Client -> [1..(2 * Limit) -> 0..Window]]]
        /\ tried' \in [Decider -> [Client -> [1..Limit -> 0..Window]]]
    BY <1>6, <2>3 DEF Tick
  <2>5. wait' \in [Decider -> [Client -> {NoWait} \cup Nat]]
    BY <1>0, <1>6, LessType DEF Tick, TypeOK
  <2> QED BY <1>0, <1>6, <2>1, <2>2, <2>4, <2>5 DEF Tick, TypeOK
<1>7. ASSUME UNCHANGED vars PROVE TypeOK'
  BY <1>0, <1>7 DEF vars, TypeOK
<1> QED
  BY <1>1, <1>2, <1>3, <1>4, <1>5, <1>6, <1>7 DEF Next

LEMMA NextCounted ==
  ASSUME Typed, [Next]_vars
  PROVE  Counted'
<1> SUFFICES ASSUME NEW d \in Decider, NEW c \in Client
             PROVE  /\ left'[d][c] > 0 => count'[d][c] > 0
                    /\ d = Redis /\ left'[d][c] = 0 => count'[d][c] = 0
  BY DEF Counted
<1>1. Effect(d, c)
  BY StepEffect DEF Typed
<1>2. /\ count[d][c] \in Nat /\ left[d][c] \in Nat
      /\ left[d][c] > 0 => count[d][c] > 0
      /\ d = Redis /\ left[d][c] = 0 => count[d][c] = 0
  BY WindowPositive DEF Typed, TypeOK, Counted
<1>3. CASE Same(d, c) \/ Starts(d, c) \/ Forgets(d, c)
  BY <1>2, <1>3, WindowPositive DEF Same, Starts, Forgets
<1>4. CASE Continues(d, c) \/ Refused(d, c)
  BY <1>2, <1>4 DEF Continues, Refused
<1>5. CASE Ages(d, c)
  <2>1. left'[d][c] \in Nat /\ (left'[d][c] > 0 => left[d][c] > 0)
    BY <1>2, <1>5, LessType DEF Ages
  <2> QED BY <1>2, <1>5, <2>1 DEF Ages
<1> QED BY <1>1, <1>3, <1>4, <1>5 DEF Effect

(* Every reachable state has the types stated.                             *)
THEOREM TypeCorrect == Spec => []TypeOK
<1>1. Typed /\ [Next]_vars => Typed'
  BY NextTypeOK, NextCounted DEF Typed
<1> QED
  BY InitTyped, <1>1, PTL DEF Spec, Typed

-----------------------------------------------------------------------------
(* Admissions.                                                             *)

(* The requests a decider let through: those it counted in its window are  *)
(* younger than the window, those of the window before are at least as old,*)
(* and all but the last of each were let through a window ago.             *)
SpreadOut(d, c) ==
  \A n \in 1..(2 * Limit) :
    IF left[d][c] = 0 THEN n >= Limit => admitted[d][c][n] >= Window
    ELSE /\ n >= count[d][c] \/ n >= Limit => admitted[d][c][n] >= Window - left[d][c]
         /\ n >= count[d][c] + Limit \/ n = 2 * Limit => admitted[d][c][n] >= Window

Spread == \A d \in Decider, c \in Client : SpreadOut(d, c)

LEMMA NextSpread ==
  ASSUME Typed, Spread, [Next]_vars
  PROVE  Spread'
<1> USE SettingsAssumption
<1> SUFFICES ASSUME NEW d \in Decider, NEW c \in Client, NEW n \in 1..(2 * Limit)
             PROVE  IF left'[d][c] = 0 THEN n >= Limit => admitted'[d][c][n] >= Window
                    ELSE /\ n >= count'[d][c] \/ n >= Limit
                              => admitted'[d][c][n] >= Window - left'[d][c]
                         /\ n >= count'[d][c] + Limit \/ n = 2 * Limit
                              => admitted'[d][c][n] >= Window
  BY DEF Spread, SpreadOut
<1>1. Effect(d, c)
  BY StepEffect DEF Typed
<1>2. /\ count[d][c] \in Nat /\ left[d][c] \in 0..Window /\ Window \in Nat
      /\ Window >= 1000
      /\ admitted[d][c] \in [1..(2 * Limit) -> 0..Window]
      /\ left[d][c] > 0 => count[d][c] > 0
  BY WindowPositive DEF Typed, TypeOK, Counted
<1>3. \A m \in 1..(2 * Limit) :
        IF left[d][c] = 0 THEN m >= Limit => admitted[d][c][m] >= Window
        ELSE /\ m >= count[d][c] \/ m >= Limit
                  => admitted[d][c][m] >= Window - left[d][c]
             /\ m >= count[d][c] + Limit \/ m = 2 * Limit
                  => admitted[d][c][m] >= Window
  BY DEF Spread, SpreadOut
<1>4. Push(admitted[d][c])[n] = IF n = 1 THEN 0 ELSE admitted[d][c][n - 1]
  BY <1>2 DEF Push
<1>5. n # 1 => n - 1 \in 1..(2 * Limit)
  OBVIOUS
<1>6. CASE Same(d, c) \/ Refused(d, c)
  BY <1>2, <1>3, <1>6 DEF Same, Refused
<1>7. CASE Forgets(d, c)
  BY <1>2, <1>7 DEF Forgets
<1>8. CASE Starts(d, c)
  <2>1. CASE admitted'[d][c] = admitted[d][c]
    BY <1>2, <1>3, <1>8, <2>1 DEF Starts
  <2>2. CASE admitted'[d][c] = Push(admitted[d][c])
    <3>1. CASE n = 1
      BY <1>2, <1>4, <1>8, <2>2, <3>1 DEF Starts
    <3>2. CASE n # 1
      <4>1. n - 1 >= Limit => admitted[d][c][n - 1] >= Window
        BY <1>3, <1>5, <1>8, <3>2 DEF Starts
      <4>2. admitted[d][c][n - 1] >= 0
        BY <1>2, <1>5, <3>2
      <4> QED BY <1>2, <1>4, <1>8, <2>2, <3>2, <4>1, <4>2 DEF Starts
    <3> QED BY <3>1, <3>2
  <2> QED BY <1>8, <2>1, <2>2 DEF Starts
<1>9. CASE Continues(d, c)
  <2>1. CASE admitted'[d][c] = admitted[d][c]
    BY <1>2, <1>3, <1>9, <2>1 DEF Continues
  <2>2. CASE count[d][c] < Limit /\ admitted'[d][c] = Push(admitted[d][c])
    <3>1. CASE n = 1
      BY <1>2, <1>4, <1>9, <2>2, <3>1 DEF Continues
    <3>2. CASE n # 1
      <4>1. /\ n - 1 >= count[d][c] => admitted[d][c][n - 1] >= Window - left[d][c]
            /\ n - 1 >= count[d][c] + Limit => admitted[d][c][n - 1] >= Window
        BY <1>2, <1>3, <1>5, <1>9, <3>2 DEF Continues
      <4>2. /\ admitted'[d][c][n] = admitted[d][c][n - 1]
            /\ left'[d][c] = left[d][c] /\ left[d][c] > 0
            /\ count'[d][c] = count[d][c] + 1
        BY <1>4, <1>9, <2>2, <3>2 DEF Continues
      <4>3. n >= count'[d][c] \/ n >= Limit => n - 1 >= count[d][c]
        BY <1>2, <2>2, <4>2
      <4>4. n >= count'[d][c] + Limit \/ n = 2 * Limit => n - 1 >= count[d][c] + Limit
        BY <1>2, <2>2, <4>2
      <4> QED BY <1>2, <4>1, <4>2, <4>3, <4>4
    <3> QED BY <3>1, <3>2
  <2> QED BY <1>9, <2>1, <2>2 DEF Continues
<1>10. CASE Ages(d, c)
  <2>1. admitted[d][c][n] \in 0..Window
    BY <1>2
  <2>2. admitted'[d][c][n] = IF admitted[d][c][n] + TickMs < Window
                             THEN admitted[d][c][n] + TickMs ELSE Window
    BY <1>2, <1>10 DEF Ages, Older
  <2>3. left'[d][c] = IF left[d][c] <= TickMs THEN 0 ELSE left[d][c] - TickMs
    BY <1>10 DEF Ages, Less
  <2>4. left'[d][c] # 0 => count'[d][c] = count[d][c]
    BY <1>10 DEF Ages
  <2>5. /\ left[d][c] = 0 => (n >= Limit => admitted[d][c][n] >= Window)
        /\ left[d][c] # 0 =>
             /\ n >= count[d][c] \/ n >= Limit => admitted[d][c][n] >= Window - left[d][c]
             /\ n >= count[d][c] + Limit \/ n = 2 * Limit => admitted[d][c][n] >= Window
    BY <1>3
  <2>6. CASE left'[d][c] = 0
    <3>1. n >= Limit => admitted[d][c][n] >= Window - left[d][c]
      BY <1>2, <2>5
    <3>2. left[d][c] <= TickMs
      BY <1>2, <2>3, <2>6, GrainAssumption
    <3>3. n >= Limit => admitted'[d][c][n] >= Window
      <4>1. admitted[d][c][n] \in Int /\ Window \in Int /\ left[d][c] \in Int /\ TickMs \in Int
        BY <1>2, <2>1, GrainAssumption
      <4>2. n >= Limit => admitted[d][c][n] + TickMs >= Window
        BY <3>1, <3>2, <4>1, AgeRises
      <4> QED BY <2>2, <4>1, <4>2
    <3> QED BY <2>6, <3>3
  <2>7. CASE left'[d][c] # 0
    <3>1. left[d][c] # 0 /\ left'[d][c] = left[d][c] - TickMs
      BY <1>2, <2>3, <2>7, GrainAssumption
    <3>0. /\ admitted[d][c][n] \in Int /\ Window \in Int /\ admitted[d][c][n] <= Window
          /\ TickMs \in Int /\ TickMs >= 0
      BY <2>1, WindowPositive, GrainAssumption
    <3>2. /\ admitted'[d][c][n] >= admitted[d][c][n]
          /\ admitted'[d][c][n] >= Window \/ admitted'[d][c][n] = admitted[d][c][n] + TickMs
      BY <2>2, <3>0, CappedAge
    <3>3. admitted'[d][c][n] \in Int
      BY <2>2, <3>0, CappedAge
    <3>4. left'[d][c] \in Nat
      <4>1. left[d][c] \in Nat  BY <1>2
      <4> QED BY <1>10, <4>1, LessType DEF Ages
    <3>5. n >= count[d][c] \/ n >= Limit => admitted'[d][c][n] >= Window - left'[d][c]
      <4>1. admitted[d][c][n] \in Int /\ Window \in Int /\ left[d][c] \in Int /\ TickMs \in Int
        BY <1>2, <2>1, GrainAssumption
      <4>2. n >= count[d][c] \/ n >= Limit =>
              admitted[d][c][n] + TickMs >= Window - (left[d][c] - TickMs)
        BY <2>5, <3>1, <4>1, AgeRises
      <4>3. Window >= Window - left'[d][c]
        BY <3>4, <4>1
      <4>4. left'[d][c] = left[d][c] - TickMs
        BY <3>1
      <4> QED BY <3>2, <3>3, <3>4, <4>1, <4>2, <4>3, <4>4
    <3>6. n >= count[d][c] + Limit \/ n = 2 * Limit => admitted'[d][c][n] >= Window
      BY <1>2, <2>1, <2>5, <3>1, <3>2, <3>3
    <3> QED BY <2>4, <2>7, <3>5, <3>6
  <2> QED BY <2>6, <2>7
<1> QED BY <1>1, <1>6, <1>7, <1>8, <1>9, <1>10 DEF Effect

(* AdmissionsBounded: fewer than 2 * Limit requests get through each       *)
(* decider in any stretch of time as long as the window.                   *)
THEOREM AdmissionsAreBounded == Spec => []AdmissionsBounded
<1>1. Init => Spread
  BY WindowPositive, SettingsAssumption DEF Init, Spread, SpreadOut, Zero, LongAgo
<1>2. Typed /\ [Next]_vars => Typed'
  BY NextTypeOK, NextCounted DEF Typed
<1>3. Typed /\ Spread /\ [Next]_vars => Spread'
  BY NextSpread
<1>4. Spread => AdmissionsBounded
  <2> SUFFICES ASSUME Spread, NEW d \in Decider, NEW c \in Client
               PROVE  admitted[d][c][2 * Limit] >= Window
    BY DEF AdmissionsBounded
  <2>1. 2 * Limit \in 1..(2 * Limit) /\ 2 * Limit >= Limit
    BY SettingsAssumption
  <2> QED BY <2>1 DEF Spread, SpreadOut
<1> QED
  BY InitTyped, <1>1, <1>2, <1>3, <1>4, PTL DEF Spec

-----------------------------------------------------------------------------
(* Refusals.                                                               *)

(* The requests a window has counted were made in it.                      *)
Recent ==
  \A d \in Decider, c \in Client, n \in 1..Limit :
    left[d][c] > 0 /\ n <= count[d][c] => tried[d][c][n] <= Window - left[d][c]

LEMMA NextRecent ==
  ASSUME Typed, Recent, [Next]_vars
  PROVE  Recent'
<1> USE SettingsAssumption
<1> SUFFICES ASSUME NEW d \in Decider, NEW c \in Client, NEW n \in 1..Limit,
                    left'[d][c] > 0, n <= count'[d][c]
             PROVE  tried'[d][c][n] <= Window - left'[d][c]
  BY DEF Recent
<1>1. Effect(d, c)
  BY StepEffect DEF Typed
<1>2. /\ count[d][c] \in Nat /\ left[d][c] \in 0..Window /\ Window \in Nat
      /\ tried[d][c] \in [1..Limit -> 0..Window]
  BY WindowPositive DEF Typed, TypeOK
<1>3. \A m \in 1..Limit :
        left[d][c] > 0 /\ m <= count[d][c] => tried[d][c][m] <= Window - left[d][c]
  BY DEF Recent
<1>4. Push(tried[d][c])[n] = IF n = 1 THEN 0 ELSE tried[d][c][n - 1]
  BY <1>2 DEF Push
<1>5. n # 1 => n - 1 \in 1..Limit
  OBVIOUS
<1>6. CASE Same(d, c) \/ Refused(d, c)
  BY <1>2, <1>3, <1>6 DEF Same, Refused
<1>7. CASE Forgets(d, c)
  BY <1>2, <1>7 DEF Forgets
<1>8. CASE Starts(d, c)
  BY <1>2, <1>4, <1>8 DEF Starts
<1>9. CASE Continues(d, c)
  <2>1. CASE n = 1
    BY <1>2, <1>4, <1>9, <2>1 DEF Continues
  <2>2. CASE n # 1
    <3>1. tried[d][c][n - 1] <= Window - left[d][c]
      BY <1>2, <1>3, <1>5, <1>9, <2>2 DEF Continues
    <3> QED BY <1>2, <1>4, <1>9, <2>2, <3>1 DEF Continues
  <2> QED BY <2>1, <2>2
<1>10. CASE Ages(d, c)
  <2>1. left'[d][c] = left[d][c] - TickMs /\ left[d][c] > 0
    BY <1>2, <1>10, GrainAssumption DEF Ages, Less
  <2>2. count'[d][c] = count[d][c]
    BY <1>10 DEF Ages
  <2>3. tried[d][c][n] <= Window - left[d][c] /\ tried[d][c][n] \in 0..Window
    BY <1>2, <1>3, <2>1, <2>2
  <2>4. tried'[d][c][n] = IF tried[d][c][n] + TickMs < Window
                          THEN tried[d][c][n] + TickMs ELSE Window
    BY <1>2, <1>10 DEF Ages, Older
  <2>5. /\ left[d][c] \in Int /\ tried[d][c][n] \in Int /\ TickMs \in Int
        /\ Window \in Int /\ TickMs >= 0 /\ tried[d][c][n] <= Window
    BY <1>2, <2>3, GrainAssumption
  <2>6. tried'[d][c][n] <= tried[d][c][n] + TickMs /\ tried'[d][c][n] \in Int
    BY <2>4, <2>5, CappedAge
  <2>7. tried[d][c][n] + TickMs <= Window - (left[d][c] - TickMs)
    <3>1. tried[d][c][n] <= Window - left[d][c]
      BY <2>3
    <3> QED BY <2>5, <3>1, AgeStaysBelow
  <2>8. Window - (left[d][c] - TickMs) = Window - left'[d][c]
    BY <2>1
  <2>9. tried[d][c][n] + TickMs \in Int /\ Window - left'[d][c] \in Int
    BY <2>1, <2>5
  <2>10. tried[d][c][n] + TickMs <= Window - left'[d][c]
    BY <2>7, <2>8
  <2> QED BY <2>6, <2>9, <2>10
<1> QED BY <1>1, <1>6, <1>7, <1>8, <1>9, <1>10 DEF Effect

(* RefusalsAreEarned: whoever is refused made as many attempts as the limit*)
(* within the last window.                                                 *)
THEOREM RefusalsEarned == Spec => []RefusalsAreEarned
<1>1. Init => Recent
  BY WindowPositive DEF Init, Recent, Zero
<1>2. Typed /\ [Next]_vars => Typed'
  BY NextTypeOK, NextCounted DEF Typed
<1>3. Typed /\ Recent /\ [Next]_vars => Recent'
  BY NextRecent
<1>4. Typed /\ Recent => RefusalsAreEarned
  <2> SUFFICES ASSUME Typed, Recent, NEW d \in Decider, NEW c \in Client,
                      left[d][c] > 0, count[d][c] >= Limit
               PROVE  tried[d][c][Limit] < Window
    BY DEF RefusalsAreEarned
  <2>1. /\ left[d][c] \in 0..Window /\ tried[d][c][Limit] \in 0..Window
        /\ Limit \in 1..Limit /\ count[d][c] \in Nat
    BY SettingsAssumption DEF Typed, TypeOK
  <2>2. tried[d][c][Limit] <= Window - left[d][c]
    BY <2>1, SettingsAssumption DEF Recent
  <2> QED BY <2>1, <2>2, WindowPositive
<1> QED
  BY InitTyped, <1>1, <1>2, <1>3, <1>4, PTL DEF Spec

LEMMA NextHonest ==
  ASSUME Typed, RetryAfterHonest, [Next]_vars
  PROVE  RetryAfterHonest'
<1> DEFINE Slack(d) == IF d = Redis THEN 500 ELSE 0
<1> SUFFICES ASSUME NEW d \in Decider, NEW c \in Client, wait'[d][c] # NoWait
             PROVE  /\ left'[d][c] <= wait'[d][c] + Slack(d)
                    /\ wait'[d][c] <= left'[d][c] + 1000
  BY DEF RetryAfterHonest
<1>1. Effect(d, c)
  BY StepEffect DEF Typed
<1>2. left[d][c] \in Nat /\ wait[d][c] \in {NoWait} \cup Nat
  BY WindowPositive DEF Typed, TypeOK
<1>3. wait[d][c] # NoWait =>
        /\ left[d][c] <= wait[d][c] + Slack(d)
        /\ wait[d][c] <= left[d][c] + 1000
  BY DEF RetryAfterHonest
<1>4. CASE Same(d, c) \/ Starts(d, c) \/ Forgets(d, c)
  BY <1>3, <1>4 DEF Same, Starts, Forgets
<1>5. CASE (Continues(d, c) \/ Refused(d, c)) /\ Told(d, c)
  <2>1. left[d][c] > 0 /\ left'[d][c] = left[d][c]
    BY <1>5 DEF Continues, Refused
  <2>2. CASE wait'[d][c] = wait[d][c]
    BY <1>3, <2>1, <2>2
  <2>3. CASE d = Redis /\ wait'[d][c] = 1000 * AtLeastOne(TTL(left[d][c]))
    BY <1>2, <2>1, <2>3, RetryAfter
  <2>4. CASE d # Redis /\ wait'[d][c] = 1000 * AtLeastOne(Ceil(left[d][c]))
    BY <1>2, <2>1, <2>4, RetryAfter
  <2> QED BY <1>5, <2>2, <2>3, <2>4 DEF Told
<1>6. CASE Ages(d, c)
  <2>1. wait[d][c] # NoWait /\ wait'[d][c] = Less(wait[d][c])
    BY <1>6 DEF Ages
  <2>2. wait[d][c] \in Nat /\ left'[d][c] = Less(left[d][c])
    BY <1>2, <1>6, <2>1 DEF Ages
  <2>3. left[d][c] <= wait[d][c] + Slack(d) /\ wait[d][c] <= left[d][c] + 1000
    BY <1>3, <2>1
  <2>4. Slack(d) \in Nat
    OBVIOUS
  <2> HIDE DEF Slack
  <2> QED BY <1>2, <2>1, <2>2, <2>3, <2>4, GrainAssumption DEF Less
<1> QED BY <1>1, <1>4, <1>5, <1>6 DEF Effect

(* RetryAfterHonest: the Retry-After of a window's first refusal is neither*)
(* short, but for the half second of TTL, nor too long.                    *)
THEOREM HonestRetryAfter == Spec => []RetryAfterHonest
<1>1. Init => RetryAfterHonest
  BY DEF Init, RetryAfterHonest, Unrefused
<1>2. Typed /\ [Next]_vars => Typed'
  BY NextTypeOK, NextCounted DEF Typed
<1>3. Typed /\ RetryAfterHonest /\ [Next]_vars => RetryAfterHonest'
  BY NextHonest
<1> QED
  BY InitTyped, <1>1, <1>2, <1>3, PTL DEF Spec

-----------------------------------------------------------------------------
(* No client is locked out for good: the counter of Redis has an expiry    *)
(* whenever it is there, though the reply of the script that sets it may be*)
(* lost, ...                                                               *)
CountersExpire ==
  \A c \in Client : count[Redis][c] > 0 <=> left[Redis][c] \in 1..Window

(* ... and a window that runs is put off by no attempt, counted or refused,*)
(* and shortened by every tick.                                            *)
RunsOut ==
  \A d \in Decider, c \in Client : left[d][c] > 0 =>
    /\ left'[d][c] <= left[d][c]
    /\ Tick => left'[d][c] = Less(left[d][c])

WindowsRunOut == [][RunsOut]_vars

(* Whatever a client goes on trying and Redis loses, a window ends at most *)
(* its length after the attempt that opened it.                            *)
THEOREM NoLockout == Spec => []CountersExpire /\ WindowsRunOut
<1>1. Typed => CountersExpire
  BY DEF Typed, TypeOK, Counted, CountersExpire, Decider
<1>2. Typed /\ [Next]_vars => Typed'
  BY NextTypeOK, NextCounted DEF Typed
<1>3. Typed /\ [Next]_vars => [RunsOut]_vars
  <2> SUFFICES ASSUME Typed, [Next]_vars, NEW d \in Decider, NEW c \in Client,
                      left[d][c] > 0
               PROVE  /\ left'[d][c] <= left[d][c]
                      /\ Tick => left'[d][c] = Less(left[d][c])
    BY DEF RunsOut
  <2>1. left[d][c] \in Nat  BY WindowPositive DEF Typed, TypeOK
  <2>2. Effect(d, c)  BY StepEffect DEF Typed
  <2>3. left'[d][c] \in {0, left[d][c], Less(left[d][c])}
    BY <2>2 DEF Effect, Same, Starts, Forgets, Ages, Continues, Refused
  <2>4. left'[d][c] <= left[d][c]  BY <2>1, <2>3, LessType
  <2>5. Tick => left'[d][c] = Less(left[d][c])  BY DEF Tick
  <2> QED  BY <2>4, <2>5
<1> QED
  BY InitTyped, <1>1, <1>2, <1>3, PTL DEF Spec, WindowsRunOut
=============================================================================
