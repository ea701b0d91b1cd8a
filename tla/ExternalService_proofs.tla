------------------------ MODULE ExternalService_proofs ------------------------
(* What holds of ExternalService for every number of calls and every       *)
(* setting.                                                                *)
EXTENDS ExternalService, Integers, TLAPS

-----------------------------------------------------------------------------
(* The types.                                                              *)

(* A call that sleeps has another attempt left.                            *)
AttemptsLeft ==
  \A c \in Call : pc[c] = "sleeping" => attempt[c] # MaxAttempts - 1

Typed == TypeOK /\ AttemptsLeft

(* Recording a result leaves the breaker well typed.                       *)
LEMMA RecordTyped ==
  ASSUME TypeOK, RecordSuccess \/ RecordFailure
  PROVE  /\ state' \in {"closed", "open", "half_open"}
         /\ failureCount' \in Nat /\ cooldown' \in 0..RecoveryTimeout
BY BreakerAssumption DEF TypeOK, RecordSuccess, RecordFailure, Open

(* Answering a request ends its call, and leaves the others as they are.   *)
LEMMA FinishTyped ==
  ASSUME Typed, NEW c \in Call, NEW answer \in Answers, Finish(c, answer)
  PROVE  /\ pc' \in [Call -> Answers \cup UnderWay]
         /\ attempt' \in [Call -> 0..(MaxAttempts - 1)]
         /\ delay' \in [Call -> 0..MaxDelay]
         /\ left' \in [Call -> 0..TotalTimeout]
         /\ InFlight' = InFlight \ {c}
         /\ probes' \in SUBSET (InFlight')
         /\ AttemptsLeft'
<1> USE DEF Typed, TypeOK, Finish
<1>1. /\ pc' \in [Call -> Answers \cup UnderWay]
      /\ attempt' \in [Call -> 0..(MaxAttempts - 1)]
      /\ delay' \in [Call -> 0..MaxDelay]
      /\ left' \in [Call -> 0..TotalTimeout]
  BY RetryAssumption
<1>2. InFlight' = InFlight \ {c}  BY DEF InFlight, Answers, UnderWay
<1>3. probes' \in SUBSET (InFlight')  BY <1>2
<1>4. AttemptsLeft'  BY DEF AttemptsLeft, Answers
<1> QED  BY <1>1, <1>2, <1>3, <1>4

LEMMA InitTyped == Init => Typed
BY BreakerAssumption, RetryAssumption
   DEF Init, Typed, TypeOK, AttemptsLeft, Answers

LEMMA NextTyped == Typed /\ [Next]_vars => Typed'
<1> SUFFICES ASSUME Typed, [Next]_vars PROVE Typed'  OBVIOUS
<1> USE DEF Typed
<1>1. ASSUME NEW c \in Call, Admit(c) \/ Probe(c) PROVE Typed'
  <2>1. Start(c) /\ probes' \in SUBSET (probes \cup {c})
    BY <1>1 DEF Admit, Probe
  <2>2. /\ pc' \in [Call -> Answers \cup UnderWay]
        /\ attempt' \in [Call -> 0..(MaxAttempts - 1)]
        /\ delay' \in [Call -> 0..MaxDelay]
        /\ left' \in [Call -> 0..TotalTimeout]
    BY <2>1, RetryAssumption DEF Start, TypeOK, UnderWay
  <2>3. probes' \in SUBSET (InFlight')
    BY <2>1 DEF Start, InFlight, UnderWay, TypeOK
  <2>4. AttemptsLeft'  BY <2>1 DEF Start, AttemptsLeft, TypeOK
  <2>5. /\ state' \in {"closed", "open", "half_open"}
        /\ failureCount' \in Nat /\ cooldown' \in 0..RecoveryTimeout
    BY <1>1 DEF Admit, Probe, breaker, TypeOK
  <2> QED  BY <2>2, <2>3, <2>4, <2>5 DEF TypeOK
<1>2. ASSUME NEW c \in Call, NEW answer \in Answers, Finish(c, answer),
             RecordSuccess \/ RecordFailure \/ UNCHANGED breaker
      PROVE  Typed'
  <2>1. /\ state' \in {"closed", "open", "half_open"}
        /\ failureCount' \in Nat /\ cooldown' \in 0..RecoveryTimeout
    BY <1>2, RecordTyped DEF breaker, TypeOK
  <2> QED  BY <1>2, <2>1, FinishTyped DEF TypeOK
<1>3. ASSUME NEW c \in Call,
             Refuse(c) \/ Succeed(c) \/ Fail(c) \/ Expire(c) \/ Escape(c)
      PROVE  Typed'
  BY <1>2, <1>3 DEF Refuse, Succeed, Fail, Expire, Escape, AnswerTo, Answers
<1>4. ASSUME NEW c \in Call, Retry(c) PROVE Typed'
  <2>1. delay' \in [Call -> 0..MaxDelay]
    BY <1>4 DEF Retry, Delays, TypeOK
  <2>2. pc' \in [Call -> Answers \cup UnderWay] /\ InFlight' = InFlight
    BY <1>4 DEF Retry, TypeOK, InFlight, UnderWay
  <2>3. AttemptsLeft'
    BY <1>4 DEF Retry, AttemptsLeft, LastAttempt, TypeOK
  <2> QED  BY <1>4, <2>1, <2>2, <2>3 DEF Retry, breaker, TypeOK
<1>5. ASSUME NEW c \in Call, Wake(c) PROVE Typed'
  <2>1. attempt' \in [Call -> 0..(MaxAttempts - 1)]
    BY <1>5, RetryAssumption DEF Wake, AttemptsLeft, TypeOK
  <2>2. pc' \in [Call -> Answers \cup UnderWay] /\ InFlight' = InFlight
    BY <1>5 DEF Wake, TypeOK, InFlight, UnderWay
  <2>3. AttemptsLeft'  BY <1>5 DEF Wake, AttemptsLeft, TypeOK
  <2> QED  BY <1>5, <2>1, <2>2, <2>3 DEF Wake, breaker, TypeOK
<1>6. CASE Tick
  <2>1. /\ cooldown' \in 0..RecoveryTimeout
        /\ \A n \in 0..TotalTimeout : Less(n) \in 0..TotalTimeout
        /\ \A n \in 0..MaxDelay : Less(n) \in 0..MaxDelay
    BY <1>6, BreakerAssumption, RetryAssumption DEF Tick, Less, TypeOK
  <2>2. left' \in [Call -> 0..TotalTimeout] /\ delay' \in [Call -> 0..MaxDelay]
    BY <1>6, <2>1 DEF Tick, TypeOK
  <2> QED  BY <1>6, <2>1, <2>2 DEF Tick, TypeOK, AttemptsLeft, InFlight
<1>7. CASE UNCHANGED vars
  BY <1>7 DEF vars, TypeOK, AttemptsLeft, InFlight
<1> QED  BY <1>1, <1>3, <1>4, <1>5, <1>6, <1>7 DEF Next, Proceed

(* Every variable keeps its type; no call makes an attempt too many.       *)
THEOREM TypeCorrect == Spec => []TypeOK
<1>1. Typed => TypeOK  BY DEF Typed
<1> QED  BY InitTyped, NextTyped, <1>1, PTL DEF Spec

LEMMA TypedAlways == Spec => []Typed
BY InitTyped, NextTyped, PTL DEF Spec

-----------------------------------------------------------------------------
(* The steps by what they do to the breaker and the calls under way.       *)

Ends(c)   == /\ InFlight' = InFlight \ {c} /\ probes' = probes \ {c}
             /\ left' = [left EXCEPT ![c] = 0]
Begins(c) == /\ c \notin InFlight /\ InFlight' = InFlight \cup {c}
             /\ left' = [left EXCEPT ![c] = TotalTimeout]

LEMMA StepEffect ==
  ASSUME Typed, [Next]_vars
  PROVE  \/ UNCHANGED <<breaker, InFlight, left, probes>>
         \/ Tick /\ InFlight' = InFlight
         \/ \E c \in Call : Admit(c) /\ Begins(c)
         \/ \E c \in Call : Probe(c) /\ Begins(c)
         \/ \E c \in InFlight : (RecordSuccess \/ RecordFailure) /\ Ends(c)
         \/ \E c \in Call : c \notin InFlight /\ UNCHANGED breaker /\ Ends(c)
         \/ \E c \in Call : Unexpected /\ UNCHANGED breaker /\ Ends(c)
<1> USE DEF Typed, TypeOK
<1>1. ASSUME NEW c \in Call, Start(c), pc[c] \notin UnderWay PROVE Begins(c)
  BY <1>1 DEF Start, Begins, InFlight, UnderWay
<1>2. ASSUME NEW c \in Call, NEW answer \in Answers, Finish(c, answer)
      PROVE  Ends(c)
  BY <1>2, FinishTyped DEF Finish, Ends
<1>3. ASSUME NEW c \in Call, Succeed(c) \/ Fail(c) \/ Expire(c)
      PROVE  c \in InFlight /\ (RecordSuccess \/ RecordFailure) /\ Ends(c)
  BY <1>2, <1>3 DEF Succeed, Fail, Expire, AnswerTo, Answers, InFlight, UnderWay
<1>4. ASSUME NEW c \in Call, Refuse(c)
      PROVE  c \notin InFlight /\ UNCHANGED breaker /\ Ends(c)
  BY <1>2, <1>4 DEF Refuse, Answers, InFlight
<1>5. ASSUME NEW c \in Call, Escape(c)
      PROVE  Unexpected /\ UNCHANGED breaker /\ Ends(c)
  BY <1>2, <1>5 DEF Escape, Answers
<1>6. ASSUME NEW c \in Call, Retry(c) \/ Wake(c)
      PROVE  UNCHANGED <<breaker, InFlight, left, probes>>
  BY <1>6 DEF Retry, Wake, InFlight, UnderWay
<1>7. CASE Tick
  BY <1>7 DEF Tick, InFlight
<1>8. CASE UNCHANGED vars
  BY <1>8 DEF vars, breaker, InFlight
<1>9. ASSUME NEW c \in Call, Admit(c) \/ Probe(c) PROVE Begins(c)
  BY <1>1, <1>9 DEF Admit, Probe
<1> QED  BY <1>3, <1>4, <1>5, <1>6, <1>7, <1>8, <1>9 DEF Next, Proceed

-----------------------------------------------------------------------------
(* The failure count decides whether the breaker is closed.                *)

LEMMA NextCount ==
  Typed /\ CountMatchesState /\ [Next]_vars => CountMatchesState'
<1> SUFFICES ASSUME Typed, CountMatchesState, [Next]_vars
             PROVE  CountMatchesState'
  OBVIOUS
<1> USE BreakerAssumption DEF CountMatchesState, Typed, TypeOK, breaker
<1>1. CASE RecordSuccess  BY <1>1 DEF RecordSuccess
<1>2. CASE RecordFailure  BY <1>2 DEF RecordFailure, Open
<1>3. CASE UNCHANGED <<state, failureCount>>  BY <1>3
<1>4. ASSUME NEW c \in Call, Probe(c) PROVE CountMatchesState'
  BY <1>4 DEF Probe
<1> QED  BY <1>1, <1>2, <1>3, <1>4, StepEffect DEF Tick, Admit

(* A breaker lets calls through exactly while its count is below threshold.*)
THEOREM CountDecides == Spec => []CountMatchesState
<1>1. Init => CountMatchesState
  BY BreakerAssumption DEF Init, CountMatchesState
<1> QED  BY <1>1, NextCount, TypedAlways, PTL DEF Spec

-----------------------------------------------------------------------------
(* A half-open breaker waits for a probe, if every exception is caught.    *)

LEMMA NextHasProbe ==
  ASSUME ~ Unexpected
  PROVE  Typed /\ HalfOpenHasProbe /\ [Next]_vars => HalfOpenHasProbe'
<1> SUFFICES ASSUME Typed, HalfOpenHasProbe, [Next]_vars
             PROVE  HalfOpenHasProbe'
  OBVIOUS
<1> USE DEF HalfOpenHasProbe, Typed, TypeOK, breaker
<1>1. CASE RecordSuccess  BY <1>1 DEF RecordSuccess
<1>2. CASE RecordFailure  BY <1>2 DEF RecordFailure, Open
<1>3. CASE UNCHANGED <<state, probes>>  BY <1>3
<1>4. ASSUME NEW c \in Call, Probe(c) PROVE HalfOpenHasProbe'
  BY <1>4 DEF Probe
<1>5. ASSUME NEW c \in Call, c \notin InFlight, UNCHANGED breaker, Ends(c)
      PROVE  HalfOpenHasProbe'
  BY <1>5 DEF Ends
<1> QED
  BY <1>1, <1>2, <1>3, <1>4, <1>5, StepEffect DEF Tick, Admit

(* No call is refused for the sake of a probe that is not there.           *)
THEOREM ProbeExists ==
  ASSUME ~ Unexpected
  PROVE  Spec => []HalfOpenHasProbe
<1>1. Init => HalfOpenHasProbe  BY DEF Init, HalfOpenHasProbe
<1> QED  BY <1>1, NextHasProbe, TypedAlways, PTL DEF Spec

-----------------------------------------------------------------------------
(* One probe at a time, if no call lasts as long as the recovery.          *)

(* The calls admitted before a failure opened the breaker end before it    *)
(* has recovered; a half-open breaker has its probe under way and no other *)
(* call; a breaker in another state has no probe.                          *)
Drains ==
  /\ state = "open" => \A c \in InFlight : left[c] < cooldown
  /\ state = "half_open" => \A c, d \in InFlight : c = d
  /\ state # "half_open" => probes = {}

LEMMA NextDrains ==
  ASSUME TotalTimeout < RecoveryTimeout
  PROVE  Typed /\ Drains /\ [Next]_vars => Drains'
<1> SUFFICES ASSUME Typed, Drains, [Next]_vars PROVE Drains'  OBVIOUS
<1> USE BreakerAssumption, RetryAssumption DEF Typed, TypeOK
<1>0. InFlight \subseteq Call  BY DEF InFlight
<1>1. CASE UNCHANGED <<breaker, InFlight, left, probes>>
  BY <1>1 DEF Drains, breaker
<1>2. CASE Tick /\ InFlight' = InFlight
  <2>1. /\ state' = state /\ probes' = probes
        /\ cooldown' = Less(cooldown)
        /\ \A c \in InFlight : left[c] > 0 /\ left'[c] = Less(left[c])
    BY <1>0, <1>2 DEF Tick
  <2> QED  BY <1>0, <1>2, <2>1 DEF Drains, Less
<1>3. ASSUME NEW c \in Call, Admit(c), Begins(c) PROVE Drains'
  BY <1>3 DEF Admit, Drains, breaker
<1>4. ASSUME NEW c \in Call, Probe(c), Begins(c) PROVE Drains'
  <2>1. /\ state = "open" /\ cooldown = 0 /\ state' = "half_open"
        /\ InFlight' = InFlight \cup {c}
    BY <1>4 DEF Probe, Begins
  <2>2. InFlight = {}
    BY <1>0, <2>1 DEF Drains
  <2> QED  BY <2>1, <2>2 DEF Drains
<1>5. ASSUME NEW c \in InFlight, RecordSuccess \/ RecordFailure, Ends(c)
      PROVE  Drains'
  <2>1. \A d \in InFlight' : d \in InFlight /\ d # c /\ left'[d] = left[d]
    BY <1>0, <1>5 DEF Ends
  <2>2. state' # "half_open"
    BY <1>5 DEF RecordSuccess, RecordFailure, Open
  <2>3. probes' = {}
    <3>1. CASE state = "half_open"
      <4>1. InFlight \subseteq {c}  BY <3>1 DEF Drains
      <4> QED  BY <1>5, <4>1 DEF Ends
    <3>2. CASE state # "half_open"
      BY <1>5, <3>2 DEF Ends, Drains
    <3> QED  BY <3>1, <3>2
  <2>4. ASSUME state' = "open", NEW d \in InFlight'
        PROVE  left'[d] < cooldown'
    <3>1. left'[d] = left[d] /\ left[d] <= TotalTimeout
      BY <1>0, <2>1, <2>4
    <3>2. CASE cooldown' = RecoveryTimeout  BY <1>0, <2>1, <3>1, <3>2
    <3>3. CASE state' = state /\ cooldown' = cooldown
      BY <2>1, <2>4, <3>3 DEF Drains
    <3> QED
      BY <1>5, <2>4, <3>2, <3>3 DEF RecordSuccess, RecordFailure, Open
  <2> QED  BY <2>2, <2>3, <2>4 DEF Drains
<1>6. ASSUME NEW c \in Call, UNCHANGED breaker, Ends(c) PROVE Drains'
  <2>1. \A d \in InFlight' : d \in InFlight /\ d # c /\ left'[d] = left[d]
    BY <1>0, <1>6 DEF Ends
  <2> QED  BY <1>6, <2>1 DEF Ends, Drains, breaker
<1> QED  BY <1>1, <1>2, <1>3, <1>4, <1>5, <1>6, StepEffect

LEMMA DrainsAlways ==
  ASSUME TotalTimeout < RecoveryTimeout
  PROVE  Spec => [](Typed /\ Drains)
<1>1. Init => Drains  BY DEF Init, Drains
<1> QED  BY <1>1, NextDrains, InitTyped, NextTyped, PTL DEF Spec

(* The result that decides a half-open breaker is that of its probe, and a *)
(* recovering breaker sends one probe.                                     *)
THEOREM ProbeAlone == Spec => []ProbeRunsAlone
<1>1. CASE TotalTimeout < RecoveryTimeout
  <2>1. Typed /\ Drains => ProbeRunsAlone
    BY DEF Typed, TypeOK, Drains, ProbeRunsAlone
  <2> QED  BY <1>1, <2>1, DrainsAlways, PTL
<1>2. CASE ~ (TotalTimeout < RecoveryTimeout)
  <2>1. ProbeRunsAlone  BY <1>2 DEF ProbeRunsAlone
  <2> QED  BY <2>1, PTL
<1> QED  BY <1>1, <1>2

-----------------------------------------------------------------------------
(* Every call runs down: its steps and its time budget are finite, and no  *)
(* step of another gives it any back.                                      *)

(* The requests and sleeps a call under way may still begin or end.        *)
StepsLeft(c) ==
  2 * (MaxAttempts - attempt[c]) - (IF pc[c] = "sleeping" THEN 1 ELSE 0)

RunsDown(c) ==
  c \in InFlight /\ c \in InFlight' =>
    /\ left'[c] <= left[c] /\ StepsLeft(c)' <= StepsLeft(c)
    /\ Tick => left'[c] = left[c] - 1
    /\ Proceed(c) => StepsLeft(c)' < StepsLeft(c)

CallsBounded ==
  \A c \in InFlight : StepsLeft(c) \in 1..(2 * MaxAttempts)

CallsRunDown == [][\A c \in Call : RunsDown(c)]_vars

(* Another call's step, and a moment in which nothing is due.              *)
LEMMA OthersRun ==
  ASSUME Typed, NEW c \in Call, c \in InFlight,
         pc'[c] = pc[c], attempt'[c] = attempt[c], left'[c] = left[c]
  PROVE  left'[c] <= left[c] /\ StepsLeft(c)' <= StepsLeft(c)
BY RetryAssumption DEF Typed, TypeOK, StepsLeft

LEMMA CallRunsDown ==
  ASSUME Typed, [Next]_vars, NEW c \in Call
  PROVE  RunsDown(c)
<1> SUFFICES ASSUME c \in InFlight, c \in InFlight'
             PROVE  /\ left'[c] <= left[c] /\ StepsLeft(c)' <= StepsLeft(c)
                    /\ Tick => left'[c] = left[c] - 1
                    /\ Proceed(c) => StepsLeft(c)' < StepsLeft(c)
  BY DEF RunsDown
<1> USE RetryAssumption DEF Typed, TypeOK
<1>0. pc[c] \in UnderWay /\ pc'[c] \in UnderWay  BY DEF InFlight
<1>1. ASSUME Proceed(c) PROVE /\ StepsLeft(c)' < StepsLeft(c)
                              /\ StepsLeft(c)' <= StepsLeft(c)
                              /\ left'[c] <= left[c] /\ ~ Tick
  <2>1. CASE Retry(c)
    BY <2>1 DEF Retry, StepsLeft, LastAttempt, Tick
  <2>2. CASE Wake(c)
    BY <2>2 DEF Wake, StepsLeft, Tick
  <2>3. CASE \E answer \in Answers : Finish(c, answer)
    BY <1>0, <2>3 DEF Finish, Answers, UnderWay
  <2> QED
    BY <1>1, <2>1, <2>2, <2>3
       DEF Proceed, Succeed, Fail, Expire, Escape, AnswerTo, Answers
<1>2. CASE Tick
  <2>1. left[c] > 0 /\ left'[c] = left[c] - 1  BY <1>2 DEF Tick, Less
  <2>2. StepsLeft(c)' <= StepsLeft(c)  BY <1>2 DEF Tick, StepsLeft
  <2>3. ~ Proceed(c)  BY <1>1, <1>2
  <2> QED  BY <2>1, <2>2, <2>3
<1>3. ASSUME NEW d \in Call, Admit(d) \/ Probe(d) \/ Refuse(d) \/ Proceed(d), d # c
      PROVE  pc'[c] = pc[c] /\ attempt'[c] = attempt[c] /\ left'[c] = left[c]
  BY <1>3 DEF Admit, Probe, Refuse, Start, Finish, Proceed, Succeed, Fail, Retry,
              Wake, Expire, Escape
<1>4. ASSUME Admit(c) \/ Probe(c) \/ Refuse(c) PROVE FALSE
  BY <1>0, <1>4 DEF Admit, Probe, Refuse
<1>5. CASE UNCHANGED vars /\ ~ Tick
  <2>1. pc'[c] = pc[c] /\ attempt'[c] = attempt[c] /\ left'[c] = left[c]
    BY <1>5 DEF vars
  <2>2. StepsLeft(c)' = StepsLeft(c)  BY <2>1 DEF StepsLeft
  <2>3. ~ Proceed(c)  BY <1>1, <2>2 DEF StepsLeft
  <2> QED  BY <1>5, <2>1, <2>3, OthersRun
<1>6. ASSUME NEW d \in Call, Admit(d) \/ Probe(d) \/ Refuse(d) \/ Proceed(d)
      PROVE  /\ left'[c] <= left[c] /\ StepsLeft(c)' <= StepsLeft(c)
             /\ Proceed(c) => StepsLeft(c)' < StepsLeft(c)
  <2>1. CASE d = c  BY <1>1, <1>4, <1>6, <2>1
  <2>2. CASE d # c  BY <1>1, <1>3, <1>6, <2>2, OthersRun
  <2> QED  BY <2>1, <2>2
<1> QED  BY <1>1, <1>2, <1>5, <1>6 DEF Next

(* A request makes at most max_attempts attempts, each with at most one    *)
(* sleep after it, and its time budget shrinks with every tick: it ends    *)
(* though the upstream service never answers.                              *)
THEOREM CallsAreBounded == Spec => []CallsBounded /\ CallsRunDown
<1>1. Typed => CallsBounded
  <2> SUFFICES ASSUME Typed, NEW c \in InFlight
               PROVE  StepsLeft(c) \in 1..(2 * MaxAttempts)
    BY DEF CallsBounded
  <2>1. /\ c \in Call /\ attempt[c] \in Nat /\ attempt[c] <= MaxAttempts - 1
        /\ pc[c] = "sleeping" => attempt[c] # MaxAttempts - 1
        /\ MaxAttempts \in Nat
    BY RetryAssumption DEF Typed, TypeOK, AttemptsLeft, InFlight
  <2> QED  BY <2>1 DEF StepsLeft
<1>2. Typed /\ [Next]_vars => [\A c \in Call : RunsDown(c)]_vars
  BY CallRunsDown
<1> QED  BY <1>1, <1>2, TypedAlways, PTL DEF Spec, CallsRunDown

(* While the breaker stays half-open its probe is the same, and the budget *)
(* of that probe shrinks with every tick.                                  *)
ProbeClock ==
  state = "half_open" /\ state' = "half_open" =>
    /\ probes' = probes
    /\ \A c \in probes : left'[c] <= left[c]
    /\ Tick => \A c \in probes : left'[c] = left[c] - 1

LEMMA ProbeTicks ==
  ASSUME ~ Unexpected, Typed, [Next]_vars
  PROVE  ProbeClock
<1> SUFFICES ASSUME state = "half_open", state' = "half_open"
             PROVE  /\ probes' = probes
                    /\ \A c \in probes : left'[c] <= left[c]
                    /\ Tick => \A c \in probes : left'[c] = left[c] - 1
  BY DEF ProbeClock
<1>0. probes \subseteq InFlight /\ InFlight \subseteq Call
  BY DEF Typed, TypeOK, InFlight
<1>1. probes' = probes
  <2>1. ~ (RecordSuccess \/ RecordFailure)
    BY DEF RecordSuccess, RecordFailure, Open
  <2>2. \A c \in Call : ~ Admit(c) /\ ~ Probe(c)  BY DEF Admit, Probe
  <2> QED  BY <1>0, <2>1, <2>2, StepEffect DEF Tick, Ends
<1>2. \A c \in probes : c \in Call /\ c \in InFlight /\ c \in InFlight'
  BY <1>0, <1>1, NextTyped DEF Typed, TypeOK
<1> QED  BY <1>1, <1>2, CallRunsDown DEF RunsDown

(* A breaker is half-open for no longer than external_service_total_timeout*)
(* if every exception is caught: it has a probe, keeps it until it is      *)
(* decided, and the probe's budget runs down.                              *)
THEOREM HalfOpenIsBrief ==
  ASSUME ~ Unexpected
  PROVE  Spec => [](state = "half_open" => \E c \in probes : left[c] <= TotalTimeout)
                 /\ [][ProbeClock]_vars
<1>1. Typed /\ HalfOpenHasProbe =>
        (state = "half_open" => \E c \in probes : left[c] <= TotalTimeout)
  BY DEF Typed, TypeOK, HalfOpenHasProbe, InFlight
<1>2. Typed /\ [Next]_vars => [ProbeClock]_vars
  BY ProbeTicks
<1> QED  BY <1>1, <1>2, TypedAlways, ProbeExists, PTL DEF Spec
=============================================================================
