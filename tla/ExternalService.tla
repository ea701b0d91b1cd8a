--------------------------- MODULE ExternalService ---------------------------
(***************************************************************************)
(* GET /external/status: calls of one upstream service, each retried with  *)
(* a backoff inside a time budget, behind the circuit breaker they share   *)
(* (routers/external.py, external_service.py, retrying.py,                 *)
(* circuit_breaker.py).                                                    *)
(*                                                                         *)
(* The calls are coroutines of one event loop: they interleave at every    *)
(* await, and what a call does between two of them is one step.  A Call is *)
(* a slot: once its request is answered it may take another one.           *)
(*                                                                         *)
(* Time passes in ticks.  Of the breaker's opening time and of a call's    *)
(* deadline only what is left until they matter is kept.                   *)
(***************************************************************************)
EXTENDS Naturals

CONSTANTS
  Call,               \* the requests that can be served at the same time
  FailureThreshold,   \* external_service_failure_threshold
  RecoveryTimeout,    \* external_service_recovery_timeout
  TotalTimeout,       \* external_service_total_timeout
  MaxAttempts,        \* external_service_max_attempts
  BaseDelay,          \* external_service_base_delay
  MaxDelay,           \* external_service_max_delay
  Unexpected          \* whether an exception that is no HTTPError may occur

ASSUME BreakerAssumption ==
  /\ FailureThreshold \in Nat \ {0} /\ RecoveryTimeout \in Nat \ {0}
ASSUME RetryAssumption ==
  /\ TotalTimeout \in Nat \ {0} /\ MaxAttempts \in Nat \ {0}
  /\ BaseDelay \in Nat /\ MaxDelay \in Nat
ASSUME UnexpectedAssumption == Unexpected \in BOOLEAN

VARIABLES
  state,          \* _state of the breaker
  failureCount,   \* _failure_count
  cooldown,       \* ticks until _opened_at is recovery_timeout ago
  pc,             \* each call's await, or the answer to its last request
  attempt,        \* attempt_index of each call
  delay,          \* ticks a sleeping call has left to sleep
  left,           \* ticks left in each call's time budget
  probes          \* observer: the calls under way that were let through OPEN

breaker == <<state, failureCount, cooldown>>
vars    == <<state, failureCount, cooldown, pc, attempt, delay, left, probes>>

Answers  == {"available", "bad_gateway", "gateway_timeout",
             "service_unavailable", "server_error"}
UnderWay == {"requesting", "sleeping"}
InFlight == {c \in Call : pc[c] \in UnderWay}

-----------------------------------------------------------------------------
(* CircuitBreaker.                                                         *)

(* Mutant: an _open that leaves the opening time of an earlier failure.    *)
OpenKeepsTime == state' = "open" /\ UNCHANGED cooldown

Open == state' = "open" /\ cooldown' = RecoveryTimeout

(* Mutant: a success that closes the breaker but forgets to reset the count.*)
SuccessKeepsCount ==
  state' = "closed" /\ cooldown' = 0 /\ UNCHANGED failureCount

RecordSuccess ==
  state' = "closed" /\ failureCount' = 0 /\ cooldown' = 0

(* A late failure counts, and restarts the recovery of an open breaker.    *)
RecordFailure ==
  IF state = "half_open" THEN Open /\ UNCHANGED failureCount
  ELSE /\ failureCount' = failureCount + 1
       /\ IF failureCount + 1 >= FailureThreshold
          THEN Open ELSE UNCHANGED <<state, cooldown>>

-----------------------------------------------------------------------------
(* A call: fetch_external_status, as check_external_service answers it.    *)

Finish(c, answer) ==
  /\ pc' = [pc EXCEPT ![c] = answer]
  /\ attempt' = [attempt EXCEPT ![c] = 0]
  /\ delay' = [delay EXCEPT ![c] = 0]
  /\ left' = [left EXCEPT ![c] = 0]
  /\ probes' = probes \ {c}

Start(c) ==
  /\ pc' = [pc EXCEPT ![c] = "requesting"]
  /\ left' = [left EXCEPT ![c] = TotalTimeout]
  /\ UNCHANGED <<attempt, delay>>

(* before_call of a closed breaker, ...                                    *)
Admit(c) ==
  /\ pc[c] \notin UnderWay
  /\ state = "closed"
  /\ Start(c)
  /\ UNCHANGED <<breaker, probes>>

(* ... of one that has recovered, ...                                      *)
Probe(c) ==
  /\ pc[c] \notin UnderWay
  /\ state = "open" /\ cooldown = 0
  /\ state' = "half_open"
  /\ Start(c)
  /\ probes' = probes \cup {c}
  /\ UNCHANGED <<failureCount, cooldown>>

(* ... and of one that has not, or that waits for its probe.               *)
Refuse(c) ==
  /\ pc[c] \notin UnderWay
  /\ state = "open" => cooldown > 0
  /\ state # "closed"
  /\ Finish(c, "service_unavailable")
  /\ UNCHANGED breaker

Succeed(c) ==
  /\ pc[c] = "requesting"
  /\ RecordSuccess
  /\ Finish(c, "available")

(* The HTTPErrors of an attempt, by what they lead to: _is_retryable_http_ *)
(* error holds of a TimeoutException, and of a ConnectError or a status of *)
(* 502, 503 or 504 ("unavailable"); any other status is "refused".         *)
HTTPError == {"timeout", "unavailable", "refused"}
Retryable(e) == e # "refused"
AnswerTo(e) == IF e = "timeout" THEN "gateway_timeout" ELSE "bad_gateway"

(* Mutant: off by one.                                                     *)
PastLastAttempt(c) == attempt[c] = MaxAttempts

LastAttempt(c) == attempt[c] = MaxAttempts - 1

(* _full_jitter of the capped exponential delay.                           *)
Delays(i) == {d \in 0..MaxDelay : d <= BaseDelay * 2^i}

Fail(c) ==
  /\ pc[c] = "requesting"
  /\ \E e \in HTTPError :
       /\ ~ Retryable(e) \/ LastAttempt(c)
       /\ Finish(c, AnswerTo(e))
  /\ RecordFailure

Retry(c) ==
  /\ pc[c] = "requesting"
  /\ \E e \in HTTPError : Retryable(e) /\ ~ LastAttempt(c)
  /\ \E d \in Delays(attempt[c]) : delay' = [delay EXCEPT ![c] = d]
  /\ pc' = [pc EXCEPT ![c] = "sleeping"]
  /\ UNCHANGED <<breaker, attempt, left, probes>>

Wake(c) ==
  /\ pc[c] = "sleeping" /\ delay[c] = 0
  /\ pc' = [pc EXCEPT ![c] = "requesting"]
  /\ attempt' = [attempt EXCEPT ![c] = @ + 1]
  /\ UNCHANGED <<breaker, delay, left, probes>>

(* Mutants: a time budget for the backoff alone, and a                     *)
(* fetch_external_status that catches HTTPError only.                      *)
ExpireSleeping(c) ==
  /\ pc[c] = "sleeping" /\ left[c] = 0
  /\ RecordFailure
  /\ Finish(c, "gateway_timeout")
ExpireUnrecorded(c) ==
  /\ pc[c] \in UnderWay /\ left[c] = 0
  /\ UNCHANGED breaker
  /\ Finish(c, "gateway_timeout")

(* asyncio.timeout cancels the await: RetryBudgetExceededError.            *)
Expire(c) ==
  /\ pc[c] \in UnderWay /\ left[c] = 0
  /\ RecordFailure
  /\ Finish(c, "gateway_timeout")

(* An exception fetch_external_status does not catch: neither an outcome   *)
(* is recorded nor the breaker told that the call is over.                 *)
Escape(c) ==
  /\ Unexpected
  /\ pc[c] = "requesting"
  /\ Finish(c, "server_error")
  /\ UNCHANGED breaker

Proceed(c) ==
  \/ Succeed(c) \/ Fail(c) \/ Retry(c) \/ Wake(c) \/ Expire(c) \/ Escape(c)

Less(n) == IF n = 0 THEN 0 ELSE n - 1

(* Time passes, but no deadline is missed: what is due is run first.       *)
Tick ==
  /\ \A c \in InFlight : left[c] > 0
  /\ cooldown' = Less(cooldown)
  /\ left' = [c \in Call |-> Less(left[c])]
  /\ delay' = [c \in Call |-> Less(delay[c])]
  /\ UNCHANGED <<state, failureCount, pc, attempt, probes>>

Init ==
  /\ state = "closed" /\ failureCount = 0 /\ cooldown = 0
  /\ pc = [c \in Call |-> "available"]
  /\ attempt = [c \in Call |-> 0]
  /\ delay = [c \in Call |-> 0]
  /\ left = [c \in Call |-> 0]
  /\ probes = {}

Next ==
  \/ \E c \in Call : Admit(c) \/ Probe(c) \/ Refuse(c) \/ Proceed(c)
  \/ Tick

Spec == Init /\ [][Next]_vars

(* The clock runs, and the event loop runs a deadline that is due; the     *)
(* upstream service owes no answer.                                        *)
FairSpec ==
  /\ Spec
  /\ \A c \in Call : WF_vars(Expire(c))
  /\ WF_vars(Tick)

-----------------------------------------------------------------------------
(* Properties.                                                             *)

(* The type of every variable.  A call makes at most max_attempts attempts.*)
TypeOK ==
  /\ state \in {"closed", "open", "half_open"}
  /\ failureCount \in Nat
  /\ cooldown \in 0..RecoveryTimeout
  /\ pc \in [Call -> Answers \cup UnderWay]
  /\ attempt \in [Call -> 0..(MaxAttempts - 1)]
  /\ delay \in [Call -> 0..MaxDelay]
  /\ left \in [Call -> 0..TotalTimeout]
  /\ probes \in SUBSET InFlight

(* The breaker lets calls through exactly while fewer failures than the    *)
(* threshold came in since the last success, in whatever order the results *)
(* of calls admitted in other states of the breaker arrive.                *)
CountMatchesState ==
  (state = "closed") <=> (failureCount < FailureThreshold)

(* A breaker that is recovering tries one call at a time: with its probe   *)
(* under way there is no other call, so the result that closes it or opens *)
(* it again is the probe's; and at no time are two probes under way, though*)
(* an old call that fails may open a half-open breaker again.  It holds if *)
(* no call lasts as long as the recovery, which the settings do not        *)
(* enforce, so that those admitted before the failure have ended.          *)
ProbeRunsAlone ==
  TotalTimeout < RecoveryTimeout =>
    /\ state = "half_open" => \A c, d \in InFlight : c = d
    /\ \A c, d \in probes : c = d

(* Claimed by the error that refuses a call of a half-open breaker, and by *)
(* the test that expects it: a probe is in progress.                       *)
HalfOpenHasProbe == state = "half_open" => probes # {}

(* Every call is answered, however often it is retried and however long    *)
(* the upstream service takes.                                             *)
CallsEnd == \A c \in Call : pc[c] \in UnderWay ~> pc[c] \in Answers

(* A probe decides the half-open breaker: once it is answered the breaker  *)
(* is closed or open again, however long the upstream service takes, unless*)
(* an exception that is not caught has ended it.                           *)
ProbeDecides ==
  \A c \in Call : c \in probes ~>
    c \notin probes /\ (state = "half_open" => pc[c] = "server_error")
=============================================================================
