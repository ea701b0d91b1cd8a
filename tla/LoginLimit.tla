------------------------------ MODULE LoginLimit ------------------------------
(***************************************************************************)
(* The limit on login attempts: a fixed window in Redis that all instances *)
(* share, and behind it a fixed window in each process for the checks that *)
(* Redis fails (redis_rate_limiting.py, rate_limiting.py,                  *)
(* rate_limit_dependencies.py).                                            *)
(*                                                                         *)
(* A window is known by the milliseconds it has left.  The counter in Redis*)
(* is gone at zero; the FixedWindow of a process stays, but is not used    *)
(* again.                                                                  *)
(***************************************************************************)
EXTENDS Integers

CONSTANTS
  Client,          \* client_host
  Instance,        \* the API processes
  Request,         \* slots: each serves one login after another
  Limit,           \* login_rate_limit
  WindowSeconds,   \* login_rate_window_seconds
  TickMs,          \* bound: the grain of time, in milliseconds
  MaxCount,        \* bound: no client is counted further in one window
  Faults           \* which of "redis" and "restart" may happen

Redis  == "redis"
Decider == Instance \cup {Redis}
Window == 1000 * WindowSeconds
NoWait == -1

ASSUME SettingsAssumption ==
  Limit \in Nat \ {0} /\ WindowSeconds \in Nat \ {0}
ASSUME GrainAssumption == TickMs \in Nat \ {0} /\ MaxCount \in Nat
ASSUME InstanceAssumption == Redis \notin Instance

VARIABLES
  count,      \* the requests each decider has counted for each client
  left,       \* milliseconds left in their window
  fallback,   \* the check of a slot that Redis failed: its client and instance
  admitted,   \* observer: age of the n-th last request of a client a decider
              \* let through, at most Window
  tried,      \* observer: the same of the requests it counted
  wait        \* observer: milliseconds left of the first Retry-After that a
              \* decider gave a client in its window

vars == <<count, left, fallback, admitted, tried, wait>>

NoCheck == <<>>

-----------------------------------------------------------------------------
(* Both windows.                                                           *)

Push(ages) == [n \in DOMAIN ages |-> IF n = 1 THEN 0 ELSE ages[n - 1]]

(* Mutant: a new window that goes on with the old count.                   *)
CountKept(d, c, starts) ==
  /\ count' = [count EXCEPT ![d][c] = @ + 1]
  /\ left' = [left EXCEPT ![d][c] = IF starts THEN Window ELSE @]
  /\ tried' = [tried EXCEPT ![d][c] = Push(@)]

(* A request is counted, in a window that may begin with it.               *)
Count(d, c, starts) ==
  /\ count' = [count EXCEPT ![d][c] = IF starts THEN 1 ELSE @ + 1]
  /\ left' = [left EXCEPT ![d][c] = IF starts THEN Window ELSE @]
  /\ tried' = [tried EXCEPT ![d][c] = Push(@)]

(* A refusal with a Retry-After of s seconds.                              *)
Refuse(d, c, s) ==
  /\ wait' = [wait EXCEPT ![d][c] = IF @ = NoWait THEN 1000 * s ELSE @]
  /\ UNCHANGED admitted

Admit(d, c, starts) ==
  /\ admitted' = [admitted EXCEPT ![d][c] = Push(@)]
  /\ wait' = [wait EXCEPT ![d][c] = IF starts THEN NoWait ELSE @]

AtLeastOne(s) == IF s < 1 THEN 1 ELSE s

-----------------------------------------------------------------------------
(* RedisFixedWindowRateLimiter.check.                                      *)

(* Mutants: EXPIRE with milliseconds, and EXPIRE for every request.        *)
ScriptInMilliseconds(c) ==
  /\ count[Redis][c] < MaxCount
  /\ count' = [count EXCEPT ![Redis][c] = @ + 1]
  /\ left' = [left EXCEPT ![Redis][c] = IF @ = 0 THEN 1000 * Window ELSE @]
  /\ tried' = [tried EXCEPT ![Redis][c] = Push(@)]
ScriptExtends(c) ==
  /\ count[Redis][c] < MaxCount
  /\ count' = [count EXCEPT ![Redis][c] = @ + 1]
  /\ left' = [left EXCEPT ![Redis][c] = Window]
  /\ tried' = [tried EXCEPT ![Redis][c] = Push(@)]

(* FIXED_WINDOW_SCRIPT: INCR, and EXPIRE if the counter is new.            *)
Script(c) ==
  /\ count[Redis][c] < MaxCount
  /\ Count(Redis, c, count[Redis][c] = 0)

(* TTL, as Redis rounds it.                                                *)
TTL(ms) == (ms + 500) \div 1000

(* The script ran and its reply arrived.                                   *)
Check(c) ==
  /\ Script(c)
  /\ IF count'[Redis][c] <= Limit
     THEN Admit(Redis, c, count[Redis][c] = 0)
     ELSE Refuse(Redis, c, AtLeastOne(TTL(left'[Redis][c])))
  /\ UNCHANGED fallback

(* RedisError: the script did not run, or ran and lost its reply.  The     *)
(* except clause of enforce_login_rate_limit has yet to run.               *)
CheckFails(r, c, i) ==
  /\ "redis" \in Faults
  /\ fallback[r] = NoCheck
  /\ fallback' = [fallback EXCEPT ![r] = <<c, i>>]
  /\ UNCHANGED <<count, left, admitted, tried, wait>>

CheckLost(r, c, i) ==
  /\ "redis" \in Faults
  /\ fallback[r] = NoCheck
  /\ Script(c)
  /\ fallback' = [fallback EXCEPT ![r] = <<c, i>>]
  /\ wait' = [wait EXCEPT ![Redis][c] = IF count[Redis][c] = 0 THEN NoWait ELSE @]
  /\ UNCHANGED admitted

-----------------------------------------------------------------------------
(* FixedWindowRateLimiter.check, of the process that serves the request.   *)

Ceil(ms) == (ms + 999) \div 1000

(* Mutant: off by one.                                                     *)
LocalCheckPastLimit(i, c) ==
  LET starts == left[i][c] = 0 IN
  IF starts \/ count[i][c] <= Limit
  THEN Count(i, c, starts) /\ Admit(i, c, starts)
  ELSE Refuse(i, c, AtLeastOne(Ceil(left[i][c]))) /\ UNCHANGED <<count, left, tried>>

LocalCheck(i, c) ==
  LET starts == left[i][c] = 0 IN
  IF starts \/ count[i][c] < Limit
  THEN Count(i, c, starts) /\ Admit(i, c, starts)
  ELSE Refuse(i, c, AtLeastOne(Ceil(left[i][c]))) /\ UNCHANGED <<count, left, tried>>

FallBack(r) ==
  /\ fallback[r] # NoCheck
  /\ LocalCheck(fallback[r][2], fallback[r][1])
  /\ fallback' = [fallback EXCEPT ![r] = NoCheck]

-----------------------------------------------------------------------------
LongAgo(n) == [c \in Client |-> [m \in 1..n |-> Window]]
Zero == [c \in Client |-> 0]
Unrefused == [c \in Client |-> NoWait]

(* A process starts again: its windows are gone, and so are its requests.  *)
Restart(i) ==
  /\ "restart" \in Faults
  /\ count' = [count EXCEPT ![i] = Zero]
  /\ left' = [left EXCEPT ![i] = Zero]
  /\ admitted' = [admitted EXCEPT ![i] = LongAgo(2 * Limit)]
  /\ tried' = [tried EXCEPT ![i] = LongAgo(Limit)]
  /\ wait' = [wait EXCEPT ![i] = Unrefused]
  /\ fallback' = [r \in Request |->
       IF fallback[r] # NoCheck /\ fallback[r][2] = i THEN NoCheck ELSE fallback[r]]

Less(ms) == IF ms <= TickMs THEN 0 ELSE ms - TickMs
Older(ages) ==
  [n \in DOMAIN ages |-> IF ages[n] + TickMs < Window THEN ages[n] + TickMs ELSE Window]

Tick ==
  /\ left' = [d \in Decider |-> [c \in Client |-> Less(left[d][c])]]
  /\ count' = [count EXCEPT ![Redis] =
                 [c \in Client |-> IF left'[Redis][c] = 0 THEN 0 ELSE @[c]]]
  /\ admitted' = [d \in Decider |-> [c \in Client |-> Older(admitted[d][c])]]
  /\ tried' = [d \in Decider |-> [c \in Client |-> Older(tried[d][c])]]
  /\ wait' = [d \in Decider |-> [c \in Client |->
                IF wait[d][c] = NoWait THEN NoWait ELSE Less(wait[d][c])]]
  /\ UNCHANGED fallback

Init ==
  /\ count = [d \in Decider |-> Zero]
  /\ left = [d \in Decider |-> Zero]
  /\ fallback = [r \in Request |-> NoCheck]
  /\ admitted = [d \in Decider |-> LongAgo(2 * Limit)]
  /\ tried = [d \in Decider |-> LongAgo(Limit)]
  /\ wait = [d \in Decider |-> Unrefused]

Next ==
  \/ \E c \in Client : Check(c)
  \/ \E r \in Request, c \in Client, i \in Instance : CheckFails(r, c, i) \/ CheckLost(r, c, i)
  \/ \E r \in Request : FallBack(r)
  \/ \E i \in Instance : Restart(i)
  \/ Tick

Spec == Init /\ [][Next]_vars

-----------------------------------------------------------------------------
(* Properties.                                                             *)

(* The type of every variable.                                             *)
TypeOK ==
  /\ count \in [Decider -> [Client -> Nat]]
  /\ left \in [Decider -> [Client -> 0..Window]]
  /\ fallback \in [Request -> {NoCheck} \cup Client \X Instance]
  /\ admitted \in [Decider -> [Client -> [1..(2 * Limit) -> 0..Window]]]
  /\ tried \in [Decider -> [Client -> [1..Limit -> 0..Window]]]
  /\ wait \in [Decider -> [Client -> {NoWait} \cup Nat]]

(* In any stretch of time as long as the window, wherever it falls over the*)
(* fixed windows, each decider lets fewer than 2 * Limit requests of a     *)
(* client through: Redis, and each process since its start, however the    *)
(* checks go back and forth between them.                                  *)
AdmissionsBounded ==
  \A d \in Decider, c \in Client : admitted[d][c][2 * Limit] >= Window

(* A client is refused only after as many attempts as the limit within the *)
(* last window, no matter when Redis lost replies, expired a counter or    *)
(* came back: a decider that would refuse it now has counted them.         *)
RefusalsAreEarned ==
  \A d \in Decider, c \in Client :
    left[d][c] > 0 /\ count[d][c] >= Limit => tried[d][c][Limit] < Window

(* Retry-After is honest, and further attempts do not prolong it: when the *)
(* time given first is up the window of Redis has at most the half second  *)
(* left that TTL rounds off, and that of a process is over; and no client  *)
(* is sent away for a second longer than needed.                           *)
RetryAfterHonest ==
  \A d \in Decider, c \in Client : wait[d][c] # NoWait =>
    /\ left[d][c] <= wait[d][c] + (IF d = Redis THEN 500 ELSE 0)
    /\ wait[d][c] <= left[d][c] + 1000
=============================================================================
