-------------------------- MODULE CompletionConsumer --------------------------
(***************************************************************************)
(* The functions with which tests/test_message_idempotency.py handles      *)
(* completion events: workers of one consumer group read messages from a   *)
(* Redis stream, and for the message it holds a worker may call            *)
(*   - process_completion_with_failure_policy ("process"), which applies   *)
(*     the event to a counter in the database and acknowledges the message,*)
(*     or keeps it as a dead letter when its payload conflicts; or         *)
(*   - handle_retryable_message_failure ("report"), with the               *)
(*     RetryableMessageError that its own attempt at the message raised:   *)
(*     the failure is counted, and the last one makes a dead letter.       *)
(*                                                                         *)
(* The worker's loop that chooses between the two is not in the repository:*)
(* no function or test joins them, so here the choice is left open.        *)
(* Nothing that "process" calls raises RetryableMessageError, so its       *)
(* argument failed_attempts is never looked at.                            *)
(*                                                                         *)
(* The database transaction and every Redis command is a step.  A worker   *)
(* may die, or give a message up, between any two; a command may fail, or  *)
(* run and lose its reply.  A message that was not acknowledged is claimed *)
(* again, by another worker perhaps while the first still works on it.     *)
(***************************************************************************)
EXTENDS Naturals, Sequences, FiniteSets

CONSTANTS
  Worker,       \* the consumers of the group
  Last,         \* the messages of the stream are 1..Last
  Event,        \* the event ids
  EventOf,      \* event_id of each message
  Amount,       \* increment_by of each message
  MaxAttempts,  \* max_attempts
  MaxFailures,  \* bound: failures beyond it are not told apart
  Faults        \* which of "redis", "db" and "crash" may happen

Message == 1..Last

ASSUME WorkersAssumption == IsFiniteSet(Worker)
ASSUME MessagesAssumption ==
  Last \in Nat /\ EventOf \in [Message -> Event] /\ Amount \in [Message -> Nat \ {0}]
ASSUME AttemptsAssumption ==
  MaxAttempts \in Nat \ {0} /\ MaxFailures \in Nat /\ MaxFailures >= MaxAttempts

NoEffect  == 0
NoMessage == 0

VARIABLES
  read,       \* Redis: the last message the group has been given
  pending,    \* Redis: the messages given and not acknowledged
  counts,     \* Redis: failure_counts_key
  letters,    \* Redis: the reasons of each message's dead letters
  processed,  \* processed_events: increment_by of each event
  counter,    \* completion_counter
  pc,         \* where each worker is
  held,       \* the message it works on
  error,      \* what its attempt at the message raised
  recorded,   \* Redis: the count recorded for its attempt_id
  failures    \* observer: the failed attempts reported, each once

redis    == <<read, pending, counts, letters, recorded>>
database == <<processed, counter>>
worker   == <<pc, held, error>>
vars     == <<read, pending, counts, letters, processed, counter, pc, held,
              error, recorded, failures>>

Go(w, p) == pc' = [pc EXCEPT ![w] = p]

(* A count that goes up, as far as the bound.                              *)
OneMore(n) == IF n < MaxFailures THEN n + 1 ELSE MaxFailures

(* A worker has a message, and is to make an attempt at it, ...            *)
Begin(w, m) ==
  /\ Go(w, "attempt")
  /\ held' = [held EXCEPT ![w] = m]
  /\ UNCHANGED <<error, recorded>>

(* ... and is through with it.                                             *)
End(w) ==
  /\ Go(w, "idle")
  /\ held' = [held EXCEPT ![w] = NoMessage]
  /\ error' = [error EXCEPT ![w] = "none"]

Forget(w) == recorded' = [recorded EXCEPT ![w] = 0]

(* A RedisError leaves the call.  The report of a failure is made again    *)
(* with the same attempt_id, or given up; in the other function the worker *)
(* is where it was before.                                                 *)
Again(w) ==
  /\ Go(w, IF error[w] = "retryable" THEN "count" ELSE "attempt")
  /\ error' = [error EXCEPT ![w] = IF @ = "conflict" THEN "none" ELSE @]
  /\ UNCHANGED held

-----------------------------------------------------------------------------
(* The stream.                                                             *)

(* XREADGROUP; its reply may be lost.                                      *)
Read(w) ==
  /\ pc[w] = "idle" /\ read < Last
  /\ read' = read + 1
  /\ pending' = pending \cup {read + 1}
  /\ \/ Begin(w, read + 1)
     \/ "redis" \in Faults /\ UNCHANGED <<worker, recorded>>
  /\ UNCHANGED <<counts, letters, database, failures>>

(* XAUTOCLAIM of a message that was idle for long enough.                  *)
Claim(w, m) ==
  /\ pc[w] = "idle" /\ m \in pending
  /\ Begin(w, m)
  /\ UNCHANGED <<read, pending, counts, letters, database, failures>>

(* The worker dies, or an error leaves it and is not tried again.          *)
GiveUp(w) ==
  /\ "crash" \in Faults
  /\ pc[w] # "idle"
  /\ End(w) /\ Forget(w)
  /\ UNCHANGED <<read, pending, counts, letters, database, failures>>

-----------------------------------------------------------------------------
(* process_completion_with_failure_policy.                                 *)

Stored(w) == processed[EventOf[held[w]]]

Increment(w) == counter' = counter + Amount[held[w]]

(* apply_completion_once is one transaction: INSERT and UPDATE commit      *)
(* together, ...                                                           *)
Apply(w) ==
  /\ pc[w] = "attempt" /\ Stored(w) = NoEffect
  /\ processed' = [processed EXCEPT ![EventOf[held[w]]] = Amount[held[w]]]
  /\ Increment(w)
  /\ Go(w, "ack")
  /\ UNCHANGED <<redis, held, error, failures>>

Duplicate(w) ==
  /\ pc[w] = "attempt" /\ Stored(w) = Amount[held[w]]
  /\ Go(w, "ack")
  /\ UNCHANGED <<redis, database, held, error, failures>>

(* Mutant: the error is not handed on.                                     *)
ConflictUnnamed(w) ==
  /\ pc[w] = "attempt" /\ Stored(w) \notin {NoEffect, Amount[held[w]]}
  /\ Go(w, "archive")
  /\ UNCHANGED <<redis, database, held, error, failures>>

(* EventPayloadConflictError: a dead letter at once.                       *)
Conflict(w) ==
  /\ pc[w] = "attempt" /\ Stored(w) \notin {NoEffect, Amount[held[w]]}
  /\ Go(w, "archive")
  /\ error' = [error EXCEPT ![w] = "conflict"]
  /\ UNCHANGED <<redis, database, held, failures>>

(* ... or neither does: the error of the database, or of a counter that is *)
(* missing, is not caught, and the message stays pending.                  *)
ApplyFails(w) ==
  /\ "db" \in Faults
  /\ pc[w] = "attempt"
  /\ End(w) /\ Forget(w)
  /\ UNCHANGED <<read, pending, counts, letters, database, failures>>

-----------------------------------------------------------------------------
(* handle_retryable_message_failure.                                       *)

(* The worker reports a RetryableMessageError, under an attempt_id of its  *)
(* own.                                                                    *)
Report(w) ==
  /\ pc[w] = "attempt"
  /\ Go(w, "count")
  /\ error' = [error EXCEPT ![w] = "retryable"]
  /\ failures' = [failures EXCEPT ![held[w]] = OneMore(@)]
  /\ UNCHANGED <<redis, database, held>>

(* Mutant: record_message_failure, which counts a repeated call again.     *)
RecordAlways(w) ==
  /\ counts' = [counts EXCEPT ![held[w]] = OneMore(@)]
  /\ recorded' = [recorded EXCEPT ![w] = OneMore(counts[held[w]])]

(* RECORD_MESSAGE_FAILURE_ONCE_SCRIPT.                                     *)
RecordOnce(w) ==
  IF recorded[w] = 0
  THEN /\ counts' = [counts EXCEPT ![held[w]] = OneMore(@)]
       /\ recorded' = [recorded EXCEPT ![w] = OneMore(counts[held[w]])]
  ELSE UNCHANGED <<counts, recorded>>

(* The count the script returns.                                           *)
FailedAttempts(w) ==
  IF recorded[w] = 0 THEN OneMore(counts[held[w]]) ELSE recorded[w]

(* Mutant: an attempt is always left.                                      *)
RetryAlways(failed) == failed <= MaxFailures

ShouldRetry(failed) == failed < MaxAttempts

(* With attempts left the message stays pending and the call is over.      *)
Retry(w) ==
  /\ pc[w] = "count" /\ ShouldRetry(FailedAttempts(w))
  /\ counts' = [counts EXCEPT ![held[w]] = IF recorded[w] = 0 THEN OneMore(@) ELSE @]
  /\ End(w) /\ Forget(w)
  /\ UNCHANGED <<read, pending, letters, database, failures>>

Exhaust(w) ==
  /\ pc[w] = "count" /\ ~ ShouldRetry(FailedAttempts(w))
  /\ RecordOnce(w)
  /\ Go(w, "archive")
  /\ UNCHANGED <<read, pending, letters, held, error, database, failures>>

(* The script ran, but its reply is lost; that it did not run, and is asked*)
(* again, is a stutter.                                                    *)
CountLost(w) ==
  /\ "redis" \in Faults
  /\ pc[w] = "count"
  /\ RecordOnce(w)
  /\ Again(w)
  /\ UNCHANGED <<read, pending, letters, database, failures>>

-----------------------------------------------------------------------------
(* archive_message_and_acknowledge.                                        *)

(* WRITE_DEAD_LETTER_ONCE_SCRIPT.                                          *)
WriteOnce(w) ==
  letters' = [letters EXCEPT ![held[w]] = IF @ = <<>> THEN <<error[w]>> ELSE @]

Archive(w) ==
  /\ pc[w] = "archive"
  /\ WriteOnce(w)
  /\ Go(w, "ack")
  /\ UNCHANGED <<read, pending, counts, recorded, held, error, database, failures>>

(* Mutant: a failed write goes on to the acknowledgement.                  *)
ArchiveSwallows(w) ==
  /\ "redis" \in Faults
  /\ pc[w] = "archive"
  /\ Go(w, "ack")
  /\ UNCHANGED <<redis, held, error, database, failures>>

ArchiveFails(w) ==
  /\ "redis" \in Faults
  /\ pc[w] = "archive"
  /\ WriteOnce(w) \/ UNCHANGED letters
  /\ Again(w)
  /\ UNCHANGED <<read, pending, counts, recorded, database, failures>>

(* XACK, at the end of either path.                                        *)
Acknowledge(w) == pending' = pending \ {held[w]}

Ack(w) ==
  /\ pc[w] = "ack"
  /\ Acknowledge(w)
  /\ End(w) /\ Forget(w)
  /\ UNCHANGED <<read, counts, letters, database, failures>>

AckFails(w) ==
  /\ "redis" \in Faults
  /\ pc[w] = "ack"
  /\ Acknowledge(w) \/ UNCHANGED pending
  /\ Again(w)
  /\ UNCHANGED <<read, counts, letters, recorded, database, failures>>

Init ==
  /\ read = 0
  /\ pending = {}
  /\ counts = [m \in Message |-> 0]
  /\ letters = [m \in Message |-> <<>>]
  /\ processed = [e \in Event |-> NoEffect]
  /\ counter = 0
  /\ pc = [w \in Worker |-> "idle"]
  /\ held = [w \in Worker |-> NoMessage]
  /\ error = [w \in Worker |-> "none"]
  /\ recorded = [w \in Worker |-> 0]
  /\ failures = [m \in Message |-> 0]

Process(w) == Apply(w) \/ Duplicate(w) \/ Conflict(w)

Decide(w) == Retry(w) \/ Exhaust(w)

Trouble(w) ==
  ApplyFails(w) \/ CountLost(w) \/ ArchiveFails(w) \/ AckFails(w) \/ GiveUp(w)

Next == \E w \in Worker :
  \/ Read(w) \/ \E m \in Message : Claim(w, m)
  \/ Process(w) \/ Report(w) \/ Decide(w) \/ Archive(w) \/ Ack(w)
  \/ Trouble(w)

Spec == Init /\ [][Next]_vars

(* Nothing is asked of one worker: messages go on being read and claimed,  *)
(* and a step that some worker is able to make again and again is made by  *)
(* one, however many of them die.  Of an attempt only that it comes out one*)
(* way or the other: attempts that always fail are fair.                   *)
FairSpec ==
  /\ Spec
  /\ SF_vars(\E w \in Worker : Read(w))
  /\ SF_vars(\E w \in Worker, m \in Message : Claim(w, m))
  /\ SF_vars(\E w \in Worker : Process(w) \/ Report(w))
  /\ SF_vars(\E w \in Worker : Decide(w))
  /\ SF_vars(\E w \in Worker : Archive(w))
  /\ SF_vars(\E w \in Worker : Ack(w))

-----------------------------------------------------------------------------
(* Properties.                                                             *)

(* The type of every variable.                                             *)
TypeOK ==
  /\ read \in 0..Last
  /\ pending \in SUBSET (1..read)
  /\ counts \in [Message -> 0..MaxFailures]
  /\ letters \in [Message -> Seq({"conflict", "retryable"})]
  /\ processed \in [Event -> Nat]
  /\ counter \in Nat
  /\ pc \in [Worker -> {"idle", "attempt", "count", "archive", "ack"}]
  /\ held \in [Worker -> 0..read]
  /\ error \in [Worker -> {"none", "conflict", "retryable"}]
  /\ recorded \in [Worker -> 0..MaxFailures]
  /\ failures \in [Message -> 0..MaxFailures]

(* A message has one dead letter at most, whichever workers archive it and *)
(* whatever replies are lost; and it is earned: by as many attempts        *)
(* reported as failed as the limit, none counted twice however often its   *)
(* report is repeated, or by an event whose effect was another.            *)
LettersAreEarned ==
  \A m \in Message :
    /\ Len(letters[m]) <= 1
    /\ letters[m] = <<"retryable">> => failures[m] >= MaxAttempts
    /\ letters[m] = <<"conflict">> =>
         processed[EventOf[m]] \notin {NoEffect, Amount[m]}

(* Every message is acknowledged in the end: no crash, lost reply, conflict*)
(* or failing transaction leaves it pending for ever, and neither do       *)
(* attempts that fail every time, as long as they are reported.            *)
MessagesClose == <>(read = Last /\ pending = {})

-----------------------------------------------------------------------------
(* The workers implement Completion.                                       *)
Outcome == INSTANCE Completion WITH
  effect <- processed, total <- counter,
  archived <- {m \in Message : letters[m] # <<>>},
  closed <- {m \in Message : m <= read /\ m \notin pending}

(* Every step of a worker is a step of Completion, or none: the counter    *)
(* moves once for an event, a dead letter follows a conflict or as many    *)
(* reported failures as the limit, and no message is closed before its     *)
(* event has the effect it asks for or it is kept as a dead letter.        *)
KeepsOutcome == Outcome!Spec
=============================================================================
