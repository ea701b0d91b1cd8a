# Verification of the task API

TLA+ models of the FastAPI task service in this repository, TLC configurations
that check them on small instances, and proofs that TLAPS checks for every
value of the constants. Definitions are translated from the Python source;
`PROJECT.json` maps each to its lines.

    tlc -workers 2 -config TaskCacheFaults.cfg MCTaskCache.tla   # one run
    tlapm TaskCache_proofs.tla                                   # one proof module

## The system

| Part | State | Operations | What is hard |
|---|---|---|---|
| Task endpoints, cache and fill lock (`routers/tasks.py`, `task_dependencies.py`, `task_cache*.py`, `redis_lock.py`) | `tasks` table; Redis `task:{owner}:{id}` and `lock:task:{owner}:{id}`, each with an expiry | POST, GET, PATCH, DELETE of a task; lookup, fill, negative fill, invalidate; acquire, release, wait | two stores with no common transaction; worker threads and API instances interleave; Redis fails or loses replies; locks expire under their holder; SQLite gives ids out again |
| External call (`routers/external.py`, `external_service.py`, `retrying.py`, `circuit_breaker.py`) | breaker state, failure count, opening time; per call: attempt, backoff, time budget | before_call, record_success, record_failure; attempt, retry, expire | coroutines interleave at every await; results arrive after the breaker has moved on |
| Realtime (`routers/realtime.py`, `connection_manager.py`, `realtime_broker.py`, `realtime_event_handler.py`, `reconnect_backoff.py`) | open sockets by user; the subscription and its backoff | connect, disconnect, publish, broadcast, reconnect | a broadcast awaits sends over a snapshot of sockets that close meanwhile; events published while disconnected are lost; an exception ends the process's lifespan |
| Lifespan (`main.py`) | subscriber task, clients, breaker, limiter | start, serve, stop | startup waits for the subscription at most 5 s; the subscriber's failure cancels the rest |
| Websocket tickets (`websocket_tickets.py`, `websocket_authentication.py`) | Redis `websocket-ticket:{ticket}` | issue, consume | redeemed once; expiry; accounts deactivated in between |
| Login limiter (`redis_rate_limiting.py`, `rate_limiting.py`, `rate_limit_dependencies.py`) | Redis counter with expiry; a local window per client | check | falling back and forth between two counters |
| Accounts (`routers/auth.py`, `authentication.py`, `security.py`) | `users` table; signed tokens | register, login, current user | two registrations of one name |
| Idempotent consumer (`tests/test_message_idempotency.py`) | processed events, attempts, dead letters | consume, retry, dead-letter | redelivery and crashes between two commits |
| Health, settings, middleware, models, migrations, deployment | none, or configuration | | |

The task endpoints and the tickets, limiter, realtime and health parts share
one Redis client (and no key of it); a failing command raises `RedisError` in each of them and is
handled there. The external call touches none of the other parts.

## Modules

### `TaskCache`

A request is a process that runs once: a `Reader` is a GET, a `Writer` a POST,
PATCH or DELETE. Every Redis command and every database transaction is a step.
Everything a thread does between two of them is part of the earlier step, so
requests interleave as they do across threads and instances.

| Variables | Code |
|---|---|
| `db` | the `tasks` table: owner and content of each row |
| `cached`, `cacheTtl`, `lock`, `lockTtl` | Redis keys and the time they have left |
| `pc`, `phase`, `tries`, `seen`, `op`, `key` | where a request is and its local variables; `phase` tells the first lookup, the polls of `wait_for_task_cache_fill` and the second lookup under the lock apart |
| `reply` | the response; `redis_error`, `db_error` and `row_gone` are the 500s |
| `window` | how long a result may still be on its way to Redis |
| `history`, `grace`, `late` | observers; no guard reads them |

`get_cached_owned_task_or_404` is `Receive`, the four `Lookup...` actions,
`Discard`, `Acquire`, `Load`, `LoadError`, `Fill` and `Release`. `create_task`
is `Create`, `RefreshCreated`, `Invalidate`; `update_task` is `Find`,
`CommitUpdate`, `Invalidate`, `RefreshUpdated`; `delete_task` is `Find`,
`CommitDelete`, `Invalidate`. `RefreshError` is the SELECT of `session.refresh`
when the database fails it: the write is committed and the answer is 500, and
in `create_task` the invalidation is skipped. The content of a row is one
value, who wrote it last: no property of this module tells its fields apart
(`TaskFields` does).

What is assumed of the libraries:

* A Redis command runs at most once (`Redis.from_url` with no retry given), and
  succeeds, fails, or runs and loses its reply (`Outcomes`).
* pysqlite's transactions begin with the first INSERT, UPDATE or DELETE, so the
  SELECT of a writer and its later UPDATE or DELETE are two steps with no
  snapshot between them. An UPDATE that meets no row raises `StaleDataError`, a
  DELETE that meets none only warns, `refresh` of a vanished row raises
  `InvalidRequestError`.
* `tasks.id` is an INTEGER PRIMARY KEY without AUTOINCREMENT: the next id is one
  more than the largest in use.
* A key at the end of its time to live is gone at once.

### `TaskStore`

What the endpoints promise, with Redis, the fill lock, the polls and the order of
the database calls left out: one store that a write changes at once, and that a
GET may see late. What a write replaces may still be answered for the content's
`Patience`. A write takes effect at most once, between its look at the store and
its answer; a success or a 404 tells whether it did, a 500 does not (the database
may fail before the commit or after it). A PATCH or DELETE that found its task
acts on the row that has the id by then, whoever owns it. `Contract` in `TaskCache` is the refinement: `shown` is
what the table shows the user of each key, `stage` is `Stage(pc)`, `Patience` is
`Allowance` (a fill window and the time to live), the rest are the variables of
the same names.

### `ExternalService`

A `Call` is a slot that serves one request after another. `Admit`, `Probe` and
`Refuse` are the outcomes of `before_call`, `Succeed`, `Fail`, `Retry`, `Wake`,
`Expire` those of `retry_http_operation` with what `fetch_external_status`
records, and `pc` ends in the answer of `check_external_service`. `Escape` is an
exception that neither `except` clause names. Of `_opened_at` and of the deadline
the model keeps what is left of them (`cooldown`, `left`); `Tick` does not pass
over a deadline that is due, as the event loop runs due timers before it sleeps.
The `RuntimeError` of a breaker without an opening time
and the one at the end of the retry loop cannot be reached and are left out.

### `Realtime`

Each instance has one subscriber task and one lifespan, each socket a handler
and, during a broadcast, a task that sends to it. What a coroutine does between
two awaits is one step. The channel is the sequence of all published messages.

| Variables | Code |
|---|---|
| `log` | the channel: the user of each message, in the order Redis published them |
| `phase` | the lifespan of `main.py`: waiting for the subscription, serving, failed, down |
| `sub`, `ready`, `once`, `delay` | where `listen` is, `_subscribed_event`, `_has_subscribed_once`, `_next_delay` |
| `link`, `at`, `upto` | the pubsub connection, how much of it was read and written |
| `pending` | the sends of the current broadcast that have not ended |
| `registered` | the sockets in `_connections_by_user` |
| `pc`, `conn` | the handler of a socket and the state of its connection |
| `inbox`, `joined`, `taken` | observers; no guard reads them |

`listen` and `_listen_once` are `Subscribe`, `SubscribeFails`, `Confirm`, `Take`,
`ReadFails`, `FatalError` and `Reconnect`; `Take` is the reading of a message
together with the snapshot `broadcast_to_user` makes, and `Finish` is the end of
its task group. `_send_to_connection` is `Send`, `SendDisconnected` and
`SendRefused`. `broadcast_messages` is `Connect`, `Publish`, `Published`,
`PublishFails`, `Reject` and `Disconnect`. `Register`, `Break` and `Leave` are
Redis and the client. The lifespan is `Started`, `StartTimeout` and `Stop`.

What is assumed, and what is left out:

* The Redis client makes no retries of its own, so a lost connection is raised.
  A pubsub connection gives everything Redis wrote to it before it was lost; then
  the read fails. Silence for `socket_timeout` fails it too.
* An exception that leaves `listen` fails the task group, which cancels a startup.
  A server that has started has no one to tell: uvicorn goes on accepting
  requests without its subscriber (`phase` is `"orphaned"`).
* A send on a socket the application has begun to close, or whose handler has
  ended, raises `RuntimeError`; on one whose client has left it may raise
  `WebSocketDisconnect` or go unnoticed. When a send raises anything else, the
  others are cancelled, and any of them may have got through before.
* The startup waits for an event. It may have been cleared again when the startup
  goes on, so `Started` asks for `once`, not for `ready`.
* The subscriber ignores messages of other types and envelopes it cannot parse;
  this program publishes neither. `_subscription_generation` is read by tests
  alone. The jitter of the backoff only shortens a delay the model does not time.

### `Delivery`

What the broadcast promises, with the connections to Redis, the backoff and the
lifespan left out. An instance takes the messages of the channel one after
another; it may skip some, but owes one it has taken to every member socket of
its user, once, and takes no other before each was sent to or is no member any
more, unless its relay ends for good. `Promise` in `Realtime` is the refinement:
`owed` is `pending`, `members` is `registered`, `ended` are the instances whose
subscriber is over.

### `LoginLimit`

The window in Redis and the windows of the processes obey the same rules, so
both are *deciders* of one pair of functions `count` and `left`. `Check` is
`RedisFixedWindowRateLimiter.check` with its script; `CheckFails` and
`CheckLost` are the `RedisError` (nothing ran, or the script ran and its reply was
lost), after which the request waits in `fallback` for `FallBack`, the `except`
clause with `FixedWindowRateLimiter.check`. Other requests, ticks and restarts may
come between. Time is in milliseconds, since Redis rounds `TTL` to the nearest
second and the process rounds up. `admitted`, `tried` and `wait` observe the ages
of the last requests and the first Retry-After. Addresses are `Client`; the key
is derived from the address alone.

### `Accounts`

`Find`, `Insert`, `InsertConflict`, `Created` and `RegisterFails` are
`register_user`, with the unique index of `users.username` in `Insert`. `Login`
signs a token: whose id it holds and the ticks it has left. `Authorize`, `Store`
and `StoreFails` are `issue_websocket_ticket`, `Consume`, `ConsumeFails` and
`Lookup` the handshake of the websocket. A commit, a command or a SELECT is a
step. Assumed and left out:

* bcrypt and JWT do what they are for: a password opens the account it was
  registered with, a token is that of a login. Persons have distinct passwords.
* A ticket is a fresh uuid4, so `NX` never refuses it and the `RuntimeError` of
  `issue` is not reached.
* A registration may commit and still answer 500 (`RegisterFails` in `"refresh"`);
  the name is then taken, by the person who asked for it.
* The sockets an account has open stay open when it is switched off: the code
  looks at `is_active` in requests and handshakes only.

### `CompletionConsumer` and `Completion`

`tests/test_message_idempotency.py` defines functions of a consumer; the
application has no worker yet. A worker that holds a message may call one of two:

* `process_completion_with_failure_policy`: `Apply`, `Duplicate` or `Conflict`,
  then `Archive` with the dead letter script for a conflict, and `Ack`.
  `ApplyFails` is an error of the transaction: nothing catches it, and the message
  stays pending. The function also has a branch for `RetryableMessageError`, with
  the number of failures its caller hands over; nothing it calls raises that
  error, so the branch and the number are left out.
* `handle_retryable_message_failure`, with the `RetryableMessageError` of the
  worker's own attempt: `Report`, then `Retry` or `Exhaust` with the counting
  script, `Archive` and `Ack`.

The loop that chooses between them is not in the repository, and no function or
test joins them. The model leaves the choice open at every attempt (`Process` or
`Report`), so what it shows holds for every loop that calls nothing else: the dead
letter of `"retryable"` is as well earned as the worker's reports are true.
`handle_message_failure` called directly, with a number of failures the caller
made up, is not modelled; it archives on the caller's word.

The `...Lost` and `...Fails` actions of Redis are commands that fail or lose their
reply: the call is made again with the same `attempt_id`, as the tests do. Reading
the stream and claiming idle messages is what the tests' worker loops do with
XREADGROUP and XAUTOCLAIM, so `Read`, `Claim` and `GiveUp` are external. Messages
are taken to be well formed. Nothing keeps a message from being claimed while its
first worker still works on it, so one worker may apply an event whose message
another archives: the dead letter then reports failures that did happen.

`Completion` is what this comes to: an event has one effect, and a message is
closed when its event has the effect it asks for or it is kept as a dead letter,
for a conflict or for as many reported failures as the limit.

### `TaskFields`

`update_task` by field: `Find` reads the row, `Commit` writes the columns whose
value differs from the one read (SQLAlchemy leaves the others out of its
UPDATE), `Answer` refreshes and responds. Null is a value of some fields, and the
validator of `TaskUpdate` refuses it for the others. So a PATCH that names a field
with the value it has already read does not write it, and its answer may show
what a rival committed; the properties say so. The row is not deleted here, and
the cache is left out.

## Runs

| Run (`.cfg`) | Checks | Instance |
|---|---|---|
| `TaskCacheFaults` | `TypeOK`, `BoundedStaleness`, `OnlyHolderReleases`, `RequestsTerminate`, `LocksAreGivenUp` | 2 readers, 1 writer, 1 user, 1 id, all faults, 2 polls; positive time to live longer than the negative one; fair |
| `TaskCacheContract` | `KeepsContract` | 2 users, a POST, a PATCH and a DELETE, 2 readers one after the other, 1 id, database failures before and after the commit |
| `TaskCacheCoherence` | `Coherence`, `RepliesFromOwnHistory` | 2 users, 3 writers of any kind, 2 readers one after the other, 1 id, no faults, a fill window |
| `ExternalService` | `TypeOK`, `CountMatchesState`, `ProbeRunsAlone`, `CallsEnd`, `ProbeDecides` | 3 calls, threshold 2, 3 attempts, budget 3 below recovery 4, unexpected exceptions, fair |
| `RealtimeSafety` | `TypeOK`, `DeliveredInOrder`, `NoGaps`, `RegistryIsServed`, `KeepsPromise` | 1 instance, 3 sockets of 2 users, 2 messages, everything that may fail |
| `RealtimeLive` | `OnlyClosesOrphan`, `StartupEnds`, `Resubscribes`, `MessagesAreRead` | 1 instance, 2 sockets of 2 users, 2 messages, lost connections, failing PUBLISHes, closes and departures, fair |
| `LoginLimit` | `TypeOK`, `AdmissionsBounded`, `RefusalsAreEarned`, `RetryAfterHonest` | 1 client, 1 process, 2 requests at a time, limit 2 in 2 s, ticks of 400 ms, failures and restarts |
| `Accounts` | `TypeOK`, `OneAccountPerName`, `AnswersAreTrue`, `TicketOpensOneSocket`, `SocketsBelongToTheirAskers`, `DeactivationHolds`, `TicketsVanish` | 3 persons, 2 of whom want one name, 2 ids, 1 ticket, 2 sockets, all faults, fair |
| `CompletionConsumer` | `TypeOK`, `LettersAreEarned`, `KeepsOutcome`, `MessagesClose` | 2 workers, 2 messages of one event that disagree about it, limit 2, failures told apart up to 3, failing transactions, crashes and lost replies, fair |
| `TaskFields` | `TypeOK`, `LastPatchWins`, `AnswersAreHonest` | 3 PATCHes of 2 fields with 2 values, one field nullable |

`KeepsContract`, `KeepsPromise` and `KeepsOutcome` are the refinements:
`TaskStore!Spec`, `Delivery!Spec` and `Completion!Spec` under the mappings
`Contract`, `Promise` and `Outcome`.

Bounds: a bug of the cache needs two requests that overlap, or three when
an id is used again, and one key; a second id only adds an independent copy of
the same state, since no key is shared. Three writers are the least that delete a
row, give its id to another user and write it with what was looked up before; a
second GET is answered from what the first has cached, and meets it under the key
of a task that is gone. Two runs let the second GET begin when the first is over
(`OneGetAtATime`), which is enough for that; two GETs that compete for the fill
lock are in `TaskCacheFaults`. `OneOfEach` and a `FillWindow` of 0 keep the
refinement, whose check is the dearest, to minutes: late fills still happen in
it, between the steps of one tick. Times to live of 1 and 2
ticks give every order of expiry, fill and release. `FillWindow` bounds the time
from a SELECT to the SET of its result; the code has no such bound of its own
beyond the socket timeout of 2 s, and the staleness stated is relative to it.

In `ExternalService` a call's slot serves one request after another, so three are
enough for two failures that open the breaker, a call that was let in before and a
probe. A probe that an exception ends (`Escape`) decides nothing, which
`ProbeDecides` allows; what becomes of the breaker then is the finding below.
Budgets as long as the recovery are left to the proofs (`CallsAreBounded` and
`HalfOpenIsBrief` do not ask for a shorter one).

Instances share nothing but the channel, which each reads on its own, so one
instance shows what a broadcast can do; that every placement on any number of
instances is covered is what the proofs add. Two sockets of one user and one of
another are the least that tell a cancelled sibling and a foreign message apart;
two messages show order. Delays of 1 to 3 reach the maximum of the backoff.

In `LoginLimit` clients share nothing. `MaxCount` ends the counting in one window
two attempts past the limit, so that a client is refused again; ticks of 400 ms
leave remainders on both sides of half a second, so that TTL rounds both ways.
In `Accounts` two persons race for a name and a third has another one, `MaxUserId`
lets both accounts be there; one ticket is presented by two sockets. In `CompletionConsumer` failures never stop: `MaxFailures` is where
the counters stop telling them apart (`OneMore`), one more than the limit, so that
a message can fail after its dead letter; the second message meets the
effect of the first as a conflict, and each as its own duplicate. In `TaskFields`
three requests are the least where the last writer, its rival and a bystander
differ.

The runs with `CHECK_DEADLOCK FALSE` are of systems that stop: a request of
`TaskCache` and `TaskFields` runs once, a socket of `Realtime` connects once, and
the stream of `CompletionConsumer` ends. The clocks of the others never stop.

Fairness: in `TaskCache` a request that has begun takes its next step unless its
process dies, which a thread pool gives, and the clock runs. That a request
arrives is never assumed. In `ExternalService` only the clock and due deadlines
are fair: the upstream service may never answer, and the budget alone ends a call.
In `Realtime` the event loop runs what is ready, a send ends, and the timeout of
the startup expires (weak fairness). Redis may lose connections for ever, but when
it is asked again and again it takes a subscription and confirms it (strong
fairness of `Subscribe`, `Register`, `Confirm`). Clients do nothing of themselves.
In `Accounts` only the clock runs. In `CompletionConsumer` nothing is asked of one
worker, which may die at any step: the group goes on reading and claiming, and a
step that some worker is able to make again and again is made by one in the end
(strong fairness of the steps over all workers). That commands which fail again
and again succeed in the end is the least without which no message can be closed.
Of an attempt it is asked only that it comes out one way or the other (`Process`
and `Report` share one condition): an attempt that fails every time is fair, and
`MessagesClose` then rests on the limit. Lost replies and crashes are never asked
to stop.

### Where the code disagrees with its tests

These runs expect a violation.

* `ExternalServiceLostProbe`: a probe that ends in another exception leaves the
  breaker half-open for good: every later call is refused because "probe is
  already in progress". Without such exceptions `HalfOpenHasProbe` holds, which
  `ProbeExists` proves.
* `RealtimeClosing`: `_send_to_connection` catches `WebSocketDisconnect` alone. A
  broadcast that meets a socket whose handler has begun to close it, but has not
  removed it yet, raises: an open socket of the same user misses the message,
  the exception ends the subscriber, and the instance serves on without one.
  `test_broadcast_removes_disconnected_client_and_continues` expects the others
  to be sent to.

The models contain more that a reader of the code may not expect, and the
properties are stated so as to allow it:

* The second lookup, under the fill lock, is the only one whose `RedisError` is
  not caught: the GET answers 500 (`"redis_error"`), where the first lookup falls
  back to the database.
* A PATCH or DELETE looks a task up by id and owner but commits by id. If the task
  is deleted in between and its id given to another user's new task, that one is
  changed (`CommitUpdate`, `CommitDelete`).
* A 404 marker computed before a POST may be written after the POST's
  invalidation; the new task answers 404 until the marker expires. `Coherence`
  excuses a fill that is `late`; `BoundedStaleness` bounds what it leaves.

## Proofs

`TaskCache_proofs` proves, for any number of readers, writers, users and ids, any
settings and any set of faults:

* `TypeCorrect`. `TypeOK` is not inductive: that the poll count stays in bounds
  needs `PollsLeft` (a reader that may still miss has a poll left), and the typing
  of Redis needs `KeysKnown`.
* `HolderReleases` (`OnlyHolderReleases`), from the types and one case per action
  that touches the locks.
* `StalenessBounded` (`BoundedStaleness`). The invariant `Staleness` bounds the
  remaining life of an entry by the grace of its value, and carries the same bound
  for a value on its way to Redis, with the rest of its window added. A commit
  renews the grace (`CommitCovers`); a tick takes one from each side.
* `OwnHistory` (`RepliesFromOwnHistory`), from `Recorded` (table, Redis and readers
  hold only recorded contents) and `Answered`.
* `Coherent` (`Coherence`). The invariant `StaleExcused` sharpens one excuse: a
  writer between its INSERT and its invalidation excuses only a 404 marker. Without
  that the step where `refresh` finds the row gone, and the invalidation is
  skipped, could not be shown.

* `ImplementsTaskStore` (`KeepsContract`). Most steps are `Unnoticed`: they move a
  request within its stage. The others are a step of `TaskStore` each:
  `CommitBecomes` for the four that commit, `AnswerReads` for those that end a GET,
  and `Confirm` for those that answer a committed write, a failed refresh included.
  That a GET's answer is no later than its `Patience` is `Staleness`, which covers
  an entry of Redis and a value that was read and is still to be answered; that
  the stages fit the endpoint is `OpsKnown`.
* `RedisForgets`: every entry and every lock carries an expiry that has not come
  and is no later than its SET named, also when the reply of the SET was lost or
  its sender died.
* `RequestsAreBounded`: `CallsLeft` is the number of Redis and database calls a
  request may still make, at most `6 + 2 * WaitAttempts` for a GET and three after
  the first of a write. Every step of a request uses one up at least, and no step
  of another request or tick gives it more, so `wait_for_task_cache_fill` cannot go
  on for ever whatever the holder of the lock does.

Steps are classified once (`StepEffect`): a step leaves table and fills alone and
at most empties cache keys, or commits, or reads the table, or fills, or is a tick.
The other proofs have a case for each class. `RedisStep` does the same for what a
step leaves under the keys of Redis.

`ExternalService_proofs` proves `TypeCorrect`, `CountDecides`, `ProbeExists` (if no
exception escapes) and `ProbeAlone` (`ProbeRunsAlone`, whose condition is that the
budget is shorter than the recovery). Its invariant `Drains`: while the breaker is
open every call under way ends before it has recovered, so at recovery none is
left, and a half-open breaker has one call under way. The condition is needed and the settings do not enforce it: with a recovery no longer than the
budget, a call admitted before the breaker opened may fail while a probe is under
way, open the breaker again, and let a second probe start beside the first.
`CallsAreBounded` says that a call takes at most two steps for each attempt the
settings allow, that each of them brings its end nearer, that each tick shortens
its budget, and that no other call sets it back. `HalfOpenIsBrief` puts this
together with `ProbeExists`: if no exception escapes, a half-open breaker has a
probe, keeps it until it is decided, and its budget runs down all the while.

`Realtime_proofs` proves, for any number of instances, sockets, users and messages
and any placement of the sockets, `TypeCorrect`, `InOrder` (`DeliveredInOrder`),
`RegistryServed`, `Gapless` (`NoGaps`) and `OrphansOnlyByCloses`
(`OnlyClosesOrphan`). The invariant adds what the properties rest on:

* `Lifecycle`: a broadcast runs only on a confirmed connection, so a subscription
  moves the read position only when no send is under way.
* `Reading`: what is still to be sent is the last message read, to its own user.
* `Bounded`: a socket has nothing later than what its instance has read, and
  nothing as late as what is still to be sent to it. Order follows from it, as
  the handler waits for all its sends before the next message is read.
* `Confirmed`: a server serves only after a confirmation, so that afterwards a
  lost connection is retried.

`SubscribersGoOn` says that a server that starts or serves has a subscriber
(`Attended`), and that the subscriber is never in a state with nothing to do
unless it waits on a live connection and has read every message (`NeverStuck`).
It rests on `Alive`: Redis owes the subscriber exactly what was published since it
subscribed, its connection is gone only if connections are lost at all, and every
socket it has still to send to has had a handler.

As in the cache, steps are classified first: `StepEffect` names those that touch
messages, and `Quiet` and `Steady` say what the others leave alone. `KeepsUp` is
the argument for `NoGaps`: a step opens no gap if what it takes out of a broadcast
was sent or is excused.

`RealtimeDelivery_proofs` proves `ImplementsDelivery`: an initial state maps to one
of `Delivery`, and every step to one of its steps or a stutter. Most steps are
`Unnoticed`, since they change only the connection, the backoff or the lifespan;
that a subscription skips only when nothing is owed is `Lifecycle` again.

`LoginLimit_proofs` proves all four properties of the run for any limit, window, grain of
time and number of clients, processes and requests. `StepEffect` says what a
step does to one window of one client, Redis's or a process's: it starts,
continues, refuses, ages, forgets or leaves it alone. `Spread` carries the bound on
admissions: all but the last `count` (at most `Limit`) were let through before the
current window began, and all but `Limit` more at least a window ago. `Recent` carries the refusals: the requests a window has counted
were made in it. Ages and remainders move by the same tick, which leaves linear
arithmetic. `NoLockout` says that a counter in Redis is never without an expiry, though
the reply of its script may be lost, and that no attempt prolongs a window that
runs: from `Counted` and `StepEffect`.

`Accounts_proofs` proves `TypeCorrect`, `OneAccount`, `TrueAnswers`, `TicketOnce`,
`SocketOwners` and `DeactivatedStayOut` for any persons, names, tickets and
sockets. A row keeps its name and its password (`RowsStay`), so no answer becomes
false later, and the `Chain` from login to socket can be followed link by link:
a token's subject is the row of the person (`LoggedIn`), a ticket's buyer that of
its asker (`Bought`), what Redis has under a ticket is its buyer (`Backed`), and a
socket that was let through has the buyer of its ticket, which Redis has no more
(`Opened`). `TicketsArePerishable` adds that a ticket in Redis has an expiry that is
never put off, and that one that was consumed or has expired never comes back,
whatever replies were lost.

`CompletionConsumer_proofs` proves `TypeCorrect`, `EarnedLetters` and
`ImplementsCompletion` for any messages, events and increments and any finite set
of workers. For each worker, `Stage`, `Reached`, `Grounds` and `Settled` say what its
place in the code rests on: a worker that archives has a conflict or a count at
the limit, one that acknowledges has an effect or a dead letter. They rest on
facts that only grow (`Grown`), so they survive the steps of the others
(`OthersKept`). `CountedOnce` is the argument for the counters: the count of a
message and the number of workers whose reported failure is not counted yet are
together no more than the failures reported of it, as far as `MaxFailures` tells
them apart. A step adds a worker to that number, strikes
one from it, or keeps it (`Entries`); hence `WorkersAssumption` and the theorems on
finite sets. `EveryFailureCounts` is the other half, for workers that do not die or
give up: count and failures still to be recorded are together all the failures
reported. It needs `Recorded` (who acknowledges after a failure has counted it), and that an
entry leaves the books only to be counted (`StruckCounts`). `NothingIsLost` says what
an acknowledgement is worth: a message the group was given and has no more to do
with has its effect or its dead letter (`Accounted`, from `Settled`), and no step
takes back an effect, a letter or an acknowledgement.

`TaskFields_proofs` proves `TypeCorrect`, `NoUpdateLost` and `HonestAnswers` for any
requests, fields and values. `Tracked` is the core: while a request runs, a field
that is not as it read it (or, after its commit, set it) is as a rival asked for
it. So a column that an UPDATE leaves out has what the request asked for or what
a rival did.

The assumptions are those the modules name: positive times to live and limits as
`config.py` validates them, disjoint sets of requests, distinct markers, a
reconnect delay no longer than its maximum, and finitely many workers.

Model-checked only: the liveness properties `RequestsTerminate`, `LocksAreGivenUp`,
`CallsEnd`, `ProbeDecides`, `StartupEnds`, `Resubscribes`, `MessagesAreRead`,
`TicketsVanish` and `MessagesClose`, which need fairness and ENABLED, out of the
prover's reach. What the code contributes to them is proved as safety: a measure
that every step of a request uses up (`RequestsAreBounded`, `CallsAreBounded`), an
expiry that is always set and never put off (`RedisForgets`, `TicketsArePerishable`, `NoLockout`),
a budget that ticks shorten (`HalfOpenIsBrief`), a step that is always due
(`SubscribersGoOn`), and an end that is final (`NothingIsLost`). What is left to TLC is
the conclusion that something enabled for ever, or a clock that runs, gets there.

## Not modelled, and the plan

1. The composition of `TaskFields` with `TaskCache`: fields that are written under
   a cache. Until then each module is checked with the other part abstracted.
2. The composition of `Accounts` with `Realtime`: a socket that `Accounts` accepts
   is one that `Realtime` begins with, of a fixed user.
3. Proofs about a service that restarts: `TaskCache` lets a process die with its
   requests, `LoginLimit` lets it lose its windows; `Realtime` starts once.

The deployment script is one straight line of commands that stops at the first
that fails and leaves going back to its operator. What the commands change is
Docker's and Alembic's, so a model of it would be a model of those.

Left out as well: health checks (two reads without state), logging middleware and
error formatting, settings (they are the constants, with their assumptions), the
paged task list (a read), the validation of fields other than null, password
hashing and token encoding (library calls), the window dictionary of the local
limiter growing with every address, and the connection pool.
`test_redis_streams_integration.py` exercises Redis alone.
