------------------------------ MODULE TaskCache ------------------------------
(***************************************************************************)
(* The task endpoints over their two stores: the SQL table of tasks and    *)
(* the Redis cache in front of it, with the Redis lock that guards a cache *)
(* fill (routers/tasks.py, task_dependencies.py,                           *)
(* task_cache_dependencies.py, task_cache.py, redis_lock.py).              *)
(*                                                                         *)
(* A request is a process and runs once.  Every Redis command and every    *)
(* database transaction is one step, so requests interleave between them   *)
(* as they do across worker threads and API instances.  A Reader serves    *)
(* GET /tasks/{id}; a Writer serves POST, PATCH or DELETE.                 *)
(*                                                                         *)
(* Time passes in ticks: Redis keys carry the ticks they have left to      *)
(* live, and a key at zero no longer exists.                               *)
(***************************************************************************)
EXTENDS Naturals

CONSTANTS
  Reader,         \* the GET requests
  Writer,         \* the POST, PATCH and DELETE requests
  Owner,          \* the authenticated users
  MaxTaskId,      \* bound: no row gets a larger primary key
  Seed,           \* the content of the rows present at the start
  PosTtl,         \* task_cache_ttl_seconds
  Jitter,         \* task_cache_ttl_jitter_seconds
  NegTtl,         \* task_negative_cache_ttl_seconds
  LockTtl,        \* task_cache_lock_ttl_seconds
  WaitAttempts,   \* task_cache_lock_wait_attempts
  FillWindow,     \* bound: ticks a request may spend from its SELECT to its SET
  Faults          \* which of "redis", "db" and "crash" may happen

NotFound   == "not_found"    \* no such row; also TASK_NOT_FOUND_CACHE_MARKER
Unreadable == "unreadable"   \* a cached string that TaskResponse rejects
Absent     == "absent"       \* no such Redis key
Nobody     == "nobody"       \* no owner, no lock holder

Request == Reader \cup Writer
TaskId  == 1..MaxTaskId
Key     == Owner \X TaskId   \* task:{owner_id}:{task_id}, also the lock's key
NoKey   == <<Nobody, 0>>

(* A row's fields, as one value: who wrote them last.                      *)
Content == Writer \cup {Seed}
Served  == Content \cup {NotFound}

Errors  == {"redis_error", "db_error", "row_gone"}
Replies == {"none", "ok"} \cup Served \cup Errors

ASSUME SettingsAssumption ==
  /\ PosTtl \in Nat \ {0} /\ NegTtl \in Nat \ {0} /\ Jitter \in Nat
  /\ LockTtl \in Nat \ {0} /\ WaitAttempts \in Nat \ {0}
  /\ FillWindow \in Nat /\ MaxTaskId \in Nat
ASSUME RequestsAssumption ==
  /\ Reader \cap Writer = {}
  /\ Nobody \notin Reader /\ Nobody \notin Owner
ASSUME ContentAssumption ==
  Content \cap ({NotFound, Unreadable, Absent, "none", "ok"} \cup Errors) = {}

VARIABLES
  db,         \* the tasks table: [TaskId -> row]
  cached,     \* Redis: the value under a cache key
  cacheTtl,   \* Redis: the ticks that value has left
  lock,       \* Redis: the request whose token is under a lock key
  lockTtl,    \* Redis: the ticks that token has left
  pc,         \* where each request is
  key,        \* the (owner, task) each request is about
  phase,      \* Reader: which lookup it is in; "recheck" is inside the lock
  tries,      \* Reader: unsuccessful polls so far
  seen,       \* Reader: the result of its SELECT
  window,     \* Reader: ticks left to write that result to Redis
  op,         \* Writer: the endpoint
  reply,      \* the response of each request
  history,    \* observer: every (key, content) the table ever held
  grace,      \* observer: ticks a superseded value may still be served
  late        \* observer: the readers that wrote a superseded value to Redis

redis == <<cached, cacheTtl, lock, lockTtl>>
table == <<db, history, grace>>
local == <<key, phase, tries, seen, window, op, late>>
vars  == <<db, cached, cacheTtl, lock, lockTtl, pc, key, phase, tries, seen,
           window, op, reply, history, grace, late>>

-----------------------------------------------------------------------------
(* The table.                                                              *)

NoRow == [owner |-> Nobody, val |-> NotFound]
Row   == [owner : Owner, val : Content]

(* find_owned_task: the row's content when k's user owns it.               *)
View(d, k) == IF d[k[2]].owner = k[1] THEN d[k[2]].val ELSE NotFound

(* All that the table d shows its users, by key.                           *)
Shown(d) == {kc \in Key \X Content : kc[2] = View(d, kc[1])}

(* The rowid SQLite gives an INSERT: one more than the largest in use, so  *)
(* the id of the last row is used again once that row is deleted.          *)
IsNextId(t) ==
  /\ \A u \in TaskId : u >= t => db[u] = NoRow
  /\ t > 1 => db[t - 1] # NoRow

(* The longest a value may outlive its row: the time to write it to Redis, *)
(* and its longest time to live there.                                     *)
MaxTtl(c)    == IF c = NotFound THEN NegTtl ELSE PosTtl + Jitter
Allowance(c) == FillWindow + MaxTtl(c)

(* Commits the table d, and starts the grace period of what it supersedes. *)
Commit(d) ==
  /\ db' = d
  /\ history' = history \cup Shown(d)
  /\ grace' = [k \in Key |-> [c \in Served |->
       IF c = View(d, k) THEN 0
       ELSE IF c = View(db, k) THEN Allowance(c) ELSE grace[k][c]]]

-----------------------------------------------------------------------------
(* Redis.  A command succeeds, fails before it runs, or runs and loses its *)
(* reply; the last two raise RedisError.                                   *)

Outcomes == IF "redis" \in Faults THEN {"ok", "lost", "failed"} ELSE {"ok"}
Ran(outcome) == outcome # "failed"

PutCache(k, v, ttl) ==
  /\ cached' = [cached EXCEPT ![k] = v]
  /\ cacheTtl' = [cacheTtl EXCEPT ![k] = ttl]
  /\ UNCHANGED <<lock, lockTtl>>

(* DEL, when the command ran.                                              *)
DropCache(k, outcome) ==
  IF Ran(outcome) THEN PutCache(k, Absent, 0) ELSE UNCHANGED redis

PutLock(k, token, ttl) ==
  /\ lock' = [lock EXCEPT ![k] = token]
  /\ lockTtl' = [lockTtl EXCEPT ![k] = ttl]
  /\ UNCHANGED <<cached, cacheTtl>>

(* Mutants: a 404 marker that lives as long as a task, and a lock SET      *)
(* without its ex argument.                                                *)
OneExpiryForAll(v) == PosTtl..(PosTtl + Jitter)
NoLockExpiry == 0

(* The time to live each SET names in its ex argument.                     *)
CacheExpiry(v) == IF v = NotFound THEN {NegTtl} ELSE PosTtl..(PosTtl + Jitter)
LockExpiry == LockTtl

-----------------------------------------------------------------------------
(* GET /tasks/{task_id}: get_cached_owned_task_or_404.                     *)

Goto(q, p)   == pc' = [pc EXCEPT ![q] = p]
Answer(q, v) == reply' = [reply EXCEPT ![q] = v]

(* Leaving get_cached_owned_task_or_404: through the finally clause that   *)
(* releases the lock, when it was acquired.                                *)
Holds(r) == phase[r] = "recheck"
Leave(r) == Goto(r, IF Holds(r) THEN "release" ELSE "done")

Receive(r) ==
  /\ pc[r] = "idle"
  /\ \E k \in Key : key' = [key EXCEPT ![r] = k]
  /\ Goto(r, "get")
  /\ UNCHANGED <<redis, table, phase, tries, seen, window, op, late, reply>>

(* Mutants: a wait for another request's fill that forgets to count its    *)
(* polls, and one that counts one too many.                                *)
PollForever(r) ==
  /\ Goto(r, IF phase[r] = "lookup" THEN "acquire"
             ELSE IF phase[r] = "recheck" THEN "load" ELSE "get")
  /\ UNCHANGED tries
PollOnceMore(r) ==
  CASE phase[r] = "lookup"  -> Goto(r, "acquire") /\ UNCHANGED tries
    [] phase[r] = "recheck" -> Goto(r, "load") /\ UNCHANGED tries
    [] phase[r] = "poll"    ->
         /\ tries' = [tries EXCEPT ![r] = @ + 1]
         /\ Goto(r, IF tries[r] + 1 <= WaitAttempts THEN "get" ELSE "load")

(* What follows a lookup that missed, in each of its three places.         *)
Missed(r) ==
  CASE phase[r] = "lookup"  -> Goto(r, "acquire") /\ UNCHANGED tries
    [] phase[r] = "recheck" -> Goto(r, "load") /\ UNCHANGED tries
    [] phase[r] = "poll"    ->
         /\ tries' = [tries EXCEPT ![r] = @ + 1]
         /\ Goto(r, IF tries[r] + 1 < WaitAttempts THEN "get" ELSE "load")

(* What follows a lookup that raised RedisError: the database, except in   *)
(* the lookup under the lock, whose error leaves through the finally.      *)
LookupRaised(r) ==
  IF Holds(r)
  THEN Goto(r, "release") /\ Answer(r, "redis_error")
  ELSE Goto(r, "load") /\ UNCHANGED reply

(* Mutant: a cache key without its owner_id.                               *)
LookupHitAnyOwner(r) ==
  /\ pc[r] = "get"
  /\ \E o \in Owner :
       /\ cached[<<o, key[r][2]>>] \in Served
       /\ Answer(r, cached[<<o, key[r][2]>>])
  /\ Leave(r)
  /\ UNCHANGED <<redis, table, local>>

LookupHit(r) ==
  /\ pc[r] = "get"
  /\ cached[key[r]] \in Served
  /\ Answer(r, cached[key[r]])
  /\ Leave(r)
  /\ UNCHANGED <<redis, table, local>>

LookupMiss(r) ==
  /\ pc[r] = "get"
  /\ cached[key[r]] = Absent
  /\ Missed(r)
  /\ UNCHANGED <<redis, table, key, phase, seen, window, op, late, reply>>

LookupInvalid(r) ==
  /\ pc[r] = "get"
  /\ cached[key[r]] = Unreadable
  /\ Goto(r, "discard")
  /\ UNCHANGED <<redis, table, local, reply>>

LookupError(r) ==
  /\ pc[r] = "get"
  /\ "redis" \in Faults
  /\ LookupRaised(r)
  /\ UNCHANGED <<redis, table, local>>

(* lookup_task deletes the value it could not validate.                    *)
Discard(r) ==
  /\ pc[r] = "discard"
  /\ \E outcome \in Outcomes :
       /\ DropCache(key[r], outcome)
       /\ IF outcome = "ok"
          THEN Missed(r) /\ UNCHANGED reply
          ELSE LookupRaised(r) /\ UNCHANGED tries
  /\ UNCHANGED <<table, key, phase, seen, window, op, late>>

(* RedisLock.acquire: SET NX with an expiry.  A reply that is lost leaves  *)
(* the key set and no request that knows it holds it.                      *)
Acquire(r) ==
  /\ pc[r] = "acquire"
  /\ \E outcome \in Outcomes :
       /\ IF Ran(outcome) /\ lock[key[r]] = Nobody
          THEN PutLock(key[r], r, LockExpiry)
          ELSE UNCHANGED redis
       /\ IF outcome # "ok" THEN Goto(r, "load") /\ UNCHANGED phase
          ELSE /\ Goto(r, "get")
               /\ phase' = [phase EXCEPT ![r] =
                    IF lock[key[r]] = Nobody THEN "recheck" ELSE "poll"]
  /\ UNCHANGED <<table, key, tries, seen, window, op, late, reply>>

(* load_owned_task_from_database: its SELECT ...                           *)
Load(r) ==
  /\ pc[r] = "load"
  /\ seen' = [seen EXCEPT ![r] = View(db, key[r])]
  /\ window' = [window EXCEPT ![r] = FillWindow]
  /\ Goto(r, "fill")
  /\ UNCHANGED <<redis, table, key, phase, tries, op, late, reply>>

LoadError(r) ==
  /\ pc[r] = "load"
  /\ "db" \in Faults
  /\ Answer(r, "db_error")
  /\ Leave(r)
  /\ UNCHANGED <<redis, table, local>>

(* ... and its SET; a RedisError here is logged and the task is returned.  *)
Fill(r) ==
  /\ pc[r] = "fill"
  /\ \E outcome \in Outcomes, ttl \in CacheExpiry(seen[r]) :
       IF Ran(outcome) THEN PutCache(key[r], seen[r], ttl)
                       ELSE UNCHANGED redis
  /\ late' = IF seen[r] = View(db, key[r]) THEN late ELSE late \cup {r}
  /\ window' = [window EXCEPT ![r] = 0]
  /\ Answer(r, seen[r])
  /\ Leave(r)
  /\ UNCHANGED <<table, key, phase, tries, seen, op>>

(* Mutant: a plain DEL of the lock key.                                    *)
ReleaseAnyToken(r) ==
  /\ pc[r] = "release"
  /\ \E outcome \in Outcomes :
       IF Ran(outcome) THEN PutLock(key[r], Nobody, 0) ELSE UNCHANGED redis
  /\ Goto(r, "done")
  /\ UNCHANGED <<table, local, reply>>

(* RELEASE_LOCK_SCRIPT deletes the key only if it still holds r's token.   *)
Release(r) ==
  /\ pc[r] = "release"
  /\ \E outcome \in Outcomes :
       IF Ran(outcome) /\ lock[key[r]] = r THEN PutLock(key[r], Nobody, 0)
                                          ELSE UNCHANGED redis
  /\ Goto(r, "done")
  /\ UNCHANGED <<table, local, reply>>

ReaderProgress(r) ==
  \/ LookupHit(r) \/ LookupMiss(r) \/ LookupInvalid(r) \/ Discard(r)
  \/ Acquire(r) \/ Load(r) \/ Fill(r) \/ Release(r)
ReaderStep(r) == ReaderProgress(r) \/ LookupError(r) \/ LoadError(r)

-----------------------------------------------------------------------------
(* POST, PATCH and DELETE.                                                 *)

(* create_task up to its commit.                                           *)
Create(w) ==
  /\ pc[w] = "idle"
  /\ \E o \in Owner, t \in TaskId :
       /\ IsNextId(t)
       /\ Commit([db EXCEPT ![t] = [owner |-> o, val |-> w]])
       /\ key' = [key EXCEPT ![w] = <<o, t>>]
  /\ op' = [op EXCEPT ![w] = "create"]
  /\ Goto(w, "created")
  /\ UNCHANGED <<redis, phase, tries, seen, window, late, reply>>

(* get_owned_task_or_404, on the way into update_task and delete_task.     *)
Find(w) ==
  /\ pc[w] = "idle"
  /\ \E k \in Key, o \in {"update", "delete"} :
       /\ key' = [key EXCEPT ![w] = k]
       /\ op' = [op EXCEPT ![w] = o]
       /\ IF View(db, k) = NotFound
          THEN Goto(w, "done") /\ Answer(w, NotFound)
          ELSE Goto(w, "commit") /\ UNCHANGED reply
  /\ UNCHANGED <<redis, table, phase, tries, seen, window, late>>

(* Mutant: session.merge of the task that was looked up, which inserts it  *)
(* again when it is gone and takes it back when its id is another user's.  *)
CommitMerge(w) ==
  LET t == key[w][2] IN
  /\ pc[w] = "commit" /\ op[w] = "update"
  /\ Commit([db EXCEPT ![t] = [owner |-> key[w][1], val |-> w]])
  /\ Goto(w, "invalidate")
  /\ UNCHANGED <<redis, local, reply>>

(* The commit of update_task.  Its UPDATE names the row by primary key     *)
(* alone; none is sent when the body changes no field, and one that meets  *)
(* no row raises StaleDataError.                                           *)
CommitUpdate(w) ==
  LET t == key[w][2] IN
  /\ pc[w] = "commit" /\ op[w] = "update"
  /\ \/ UNCHANGED <<table, reply>> /\ Goto(w, "invalidate")
     \/ /\ db[t] # NoRow
        /\ Commit([db EXCEPT ![t].val = w])
        /\ Goto(w, "invalidate")
        /\ UNCHANGED reply
     \/ /\ db[t] = NoRow
        /\ Goto(w, "done") /\ Answer(w, "row_gone")
        /\ UNCHANGED table
  /\ UNCHANGED <<redis, local>>

(* Mutant: delete_task forgets to invalidate.                              *)
DeleteKeepsCache(w) ==
  /\ pc[w] = "commit" /\ op[w] = "delete"
  /\ Commit([db EXCEPT ![key[w][2]] = NoRow])
  /\ Goto(w, "done")
  /\ Answer(w, "ok")
  /\ UNCHANGED <<redis, local>>

(* The commit of delete_task.  A DELETE that meets no row only warns.      *)
CommitDelete(w) ==
  /\ pc[w] = "commit" /\ op[w] = "delete"
  /\ Commit([db EXCEPT ![key[w][2]] = NoRow])
  /\ Goto(w, "invalidate")
  /\ UNCHANGED <<redis, local, reply>>

(* A database error instead of the commit: the write has no effect.  (One  *)
(* in the SELECT of Find or in the INSERT of Create ends a request that has*)
(* left no trace, as if it had not been made.)                             *)
CommitError(w) ==
  /\ pc[w] = "commit"
  /\ "db" \in Faults
  /\ Goto(w, "done") /\ Answer(w, "db_error")
  /\ UNCHANGED <<redis, table, local>>

(* session.refresh, before create_task invalidates ...                     *)
RefreshCreated(w) ==
  /\ pc[w] = "created"
  /\ IF db[key[w][2]] = NoRow
     THEN Goto(w, "done") /\ Answer(w, "row_gone")
     ELSE Goto(w, "invalidate") /\ UNCHANGED reply
  /\ UNCHANGED <<redis, table, local>>

(* invalidate_cached_task: a RedisError is logged and the request goes on. *)
Invalidate(w) ==
  /\ pc[w] = "invalidate"
  /\ \E outcome \in Outcomes : DropCache(key[w], outcome)
  /\ IF op[w] = "update"
     THEN Goto(w, "refresh") /\ UNCHANGED reply
     ELSE Goto(w, "done") /\ Answer(w, "ok")
  /\ UNCHANGED <<table, local>>

(* ... and after update_task has invalidated.                              *)
RefreshUpdated(w) ==
  /\ pc[w] = "refresh"
  /\ Goto(w, "done")
  /\ Answer(w, IF db[key[w][2]] = NoRow THEN "row_gone"
               ELSE db[key[w][2]].val)
  /\ UNCHANGED <<redis, table, local>>

(* A database error in either refresh: the write has taken effect and its  *)
(* answer is 500, in create_task without the invalidation.                 *)
RefreshError(w) ==
  /\ pc[w] \in {"created", "refresh"}
  /\ "db" \in Faults
  /\ Goto(w, "done") /\ Answer(w, "db_error")
  /\ UNCHANGED <<redis, table, local>>

WriterProgress(w) ==
  \/ CommitUpdate(w) \/ CommitDelete(w)
  \/ RefreshCreated(w) \/ Invalidate(w) \/ RefreshUpdated(w)
WriterStep(w) == WriterProgress(w) \/ CommitError(w) \/ RefreshError(w)

-----------------------------------------------------------------------------
(* The API process that serves q dies; Redis and the table stay.           *)
Crash(q) ==
  /\ "crash" \in Faults
  /\ pc[q] \notin {"idle", "done", "crashed"}
  /\ Goto(q, "crashed")
  /\ window' = [r \in Reader |-> IF r = q THEN 0 ELSE window[r]]
  /\ UNCHANGED <<redis, table, key, phase, tries, seen, op, late, reply>>

Less(n) == IF n = 0 THEN 0 ELSE n - 1

(* Time passes.  It does not while a fill has used up its window.          *)
Tick ==
  /\ \A r \in Reader : pc[r] = "fill" => window[r] > 0
  /\ cacheTtl' = [k \in Key |-> Less(cacheTtl[k])]
  /\ cached' = [k \in Key |-> IF cacheTtl[k] = 1 THEN Absent ELSE cached[k]]
  /\ lockTtl' = [k \in Key |-> Less(lockTtl[k])]
  /\ lock' = [k \in Key |-> IF lockTtl[k] = 1 THEN Nobody ELSE lock[k]]
  /\ window' = [r \in Reader |-> Less(window[r])]
  /\ grace' = [k \in Key |-> [c \in Served |-> Less(grace[k][c])]]
  /\ UNCHANGED <<db, pc, key, phase, tries, seen, op, late, reply, history>>

(* Any rows may be there at the start, and in the cache nothing, or what a *)
(* release with another TaskResponse left behind.                          *)
Init ==
  /\ db \in [TaskId -> {NoRow} \cup [owner : Owner, val : {Seed}]]
  /\ cached \in [Key -> {Absent, Unreadable}]
  /\ cacheTtl = [k \in Key |-> IF cached[k] = Absent THEN 0 ELSE PosTtl]
  /\ lock = [k \in Key |-> Nobody]
  /\ lockTtl = [k \in Key |-> 0]
  /\ pc = [q \in Request |-> "idle"]
  /\ key = [q \in Request |-> NoKey]
  /\ phase = [r \in Reader |-> "lookup"]
  /\ tries = [r \in Reader |-> 0]
  /\ seen = [r \in Reader |-> NotFound]
  /\ window = [r \in Reader |-> 0]
  /\ op = [w \in Writer |-> "none"]
  /\ reply = [q \in Request |-> "none"]
  /\ history = Shown(db)
  /\ grace = [k \in Key |-> [c \in Served |-> 0]]
  /\ late = {}

Next ==
  \/ \E r \in Reader : Receive(r) \/ ReaderStep(r)
  \/ \E w \in Writer : Create(w) \/ Find(w) \/ WriterStep(w)
  \/ \E q \in Request : Crash(q)
  \/ Tick

Spec == Init /\ [][Next]_vars

(* A request that has begun keeps running, unless its process dies, and so *)
(* does the clock.  Whether a request arrives is the client's choice, and  *)
(* no error is owed to a request that would otherwise wait.                *)
FairSpec ==
  /\ Spec
  /\ \A r \in Reader : WF_vars(ReaderProgress(r))
  /\ \A w \in Writer : WF_vars(WriterProgress(w))
  /\ WF_vars(Tick)

-----------------------------------------------------------------------------
(* Properties.                                                             *)

(* The type of every variable; no request polls Redis more often than      *)
(* task_cache_lock_wait_attempts allows.                                   *)
TypeOK ==
  /\ db \in [TaskId -> Row \cup {NoRow}]
  /\ cached \in [Key -> Served \cup {Unreadable, Absent}]
  /\ cacheTtl \in [Key -> Nat]
  /\ lock \in [Key -> Reader \cup {Nobody}]
  /\ lockTtl \in [Key -> Nat]
  /\ pc \in [Request -> {"idle", "get", "discard", "acquire", "load", "fill",
                         "release", "created", "commit", "invalidate",
                         "refresh", "done", "crashed"}]
  /\ key \in [Request -> Key \cup {NoKey}]
  /\ phase \in [Reader -> {"lookup", "poll", "recheck"}]
  /\ tries \in [Reader -> 0..WaitAttempts]
  /\ seen \in [Reader -> Served]
  /\ window \in [Reader -> 0..FillWindow]
  /\ op \in [Writer -> {"none", "create", "update", "delete"}]
  /\ reply \in [Request -> Replies]
  /\ history \in SUBSET (Key \X Content)
  /\ grace \in [Key -> [Served -> Nat]]
  /\ late \in SUBSET Reader

(* What the time to live of a cache entry buys, whatever fails: an entry   *)
(* that no longer agrees with the table was superseded less than its       *)
(* longest time to live plus one fill window ago.  It covers the fill that *)
(* overtakes an invalidation, the invalidation Redis refused or a crash    *)
(* swallowed, and the row changed under another owner's key; for a 404     *)
(* marker the bound is the much shorter negative time to live.             *)
BoundedStaleness ==
  \A k \in Key : cached[k] \in Served =>
    \/ cached[k] = View(db, k)
    \/ grace[k][cached[k]] \in 1..Allowance(cached[k])

(* A GET answers with a content that the asking user's own task of that id *)
(* has had, though ids are used again by other users, entries outlive      *)
(* their rows and requests fill the cache behind each other's backs.       *)
RepliesFromOwnHistory ==
  \A r \in Reader : reply[r] \in Content => <<key[r], reply[r]>> \in history

(* The token of a fill lock leaves Redis when its time is up or when the   *)
(* request that put it there releases it; a request that overslept its     *)
(* lock never releases or overwrites its successor's.                      *)
OnlyHolderReleases ==
  [][\A k \in Key : lock[k] # Nobody /\ lock'[k] # lock[k] =>
       /\ lock'[k] = Nobody
       /\ \/ lockTtl[k] = 1 /\ pc' = pc
          \/ pc[lock[k]] = "release" /\ pc'[lock[k]] = "done"]_vars

(* Without faults an entry disagrees with the table only while a writer of *)
(* the key has yet to invalidate it, after a reader that overlapped a      *)
(* write filled it late, or when a writer that looked up the id under      *)
(* another owner changed the row: every other write is followed by the     *)
(* invalidation of all it made stale.                                      *)
Coherence ==
  Faults = {} =>
    \A k \in Key : cached[k] \in Served /\ cached[k] # View(db, k) =>
      \/ \E w \in Writer : key[w] = k /\ pc[w] \in {"created", "invalidate"}
      \/ \E r \in late : key[r] = k /\ seen[r] = cached[k]
      \/ \E w \in Writer : /\ key[w][2] = k[2] /\ key[w][1] # k[1]
                          /\ op[w] # "create"
                          /\ pc[w] \in {"invalidate", "refresh", "done"}

(* Where a request is in the eyes of its client: it has yet to take effect *)
(* or to be answered ("begun"), has taken effect, or is over.  A GET is    *)
(* over once it has its answer, before it releases its lock.               *)
Stage(p) ==
  CASE p = "idle"                                             -> "idle"
    [] p \in {"get", "discard", "acquire", "load", "fill",
              "commit"}                                       -> "begun"
    [] p \in {"created", "invalidate", "refresh"}             -> "committed"
    [] OTHER                                                  -> "over"

Contract == INSTANCE TaskStore WITH
  shown    <- [k \in Key |-> View(db, k)],
  stage    <- [q \in Request |-> Stage(pc[q])],
  Patience <- [c \in Served |-> Allowance(c)]

(* The two stores, the lock and their failures implement one store that    *)
(* GETs see late by at most the allowance of what they answer: a write     *)
(* takes effect at most once, before its answer, which is a success only   *)
(* if it did, and only reads are ever stale.                               *)
KeepsContract == Contract!Spec

(* Every request is answered, or dies with its process: the wait for       *)
(* another request's fill is bounded, even when that request never fills.  *)
RequestsTerminate ==
  \A q \in Request : pc[q] # "idle" ~> pc[q] \in {"done", "crashed"}

(* Every fill lock is given up in the end, though its holder may crash,    *)
(* its release may fail, and its acquire may have lost its reply.          *)
LocksAreGivenUp ==
  \A k \in Key : lock[k] # Nobody ~> lock[k] = Nobody
=============================================================================
