--------------------------- MODULE TaskCache_proofs ---------------------------
(* What holds of TaskCache for every number of requests, users and rows,   *)
(* every setting, and every choice of Faults.                              *)
EXTENDS TaskCache, Integers, TLAPS

-----------------------------------------------------------------------------
(* The types.                                                              *)

(* A request that has begun knows its key.                                 *)
KeysKnown == \A q \in Request : pc[q] # "idle" => key[q] \in Key

(* A reader that may still miss a lookup has a poll left.                  *)
PollsLeft ==
  \A r \in Reader : pc[r] \in {"idle", "get", "discard", "acquire"}
                      => tries[r] < WaitAttempts

Typed == TypeOK /\ KeysKnown /\ PollsLeft

(* find_owned_task returns a content or nothing.                           *)
LEMMA ViewType ==
  ASSUME NEW d \in [TaskId -> Row \cup {NoRow}], NEW k \in Key
  PROVE  View(d, k) \in Served
BY DEF View, Row, NoRow, Key, Served

(* A lifetime and the allowance made for it are positive numbers.          *)
LEMMA TtlType ==
  ASSUME NEW c
  PROVE  /\ MaxTtl(c) \in Nat /\ MaxTtl(c) > 0
         /\ Allowance(c) \in Nat
         /\ \A ttl \in CacheExpiry(c) : ttl \in Nat /\ 0 < ttl /\ ttl <= MaxTtl(c)
BY SettingsAssumption DEF MaxTtl, Allowance, CacheExpiry

(* Committing a table leaves the table and its observers well typed.       *)
LEMMA CommitType ==
  ASSUME Typed, NEW d \in [TaskId -> Row \cup {NoRow}], Commit(d)
  PROVE  /\ db' \in [TaskId -> Row \cup {NoRow}]
         /\ history' \in SUBSET (Key \X Content)
         /\ grace' \in [Key -> [Served -> Nat]]
<1>1. db' \in [TaskId -> Row \cup {NoRow}]  BY DEF Commit
<1>2. history' \in SUBSET (Key \X Content)  BY DEF Commit, Shown, Typed, TypeOK
<1>3. grace' \in [Key -> [Served -> Nat]]
  BY TtlType DEF Commit, Typed, TypeOK
<1> QED  BY <1>1, <1>2, <1>3

(* Subtracting a tick from a count of ticks.                               *)
LEMMA LessType == \A n \in Nat : Less(n) \in Nat /\ Less(n) <= n
BY DEF Less

(* Writing a value, or nothing, under a cache key keeps Redis well typed.  *)
LEMMA PutCacheType ==
  ASSUME Typed, NEW k \in Key, NEW v \in Served \cup {Unreadable, Absent},
         NEW ttl \in Nat, PutCache(k, v, ttl)
  PROVE  /\ cached' \in [Key -> Served \cup {Unreadable, Absent}]
         /\ cacheTtl' \in [Key -> Nat]
         /\ lock' = lock /\ lockTtl' = lockTtl
BY DEF PutCache, Typed, TypeOK

LEMMA DropCacheType ==
  ASSUME Typed, NEW k \in Key, NEW outcome, DropCache(k, outcome)
  PROVE  /\ cached' \in [Key -> Served \cup {Unreadable, Absent}]
         /\ cacheTtl' \in [Key -> Nat]
         /\ lock' = lock /\ lockTtl' = lockTtl
BY PutCacheType DEF DropCache, redis, Typed, TypeOK

LEMMA InitTyped == Init => Typed
<1> SUFFICES ASSUME Init PROVE Typed  OBVIOUS
<1> USE SettingsAssumption DEF Init
<1>1. db \in [TaskId -> Row \cup {NoRow}]  BY DEF Row, Content
<1>2. /\ cached \in [Key -> Served \cup {Unreadable, Absent}]
      /\ cacheTtl \in [Key -> Nat]
  OBVIOUS
<1>3. history \in SUBSET (Key \X Content)  BY DEF Shown
<1>4. grace \in [Key -> [Served -> Nat]]  OBVIOUS
<1>5. TypeOK  BY <1>1, <1>2, <1>3, <1>4 DEF TypeOK, Served, Replies
<1>6. KeysKnown /\ PollsLeft  BY DEF KeysKnown, PollsLeft, Request
<1> QED  BY <1>5, <1>6 DEF Typed

(* A lookup that missed sends its reader somewhere and may count a poll.   *)
LEMMA MissedType ==
  ASSUME Typed, NEW r \in Reader, pc[r] \in {"get", "discard"}, Missed(r)
  PROVE  \E p \in {"acquire", "load", "get"}, n \in 0..WaitAttempts :
           /\ Goto(r, p)
           /\ tries' = [tries EXCEPT ![r] = n]
           /\ p # "load" => n < WaitAttempts
<1> USE DEF Typed, TypeOK, PollsLeft, Goto
<1>0. /\ tries[r] \in 0..WaitAttempts /\ tries[r] < WaitAttempts
      /\ tries = [tries EXCEPT ![r] = tries[r]]
  OBVIOUS
<1>1. CASE phase[r] = "lookup"
  <2>1. Goto(r, "acquire") /\ tries' = tries  BY <1>1 DEF Missed
  <2> QED  BY <1>0, <2>1
<1>2. CASE phase[r] = "recheck"
  <2>1. Goto(r, "load") /\ tries' = tries  BY <1>2 DEF Missed
  <2> QED  BY <1>0, <2>1
<1>3. CASE phase[r] = "poll"
  <2>1. /\ tries' = [tries EXCEPT ![r] = tries[r] + 1]
        /\ Goto(r, IF tries[r] + 1 < WaitAttempts THEN "get" ELSE "load")
    BY <1>3 DEF Missed
  <2>2. tries[r] + 1 \in 0..WaitAttempts  BY <1>0, SettingsAssumption
  <2> QED  BY <2>1, <2>2
<1> QED  BY <1>1, <1>2, <1>3

(* Every step keeps the types.                                             *)
LEMMA NextTyped == Typed /\ [Next]_vars => Typed'
<1> SUFFICES ASSUME Typed, [Next]_vars PROVE Typed'  OBVIOUS
<1> USE DEF Typed, TypeOK, KeysKnown, PollsLeft, Request, Goto, Answer,
            redis, table, local
<1>1. ASSUME NEW r \in Reader, Receive(r) PROVE Typed'
  BY <1>1 DEF Receive
<1>2. ASSUME NEW r \in Reader, LookupHit(r) PROVE Typed'
  BY <1>2 DEF LookupHit, Leave, Holds, Replies
<1>3. ASSUME NEW r \in Reader, LookupMiss(r) PROVE Typed'
  <2>1. PICK p \in {"acquire", "load", "get"}, n \in 0..WaitAttempts :
          /\ Goto(r, p)
          /\ tries' = [tries EXCEPT ![r] = n]
          /\ p # "load" => n < WaitAttempts
    BY <1>3, MissedType DEF LookupMiss
  <2> QED  BY <1>3, <2>1 DEF LookupMiss
<1>4. ASSUME NEW r \in Reader, LookupInvalid(r) PROVE Typed'
  BY <1>4 DEF LookupInvalid
<1>5. ASSUME NEW r \in Reader, LookupError(r) PROVE Typed'
  BY <1>5 DEF LookupError, LookupRaised, Holds, Replies, Errors
<1>6. ASSUME NEW r \in Reader, Discard(r) PROVE Typed'
  <2> USE <1>6 DEF Discard
  <2>1. PICK outcome \in Outcomes :
          /\ DropCache(key[r], outcome)
          /\ IF outcome = "ok"
             THEN Missed(r) /\ UNCHANGED reply
             ELSE LookupRaised(r) /\ UNCHANGED tries
    OBVIOUS
  <2>2. /\ cached' \in [Key -> Served \cup {Unreadable, Absent}]
        /\ cacheTtl' \in [Key -> Nat]
        /\ lock' = lock /\ lockTtl' = lockTtl
    BY <2>1, DropCacheType
  <2>3. CASE outcome = "ok"
    <3>1. PICK p \in {"acquire", "load", "get"}, n \in 0..WaitAttempts :
            /\ Goto(r, p)
            /\ tries' = [tries EXCEPT ![r] = n]
            /\ p # "load" => n < WaitAttempts
      BY <2>1, <2>3, MissedType
    <3> QED  BY <2>1, <2>2, <2>3, <3>1
  <2>4. CASE outcome # "ok"
    BY <2>1, <2>2, <2>4 DEF LookupRaised, Holds, Replies, Errors
  <2> QED  BY <2>3, <2>4
<1>7. ASSUME NEW r \in Reader, Acquire(r) PROVE Typed'
  <2>1. key[r] \in Key  BY <1>7 DEF Acquire
  <2>2. /\ lock' \in [Key -> Reader \cup {Nobody}] /\ lockTtl' \in [Key -> Nat]
        /\ cached' = cached /\ cacheTtl' = cacheTtl
    <3>1. \/ PutLock(key[r], r, LockExpiry)
          \/ UNCHANGED redis
      BY <1>7 DEF Acquire
    <3>2. LockExpiry \in Nat  BY SettingsAssumption DEF LockExpiry
    <3>3. CASE PutLock(key[r], r, LockExpiry)  BY <3>2, <3>3 DEF PutLock
    <3>4. CASE UNCHANGED redis  BY <3>4 DEF redis
    <3> QED  BY <3>1, <3>3, <3>4
  <2>3. /\ \/ pc' = [pc EXCEPT ![r] = "load"]
           \/ pc' = [pc EXCEPT ![r] = "get"]
        /\ \/ phase' = phase
           \/ \E p \in {"recheck", "poll"} : phase' = [phase EXCEPT ![r] = p]
    BY <1>7 DEF Acquire, Goto
  <2> QED  BY <1>7, <2>1, <2>2, <2>3 DEF Acquire
<1>8. ASSUME NEW r \in Reader, Load(r) PROVE Typed'
  <2>1. View(db, key[r]) \in Served  BY <1>8, ViewType DEF Load
  <2>2. FillWindow \in 0..FillWindow  BY SettingsAssumption
  <2> QED  BY <1>8, <2>1, <2>2 DEF Load
<1>9. ASSUME NEW r \in Reader, LoadError(r) PROVE Typed'
  BY <1>9 DEF LoadError, Leave, Holds, Replies, Errors
<1>10. ASSUME NEW r \in Reader, Fill(r) PROVE Typed'
  <2> USE <1>10 DEF Fill
  <2>1. PICK outcome \in Outcomes, ttl \in CacheExpiry(seen[r]) :
          IF Ran(outcome) THEN PutCache(key[r], seen[r], ttl)
                          ELSE UNCHANGED redis
    OBVIOUS
  <2>2. ttl \in Nat /\ key[r] \in Key /\ seen[r] \in Served  BY TtlType
  <2>3. /\ cached' \in [Key -> Served \cup {Unreadable, Absent}]
        /\ cacheTtl' \in [Key -> Nat]
        /\ lock' = lock /\ lockTtl' = lockTtl
    BY <2>1, <2>2, PutCacheType
  <2>4. 0 \in 0..FillWindow  BY SettingsAssumption
  <2>5. seen[r] \in Replies  BY <2>2 DEF Replies
  <2> QED  BY <2>3, <2>4, <2>5 DEF Leave, Holds
<1>11. ASSUME NEW r \in Reader, Release(r) PROVE Typed'
  BY <1>11 DEF Release, PutLock
<1>12. ASSUME NEW w \in Writer, Create(w) PROVE Typed'
  <2> USE <1>12 DEF Create
  <2>1. PICK o \in Owner, t \in TaskId :
          /\ Commit([db EXCEPT ![t] = [owner |-> o, val |-> w]])
          /\ key' = [key EXCEPT ![w] = <<o, t>>]
    OBVIOUS
  <2>2. [db EXCEPT ![t] = [owner |-> o, val |-> w]]
          \in [TaskId -> Row \cup {NoRow}]
    BY DEF Row, Content
  <2>3. /\ db' \in [TaskId -> Row \cup {NoRow}]
        /\ history' \in SUBSET (Key \X Content)
        /\ grace' \in [Key -> [Served -> Nat]]
    BY <2>1, <2>2, CommitType
  <2>4. <<o, t>> \in Key  BY DEF Key
  <2>5. w \notin Reader  BY RequestsAssumption
  <2> QED  BY <2>1, <2>3, <2>4, <2>5
<1>13. ASSUME NEW w \in Writer, Find(w) PROVE Typed'
  <2> USE <1>13 DEF Find
  <2>1. PICK k \in Key, o \in {"update", "delete"} :
          /\ key' = [key EXCEPT ![w] = k]
          /\ op' = [op EXCEPT ![w] = o]
          /\ IF View(db, k) = NotFound
             THEN Goto(w, "done") /\ Answer(w, NotFound)
             ELSE Goto(w, "commit") /\ UNCHANGED reply
    OBVIOUS
  <2>2. w \notin Reader /\ NotFound \in Replies
    BY RequestsAssumption DEF Replies, Served
  <2>3. pc' \in [Request -> {"idle", "get", "discard", "acquire", "load",
                   "fill", "release", "created", "commit", "invalidate",
                   "refresh", "done", "crashed"}]
        /\ \A q \in Request \ {w} : pc'[q] = pc[q]
    <3>1. PICK p \in {"done", "commit"} : pc' = [pc EXCEPT ![w] = p]
      BY <2>1
    <3> QED  BY <3>1
  <2>4. reply' \in [Request -> Replies]  BY <2>1, <2>2
  <2>5. /\ key' \in [Request -> Key \cup {NoKey}]
        /\ \A q \in Request : pc'[q] # "idle" => key'[q] \in Key
    BY <2>1, <2>3
  <2>6. op' \in [Writer -> {"none", "create", "update", "delete"}]
    BY <2>1
  <2>7. PollsLeft'  BY <2>2, <2>3
  <2> QED  BY <2>3, <2>4, <2>5, <2>6, <2>7
<1>14. ASSUME NEW w \in Writer, CommitUpdate(w) PROVE Typed'
  <2> DEFINE t == key[w][2]
  <2> USE <1>14 DEF CommitUpdate
  <2>0. w \notin Reader /\ key[w] \in Key /\ t \in TaskId
    BY RequestsAssumption DEF Key
  <2>1. CASE /\ UNCHANGED <<db, history, grace, reply>>
             /\ Goto(w, "invalidate")
    BY <2>0, <2>1
  <2>2. CASE /\ db[t] # NoRow
             /\ Commit([db EXCEPT ![t].val = w])
             /\ Goto(w, "invalidate") /\ UNCHANGED reply
    <3>1. [db EXCEPT ![t].val = w] \in [TaskId -> Row \cup {NoRow}]
      <4>1. db[t] \in Row  BY <2>0, <2>2
      <4>2. [db[t] EXCEPT !.val = w] \in Row  BY <4>1 DEF Row, Content
      <4> QED  BY <2>0, <4>2
    <3>2. /\ db' \in [TaskId -> Row \cup {NoRow}]
          /\ history' \in SUBSET (Key \X Content)
          /\ grace' \in [Key -> [Served -> Nat]]
      BY <2>2, <3>1, CommitType
    <3> QED  BY <2>0, <2>2, <3>2
  <2>3. CASE /\ Goto(w, "done") /\ Answer(w, "row_gone")
             /\ UNCHANGED <<db, history, grace>>
    BY <2>0, <2>3 DEF Replies, Errors
  <2> QED  BY <2>1, <2>2, <2>3
<1>15. ASSUME NEW w \in Writer, CommitDelete(w) PROVE Typed'
  <2> USE <1>15 DEF CommitDelete
  <2>0. w \notin Reader /\ key[w] \in Key /\ key[w][2] \in TaskId
    BY RequestsAssumption DEF Key
  <2>1. [db EXCEPT ![key[w][2]] = NoRow] \in [TaskId -> Row \cup {NoRow}]
    OBVIOUS
  <2>2. /\ db' \in [TaskId -> Row \cup {NoRow}]
        /\ history' \in SUBSET (Key \X Content)
        /\ grace' \in [Key -> [Served -> Nat]]
    BY <2>1, CommitType
  <2> QED  BY <2>0, <2>2
<1>16. ASSUME NEW w \in Writer, CommitError(w) \/ RefreshError(w) PROVE Typed'
  <2>0. w \notin Reader  BY RequestsAssumption
  <2>1. CASE CommitError(w)  BY <2>0, <2>1 DEF CommitError, Replies, Errors
  <2>2. CASE RefreshError(w)  BY <2>0, <2>2 DEF RefreshError, Replies, Errors
  <2> QED  BY <1>16, <2>1, <2>2
<1>17. ASSUME NEW w \in Writer, RefreshCreated(w) PROVE Typed'
  <2>0. w \notin Reader  BY RequestsAssumption
  <2>1. CASE Goto(w, "done") /\ Answer(w, "row_gone")
    BY <1>17, <2>0, <2>1 DEF RefreshCreated, Replies, Errors
  <2>2. CASE Goto(w, "invalidate") /\ UNCHANGED reply
    BY <1>17, <2>0, <2>2 DEF RefreshCreated
  <2> QED  BY <1>17, <2>1, <2>2 DEF RefreshCreated
<1>18. ASSUME NEW w \in Writer, Invalidate(w) PROVE Typed'
  <2> USE <1>18 DEF Invalidate
  <2>0. w \notin Reader /\ key[w] \in Key  BY RequestsAssumption
  <2>1. /\ cached' \in [Key -> Served \cup {Unreadable, Absent}]
        /\ cacheTtl' \in [Key -> Nat]
        /\ lock' = lock /\ lockTtl' = lockTtl
    BY <2>0, DropCacheType
  <2> QED  BY <2>0, <2>1 DEF Replies
<1>19. ASSUME NEW w \in Writer, RefreshUpdated(w) PROVE Typed'
  <2> USE <1>19 DEF RefreshUpdated
  <2>0. w \notin Reader /\ key[w][2] \in TaskId
    BY RequestsAssumption DEF Key
  <2>1. db[key[w][2]] # NoRow => db[key[w][2]].val \in Replies
    BY <2>0 DEF Row, Replies, Served
  <2>2. "row_gone" \in Replies  BY DEF Replies, Errors
  <2> QED  BY <2>0, <2>1, <2>2
<1>20. ASSUME NEW q \in Request, Crash(q) PROVE Typed'
  BY <1>20, SettingsAssumption DEF Crash
<1>21. ASSUME Tick PROVE Typed'
  <2> USE <1>21 DEF Tick
  <2>1. /\ cacheTtl' \in [Key -> Nat] /\ lockTtl' \in [Key -> Nat]
    BY LessType
  <2>2. /\ cached' \in [Key -> Served \cup {Unreadable, Absent}]
        /\ lock' \in [Key -> Reader \cup {Nobody}]
    OBVIOUS
  <2>3. window' \in [Reader -> 0..FillWindow]
    <3>1. \A n \in 0..FillWindow : Less(n) \in 0..FillWindow
      BY SettingsAssumption DEF Less
    <3> QED  BY <3>1
  <2>4. grace' \in [Key -> [Served -> Nat]]  BY LessType
  <2> QED  BY <2>1, <2>2, <2>3, <2>4
<1>22. ASSUME UNCHANGED vars PROVE Typed'
  BY <1>22 DEF vars
<1> QED
  BY <1>1, <1>2, <1>3, <1>4, <1>5, <1>6, <1>7, <1>8, <1>9, <1>10, <1>11,
     <1>12, <1>13, <1>14, <1>15, <1>16, <1>17, <1>18, <1>19, <1>20, <1>21,
     <1>22
     DEF Next, ReaderStep, ReaderProgress, WriterStep, WriterProgress

(* Every variable keeps its type; no reader polls beyond the limit.        *)
THEOREM TypeCorrect == Spec => []TypeOK
<1>1. Typed => TypeOK  BY DEF Typed
<1> QED  BY InitTyped, NextTyped, <1>1, PTL DEF Spec

LEMMA TypedAlways == Spec => []Typed
BY InitTyped, NextTyped, PTL DEF Spec

-----------------------------------------------------------------------------
(* A fill lock is taken away by time or by its holder.                     *)

ReleasedByHolder(k) ==
  lock[k] # Nobody /\ lock'[k] # lock[k] =>
    /\ lock'[k] = Nobody
    /\ \/ lockTtl[k] = 1 /\ pc' = pc
       \/ pc[lock[k]] = "release" /\ pc'[lock[k]] = "done"

(* Only Acquire, Release and Tick touch the locks: the first takes free    *)
(* ones, the second its own, the third those whose time is up.             *)
LEMMA HolderStep ==
  ASSUME Typed, [Next]_vars
  PROVE  \A k \in Key : ReleasedByHolder(k)
<1> SUFFICES ASSUME NEW k \in Key PROVE ReleasedByHolder(k)  OBVIOUS
<1> USE DEF ReleasedByHolder, Typed, TypeOK, redis
<1>1. ASSUME NEW r \in Reader, Acquire(r) PROVE ReleasedByHolder(k)
  BY <1>1 DEF Acquire, PutLock
<1>2. ASSUME NEW r \in Reader, Release(r) PROVE ReleasedByHolder(k)
  BY <1>2 DEF Release, PutLock, Goto, Request
<1>3. ASSUME Tick PROVE ReleasedByHolder(k)
  BY <1>3 DEF Tick
<1>4. ASSUME lock' = lock PROVE ReleasedByHolder(k)
  BY <1>4
<1>5. ASSUME NEW r \in Reader,
             \/ Receive(r) \/ LookupHit(r) \/ LookupMiss(r)
             \/ LookupInvalid(r) \/ LookupError(r) \/ Load(r) \/ LoadError(r)
      PROVE  lock' = lock
  BY <1>5 DEF Receive, LookupHit, LookupMiss, LookupInvalid, LookupError,
              Load, LoadError
<1>6. ASSUME NEW r \in Reader, Discard(r) \/ Fill(r) PROVE lock' = lock
  BY <1>6 DEF Discard, Fill, DropCache, PutCache
<1>7. ASSUME NEW w \in Writer, Create(w) \/ Find(w) \/ WriterStep(w)
      PROVE  lock' = lock
  BY <1>7 DEF Create, Find, WriterStep, WriterProgress, CommitUpdate, CommitDelete,
              CommitError, RefreshCreated, Invalidate, RefreshUpdated, RefreshError,
              DropCache, PutCache
<1>8. ASSUME NEW q \in Request, Crash(q) PROVE lock' = lock
  BY <1>8 DEF Crash
<1>9. ASSUME UNCHANGED vars PROVE lock' = lock
  BY <1>9 DEF vars
<1> QED
  BY <1>1, <1>2, <1>3, <1>4, <1>5, <1>6, <1>7, <1>8, <1>9
     DEF Next, ReaderStep, ReaderProgress

(* No request ever releases or overwrites the lock of another.             *)
THEOREM HolderReleases == Spec => OnlyHolderReleases
<1>1. Typed /\ [Next]_vars =>
        [\A k \in Key : ReleasedByHolder(k)]_vars
  BY HolderStep
<1>2. [\A k \in Key : ReleasedByHolder(k)]_vars =>
        [\A k \in Key : lock[k] # Nobody /\ lock'[k] # lock[k] =>
           /\ lock'[k] = Nobody
           /\ \/ lockTtl[k] = 1 /\ pc' = pc
              \/ pc[lock[k]] = "release" /\ pc'[lock[k]] = "done"]_vars
  BY DEF ReleasedByHolder
<1> QED  BY <1>1, <1>2, TypedAlways, PTL DEF Spec, OnlyHolderReleases

-----------------------------------------------------------------------------
(* What a step can do to the table, the cache and the fills in progress.   *)

(* A fill goes on with the key, the result and the window it has.          *)
FillsKept ==
  \A r \in Reader : pc'[r] = "fill" =>
    /\ pc[r] = "fill"
    /\ key'[r] = key[r] /\ seen'[r] = seen[r] /\ window'[r] = window[r]

(* It may empty cache keys, ...                                            *)
Quiet ==
  /\ UNCHANGED <<db, history, grace>>
  /\ \A k \in Key : \/ cached'[k] = cached[k] /\ cacheTtl'[k] = cacheTtl[k]
                    \/ cached'[k] = Absent
  /\ FillsKept

(* ... or commit a table, ...                                              *)
Committed ==
  /\ \E d \in [TaskId -> Row \cup {NoRow}] : Commit(d)
  /\ UNCHANGED <<cached, cacheTtl>>
  /\ FillsKept

(* ... or read the table, write the cache, or let time pass.               *)
LEMMA StepEffect ==
  ASSUME Typed, [Next]_vars
  PROVE  \/ Quiet \/ Committed \/ Tick
         \/ \E r \in Reader : Load(r) \/ Fill(r)
<1> USE DEF Typed, TypeOK, KeysKnown, Request, Goto, redis, table, local
<1>1. ASSUME NEW r \in Reader, Receive(r) PROVE Quiet
  BY <1>1 DEF Receive, Quiet, FillsKept
<1>2. ASSUME NEW r \in Reader, LookupHit(r) \/ LoadError(r) PROVE Quiet
  BY <1>2 DEF LookupHit, LoadError, Leave, Quiet, FillsKept
<1>3. ASSUME NEW r \in Reader, LookupMiss(r) PROVE Quiet
  <2>1. PICK p \in {"acquire", "load", "get"} : Goto(r, p)
    BY <1>3, MissedType DEF LookupMiss
  <2> QED  BY <1>3, <2>1 DEF LookupMiss, Quiet, FillsKept
<1>4. ASSUME NEW r \in Reader, LookupInvalid(r) \/ LookupError(r) PROVE Quiet
  BY <1>4 DEF LookupInvalid, LookupError, LookupRaised, Quiet, FillsKept
<1>5. ASSUME NEW r \in Reader, Discard(r) PROVE Quiet
  <2>1. PICK outcome \in Outcomes :
          /\ DropCache(key[r], outcome)
          /\ IF outcome = "ok"
             THEN Missed(r) /\ UNCHANGED reply
             ELSE LookupRaised(r) /\ UNCHANGED tries
    BY <1>5 DEF Discard
  <2>2. PICK p \in {"acquire", "load", "get", "release"} : Goto(r, p)
    BY <1>5, <2>1, MissedType DEF Discard, LookupRaised
  <2>3. \A k \in Key : \/ cached'[k] = cached[k] /\ cacheTtl'[k] = cacheTtl[k]
                       \/ cached'[k] = Absent
    BY <2>1 DEF DropCache, PutCache
  <2> QED  BY <1>5, <2>2, <2>3 DEF Discard, Quiet, FillsKept
<1>6. ASSUME NEW r \in Reader, Acquire(r) \/ Release(r) PROVE Quiet
  BY <1>6 DEF Acquire, Release, PutLock, Quiet, FillsKept
<1>7. ASSUME NEW w \in Writer, Create(w) PROVE Committed
  <2>1. PICK o \in Owner, t \in TaskId :
          Commit([db EXCEPT ![t] = [owner |-> o, val |-> w]])
    BY <1>7 DEF Create
  <2>2. [db EXCEPT ![t] = [owner |-> o, val |-> w]]
          \in [TaskId -> Row \cup {NoRow}]
    BY DEF Row, Content
  <2>3. FillsKept  BY <1>7, RequestsAssumption DEF Create, FillsKept
  <2> QED  BY <1>7, <2>1, <2>2, <2>3 DEF Create, Committed
<1>8. ASSUME NEW w \in Writer, Find(w) PROVE Quiet
  <2>1. FillsKept  BY <1>8, RequestsAssumption DEF Find, FillsKept
  <2> QED  BY <1>8, <2>1 DEF Find, Quiet
<1>9. ASSUME NEW w \in Writer, CommitUpdate(w) PROVE Quiet \/ Committed
  <2> DEFINE t == key[w][2]
  <2>0. t \in TaskId  BY <1>9 DEF CommitUpdate, Key
  <2>1. FillsKept
    BY <1>9, RequestsAssumption DEF CommitUpdate, FillsKept
  <2>2. CASE UNCHANGED <<db, history, grace>>
    BY <1>9, <2>1, <2>2 DEF CommitUpdate, Quiet
  <2>3. CASE db[t] # NoRow /\ Commit([db EXCEPT ![t].val = w])
    <3>1. db[t] \in Row  BY <2>0, <2>3
    <3>2. [db[t] EXCEPT !.val = w] \in Row  BY <3>1 DEF Row, Content
    <3>3. [db EXCEPT ![t].val = w] \in [TaskId -> Row \cup {NoRow}]
      BY <2>0, <3>2
    <3> QED  BY <1>9, <2>1, <2>3, <3>3 DEF CommitUpdate, Committed
  <2> QED  BY <1>9, <2>2, <2>3 DEF CommitUpdate
<1>10. ASSUME NEW w \in Writer, CommitDelete(w) PROVE Committed
  <2>1. [db EXCEPT ![key[w][2]] = NoRow] \in [TaskId -> Row \cup {NoRow}]
    OBVIOUS
  <2>2. FillsKept
    BY <1>10, RequestsAssumption DEF CommitDelete, FillsKept
  <2> QED  BY <1>10, <2>1, <2>2 DEF CommitDelete, Committed
<1>11. ASSUME NEW w \in Writer,
              \/ CommitError(w) \/ RefreshCreated(w) \/ RefreshUpdated(w)
              \/ RefreshError(w)
       PROVE  Quiet
  <2>1. FillsKept
    BY <1>11, RequestsAssumption
       DEF CommitError, RefreshCreated, RefreshUpdated, RefreshError, FillsKept
  <2> QED
    BY <1>11, <2>1 DEF CommitError, RefreshCreated, RefreshUpdated, RefreshError, Quiet
<1>12. ASSUME NEW w \in Writer, Invalidate(w) PROVE Quiet
  <2>1. FillsKept  BY <1>12, RequestsAssumption DEF Invalidate, FillsKept
  <2>2. \A k \in Key : \/ cached'[k] = cached[k] /\ cacheTtl'[k] = cacheTtl[k]
                       \/ cached'[k] = Absent
    BY <1>12 DEF Invalidate, DropCache, PutCache
  <2> QED  BY <1>12, <2>1, <2>2 DEF Invalidate, Quiet
<1>13. ASSUME NEW q \in Request, Crash(q) PROVE Quiet
  BY <1>13 DEF Crash, Quiet, FillsKept
<1>14. ASSUME UNCHANGED vars PROVE Quiet
  BY <1>14 DEF vars, Quiet, FillsKept
<1> QED
  BY <1>1, <1>2, <1>3, <1>4, <1>5, <1>6, <1>7, <1>8, <1>9, <1>10, <1>11,
     <1>12, <1>13, <1>14
     DEF Next, ReaderStep, ReaderProgress, WriterStep, WriterProgress

-----------------------------------------------------------------------------
(* A superseded entry does not outlive its grace period.                   *)

(* What is due to be gone in n ticks is current, or has n ticks of grace.  *)
Current(k, c)     == c = View(db, k)
Covered(k, c, n)  == Current(k, c) \/ n <= grace[k][c]

EntriesCovered ==
  \A k \in Key : cached[k] \in Served =>
    /\ 0 < cacheTtl[k] /\ cacheTtl[k] <= MaxTtl(cached[k])
    /\ Covered(k, cached[k], cacheTtl[k])

(* A fill in progress is an entry to be, at the latest when its window has *)
(* passed.                                                                 *)
FillsCovered ==
  \A r \in Reader : pc[r] = "fill" =>
    Covered(key[r], seen[r], window[r] + MaxTtl(seen[r]))

Staleness == EntriesCovered /\ FillsCovered

(* A commit grants what it supersedes all the time an entry can last.      *)
LEMMA CommitCovers ==
  ASSUME Typed, NEW d \in [TaskId -> Row \cup {NoRow}], Commit(d),
         NEW k \in Key, NEW c \in Served,
         NEW n \in Nat, n <= Allowance(c), Covered(k, c, n)
  PROVE  Covered(k, c, n)'
BY TtlType DEF Commit, Covered, Current, Typed, TypeOK

LEMMA NextStaleness == Typed /\ Staleness /\ [Next]_vars => Staleness'
<1> SUFFICES ASSUME Typed, Staleness, [Next]_vars PROVE Staleness'
  OBVIOUS
<1> USE DEF Staleness
<1>0. Typed'  BY NextTyped
<1>1. CASE Quiet
  <2>1. \A k \in Key, c \in Served, n \in Nat :
          Covered(k, c, n)' <=> Covered(k, c, n)
    BY <1>1 DEF Quiet, Covered, Current, View
  <2>2. EntriesCovered'
    <3> SUFFICES ASSUME NEW k \in Key, cached'[k] \in Served
                 PROVE  /\ 0 < cacheTtl'[k] /\ cacheTtl'[k] <= MaxTtl(cached'[k])
                        /\ Covered(k, cached[k], cacheTtl[k])'
      BY DEF EntriesCovered
    <3>1. cached'[k] # Absent
      BY ContentAssumption DEF Served, NotFound, Absent
    <3> QED  BY <1>1, <2>1, <3>1 DEF Quiet, EntriesCovered, Typed, TypeOK
  <2>3. FillsCovered'
    <3> SUFFICES ASSUME NEW r \in Reader, pc'[r] = "fill"
                 PROVE  Covered(key[r], seen[r], window[r] + MaxTtl(seen[r]))'
      BY DEF FillsCovered
    <3>1. /\ pc[r] = "fill" /\ key'[r] = key[r] /\ seen'[r] = seen[r]
          /\ window'[r] = window[r]
      BY <1>1 DEF Quiet, FillsKept
    <3>2. /\ key[r] \in Key /\ seen[r] \in Served
          /\ window[r] + MaxTtl(seen[r]) \in Nat
      BY <3>1, TtlType DEF Typed, TypeOK, KeysKnown, Request
    <3>3. Covered(key[r], seen[r], window[r] + MaxTtl(seen[r]))
      BY <3>1 DEF FillsCovered
    <3>4. Covered(key[r], seen[r], window[r] + MaxTtl(seen[r])) <=>
            View(db', key[r]) = seen[r] \/
              window[r] + MaxTtl(seen[r]) <= grace'[key[r]][seen[r]]
      BY <1>1 DEF Quiet, Covered, Current
    <3> QED  BY <3>1, <3>3, <3>4 DEF Covered, Current
  <2> QED  BY <2>2, <2>3
<1>2. CASE Committed
  <2> PICK d \in [TaskId -> Row \cup {NoRow}] : Commit(d)
    BY <1>2 DEF Committed
  <2>1. EntriesCovered'
    <3> SUFFICES ASSUME NEW k \in Key, cached'[k] \in Served
                 PROVE  /\ 0 < cacheTtl'[k] /\ cacheTtl'[k] <= MaxTtl(cached'[k])
                        /\ Covered(k, cached[k], cacheTtl[k])'
      BY DEF EntriesCovered
    <3>1. cached' = cached /\ cacheTtl' = cacheTtl  BY <1>2 DEF Committed
    <3>2. cacheTtl[k] \in Nat  BY DEF Typed, TypeOK
    <3>3. MaxTtl(cached[k]) <= Allowance(cached[k])
      BY TtlType, SettingsAssumption DEF Allowance
    <3>4. /\ 0 < cacheTtl[k] /\ cacheTtl[k] <= MaxTtl(cached[k])
          /\ Covered(k, cached[k], cacheTtl[k])
      BY <3>1 DEF EntriesCovered
    <3>5. cacheTtl[k] <= Allowance(cached[k])
      BY <3>2, <3>3, <3>4, TtlType
    <3>6. Covered(k, cached[k], cacheTtl[k])' 
      BY <3>1, <3>2, <3>4, <3>5, CommitCovers DEF Covered, Current
    <3> QED  BY <3>1, <3>4, <3>6
  <2>2. FillsCovered'
    <3> SUFFICES ASSUME NEW r \in Reader, pc'[r] = "fill"
                 PROVE  Covered(key[r], seen[r], window[r] + MaxTtl(seen[r]))'
      BY DEF FillsCovered
    <3> DEFINE n == window[r] + MaxTtl(seen[r])
    <3>1. /\ pc[r] = "fill" /\ key'[r] = key[r] /\ seen'[r] = seen[r]
          /\ window'[r] = window[r]
      BY <1>2 DEF Committed, FillsKept
    <3>2. /\ key[r] \in Key /\ seen[r] \in Served
          /\ n \in Nat /\ n <= Allowance(seen[r])
      BY <3>1, TtlType, SettingsAssumption
         DEF Typed, TypeOK, KeysKnown, Request, Allowance
    <3>3. Covered(key[r], seen[r], n)  BY <3>1 DEF FillsCovered
    <3> HIDE DEF n
    <3>4. View(db', key[r]) = seen[r] \/ n <= grace'[key[r]][seen[r]]
      BY <3>2, <3>3, CommitCovers DEF Covered, Current
    <3> QED  BY <3>1, <3>4 DEF Covered, Current, n
  <2> QED  BY <2>1, <2>2
<1>3. CASE Tick
  <2>1. EntriesCovered'
    <3> SUFFICES ASSUME NEW k \in Key, cached'[k] \in Served
                 PROVE  /\ 0 < cacheTtl'[k] /\ cacheTtl'[k] <= MaxTtl(cached'[k])
                        /\ Covered(k, cached[k], cacheTtl[k])'
      BY DEF EntriesCovered
    <3>1. cached'[k] # Absent
      BY ContentAssumption DEF Served, NotFound, Absent
    <3>2. /\ cacheTtl[k] # 1 /\ cached'[k] = cached[k] /\ db' = db
          /\ cacheTtl'[k] = Less(cacheTtl[k])
      BY <1>3, <3>1 DEF Tick
    <3>3. grace'[k][cached[k]] = Less(grace[k][cached[k]])
      BY <1>3, <3>2 DEF Tick
    <3>4. /\ cacheTtl[k] \in Nat /\ grace[k][cached[k]] \in Nat
          /\ MaxTtl(cached[k]) \in Nat
      BY <3>2, TtlType DEF Typed, TypeOK
    <3>5. /\ 0 < cacheTtl[k] /\ cacheTtl[k] <= MaxTtl(cached[k])
          /\ Covered(k, cached[k], cacheTtl[k])
      BY <3>2 DEF EntriesCovered
    <3> QED  BY <3>2, <3>3, <3>4, <3>5 DEF Covered, Current, Less
  <2>2. FillsCovered'
    <3> SUFFICES ASSUME NEW r \in Reader, pc'[r] = "fill"
                 PROVE  Covered(key[r], seen[r], window[r] + MaxTtl(seen[r]))'
      BY DEF FillsCovered
    <3>1. /\ pc[r] = "fill" /\ key' = key /\ seen' = seen /\ db' = db
          /\ window[r] \in Nat /\ window[r] > 0 /\ window'[r] = window[r] - 1
      BY <1>3, SettingsAssumption DEF Tick, Less, Typed, TypeOK
    <3>2. /\ key[r] \in Key /\ seen[r] \in Served
          /\ grace[key[r]][seen[r]] \in Nat
          /\ grace'[key[r]][seen[r]] = Less(grace[key[r]][seen[r]])
      BY <1>3, <3>1 DEF Tick, Typed, TypeOK, KeysKnown, Request
    <3>3. Covered(key[r], seen[r], window[r] + MaxTtl(seen[r]))
      BY <3>1 DEF FillsCovered
    <3> QED  BY <3>1, <3>2, <3>3, TtlType DEF Covered, Current, Less
  <2> QED  BY <2>1, <2>2
<1>4. ASSUME NEW r \in Reader, Load(r) PROVE Staleness'
  <2>1. EntriesCovered'
    BY <1>4 DEF Load, EntriesCovered, Covered, Current, redis, table
  <2>2. FillsCovered'
    BY <1>4 DEF Load, FillsCovered, Covered, Current, Goto, table,
                Typed, TypeOK, Request
  <2> QED  BY <2>1, <2>2
<1>5. ASSUME NEW r \in Reader, Fill(r) PROVE Staleness'
  <2> DEFINE k == key[r]
  <2>1. PICK outcome \in Outcomes, ttl \in CacheExpiry(seen[r]) :
          IF Ran(outcome) THEN PutCache(k, seen[r], ttl) ELSE UNCHANGED redis
    BY <1>5 DEF Fill
  <2>2. /\ k \in Key /\ seen[r] \in Served /\ window[r] \in Nat
        /\ grace[k][seen[r]] \in Nat
    BY <1>5, SettingsAssumption DEF Fill, Typed, TypeOK, KeysKnown, Request
  <2>3. /\ ttl \in Nat /\ 0 < ttl /\ ttl <= MaxTtl(seen[r])
        /\ Covered(k, seen[r], window[r] + MaxTtl(seen[r]))
    BY <1>5, TtlType DEF FillsCovered, Fill
  <2>4. Covered(k, seen[r], ttl)
    BY <2>2, <2>3, TtlType DEF Covered
  <2>5. db' = db /\ grace' = grace  BY <1>5 DEF Fill, table
  <2>6. EntriesCovered'
    <3>1. CASE UNCHANGED redis
      BY <2>5, <3>1 DEF redis, EntriesCovered, Covered, Current
    <3>2. CASE PutCache(k, seen[r], ttl)
      <4> HIDE DEF k
      <4> QED
        BY <2>2, <2>3, <2>4, <2>5, <3>2
           DEF PutCache, EntriesCovered, Covered, Current, Typed, TypeOK
    <3> QED  BY <2>1, <3>1, <3>2
  <2>7. FillsCovered'
    BY <1>5, <2>5 DEF Fill, Leave, Goto, FillsCovered, Covered, Current,
                      Typed, TypeOK, Request
  <2> QED  BY <2>6, <2>7
<1> QED  BY <1>1, <1>2, <1>3, <1>4, <1>5, StepEffect

LEMMA InitStaleness == Init => Staleness
BY ContentAssumption
   DEF Init, Staleness, EntriesCovered, FillsCovered, Served, Request,
       NotFound, Absent, Unreadable

LEMMA StalenessAlways == Spec => [](Typed /\ Staleness)
BY InitTyped, NextTyped, InitStaleness, NextStaleness, PTL DEF Spec

(* No content is ever granted more than its allowance.                     *)
GraceBounded == \A k \in Key, c \in Served : grace[k][c] <= Allowance(c)

LEMMA NextGrace == Typed /\ GraceBounded /\ [Next]_vars => GraceBounded'
<1> SUFFICES ASSUME Typed, GraceBounded, [Next]_vars,
                    NEW k \in Key, NEW c \in Served
             PROVE  grace'[k][c] <= Allowance(c)
  BY DEF GraceBounded, Allowance, MaxTtl
<1>0. /\ grace[k][c] \in Nat /\ grace[k][c] <= Allowance(c)
      /\ Allowance(c) \in Nat
  BY TtlType DEF Typed, TypeOK, GraceBounded
<1>1. CASE grace' = grace  BY <1>0, <1>1
<1>2. CASE \E d \in [TaskId -> Row \cup {NoRow}] : Commit(d)
  BY <1>0, <1>2 DEF Commit
<1>3. CASE Tick  BY <1>0, <1>3, LessType DEF Tick
<1> QED
  BY <1>1, <1>2, <1>3, StepEffect DEF Quiet, Committed, Load, Fill, table

(* No entry outlives its row by more than a fill window and a lifetime.    *)
THEOREM StalenessBounded == Spec => []BoundedStaleness
<1>1. Typed /\ Staleness /\ GraceBounded => BoundedStaleness
  <2> SUFFICES ASSUME Typed, Staleness, GraceBounded,
                      NEW k \in Key, cached[k] \in Served, cached[k] # View(db, k)
               PROVE  grace[k][cached[k]] \in 1..Allowance(cached[k])
    BY DEF BoundedStaleness
  <2>1. /\ grace[k][cached[k]] \in Nat /\ Allowance(cached[k]) \in Nat
        /\ cacheTtl[k] \in Nat
    BY TtlType DEF Typed, TypeOK
  <2>2. /\ 0 < cacheTtl[k] /\ cacheTtl[k] <= grace[k][cached[k]]
        /\ grace[k][cached[k]] <= Allowance(cached[k])
    BY DEF Staleness, EntriesCovered, Covered, Current, GraceBounded
  <2> QED  BY <2>1, <2>2
<1>2. Init => GraceBounded  BY TtlType DEF Init, GraceBounded
<1> QED  BY StalenessAlways, NextGrace, <1>1, <1>2, PTL DEF Spec

-----------------------------------------------------------------------------
(* No reader is served a content of another user's task.                   *)

Known(k, c) == c \in Content => <<k, c>> \in history

(* What the table shows, Redis holds and readers carry has been the        *)
(* content of that key.                                                    *)
Recorded ==
  /\ \A k \in Key : Known(k, View(db, k)) /\ Known(k, cached[k])
  /\ \A r \in Reader : pc[r] = "fill" => Known(key[r], seen[r])

(* A reader that has not begun has no answer; the others are recorded.     *)
Answered ==
  \A r \in Reader : IF pc[r] = "idle" THEN reply[r] = "none"
                                      ELSE Known(key[r], reply[r])

LEMMA NextRecorded == Typed /\ Recorded /\ [Next]_vars => Recorded'
<1> SUFFICES ASSUME Typed, Recorded, [Next]_vars PROVE Recorded'
  OBVIOUS
<1>1. CASE Quiet
  <2>1. Absent \notin Content  BY ContentAssumption
  <2>2. \A k \in Key : View(db', k) = View(db, k)
    BY <1>1 DEF Quiet, View
  <2> QED  BY <1>1, <2>1, <2>2 DEF Quiet, FillsKept, Recorded, Known
<1>2. CASE Committed
  <2> PICK d \in [TaskId -> Row \cup {NoRow}] : Commit(d)
    BY <1>2 DEF Committed
  <2>1. db' = d /\ history' = history \cup Shown(d)  BY DEF Commit
  <2>2. \A k \in Key : Known(k, View(db, k))'
    BY <2>1 DEF Known, Shown
  <2>3. \A k \in Key, c \in Served : Known(k, c) => Known(k, c)'
    BY <2>1 DEF Known
  <2>4. \A k \in Key : Known(k, cached[k])'
    BY <1>2, <2>1 DEF Committed, Recorded, Known
  <2>5. \A r \in Reader : pc'[r] = "fill" => Known(key[r], seen[r])'
    BY <1>2, <2>1 DEF Committed, FillsKept, Recorded, Known
  <2> QED  BY <2>2, <2>4, <2>5 DEF Recorded
<1>3. CASE Tick
  <2>1. Absent \notin Content  BY ContentAssumption
  <2> QED  BY <1>3, <2>1 DEF Tick, Recorded, Known, View
<1>4. ASSUME NEW r \in Reader, Load(r) PROVE Recorded'
  BY <1>4 DEF Load, Recorded, Known, Goto, redis, table, Typed, TypeOK,
              KeysKnown, Request
<1>5. ASSUME NEW r \in Reader, Fill(r) PROVE Recorded'
  BY <1>5 DEF Fill, Leave, Goto, PutCache, redis, table, Recorded, Known,
              Typed, TypeOK, KeysKnown, Request
<1> QED  BY <1>1, <1>2, <1>3, <1>4, <1>5, StepEffect

(* A reader answers what it found in Redis, what its SELECT returned, or   *)
(* with an error.                                                          *)
LEMMA NextAnswered ==
  Typed /\ Recorded /\ Answered /\ [Next]_vars => Answered'
<1> SUFFICES ASSUME Typed, Recorded, Answered, [Next]_vars PROVE Answered'
  OBVIOUS
<1> DEFINE Kept == \A r \in Reader :
             /\ (pc'[r] = "idle") = (pc[r] = "idle")
             /\ key'[r] = key[r] /\ reply'[r] = reply[r]
<1> USE DEF Typed, TypeOK, KeysKnown, Request, Goto, Answer
<1>1. /\ "redis_error" \notin Content /\ "db_error" \notin Content
      /\ "none" \notin Content
  BY ContentAssumption DEF Errors
<1>2. history \subseteq history'
  <2>1. CASE Committed  BY <2>1 DEF Committed, Commit
  <2>2. CASE Quiet \/ Tick  BY <2>2 DEF Quiet, Tick
  <2>3. ASSUME NEW r \in Reader, Load(r) \/ Fill(r) PROVE history' = history
    BY <2>3 DEF Load, Fill, table
  <2> QED  BY <2>1, <2>2, <2>3, StepEffect
<1>3. ASSUME Kept PROVE Answered'
  BY <1>2, <1>3 DEF Answered, Known
<1>4. ASSUME NEW r \in Reader, Receive(r) PROVE Answered'
  BY <1>1, <1>2, <1>4 DEF Receive, Answered, Known
<1>5. ASSUME NEW r \in Reader, LookupHit(r) PROVE Answered'
  BY <1>2, <1>5 DEF LookupHit, Leave, local, Recorded, Answered, Known
<1>6. ASSUME NEW r \in Reader, LookupMiss(r) PROVE Answered'
  <2>1. PICK p \in {"acquire", "load", "get"} : Goto(r, p)
    BY <1>6, MissedType DEF LookupMiss
  <2> QED  BY <1>3, <1>6, <2>1 DEF LookupMiss
<1>7. ASSUME NEW r \in Reader, LookupError(r) PROVE Answered'
  BY <1>1, <1>2, <1>7
     DEF LookupError, LookupRaised, local, Answered, Known
<1>8. ASSUME NEW r \in Reader, Discard(r) PROVE Answered'
  <2>1. CASE Missed(r) /\ UNCHANGED reply
    <3>1. PICK p \in {"acquire", "load", "get"} : Goto(r, p)
      BY <1>8, <2>1, MissedType DEF Discard
    <3> QED  BY <1>3, <1>8, <2>1, <3>1 DEF Discard
  <2>2. CASE LookupRaised(r)
    BY <1>1, <1>2, <1>8, <2>2 DEF Discard, LookupRaised, Answered, Known
  <2> QED  BY <1>8, <2>1, <2>2 DEF Discard
<1>9. ASSUME NEW r \in Reader,
             LookupInvalid(r) \/ Acquire(r) \/ Load(r) \/ Release(r)
      PROVE  Answered'
  BY <1>3, <1>9 DEF LookupInvalid, Acquire, Load, Release, local
<1>10. ASSUME NEW r \in Reader, LoadError(r) PROVE Answered'
  BY <1>1, <1>2, <1>10 DEF LoadError, Leave, local, Answered, Known
<1>11. ASSUME NEW r \in Reader, Fill(r) PROVE Answered'
  BY <1>2, <1>11 DEF Fill, Leave, Recorded, Answered, Known
<1>12. ASSUME NEW w \in Writer, Create(w) \/ Find(w) PROVE Answered'
  <2>1. w \notin Reader  BY RequestsAssumption
  <2>2. \A r \in Reader : /\ pc'[r] = pc[r] /\ key'[r] = key[r]
                          /\ reply'[r] = reply[r]
    BY <1>12, <2>1 DEF Create, Find
  <2> QED  BY <1>3, <2>2
<1>13. ASSUME NEW w \in Writer, WriterStep(w) PROVE Answered'
  <2>1. w \notin Reader  BY RequestsAssumption
  <2>2. \A r \in Reader : /\ pc'[r] = pc[r] /\ key'[r] = key[r]
                          /\ reply'[r] = reply[r]
    BY <1>13, <2>1
       DEF WriterStep, WriterProgress, CommitUpdate, CommitDelete, CommitError,
           RefreshCreated, Invalidate, RefreshUpdated, RefreshError, local
  <2> QED  BY <1>3, <2>2
<1>14. ASSUME NEW q \in Request, Crash(q) PROVE Answered'
  BY <1>3, <1>14 DEF Crash
<1>15. CASE Tick \/ UNCHANGED vars
  BY <1>3, <1>15 DEF Tick, vars
<1> QED
  BY <1>4, <1>5, <1>6, <1>7, <1>8, <1>9, <1>10, <1>11, <1>12, <1>13,
     <1>14, <1>15
     DEF Next, ReaderStep, ReaderProgress

LEMMA InitRecorded == Init => Recorded /\ Answered
<1> SUFFICES ASSUME Init PROVE Recorded /\ Answered  OBVIOUS
<1>1. \A k \in Key : Known(k, View(db, k))  BY DEF Init, Known, Shown
<1>2. \A k \in Key : Known(k, cached[k])
  BY ContentAssumption DEF Init, Known
<1>3. \A r \in Reader : pc[r] = "idle" /\ reply[r] = "none"
  BY DEF Init, Request
<1> QED  BY <1>1, <1>2, <1>3 DEF Recorded, Answered

(* Every task a GET returns has been the asking user's task of that id.    *)
THEOREM OwnHistory == Spec => []RepliesFromOwnHistory
<1>1. Answered => RepliesFromOwnHistory
  BY ContentAssumption DEF Answered, Known, RepliesFromOwnHistory
<1> QED
  BY InitTyped, NextTyped, InitRecorded, NextRecorded, NextAnswered, <1>1,
     PTL DEF Spec

-----------------------------------------------------------------------------
(* Without faults every stale entry has a reason.                          *)

(* Who may leave the entry of k stale.  A writer between its INSERT and    *)
(* its invalidation only ever excuses a 404 marker: it alone was current   *)
(* before the row, and if the row is gone again it is current once more.   *)
Creating(w, k)     == key[w] = k /\ pc[w] = "created" /\ cached[k] = NotFound
Invalidating(w, k) == key[w] = k /\ pc[w] = "invalidate"
FilledLate(r, k)   == r \in late /\ key[r] = k /\ seen[r] = cached[k]
Trespassing(w, k)  == /\ key[w][2] = k[2] /\ key[w][1] # k[1]
                      /\ op[w] # "create"
                      /\ pc[w] \in {"invalidate", "refresh", "done"}

Excused(k) ==
  \/ \E w \in Writer : Creating(w, k) \/ Invalidating(w, k) \/ Trespassing(w, k)
  \/ \E r \in Reader : FilledLate(r, k)

Stale(k) == cached[k] \in Served /\ cached[k] # View(db, k)

(* A reader that filled late is past its SELECT for good.                  *)
LateReaders == \A r \in late : pc[r] \in {"release", "done", "crashed"}

StaleExcused == LateReaders /\ \A k \in Key : Stale(k) => Excused(k)

LEMMA NextLate == Typed /\ LateReaders /\ [Next]_vars => LateReaders'
<1> SUFFICES ASSUME Typed, LateReaders, [Next]_vars PROVE LateReaders'
  OBVIOUS
<1> USE DEF Typed, TypeOK, Request, Goto, local, LateReaders
<1>1. ASSUME NEW r \in Reader, Receive(r) PROVE LateReaders'
  BY <1>1 DEF Receive
<1>2. ASSUME NEW r \in Reader, pc[r] = "get" \/ pc[r] = "discard", late' = late,
             \E p \in {"acquire", "load", "get", "release", "done", "discard"} :
               Goto(r, p)
      PROVE  LateReaders'
  BY <1>2
<1>3. ASSUME NEW r \in Reader, LookupHit(r) \/ LookupInvalid(r) \/ LookupError(r)
      PROVE  LateReaders'
  BY <1>2, <1>3
     DEF LookupHit, LookupInvalid, LookupError, LookupRaised, Leave
<1>4. ASSUME NEW r \in Reader, LookupMiss(r) PROVE LateReaders'
  BY <1>2, <1>4, MissedType DEF LookupMiss
<1>5. ASSUME NEW r \in Reader, Discard(r) PROVE LateReaders'
  <2>1. \E p \in {"acquire", "load", "get", "release"} : Goto(r, p)
    BY <1>5, MissedType DEF Discard, LookupRaised
  <2> QED  BY <1>2, <1>5, <2>1 DEF Discard
<1>6. ASSUME NEW r \in Reader,
             Acquire(r) \/ Load(r) \/ LoadError(r) \/ Fill(r) \/ Release(r)
      PROVE  LateReaders'
  BY <1>6 DEF Acquire, Load, LoadError, Fill, Release, Leave
<1>7. ASSUME NEW w \in Writer, Create(w) \/ Find(w) \/ WriterStep(w)
      PROVE  LateReaders'
  <2>1. w \notin Reader  BY RequestsAssumption
  <2> QED
    BY <1>7, <2>1 DEF Create, Find, WriterStep, WriterProgress, CommitUpdate, CommitDelete,
                      CommitError, RefreshCreated, Invalidate, RefreshUpdated, RefreshError
<1>8. ASSUME NEW q \in Request, Crash(q) PROVE LateReaders'
  BY <1>8 DEF Crash
<1>9. CASE Tick \/ UNCHANGED vars
  BY <1>9 DEF Tick, vars
<1> QED
  BY <1>1, <1>3, <1>4, <1>5, <1>6, <1>7, <1>8, <1>9 DEF Next, ReaderStep, ReaderProgress

(* A reader that leaves the table alone keeps every excuse but its own.    *)
LEMMA ReaderKeepsExcuses ==
  ASSUME Typed, StaleExcused, NEW k \in Key, NEW r \in Reader, r \notin late,
         UNCHANGED <<db, op>>, late \subseteq late',
         \A q \in Request \ {r} : key'[q] = key[q] /\ pc'[q] = pc[q],
         \A s \in Reader \ {r} : seen'[s] = seen[s],
         cached'[k] = cached[k] \/ cached'[k] = Absent
  PROVE  Stale(k)' => Excused(k)'
<1> SUFFICES ASSUME Stale(k)' PROVE Excused(k)'  OBVIOUS
<1>1. cached'[k] = cached[k]
  BY ContentAssumption DEF Stale, Served, NotFound, Absent
<1>2. Excused(k)  BY <1>1 DEF StaleExcused, Stale, View
<1>3. ASSUME NEW w \in Writer,
             Creating(w, k) \/ Invalidating(w, k) \/ Trespassing(w, k)
      PROVE  Excused(k)'
  <2>1. w # r /\ w \in Request  BY RequestsAssumption DEF Request
  <2>2. key'[w] = key[w] /\ pc'[w] = pc[w] /\ op'[w] = op[w]  BY <2>1
  <2> QED
    BY <1>1, <1>3, <2>2 DEF Excused, Creating, Invalidating, Trespassing
<1>4. ASSUME NEW s \in Reader, FilledLate(s, k) PROVE Excused(k)'
  <2>1. s # r /\ s \in Request  BY <1>4 DEF FilledLate, Request
  <2> QED  BY <1>1, <1>4, <2>1 DEF Excused, FilledLate
<1> QED  BY <1>2, <1>3, <1>4 DEF Excused

(* A step of w keeps every excuse w does not give.                         *)
LEMMA WriterKeepsExcuses ==
  ASSUME Typed, NEW k \in Key, NEW w \in Writer,
         UNCHANGED <<seen, late>>, cached'[k] = cached[k],
         \A q \in Request \ {w} : key'[q] = key[q] /\ pc'[q] = pc[q],
         \A v \in Writer \ {w} : op'[v] = op[v],
         Excused(k),
         ~ (Creating(w, k) \/ Invalidating(w, k) \/ Trespassing(w, k))
  PROVE  Excused(k)'
<1>1. ASSUME NEW v \in Writer,
             Creating(v, k) \/ Invalidating(v, k) \/ Trespassing(v, k)
      PROVE  Excused(k)'
  <2>1. v # w /\ v \in Request  BY <1>1 DEF Request
  <2>2. key'[v] = key[v] /\ pc'[v] = pc[v] /\ op'[v] = op[v]  BY <2>1
  <2> QED  BY <1>1, <2>2 DEF Excused, Creating, Invalidating, Trespassing
<1>2. ASSUME NEW r \in Reader, FilledLate(r, k) PROVE Excused(k)'
  <2>1. r # w /\ r \in Request  BY RequestsAssumption DEF Request
  <2> QED  BY <1>2, <2>1 DEF Excused, FilledLate
<1> QED  BY <1>1, <1>2 DEF Excused

(* Every step keeps the reasons: a commit makes stale only what its writer *)
(* is about to invalidate or looked up as another's, a fill only what it   *)
(* writes late, and no writer leaves before its invalidation has run.      *)
LEMMA NextStaleExcused ==
  Faults = {} /\ Typed /\ StaleExcused /\ [Next]_vars => StaleExcused'
<1> SUFFICES ASSUME Faults = {}, Typed, StaleExcused, [Next]_vars,
                    NEW k \in Key, Stale(k)'
             PROVE  Excused(k)'
  BY NextLate DEF StaleExcused
<1> USE DEF Typed, TypeOK, Request, Goto, redis, table, local
<1>0. /\ Outcomes = {"ok"} /\ Absent \notin Served /\ LateReaders
      /\ Stale(k) => Excused(k)
  BY ContentAssumption DEF Outcomes, Served, NotFound, Absent, StaleExcused
<1>1. ASSUME NEW r \in Reader, pc[r] \in {"idle", "get", "discard", "acquire",
                                          "load", "fill"}
      PROVE  r \notin late
  BY <1>0, <1>1 DEF LateReaders
<1>2. ASSUME NEW r \in Reader,
             \/ Receive(r) \/ LookupHit(r) \/ LookupMiss(r)
             \/ LookupInvalid(r) \/ LookupError(r)
             \/ Acquire(r) \/ Load(r) \/ LoadError(r)
      PROVE  Excused(k)'
  <2>1. /\ r \notin late /\ UNCHANGED <<db, op>> /\ late' = late
        /\ cached' = cached
    BY <1>1, <1>2 DEF Receive, LookupHit, LookupMiss, LookupInvalid,
                 LookupError, Acquire, PutLock, Load, LoadError
  <2>2. \A q \in Request \ {r} : key'[q] = key[q] /\ pc'[q] = pc[q]
    BY <1>2, MissedType
       DEF Receive, LookupHit, LookupMiss, LookupInvalid, LookupError,
           LookupRaised, Leave, Acquire, Load, LoadError
  <2>3. \A q \in Reader \ {r} : seen'[q] = seen[q]
    BY <1>2 DEF Receive, LookupHit, LookupMiss, LookupInvalid, LookupError,
                Acquire, Load, LoadError
  <2> QED  BY <2>1, <2>2, <2>3, ReaderKeepsExcuses
<1>3. ASSUME NEW r \in Reader, Discard(r) PROVE Excused(k)'
  <2>1. PICK outcome \in Outcomes :
          DropCache(key[r], outcome) /\ (Missed(r) \/ LookupRaised(r))
    BY <1>3 DEF Discard
  <2>2. cached'[k] = cached[k] \/ cached'[k] = Absent
    BY <2>1 DEF DropCache, PutCache
  <2>3. \A q \in Request \ {r} : pc'[q] = pc[q]
    BY <1>3, <2>1, MissedType DEF Discard, LookupRaised
  <2>4. r \notin late  BY <1>1, <1>3 DEF Discard
  <2> QED  BY <1>3, <2>2, <2>3, <2>4, ReaderKeepsExcuses DEF Discard
<1>4. ASSUME NEW r \in Reader, Fill(r) PROVE Excused(k)'
  <2>1. /\ r \notin late /\ key' = key /\ seen' = seen /\ op' = op /\ db' = db
        /\ late \subseteq late' /\ \A q \in Request \ {r} : pc'[q] = pc[q]
    BY <1>1, <1>4 DEF Fill, Leave
  <2>2. CASE cached'[k] = cached[k]
    BY <2>1, <2>2, ReaderKeepsExcuses
  <2>3. CASE cached'[k] # cached[k]
    <3>1. key[r] = k /\ cached'[k] = seen[r]
      BY <1>4, <2>3 DEF Fill, PutCache
    <3>2. seen[r] # View(db, k)
      BY <2>1, <3>1 DEF Stale
    <3>3. r \in late'  BY <1>4, <3>1, <3>2 DEF Fill
    <3> QED  BY <2>1, <3>1, <3>3 DEF Excused, FilledLate
  <2> QED  BY <2>2, <2>3
<1>5. ASSUME NEW r \in Reader, Release(r) PROVE Excused(k)'
  <2>1. /\ UNCHANGED <<db, op, key, seen, late, cached>>
        /\ \A w \in Writer : pc'[w] = pc[w]
    BY <1>5, RequestsAssumption DEF Release, PutLock
  <2>2. Excused(k)  BY <1>0, <2>1 DEF Stale, View
  <2> QED
    BY <2>1, <2>2
       DEF Excused, Creating, Invalidating, Trespassing, FilledLate
<1>6. ASSUME NEW w \in Writer, Create(w) PROVE Excused(k)'
  <2>1. PICK o \in Owner, t \in TaskId :
          /\ IsNextId(t)
          /\ Commit([db EXCEPT ![t] = [owner |-> o, val |-> w]])
          /\ key' = [key EXCEPT ![w] = <<o, t>>]
    BY <1>6 DEF Create
  <2>2. /\ pc[w] = "idle" /\ pc'[w] = "created" /\ cached' = cached
        /\ UNCHANGED <<seen, late>>
        /\ \A q \in Request \ {w} : key'[q] = key[q] /\ pc'[q] = pc[q]
        /\ \A v \in Writer \ {w} : op'[v] = op[v]
    BY <1>6, <2>1 DEF Create
  <2>3. db[t] = NoRow  BY <2>1 DEF IsNextId, TaskId
  <2>4. CASE Stale(k)
    BY <1>0, <2>2, <2>4, WriterKeepsExcuses
       DEF Creating, Invalidating, Trespassing
  <2>5. CASE ~ Stale(k)
    <3>1. cached[k] = View(db, k) /\ View(db', k) # View(db, k)
      BY <2>2, <2>5 DEF Stale
    <3>2. db' = [db EXCEPT ![t] = [owner |-> o, val |-> w]]
      BY <2>1 DEF Commit
    <3>3. k[2] = t /\ k \in Owner \X TaskId
      BY <3>1, <3>2 DEF View, Key
    <3>4. View(db, k) = NotFound
      BY <2>3, <3>3 DEF View, NoRow
    <3>5. k[1] = o
      BY <3>1, <3>2, <3>3, <3>4 DEF View
    <3>6. key'[w] = k
      BY <2>1, <3>3, <3>5
    <3> QED  BY <2>2, <3>1, <3>4, <3>6 DEF Excused, Creating
  <2> QED  BY <2>4, <2>5
<1>7. ASSUME NEW w \in Writer, Find(w) PROVE Excused(k)'
  <2>1. /\ pc[w] = "idle" /\ UNCHANGED <<db, seen, late, cached>>
        /\ \A q \in Request \ {w} : key'[q] = key[q] /\ pc'[q] = pc[q]
        /\ \A v \in Writer \ {w} : op'[v] = op[v]
    BY <1>7 DEF Find
  <2>2. Excused(k)  BY <1>0, <2>1 DEF Stale, View
  <2> QED
    BY <2>1, <2>2, WriterKeepsExcuses DEF Creating, Invalidating, Trespassing
<1>8. ASSUME NEW w \in Writer, CommitUpdate(w) \/ CommitDelete(w)
      PROVE  Excused(k)'
  <2>1. /\ pc[w] = "commit" /\ op[w] # "create"
        /\ UNCHANGED <<seen, late, cached, key, op>>
        /\ \A q \in Request \ {w} : pc'[q] = pc[q]
        /\ key[w] \in Key
    BY <1>8 DEF CommitUpdate, CommitDelete, KeysKnown
  <2>2. CASE Stale(k)
    BY <1>0, <2>1, <2>2, WriterKeepsExcuses
       DEF Creating, Invalidating, Trespassing
  <2>3. CASE ~ Stale(k)
    <3>1. View(db', k) # View(db, k)
      BY <2>1, <2>3 DEF Stale
    <3>2. pc'[w] = "invalidate"
      BY <1>8, <3>1 DEF CommitUpdate, CommitDelete, View
    <3>3. key[w][2] = k[2]
      <4>1. \A u \in TaskId : u # key[w][2] => db'[u] = db[u]
        BY <1>8 DEF CommitUpdate, CommitDelete, Commit
      <4>2. k[2] \in TaskId  BY DEF Key
      <4> QED  BY <3>1, <4>1, <4>2 DEF View
    <3>4. CASE key[w][1] = k[1]
      <4>1. key[w] = <<key[w][1], key[w][2]>> /\ k = <<k[1], k[2]>>
        BY <2>1 DEF Key
      <4>2. key[w] = k  BY <3>3, <3>4, <4>1
      <4> QED  BY <2>1, <3>2, <4>2 DEF Excused, Invalidating
    <3>5. CASE key[w][1] # k[1]
      BY <2>1, <3>2, <3>3, <3>5 DEF Excused, Trespassing
    <3> QED  BY <3>4, <3>5
  <2> QED  BY <2>2, <2>3
<1>9. ASSUME NEW w \in Writer, RefreshCreated(w) PROVE Excused(k)'
  <2>1. /\ pc[w] = "created" /\ UNCHANGED <<db, seen, late, cached, key, op>>
        /\ \A q \in Request \ {w} : pc'[q] = pc[q]
    BY <1>9 DEF RefreshCreated
  <2>2. Excused(k)  BY <1>0, <2>1 DEF Stale, View
  <2>3. CASE key[w] # k \/ cached[k] # NotFound
    BY <2>1, <2>2, <2>3, WriterKeepsExcuses
       DEF Creating, Invalidating, Trespassing
  <2>4. CASE key[w] = k /\ cached[k] = NotFound
    <3>1. View(db, k) # NotFound  BY <2>1, <2>4 DEF Stale
    <3>2. db[k[2]] # NoRow  BY <3>1 DEF View, NoRow
    <3>3. pc'[w] = "invalidate"  BY <1>9, <2>4, <3>2 DEF RefreshCreated
    <3> QED  BY <2>1, <2>4, <3>3 DEF Excused, Invalidating
  <2> QED  BY <2>3, <2>4
<1>10. ASSUME NEW w \in Writer, Invalidate(w) PROVE Excused(k)'
  <2>1. /\ UNCHANGED <<db, seen, late, key, op>>
        /\ pc[w] = "invalidate" /\ pc'[w] \in {"refresh", "done"}
        /\ \A q \in Request \ {w} : pc'[q] = pc[q]
        /\ key[w] \in Key
    BY <1>10 DEF Invalidate, KeysKnown
  <2>2. PutCache(key[w], Absent, 0)
    BY <1>0, <1>10 DEF Invalidate, DropCache, Ran
  <2>3. key[w] # k /\ cached'[k] = cached[k]
    BY <1>0, <2>1, <2>2 DEF PutCache, Stale
  <2>4. Excused(k)  BY <1>0, <2>1, <2>3 DEF Stale, View
  <2>5. CASE Trespassing(w, k)
    BY <2>1, <2>5 DEF Excused, Trespassing
  <2>6. CASE ~ Trespassing(w, k)
    BY <2>1, <2>3, <2>4, <2>6, WriterKeepsExcuses DEF Creating, Invalidating
  <2> QED  BY <2>5, <2>6
<1>11. ASSUME NEW w \in Writer, RefreshUpdated(w) PROVE Excused(k)'
  <2>1. /\ UNCHANGED <<db, seen, late, cached, key, op>>
        /\ pc[w] = "refresh" /\ pc'[w] = "done"
        /\ \A q \in Request \ {w} : pc'[q] = pc[q]
    BY <1>11 DEF RefreshUpdated
  <2>2. Excused(k)  BY <1>0, <2>1 DEF Stale, View
  <2>3. CASE Trespassing(w, k)
    BY <2>1, <2>3 DEF Excused, Trespassing
  <2>4. CASE ~ Trespassing(w, k)
    BY <2>1, <2>2, <2>4, WriterKeepsExcuses DEF Creating, Invalidating
  <2> QED  BY <2>3, <2>4
<1>12. CASE Tick \/ UNCHANGED vars
  <2>1. /\ UNCHANGED <<db, pc, key, op, seen, late>>
        /\ cached'[k] = cached[k] \/ cached'[k] = Absent
    BY <1>12 DEF Tick, vars
  <2>2. cached'[k] = cached[k]  BY <1>0, <2>1 DEF Stale
  <2>3. Excused(k)  BY <1>0, <2>1, <2>2 DEF Stale, View
  <2> QED
    BY <2>1, <2>2, <2>3
       DEF Excused, Creating, Invalidating, Trespassing, FilledLate
<1>13. /\ \A q \in Request : ~ Crash(q)
       /\ \A w \in Writer : ~ CommitError(w) /\ ~ RefreshError(w)
  BY DEF Crash, CommitError, RefreshError
<1> QED
  BY <1>2, <1>3, <1>4, <1>5, <1>6, <1>7, <1>8, <1>9, <1>10, <1>11, <1>12,
     <1>13
     DEF Next, ReaderStep, ReaderProgress, WriterStep, WriterProgress

LEMMA InitStaleExcused == Init => StaleExcused
BY ContentAssumption
   DEF Init, StaleExcused, LateReaders, Stale, Served, NotFound, Absent,
       Unreadable

(* Without faults, whatever is stale was filled late, waits for its        *)
(* invalidation, or was changed under another owner's key.                 *)
THEOREM Coherent == Spec => []Coherence
<1>1. CASE Faults = {}
  <2>1. Init => Typed /\ StaleExcused  BY InitTyped, InitStaleExcused
  <2>2. Typed /\ StaleExcused /\ [Next]_vars => (Typed /\ StaleExcused)'
    BY <1>1, NextTyped, NextStaleExcused
  <2>3. Typed /\ StaleExcused => Coherence
    BY DEF Typed, TypeOK, StaleExcused, Stale, Excused, Creating,
           Invalidating, Trespassing, FilledLate, Coherence
  <2> QED  BY <2>1, <2>2, <2>3, PTL DEF Spec
<1>2. CASE Faults # {}
  <2>1. Coherence  BY <1>2 DEF Coherence
  <2> QED  BY <2>1, PTL
<1> QED  BY <1>1, <1>2
-----------------------------------------------------------------------------
(* TaskCache implements TaskStore: every step is a step of the one store   *)
(* or changes nothing that a client can tell.                              *)

Unnoticed ==
  /\ UNCHANGED <<db, grace, key, op, reply>>
  /\ \A q \in Request : Stage(pc'[q]) = Stage(pc[q])

LEMMA UnnoticedStutters == Unnoticed => UNCHANGED Contract!vars
BY DEF Unnoticed, Contract!vars, View

(* Moving on to p is a move from one stage to the next, or none at all.    *)
LEMMA GotoMoves ==
  ASSUME Typed, NEW q \in Request, NEW p, Goto(q, p)
  PROVE  /\ Contract!Move(q, Stage(pc[q]), Stage(p))
         /\ \A x \in Request \ {q} : pc'[x] = pc[x]
         /\ pc'[q] = p
BY DEF Typed, TypeOK, Goto, Contract!Move

(* The store shows a row to its owner, and no row to nobody.               *)
LEMMA ShownRow ==
  ASSUME Typed, NEW t \in TaskId
  PROVE  /\ db[t] = NoRow <=> Contract!ShownAs(t) = {}
         /\ db[t] # NoRow => db[t].val \in Contract!ShownAs(t)
         /\ \A o \in Owner : View(db, <<o, t>>) = NotFound <=> db[t].owner # o
<1> USE RequestsAssumption, ContentAssumption
<1>1. db[t] = NoRow \/ db[t] \in Row  BY DEF Typed, TypeOK
<1>2. Contract!ShownAs(t) = {View(db, <<o, t>>) : o \in Owner} \ {NotFound}
  BY DEF Contract!ShownAs, Contract!NotFound, NotFound, Key
<1>3. CASE db[t] = NoRow
  <2>1. \A o \in Owner : View(db, <<o, t>>) = NotFound
    BY <1>3 DEF View, NoRow
  <2>2. \A o \in Owner : db[t].owner # o  BY <1>3 DEF NoRow
  <2> QED  BY <1>2, <1>3, <2>1, <2>2
<1>4. CASE db[t] \in Row
  <2>1. db[t].owner \in Owner /\ db[t].val \in Content /\ db[t] # NoRow
    BY <1>4 DEF Row, NoRow
  <2>2. db[t].val # NotFound  BY <2>1
  <2>3. \A o \in Owner : View(db, <<o, t>>) = IF db[t].owner = o
                                             THEN db[t].val ELSE NotFound
    BY DEF View
  <2> QED  BY <1>2, <2>1, <2>2, <2>3
<1> QED  BY <1>1, <1>3, <1>4

(* A commit shows the new table at once and outdates what it replaces.     *)
LEMMA CommitBecomes ==
  ASSUME NEW d, Commit(d), NEW new, new = [k \in Key |-> View(d, k)]
  PROVE  Contract!Become(new)
<1>1. [k \in Key |-> View(db', k)] = new  BY DEF Commit
<1>2. grace' = [k \in Key |-> [c \in Served |->
        IF c = new[k] THEN 0
        ELSE IF c = [x \in Key |-> View(db, x)][k]
             THEN [x \in Served |-> Allowance(x)][c] ELSE grace[k][c]]]
  BY DEF Commit
<1>3. Contract!Key = Key /\ Contract!Served = Served
  BY DEF Contract!Key, Key, TaskId, Contract!Served, Served, Content,
         Contract!NotFound, NotFound
<1> QED  BY <1>1, <1>2, <1>3 DEF Contract!Become

(* The steps of a GET.                                                     *)

LEMMA AnswerReads ==
  ASSUME Typed, NEW r \in Reader, NEW p, NEW v, Goto(r, p), Answer(r, v),
         Stage(pc[r]) = "begun", Stage(p) = "over",
         UNCHANGED <<db, grace, key, op>>,
         \/ v \in Served /\ Covered(key[r], v, 1)
         \/ "redis" \in Faults /\ v = "redis_error"
         \/ "db" \in Faults /\ v = "db_error"
  PROVE  Contract!Read(r)
<1>1. Contract!Move(r, "begun", "over")  BY GotoMoves DEF Request
<1>2. key[r] \in Key
  BY DEF Typed, KeysKnown, Request, Stage
<1>3. CASE v \in Served /\ Covered(key[r], v, 1)
  <2>1. v \in Contract!Served
    BY <1>3 DEF Contract!Served, Served, Content, Contract!NotFound, NotFound
  <2>2. Contract!MayAnswer(r, v)
    BY <1>2, <1>3 DEF Contract!MayAnswer, Covered, Current, Typed, TypeOK
  <2>3. Contract!Answer(r, v)  BY DEF Contract!Answer, Answer
  <2>4. UNCHANGED <<[k \in Key |-> View(db, k)], grace, key, op>>  BY DEF View
  <2> QED  BY <1>1, <2>1, <2>2, <2>3, <2>4 DEF Contract!Read
<1>4. CASE \/ "redis" \in Faults /\ v = "redis_error"
           \/ "db" \in Faults /\ v = "db_error"
  BY <1>1, <1>4 DEF Contract!Read, Contract!Answer, Answer, View
<1> QED  BY <1>3, <1>4

LEMMA MoveUnnoticed ==
  ASSUME Typed, NEW q \in Request, NEW p, Goto(q, p), Stage(p) = Stage(pc[q]),
         UNCHANGED <<db, grace, key, op, reply>>
  PROVE  Unnoticed
BY GotoMoves DEF Unnoticed

LEMMA MissUnnoticed ==
  ASSUME Typed, NEW r \in Reader, pc[r] \in {"get", "discard"}, Missed(r),
         UNCHANGED <<db, grace, key, op, reply>>
  PROVE  Unnoticed
<1>1. PICK p \in {"acquire", "load", "get"} : Goto(r, p)  BY MissedType
<1>2. Stage(p) = "begun" /\ Stage(pc[r]) = "begun"  BY DEF Stage
<1> QED  BY <1>1, <1>2, MoveUnnoticed DEF Request

LEMMA RaiseReads ==
  ASSUME Typed, NEW r \in Reader, pc[r] \in {"get", "discard"}, LookupRaised(r),
         "redis" \in Faults, UNCHANGED <<db, grace, key, op>>
  PROVE  Contract!Read(r) \/ Unnoticed
<1>0. /\ Stage(pc[r]) = "begun" /\ Stage("load") = "begun"
      /\ Stage("release") = "over"
  BY DEF Stage
<1>1. CASE Goto(r, "release") /\ Answer(r, "redis_error")
  BY <1>0, <1>1, AnswerReads
<1>2. CASE Goto(r, "load") /\ UNCHANGED reply
  BY <1>0, <1>2, MoveUnnoticed DEF Request
<1> QED  BY <1>1, <1>2 DEF LookupRaised

LEMMA LeaveReads ==
  ASSUME Typed, NEW r \in Reader, NEW v, Leave(r), Answer(r, v),
         Stage(pc[r]) = "begun", UNCHANGED <<db, grace, key, op>>,
         \/ v \in Served /\ Covered(key[r], v, 1)
         \/ "db" \in Faults /\ v = "db_error"
  PROVE  Contract!Read(r)
<1>1. PICK p \in {"release", "done"} : Goto(r, p)  BY DEF Leave
<1>2. Stage(p) = "over"  BY DEF Stage
<1> QED  BY <1>1, <1>2, AnswerReads

LEMMA ReaderKeepsContract ==
  ASSUME Typed, Staleness, NEW r \in Reader, Receive(r) \/ ReaderStep(r)
  PROVE  Contract!Begin(r) \/ Contract!Read(r) \/ Unnoticed
<1> USE DEF redis, table, local
<1>0. r \in Request  BY DEF Request
<1>1. CASE Receive(r)
  <2>1. Contract!Move(r, "idle", "begun")
    BY <1>0, <1>1, GotoMoves DEF Receive, Stage
  <2>2. \E k \in Contract!Key : key' = [key EXCEPT ![r] = k]
    BY <1>1 DEF Receive, Contract!Key, Key, TaskId
  <2> QED  BY <1>1, <2>1, <2>2 DEF Receive, Contract!Begin, View
<1>2. CASE LookupHit(r)
  <2>1. /\ key[r] \in Key /\ Stage(pc[r]) = "begun"
        /\ cached[key[r]] \in Served
    BY <1>0, <1>2 DEF LookupHit, Typed, KeysKnown, Stage
  <2>2. Covered(key[r], cached[key[r]], 1)
    BY <2>1 DEF Staleness, EntriesCovered, Covered, Typed, TypeOK
  <2> QED  BY <1>2, <2>1, <2>2, LeaveReads DEF LookupHit
<1>3. CASE LookupMiss(r)
  BY <1>3, MissUnnoticed DEF LookupMiss
<1>4. CASE LookupInvalid(r)
  BY <1>0, <1>4, MoveUnnoticed DEF LookupInvalid, Stage
<1>5. CASE LookupError(r)
  BY <1>5, RaiseReads DEF LookupError
<1>6. CASE Discard(r)
  <2>1. \/ Missed(r) /\ UNCHANGED reply
        \/ LookupRaised(r) /\ "redis" \in Faults
    BY <1>6 DEF Discard, Outcomes
  <2> QED  BY <1>6, <2>1, MissUnnoticed, RaiseReads DEF Discard
<1>7. CASE Acquire(r)
  <2>1. PICK p \in {"load", "get"} : Goto(r, p)  BY <1>7 DEF Acquire
  <2>2. Stage(p) = Stage(pc[r])  BY <1>7 DEF Acquire, Stage
  <2> QED  BY <1>0, <1>7, <2>1, <2>2, MoveUnnoticed DEF Acquire
<1>8. CASE Load(r)
  BY <1>0, <1>8, MoveUnnoticed DEF Load, Stage
<1>9. CASE LoadError(r)
  BY <1>9, LeaveReads DEF LoadError, Stage
<1>10. CASE Fill(r)
  <2>1. /\ key[r] \in Key /\ seen[r] \in Served /\ window[r] \in Nat
        /\ Stage(pc[r]) = "begun"
    BY <1>0, <1>10, SettingsAssumption DEF Fill, Typed, TypeOK, KeysKnown, Stage
  <2>2. Covered(key[r], seen[r], 1)
    <3>1. Covered(key[r], seen[r], window[r] + MaxTtl(seen[r]))
      BY <1>10 DEF Fill, Staleness, FillsCovered
    <3>2. grace[key[r]][seen[r]] \in Nat  BY <2>1 DEF Typed, TypeOK
    <3> QED  BY <2>1, <3>1, <3>2, TtlType DEF Covered
  <2> QED  BY <1>10, <2>1, <2>2, LeaveReads DEF Fill
<1>11. CASE Release(r)
  BY <1>0, <1>11, MoveUnnoticed DEF Release, Stage
<1> QED
  BY <1>1, <1>2, <1>3, <1>4, <1>5, <1>6, <1>7, <1>8, <1>9, <1>10, <1>11
     DEF ReaderStep, ReaderProgress

(* The steps of a POST, a PATCH and a DELETE.                              *)

LEMMA CreateCreates ==
  ASSUME Typed, NEW w \in Writer, Create(w)
  PROVE  Contract!Create(w)
<1>1. PICK o \in Owner, t \in TaskId :
        /\ IsNextId(t)
        /\ Commit([db EXCEPT ![t] = [owner |-> o, val |-> w]])
        /\ key' = [key EXCEPT ![w] = <<o, t>>]
  BY DEF Create
<1> DEFINE d == [db EXCEPT ![t] = [owner |-> o, val |-> w]]
           k == <<o, t>>
           new == [[x \in Key |-> View(db, x)] EXCEPT ![k] = w]
<1>2. /\ k \in Key /\ k \in Contract!Key /\ k[1] = o /\ k[2] = t
      /\ db[t] = NoRow
  BY <1>1 DEF Key, Contract!Key, TaskId, IsNextId
<1>3. new = [x \in Key |-> View(d, x)]
  <2> SUFFICES ASSUME NEW x \in Key PROVE new[x] = View(d, x)  OBVIOUS
  <2>1. x = <<x[1], x[2]>> /\ x[1] \in Owner /\ x[2] \in TaskId  BY DEF Key
  <2>2. CASE x[2] # t
    BY <2>1, <2>2 DEF View, Typed, TypeOK
  <2>3. CASE x[2] = t
    <3>1. d[t] = [owner |-> o, val |-> w]  BY DEF Typed, TypeOK
    <3>2. View(db, x) = NotFound
      BY <1>2, <2>1, <2>3, RequestsAssumption DEF View, NoRow
    <3>3. x = k <=> x[1] = o  BY <2>1, <2>3
    <3> QED  BY <1>2, <2>3, <3>1, <3>2, <3>3 DEF View
  <2> QED  BY <2>2, <2>3
<1>4. Contract!Become(new)  BY <1>1, <1>3, CommitBecomes
<1>5. Contract!ShownAs(k[2]) = {}  BY <1>2, ShownRow
<1>6. Contract!Move(w, "idle", "committed")
  BY GotoMoves DEF Create, Stage, Request
<1>7. /\ op' = [op EXCEPT ![w] = "create"]
      /\ UNCHANGED reply
  BY DEF Create
<1> HIDE DEF d, k
<1>8. key' = [key EXCEPT ![w] = k]  BY <1>1 DEF k
<1> QED  BY <1>2, <1>4, <1>5, <1>6, <1>7, <1>8 DEF Contract!Create

LEMMA FindFinds ==
  ASSUME Typed, NEW w \in Writer, Find(w)
  PROVE  Contract!Find(w)
<1>1. PICK k \in Key, o \in {"update", "delete"} :
        /\ key' = [key EXCEPT ![w] = k]
        /\ op' = [op EXCEPT ![w] = o]
        /\ IF View(db, k) = NotFound
           THEN Goto(w, "done") /\ Answer(w, NotFound)
           ELSE Goto(w, "commit") /\ UNCHANGED reply
  BY DEF Find
<1>2. /\ k \in Contract!Key
      /\ [x \in Key |-> View(db, x)][k] = View(db, k)
      /\ Contract!NotFound = NotFound
  BY DEF Contract!Key, Key, TaskId, Contract!NotFound, NotFound
<1>3. /\ Goto(w, "done") => Contract!Move(w, "idle", "over")
      /\ Goto(w, "commit") => Contract!Move(w, "idle", "begun")
  BY GotoMoves DEF Find, Stage, Request
<1>4. UNCHANGED <<[x \in Key |-> View(db, x)], grace>>
  BY DEF Find, View, table
<1> QED
  BY <1>1, <1>2, <1>3, <1>4 DEF Contract!Find, Contract!Answer, Answer

LEMMA CommitUpdates ==
  ASSUME Typed, NEW w \in Writer, CommitUpdate(w)
  PROVE  Contract!Update(w)
<1> DEFINE t == key[w][2]
<1> USE DEF redis, local
<1>0. t \in TaskId /\ op[w] = "update" /\ UNCHANGED <<key, op>>
  BY DEF CommitUpdate, Typed, KeysKnown, Request, Key
<1>1. /\ Goto(w, "invalidate") => Contract!Move(w, "begun", "committed")
      /\ Goto(w, "done") => Contract!Move(w, "begun", "over")
  BY GotoMoves DEF CommitUpdate, Stage, Request
<1>2. CASE UNCHANGED <<table, reply>> /\ Goto(w, "invalidate")
  <2>1. UNCHANGED <<[x \in Key |-> View(db, x)], grace>>
    BY <1>2 DEF View, table
  <2> QED  BY <1>0, <1>1, <1>2, <2>1 DEF Contract!Update
<1>3. CASE /\ db[t] # NoRow
           /\ Commit([db EXCEPT ![t].val = w])
           /\ Goto(w, "invalidate") /\ UNCHANGED reply
  <2> DEFINE d == [db EXCEPT ![t].val = w]
             new == [k \in Key |-> IF k[2] = t /\ [x \in Key |-> View(db, x)][k] # NotFound
                                   THEN w ELSE [x \in Key |-> View(db, x)][k]]
  <2>1. db[t] \in Row  BY <1>0, <1>3 DEF Typed, TypeOK
  <2>2. d[t] = [db[t] EXCEPT !.val = w] /\ \A u \in TaskId \ {t} : d[u] = db[u]
    BY <1>0 DEF Typed, TypeOK
  <2>3. d[t].owner = db[t].owner /\ d[t].val = w
    BY <2>1, <2>2 DEF Row
  <2>4. new = [k \in Key |-> View(d, k)]
    <3> SUFFICES ASSUME NEW k \in Key PROVE new[k] = View(d, k)
      BY Zenon
    <3>1. k = <<k[1], k[2]>> /\ k[1] \in Owner /\ k[2] \in TaskId  BY DEF Key
    <3>2. View(db, k) = NotFound <=> db[k[2]].owner # k[1]
      BY <3>1, ShownRow
    <3> HIDE DEF d, t
    <3> QED  BY <2>2, <2>3, <3>1, <3>2 DEF View
  <2>5. Contract!Become(new)  BY <1>3, <2>4, CommitBecomes
  <2>6. Contract!ShownAs(t) # {}  BY <1>0, <1>3, ShownRow
  <2>7. Contract!Key = Key /\ Contract!NotFound = NotFound
    BY DEF Contract!Key, Key, TaskId, Contract!NotFound, NotFound
  <2>8. Contract!Become([k \in Contract!Key |->
           IF k[2] = t /\ [x \in Key |-> View(db, x)][k] # Contract!NotFound
           THEN w ELSE [x \in Key |-> View(db, x)][k]])
    BY <2>5, <2>7
  <2> QED  BY <1>0, <1>1, <1>3, <2>6, <2>8 DEF Contract!Update
<1>4. CASE /\ db[t] = NoRow
           /\ Goto(w, "done") /\ Answer(w, "row_gone")
           /\ UNCHANGED table
  <2>1. UNCHANGED <<[x \in Key |-> View(db, x)], grace>>
    BY <1>4 DEF View, table
  <2>2. Contract!ShownAs(t) = {}  BY <1>0, <1>4, ShownRow
  <2> QED
    BY <1>0, <1>1, <1>4, <2>1, <2>2 DEF Contract!Update, Contract!Answer, Answer
<1> QED  BY <1>2, <1>3, <1>4 DEF CommitUpdate

LEMMA CommitDeletes ==
  ASSUME Typed, NEW w \in Writer, CommitDelete(w)
  PROVE  Contract!Delete(w)
<1> DEFINE t == key[w][2]
           d == [db EXCEPT ![t] = NoRow]
           new == [k \in Key |-> IF k[2] = t THEN NotFound
                                 ELSE [x \in Key |-> View(db, x)][k]]
<1>1. /\ t \in TaskId /\ op[w] = "delete" /\ UNCHANGED <<key, op, reply>>
      /\ Commit(d)
  BY DEF CommitDelete, Typed, KeysKnown, Request, Key, local
<1>2. Contract!Move(w, "begun", "committed")
  BY GotoMoves DEF CommitDelete, Stage, Request
<1>3. new = [k \in Key |-> View(d, k)]
  <2> SUFFICES ASSUME NEW k \in Key PROVE new[k] = View(d, k)
    BY Zenon
  <2>1. k[1] \in Owner /\ k[2] \in TaskId  BY DEF Key
  <2>2. d[t] = NoRow /\ \A u \in TaskId \ {t} : d[u] = db[u]
    BY <1>1 DEF Typed, TypeOK
  <2> HIDE DEF d, t
  <2> QED  BY <2>1, <2>2, RequestsAssumption DEF View, NoRow
<1>4. Contract!Become(new)  BY <1>1, <1>3, CommitBecomes
<1>5. Contract!Key = Key /\ Contract!NotFound = NotFound
  BY DEF Contract!Key, Key, TaskId, Contract!NotFound, NotFound
<1> QED  BY <1>1, <1>2, <1>4, <1>5 DEF Contract!Delete

LEMMA AnswerConfirms ==
  ASSUME Typed, NEW w \in Writer, NEW v, Goto(w, "done"), Answer(w, v),
         Stage(pc[w]) = "committed", UNCHANGED <<db, grace, key, op>>,
         \/ op[w] # "update" /\ v = "ok"
         \/ op[w] = "update" /\ db[key[w][2]] # NoRow /\ v = db[key[w][2]].val
         \/ op[w] # "delete" /\ db[key[w][2]] = NoRow /\ v = "row_gone"
         \/ op[w] # "delete" /\ "db" \in Faults /\ v = "db_error"
  PROVE  Contract!Confirm(w)
<1>1. Contract!Move(w, "committed", "over")
  BY GotoMoves DEF Stage, Request
<1>2. key[w][2] \in TaskId
  BY DEF Typed, KeysKnown, Request, Stage, Key
<1>3. UNCHANGED <<[x \in Key |-> View(db, x)], grace, key, op>>
  BY DEF View
<1> QED
  BY <1>1, <1>2, <1>3, ShownRow DEF Contract!Confirm, Contract!Answer, Answer

(* A writer is where only its own endpoint leads.                          *)
OpsKnown ==
  \A w \in Writer :
    /\ pc[w] \in {"idle", "created", "commit", "invalidate", "refresh", "done",
                  "crashed"}
    /\ pc[w] = "created" => op[w] = "create"
    /\ pc[w] = "refresh" => op[w] = "update"

(* A step moves nobody but its own request.                                *)
LEMMA ReaderStays ==
  ASSUME Typed, NEW r \in Reader, Receive(r) \/ ReaderStep(r)
  PROVE  /\ \E p : Goto(r, p)
         /\ op' = op
<1>1. CASE LookupMiss(r)
  BY <1>1, MissedType DEF LookupMiss
<1>2. CASE Discard(r)
  <2>1. \/ Missed(r) \/ LookupRaised(r)  BY <1>2 DEF Discard
  <2> QED  BY <1>2, <2>1, MissedType DEF Discard, LookupRaised
<1>3. CASE Acquire(r)
  <2>1. Goto(r, "load") \/ Goto(r, "get")  BY <1>3 DEF Acquire
  <2> QED  BY <1>3, <2>1 DEF Acquire
<1> QED
  BY <1>1, <1>2, <1>3
     DEF Receive, ReaderStep, ReaderProgress, LookupHit, LookupInvalid,
         LookupError, LookupRaised, Load, LoadError, Fill, Release, Leave, local

LEMMA NextOps == Typed /\ OpsKnown /\ [Next]_vars => OpsKnown'
<1> SUFFICES ASSUME Typed, OpsKnown, [Next]_vars PROVE OpsKnown'  OBVIOUS
<1> USE RequestsAssumption DEF OpsKnown, Typed, TypeOK, Request
<1>1. ASSUME NEW r \in Reader, Receive(r) \/ ReaderStep(r) PROVE OpsKnown'
  <2>1. PICK p : Goto(r, p)  BY <1>1, ReaderStays
  <2>2. op' = op  BY <1>1, ReaderStays
  <2>3. \A w \in Writer : pc'[w] = pc[w]  BY <2>1 DEF Goto
  <2> QED  BY <2>2, <2>3
<1>2. ASSUME NEW w \in Writer, Create(w) PROVE OpsKnown'
  BY <1>2 DEF Create, Goto
<1>3. ASSUME NEW w \in Writer, Find(w) PROVE OpsKnown'
  <2>1. PICK o : op' = [op EXCEPT ![w] = o]  BY <1>3 DEF Find
  <2>2. PICK p \in {"done", "commit"} : Goto(w, p)  BY <1>3 DEF Find
  <2> QED  BY <2>1, <2>2 DEF Goto
<1>4. ASSUME NEW w \in Writer, WriterStep(w) PROVE OpsKnown'
  BY <1>4 DEF WriterStep, WriterProgress, CommitUpdate, CommitDelete, CommitError,
              RefreshCreated, Invalidate, RefreshUpdated, RefreshError, Goto, local
<1>5. ASSUME NEW q \in Request, Crash(q) PROVE OpsKnown'
  BY <1>5 DEF Crash, Goto
<1>6. ASSUME Tick \/ UNCHANGED vars PROVE OpsKnown'
  BY <1>6 DEF Tick, vars
<1> QED  BY <1>1, <1>2, <1>3, <1>4, <1>5, <1>6 DEF Next

LEMMA WriterKeepsContract ==
  ASSUME Typed, OpsKnown, NEW w \in Writer, Create(w) \/ Find(w) \/ WriterStep(w)
  PROVE  \/ Contract!Create(w) \/ Contract!Find(w) \/ Contract!Update(w)
         \/ Contract!Delete(w) \/ Contract!Refuse(w) \/ Contract!Confirm(w)
         \/ Unnoticed
<1> USE DEF redis, table, local
<1>0. w \in Request  BY DEF Request
<1>1. CASE Create(w)  BY <1>1, CreateCreates
<1>2. CASE Find(w)  BY <1>2, FindFinds
<1>3. CASE CommitUpdate(w)  BY <1>3, CommitUpdates
<1>4. CASE CommitDelete(w)  BY <1>4, CommitDeletes
<1>5. CASE CommitError(w)
  <2>1. Contract!Move(w, "begun", "over")
    BY <1>0, <1>5, GotoMoves DEF CommitError, Stage
  <2> QED
    BY <1>5, <2>1 DEF CommitError, Contract!Refuse, Contract!Answer, Answer, View
<1>6. CASE RefreshCreated(w)
  <2>1. op[w] = "create" /\ Stage(pc[w]) = "committed"
    BY <1>6 DEF RefreshCreated, OpsKnown, Stage
  <2>2. CASE db[key[w][2]] = NoRow /\ Goto(w, "done") /\ Answer(w, "row_gone")
    BY <1>6, <2>1, <2>2, AnswerConfirms DEF RefreshCreated
  <2>3. CASE Goto(w, "invalidate") /\ UNCHANGED reply
    BY <1>0, <1>6, <2>1, <2>3, MoveUnnoticed DEF RefreshCreated, Stage
  <2> QED  BY <1>6, <2>2, <2>3 DEF RefreshCreated
<1>7. CASE Invalidate(w)
  <2>1. Stage(pc[w]) = "committed"  BY <1>7 DEF Invalidate, Stage
  <2>2. CASE op[w] = "update"
    BY <1>0, <1>7, <2>1, <2>2, MoveUnnoticed DEF Invalidate, Stage
  <2>3. CASE op[w] # "update"
    BY <1>7, <2>1, <2>3, AnswerConfirms DEF Invalidate
  <2> QED  BY <2>2, <2>3
<1>8. CASE RefreshUpdated(w)
  <2>1. op[w] = "update" /\ Stage(pc[w]) = "committed"
    BY <1>8 DEF RefreshUpdated, OpsKnown, Stage
  <2> QED  BY <1>8, <2>1, AnswerConfirms DEF RefreshUpdated
<1>9. CASE RefreshError(w)
  <2>1. op[w] \in {"create", "update"} /\ Stage(pc[w]) = "committed"
    BY <1>9 DEF RefreshError, OpsKnown, Stage
  <2> QED  BY <1>9, <2>1, AnswerConfirms DEF RefreshError
<1> QED
  BY <1>1, <1>2, <1>3, <1>4, <1>5, <1>6, <1>7, <1>8, <1>9
     DEF WriterStep, WriterProgress

LEMMA CrashDies ==
  ASSUME Typed, NEW q \in Request, Crash(q)
  PROVE  Contract!Die(q) \/ Unnoticed
<1>1. /\ UNCHANGED <<db, grace, key, op, reply>> /\ Goto(q, "crashed")
      /\ "crash" \in Faults
  BY DEF Crash, table
<1>2. Stage("crashed") = "over" /\ Stage(pc[q]) \in {"begun", "committed", "over"}
  BY DEF Crash, Stage
<1>3. CASE Stage(pc[q]) = "over"
  BY <1>1, <1>2, <1>3, MoveUnnoticed
<1>4. CASE Stage(pc[q]) # "over"
  <2>1. Contract!Move(q, Stage(pc[q]), "over")  BY <1>1, <1>2, GotoMoves
  <2> QED  BY <1>1, <1>2, <1>4, <2>1 DEF Contract!Die, View
<1> QED  BY <1>3, <1>4

LEMMA TickTicks == Tick => Contract!Tick
<1> SUFFICES ASSUME Tick PROVE Contract!Tick  OBVIOUS
<1>1. grace' = [k \in Key |-> [c \in Served |->
        IF grace[k][c] = 0 THEN 0 ELSE grace[k][c] - 1]]
  BY DEF Tick, Less
<1>2. Contract!Key = Key /\ Contract!Served = Served
  BY DEF Contract!Key, Key, TaskId, Contract!Served, Served, Content,
         Contract!NotFound, NotFound
<1>3. UNCHANGED <<db, pc, key, op, reply>>  BY DEF Tick
<1> QED  BY <1>1, <1>2, <1>3 DEF Contract!Tick, View

LEMMA StepKeepsContract ==
  Typed /\ Staleness /\ OpsKnown /\ [Next]_vars => [Contract!Next]_(Contract!vars)
<1> SUFFICES ASSUME Typed, Staleness, OpsKnown, [Next]_vars
             PROVE  Contract!Next \/ UNCHANGED Contract!vars
  OBVIOUS
<1>1. ASSUME NEW r \in Reader, Receive(r) \/ ReaderStep(r)
      PROVE  Contract!Next \/ Unnoticed
  BY <1>1, ReaderKeepsContract DEF Contract!Next
<1>2. ASSUME NEW w \in Writer, Create(w) \/ Find(w) \/ WriterStep(w)
      PROVE  Contract!Next \/ Unnoticed
  BY <1>2, WriterKeepsContract DEF Contract!Next
<1>3. ASSUME NEW q \in Request, Crash(q) PROVE Contract!Next \/ Unnoticed
  <2>1. q \in Contract!Request  BY DEF Contract!Request, Request
  <2> QED  BY <1>3, <2>1, CrashDies DEF Contract!Next
<1>4. CASE Tick  BY <1>4, TickTicks DEF Contract!Next
<1>5. CASE UNCHANGED vars
  BY <1>5, UnnoticedStutters DEF vars, Unnoticed
<1> QED  BY <1>1, <1>2, <1>3, <1>4, <1>5, UnnoticedStutters DEF Next

LEMMA InitKeepsContract == Init => Contract!Init /\ OpsKnown
<1> SUFFICES ASSUME Init PROVE Contract!Init /\ OpsKnown  OBVIOUS
<1>1. Contract!Key = Key /\ Contract!Served = Served /\ Contract!Request = Request
  BY DEF Contract!Key, Key, TaskId, Contract!Served, Served, Content,
         Contract!NotFound, NotFound, Contract!Request, Request
<1>2. [k \in Key |-> View(db, k)] \in [Key -> {Seed, NotFound}]
  BY DEF Init, View, Key, NoRow
<1>3. [q \in Request |-> Stage(pc[q])] = [q \in Request |-> "idle"]
  BY DEF Init, Stage
<1>4. Contract!Init
  BY <1>1, <1>2, <1>3 DEF Contract!Init, Init, NoKey, Nobody,
                          Contract!NotFound, NotFound
<1>5. OpsKnown  BY DEF Init, OpsKnown, Request
<1> QED  BY <1>4, <1>5

LEMMA OpsAlways == Spec => []OpsKnown
BY InitKeepsContract, NextOps, TypedAlways, PTL DEF Spec

(* The cache, its lock and every failure of them implement one store whose *)
(* writes happen at once and whose GETs are late by at most an allowance.  *)
THEOREM ImplementsTaskStore == Spec => KeepsContract
  BY OpsAlways, StalenessAlways, InitKeepsContract, StepKeepsContract, PTL
     DEF Spec, KeepsContract, Contract!Spec

-----------------------------------------------------------------------------
(* Every key of Redis carries an expiry that has not yet been reached, and *)
(* that is no longer than the one its SET named: what makes a lock whose   *)
(* holder died, or an entry nobody invalidates, go away by itself.         *)

LongestTtl(v) == IF v = Unreadable THEN PosTtl ELSE MaxTtl(v)

KeysExpire ==
  \A k \in Key :
    /\ lock[k] # Nobody => lockTtl[k] \in 1..LockTtl
    /\ cached[k] # Absent => cacheTtl[k] \in 1..LongestTtl(cached[k])

(* What a step may leave under the keys of Redis: what was there, an empty *)
(* key, or a fresh SET with its expiry.                                    *)
LocksSet ==
  \A k \in Key : \/ lock'[k] = lock[k] /\ lockTtl'[k] = lockTtl[k]
                 \/ lock'[k] = Nobody
                 \/ lockTtl'[k] = LockTtl
EntriesSet ==
  \A k \in Key : \/ cached'[k] = cached[k] /\ cacheTtl'[k] = cacheTtl[k]
                 \/ cached'[k] = Absent
                 \/ cached'[k] \in Served /\ cacheTtl'[k] \in CacheExpiry(cached'[k])

LEMMA RedisStep ==
  ASSUME Typed, [Next]_vars
  PROVE  Tick \/ (LocksSet /\ EntriesSet)
<1> USE DEF Typed, TypeOK, redis
<1>1. ASSUME NEW r \in Reader, Acquire(r) \/ Release(r)
      PROVE  LocksSet /\ EntriesSet
  BY <1>1 DEF Acquire, Release, PutLock, LockExpiry, LocksSet, EntriesSet
<1>2. ASSUME NEW r \in Reader, Discard(r) PROVE LocksSet /\ EntriesSet
  BY <1>2 DEF Discard, DropCache, PutCache, LocksSet, EntriesSet
<1>3. ASSUME NEW r \in Reader, Fill(r) PROVE LocksSet /\ EntriesSet
  BY <1>3 DEF Fill, PutCache, LocksSet, EntriesSet
<1>4. ASSUME NEW w \in Writer, Invalidate(w) PROVE LocksSet /\ EntriesSet
  BY <1>4 DEF Invalidate, DropCache, PutCache, LocksSet, EntriesSet
<1>5. ASSUME UNCHANGED redis PROVE LocksSet /\ EntriesSet
  BY <1>5 DEF LocksSet, EntriesSet
<1>6. ASSUME NEW r \in Reader,
             \/ Receive(r) \/ LookupHit(r) \/ LookupMiss(r) \/ LookupInvalid(r)
             \/ LookupError(r) \/ Load(r) \/ LoadError(r)
      PROVE  UNCHANGED redis
  BY <1>6 DEF Receive, LookupHit, LookupMiss, LookupInvalid, LookupError,
              Load, LoadError
<1>7. ASSUME NEW w \in Writer,
             \/ Create(w) \/ Find(w) \/ CommitUpdate(w) \/ CommitDelete(w)
             \/ CommitError(w) \/ RefreshCreated(w) \/ RefreshUpdated(w)
             \/ RefreshError(w)
      PROVE  UNCHANGED redis
  BY <1>7 DEF Create, Find, CommitUpdate, CommitDelete, CommitError,
              RefreshCreated, RefreshUpdated, RefreshError
<1>8. ASSUME \/ \E q \in Request : Crash(q)
             \/ UNCHANGED vars
      PROVE  UNCHANGED redis
  BY <1>8 DEF Crash, vars
<1> QED
  BY <1>1, <1>2, <1>3, <1>4, <1>5, <1>6, <1>7, <1>8
     DEF Next, ReaderStep, ReaderProgress, WriterStep, WriterProgress

LEMMA NextExpire == Typed /\ KeysExpire /\ [Next]_vars => KeysExpire'
<1> SUFFICES ASSUME Typed, KeysExpire, [Next]_vars, NEW k \in Key
             PROVE  /\ lock'[k] # Nobody => lockTtl'[k] \in 1..LockTtl
                    /\ cached'[k] # Absent =>
                         cacheTtl'[k] \in 1..LongestTtl(cached'[k])
  BY DEF KeysExpire, LongestTtl, MaxTtl
<1>1. /\ lock[k] # Nobody => lockTtl[k] \in 1..LockTtl
      /\ cached[k] # Absent => cacheTtl[k] \in 1..LongestTtl(cached[k])
      /\ lockTtl[k] \in Nat /\ cacheTtl[k] \in Nat
      /\ LockTtl \in Nat \ {0}
      /\ \A c : LongestTtl(c) \in Nat
  BY TtlType, SettingsAssumption DEF KeysExpire, Typed, TypeOK, LongestTtl
<1>2. CASE Tick
  BY <1>1, <1>2 DEF Tick, Less
<1>3. CASE LocksSet /\ EntriesSet
  <2>1. ASSUME NEW c \in Served, NEW ttl \in CacheExpiry(c)
        PROVE  ttl \in 1..LongestTtl(c)
    <3>1. LongestTtl(c) = MaxTtl(c)
      BY ContentAssumption DEF LongestTtl, Served, NotFound, Unreadable
    <3>2. ttl \in Nat /\ 0 < ttl /\ ttl <= MaxTtl(c) /\ MaxTtl(c) \in Nat
      BY TtlType
    <3> QED  BY <3>1, <3>2
  <2>2. lock'[k] # Nobody => lockTtl'[k] \in 1..LockTtl
    BY <1>1, <1>3 DEF LocksSet
  <2>3. cached'[k] # Absent => cacheTtl'[k] \in 1..LongestTtl(cached'[k])
    BY <1>1, <1>3, <2>1 DEF EntriesSet
  <2> QED  BY <2>2, <2>3
<1> QED  BY <1>2, <1>3, RedisStep

(* No lock and no entry stays in Redis for longer than its SET asked.      *)
THEOREM RedisForgets == Spec => []KeysExpire
<1>1. Init => KeysExpire
  BY SettingsAssumption
     DEF Init, KeysExpire, LongestTtl, Absent, Unreadable
<1> QED  BY <1>1, NextExpire, TypedAlways, PTL DEF Spec

-----------------------------------------------------------------------------
(* A request takes a bounded number of steps, whatever the others do.      *)

PollsToCome(r) == WaitAttempts - tries[r]

(* The Redis and database calls a request may still make.                  *)
CallsLeft(q) ==
  CASE pc[q] = "get"        -> IF phase[q] = "recheck" THEN 5
                               ELSE IF phase[q] = "poll" THEN 3 + 2 * PollsToCome(q)
                               ELSE 6 + 2 * PollsToCome(q)
    [] pc[q] = "discard"    -> IF phase[q] = "recheck" THEN 4
                               ELSE IF phase[q] = "poll" THEN 2 + 2 * PollsToCome(q)
                               ELSE 5 + 2 * PollsToCome(q)
    [] pc[q] = "acquire"    -> 4 + 2 * PollsToCome(q)
    [] pc[q] = "load"       -> 3
    [] pc[q] = "fill"       -> 2
    [] pc[q] = "release"    -> 1
    [] pc[q] = "created"    -> 3
    [] pc[q] = "commit"     -> 3
    [] pc[q] = "invalidate" -> 2
    [] pc[q] = "refresh"    -> 1
    [] OTHER                -> 0

Running(q) == pc[q] \notin {"idle", "done", "crashed"}

MostCalls == 6 + 2 * WaitAttempts

LEMMA CallsType ==
  ASSUME Typed, OpsKnown, NEW q \in Request
  PROVE  /\ CallsLeft(q) \in 0..MostCalls
         /\ q \in Writer => CallsLeft(q) <= 3
         /\ Running(q) <=> CallsLeft(q) > 0
<1> USE SettingsAssumption DEF MostCalls
<1>1. pc[q] \in {"idle", "get", "discard", "acquire", "load", "fill", "release",
                "created", "commit", "invalidate", "refresh", "done", "crashed"}
  BY DEF Typed, TypeOK
<1>2. CASE pc[q] \in {"get", "discard", "acquire"}
  <2>1. q \in Reader  BY <1>2 DEF OpsKnown, Request
  <2>2. tries[q] \in Nat /\ tries[q] < WaitAttempts
    BY <1>2, <2>1 DEF Typed, TypeOK, PollsLeft
  <2>3. PollsToCome(q) \in 1..WaitAttempts  BY <2>2 DEF PollsToCome
  <2>4. 2 * PollsToCome(q) \in 2..(2 * WaitAttempts)  BY <2>3
  <2>5. q \notin Writer  BY <2>1, RequestsAssumption
  <2> QED  BY <1>2, <2>4, <2>5 DEF CallsLeft, Running
<1>3. CASE pc[q] \notin {"get", "discard", "acquire"}
  BY <1>1, <1>3 DEF CallsLeft, Running, OpsKnown
<1> QED  BY <1>2, <1>3

(* A miss leads on, or round again with one poll fewer.                    *)
LEMMA MissCosts ==
  ASSUME Typed, NEW r \in Reader, pc[r] \in {"get", "discard"}, Missed(r),
         phase' = phase
  PROVE  CallsLeft(r)' < CallsLeft(r)
<1> USE SettingsAssumption
<1>1. /\ tries[r] \in Nat /\ tries[r] < WaitAttempts
      /\ phase[r] \in {"lookup", "poll", "recheck"} /\ phase'[r] = phase[r]
  BY DEF Typed, TypeOK, PollsLeft
<1>2. CASE phase[r] = "lookup"
  <2>1. pc'[r] = "acquire" /\ tries'[r] = tries[r]
    BY <1>2 DEF Missed, Goto, Typed, TypeOK, Request
  <2> QED  BY <1>1, <1>2, <2>1 DEF CallsLeft, PollsToCome
<1>3. CASE phase[r] = "recheck"
  <2>1. pc'[r] = "load"
    BY <1>3 DEF Missed, Goto, Typed, TypeOK, Request
  <2> QED  BY <1>1, <1>3, <2>1 DEF CallsLeft, PollsToCome
<1>4. CASE phase[r] = "poll"
  <2>1. /\ tries'[r] = tries[r] + 1
        /\ pc'[r] = IF tries[r] + 1 < WaitAttempts THEN "get" ELSE "load"
    BY <1>4 DEF Missed, Goto, Typed, TypeOK, Request
  <2> QED  BY <1>1, <1>4, <2>1 DEF CallsLeft, PollsToCome
<1> QED  BY <1>1, <1>2, <1>3, <1>4

LEMMA ReaderWears ==
  ASSUME Typed, NEW r \in Reader, ReaderStep(r)
  PROVE  CallsLeft(r)' < CallsLeft(r)
<1> USE SettingsAssumption DEF Goto, local
<1>0. /\ r \in DOMAIN pc /\ r \in DOMAIN phase
      /\ pc[r] \in {"get", "discard", "acquire"} =>
           tries[r] \in Nat /\ tries[r] < WaitAttempts
  BY DEF Typed, TypeOK, PollsLeft, Request
<1>1. CASE LookupMiss(r)
  BY <1>1, MissCosts DEF LookupMiss
<1>2. CASE Discard(r)
  <2>1. CASE Missed(r)  BY <1>2, <2>1, MissCosts DEF Discard
  <2>2. CASE LookupRaised(r)
    BY <1>0, <1>2, <2>2 DEF Discard, LookupRaised, Holds, CallsLeft, PollsToCome
  <2> QED  BY <1>2, <2>1, <2>2 DEF Discard
<1>3. CASE LookupHit(r) \/ LookupInvalid(r) \/ LookupError(r)
  BY <1>0, <1>3 DEF LookupHit, LookupInvalid, LookupError, LookupRaised, Leave,
                    Holds, CallsLeft, PollsToCome
<1>4. CASE Acquire(r)
  <2>1. tries' = tries /\ pc[r] = "acquire"  BY <1>4 DEF Acquire
  <2>2. \/ pc'[r] = "load"
        \/ pc'[r] = "get" /\ phase'[r] \in {"recheck", "poll"}
    BY <1>0, <1>4 DEF Acquire
  <2> QED  BY <1>0, <2>1, <2>2 DEF CallsLeft, PollsToCome
<1>5. CASE Load(r)  BY <1>0, <1>5 DEF Load, CallsLeft
<1>6. CASE LoadError(r) \/ Fill(r) \/ Release(r)
  <2>1. pc[r] \in {"load", "fill", "release"}
    BY <1>6 DEF LoadError, Fill, Release
  <2>2. pc'[r] = "done" \/ (pc'[r] = "release" /\ pc[r] # "release")
    BY <1>0, <1>6 DEF LoadError, Fill, Release, Leave
  <2> QED  BY <2>1, <2>2 DEF CallsLeft
<1> QED
  BY <1>1, <1>2, <1>3, <1>4, <1>5, <1>6 DEF ReaderStep, ReaderProgress

LEMMA WriterWears ==
  ASSUME Typed, NEW w \in Writer, WriterStep(w)
  PROVE  CallsLeft(w)' < CallsLeft(w)
<1>1. /\ w \in DOMAIN pc  BY DEF Typed, TypeOK, Request
<1>2. \/ pc[w] = "commit" /\ pc'[w] \in {"invalidate", "done"}
      \/ pc[w] = "created" /\ pc'[w] \in {"invalidate", "done"}
      \/ pc[w] = "invalidate" /\ pc'[w] \in {"refresh", "done"}
      \/ pc[w] = "refresh" /\ pc'[w] = "done"
  BY <1>1 DEF WriterStep, WriterProgress, CommitUpdate, CommitDelete, CommitError,
              RefreshCreated, Invalidate, RefreshUpdated, RefreshError, Goto
<1> QED  BY <1>2 DEF CallsLeft

(* Every request makes at most MostCalls calls: no step of another request,*)
(* of time or of a crash gives it more to do, and each of its own steps    *)
(* uses up one at least.                                                   *)
CallsBounded ==
  \A q \in Request : /\ CallsLeft(q) \in 0..MostCalls
                     /\ q \in Writer => CallsLeft(q) <= 3
                     /\ Running(q) <=> CallsLeft(q) > 0
CallsAreUsedUp ==
  [][/\ \A q \in Request : Running(q) => CallsLeft(q)' <= CallsLeft(q)
     /\ \A r \in Reader : ReaderStep(r) => CallsLeft(r)' < CallsLeft(r)
     /\ \A w \in Writer : WriterStep(w) => CallsLeft(w)' < CallsLeft(w)]_vars

LEMMA SameCalls ==
  ASSUME Typed, OpsKnown, NEW q \in Request, pc'[q] = pc[q],
         q \in Reader => phase'[q] = phase[q] /\ tries'[q] = tries[q]
  PROVE  CallsLeft(q)' <= CallsLeft(q)
<1>1. CASE pc[q] \in {"get", "discard", "acquire"}
  <2>1. q \in Reader  BY <1>1 DEF OpsKnown, Request
  <2>2. CallsLeft(q)' = CallsLeft(q)  BY <2>1 DEF CallsLeft, PollsToCome
  <2> QED  BY <2>2, CallsType DEF MostCalls
<1>2. CASE pc[q] \notin {"get", "discard", "acquire"}
  BY <1>2 DEF CallsLeft
<1> QED  BY <1>1, <1>2

(* A reader counts and changes its own polls and phase only.               *)
LEMMA ReaderTouches ==
  ASSUME Typed, NEW r \in Reader, Receive(r) \/ ReaderStep(r)
  PROVE  \A q \in Request \ {r} :
           /\ pc'[q] = pc[q]
           /\ q \in Reader => phase'[q] = phase[q] /\ tries'[q] = tries[q]
<1>1. \A q \in Request \ {r} : pc'[q] = pc[q]
  <2> PICK p : Goto(r, p)  BY ReaderStays
  <2> QED  BY GotoMoves DEF Request
<1>2. \A q \in Reader \ {r} : tries'[q] = tries[q]
  <2>1. tries' = tries \/ \E n : tries' = [tries EXCEPT ![r] = n]
    <3>1. LookupMiss(r) \/ Discard(r) => Missed(r) \/ tries' = tries
      BY DEF LookupMiss, Discard
    <3>2. Missed(r) => tries' = tries \/ \E n : tries' = [tries EXCEPT ![r] = n]
      BY DEF Missed, Typed, TypeOK
    <3> QED
      BY <3>1, <3>2 DEF Receive, ReaderStep, ReaderProgress, LookupHit, LookupInvalid,
             LookupError, Acquire, Load, LoadError, Fill, Release, local
  <2> QED  BY <2>1 DEF Typed, TypeOK
<1>3. \A q \in Reader \ {r} : phase'[q] = phase[q]
  BY DEF Receive, ReaderStep, ReaderProgress, LookupHit, LookupMiss, LookupInvalid,
         Discard, LookupError, Acquire, Load, LoadError, Fill, Release, local,
         Typed, TypeOK
<1> QED  BY <1>1, <1>2, <1>3

LEMMA WriterTouches ==
  ASSUME Typed, NEW w \in Writer, Create(w) \/ Find(w) \/ WriterStep(w)
  PROVE  /\ \A q \in Request \ {w} : pc'[q] = pc[q]
         /\ UNCHANGED <<phase, tries>>
<1>1. \E p : Goto(w, p)
  BY DEF Create, Find, WriterStep, WriterProgress, CommitUpdate, CommitDelete,
         CommitError, RefreshCreated, Invalidate, RefreshUpdated, RefreshError
<1>2. UNCHANGED <<phase, tries>>
  BY DEF Create, Find, WriterStep, WriterProgress, CommitUpdate, CommitDelete,
         CommitError, RefreshCreated, Invalidate, RefreshUpdated, RefreshError, local
<1> QED  BY <1>1, <1>2, GotoMoves DEF Request

LEMMA CallsStep ==
  ASSUME Typed, OpsKnown, [Next]_vars
  PROVE  \A q \in Request : Running(q) => CallsLeft(q)' <= CallsLeft(q)
<1> SUFFICES ASSUME NEW q \in Request, Running(q)
             PROVE  CallsLeft(q)' <= CallsLeft(q)
  OBVIOUS
<1>1. ASSUME NEW r \in Reader, Receive(r) \/ ReaderStep(r)
      PROVE  CallsLeft(q)' <= CallsLeft(q)
  <2>1. CASE q # r  BY <1>1, <2>1, ReaderTouches, SameCalls
  <2>2. CASE q = r
    <3>1. ReaderStep(r)  BY <1>1, <2>2 DEF Receive, Running
    <3>2. CallsLeft(q)' < CallsLeft(q)  BY <2>2, <3>1, ReaderWears
    <3>3. CallsLeft(q)' \in Int
      <4>1. tries'[q] \in Int  BY NextTyped, <2>2 DEF Typed, TypeOK
      <4> QED  BY <4>1, SettingsAssumption DEF CallsLeft, PollsToCome
    <3> QED  BY <3>2, <3>3, CallsType
  <2> QED  BY <2>1, <2>2
<1>2. ASSUME NEW w \in Writer, Create(w) \/ Find(w) \/ WriterStep(w)
      PROVE  CallsLeft(q)' <= CallsLeft(q)
  <2>1. CASE q # w  BY <1>2, <2>1, WriterTouches, SameCalls
  <2>2. CASE q = w
    <3>1. WriterStep(w)  BY <1>2, <2>2 DEF Create, Find, Running
    <3>2. CallsLeft(q)' < CallsLeft(q)  BY <2>2, <3>1, WriterWears
    <3>3. q \notin Reader /\ pc'[q] \in {"invalidate", "refresh", "done"}
      BY <2>2, <3>1, RequestsAssumption
         DEF WriterStep, WriterProgress, CommitUpdate, CommitDelete, CommitError,
             RefreshCreated, Invalidate, RefreshUpdated, RefreshError, Goto, Typed, TypeOK, Request
    <3>4. CallsLeft(q)' \in Int  BY <3>3 DEF CallsLeft
    <3> QED  BY <3>2, <3>4, CallsType
  <2> QED  BY <2>1, <2>2
<1>3. ASSUME NEW x \in Request, Crash(x)
      PROVE  CallsLeft(q)' <= CallsLeft(q)
  <2>1. UNCHANGED <<phase, tries>> /\ Goto(x, "crashed")  BY <1>3 DEF Crash
  <2>2. CASE q # x  BY <2>1, <2>2, SameCalls, GotoMoves
  <2>3. CASE q = x
    <3>1. CallsLeft(q)' = 0  BY <2>1, <2>3, GotoMoves DEF CallsLeft
    <3> QED  BY <3>1, CallsType
  <2> QED  BY <2>2, <2>3
<1>4. ASSUME Tick \/ UNCHANGED vars PROVE CallsLeft(q)' <= CallsLeft(q)
  BY <1>4, SameCalls DEF Tick, vars
<1> QED  BY <1>1, <1>2, <1>3, <1>4 DEF Next

(* A GET makes at most 6 + 2 * task_cache_lock_wait_attempts calls, and a  *)
(* write at most three more after its first: no step of another request,   *)
(* of time or of a crash gives a request more to do, and each step of its  *)
(* own uses up a call.                                                     *)
THEOREM RequestsAreBounded == Spec => []CallsBounded /\ CallsAreUsedUp
<1>1. Typed /\ OpsKnown => CallsBounded
  BY CallsType DEF CallsBounded
<1>2. Typed /\ OpsKnown /\ [Next]_vars =>
        [/\ \A q \in Request : Running(q) => CallsLeft(q)' <= CallsLeft(q)
         /\ \A r \in Reader : ReaderStep(r) => CallsLeft(r)' < CallsLeft(r)
         /\ \A w \in Writer : WriterStep(w) => CallsLeft(w)' < CallsLeft(w)]_vars
  BY CallsStep, ReaderWears, WriterWears
<1> QED  BY <1>1, <1>2, TypedAlways, OpsAlways, PTL DEF Spec, CallsAreUsedUp
=============================================================================
