----------------------- MODULE CompletionConsumer_proofs -----------------------
(***************************************************************************)
(* Proofs about CompletionConsumer, for any workers, messages, events,     *)
(* increments and limit of attempts: the types; that dead letters are      *)
(* earned; and that the workers implement Completion.                      *)
(***************************************************************************)
EXTENDS CompletionConsumer, FiniteSetTheorems, TLAPS

-----------------------------------------------------------------------------
(* Types.                                                                  *)

LEMMA TypeInit == Init => TypeOK
  BY MessagesAssumption, AttemptsAssumption DEF Init, TypeOK, NoEffect, NoMessage

(* A count that goes up, up to the bound.                                  *)
LEMMA OneMoreRange ==
  ASSUME NEW n \in 0..MaxFailures
  PROVE  /\ OneMore(n) \in 1..MaxFailures
         /\ OneMore(n) = IF n < MaxFailures THEN n + 1 ELSE MaxFailures
  BY AttemptsAssumption DEF OneMore

(* The steps that begin a call, and those that leave it, keep the types.   *)
LEMMA TypeStream ==
  ASSUME TypeOK, NEW w \in Worker, NEW m \in Message,
         Read(w) \/ Claim(w, m) \/ GiveUp(w) \/ ApplyFails(w)
  PROVE  TypeOK'
  <1> USE MessagesAssumption, AttemptsAssumption
  <1>1. CASE Read(w)
    <2>1. read' \in 0..Last /\ read + 1 \in 0..read' /\ pending' \in SUBSET (1..read')
      BY <1>1 DEF TypeOK, Read
    <2>2. \A v \in Worker : held[v] \in 0..read'
      BY <1>1 DEF TypeOK, Read
    <2>3. held' \in [Worker -> 0..read']
      BY <1>1, <2>1, <2>2 DEF TypeOK, Read, Begin, worker
    <2> QED  BY <1>1, <2>1, <2>3 DEF TypeOK, Read, Begin, Go, database, worker
  <1>2. CASE Claim(w, m)
    <2>1. m \in 0..read /\ UNCHANGED <<read, pending, counts, letters, failures, database>>
      BY <1>2 DEF TypeOK, Claim
    <2>2. pc' \in [Worker -> {"idle", "attempt", "count", "archive", "ack"}]
      BY <1>2 DEF TypeOK, Claim, Begin, Go
    <2>3. held' \in [Worker -> 0..read]
      BY <1>2, <2>1 DEF TypeOK, Claim, Begin
    <2> QED  BY <1>2, <2>1, <2>2, <2>3 DEF TypeOK, Claim, Begin, database
  <1>3. CASE GiveUp(w) \/ ApplyFails(w)
    <2>1. 0 \in 0..MaxFailures /\ 0 \in 0..read  BY DEF TypeOK
    <2>2. recorded' \in [Worker -> 0..MaxFailures] /\ held' \in [Worker -> 0..read]
      <3>1. End(w) /\ Forget(w)  BY <1>3 DEF GiveUp, ApplyFails
      <3> QED  BY <2>1, <3>1 DEF TypeOK, End, Forget, NoMessage
    <2>3. pc' \in [Worker -> {"idle", "attempt", "count", "archive", "ack"}]
      BY <1>3 DEF TypeOK, GiveUp, ApplyFails, End, Go
    <2> QED  BY <1>3, <2>2, <2>3 DEF TypeOK, GiveUp, ApplyFails, End, database
  <1> QED  BY <1>1, <1>2, <1>3

LEMMA TypeProcess ==
  ASSUME TypeOK, NEW w \in Worker, Process(w) \/ Report(w),
         pc[w] = "attempt" => held[w] \in Message
  PROVE  TypeOK'
  <1> USE MessagesAssumption, AttemptsAssumption
  <1>1. CASE Apply(w)
    <2>1. Amount[held[w]] \in Nat /\ EventOf[held[w]] \in Event  BY <1>1 DEF Apply
    <2>2. processed' \in [Event -> Nat] /\ counter' \in Nat
      BY <1>1, <2>1 DEF TypeOK, Apply, Increment
    <2> QED  BY <1>1, <2>2 DEF TypeOK, Apply, Go, redis
  <1>2. CASE Duplicate(w)
    BY <1>2 DEF TypeOK, Duplicate, Go, redis, database
  <1>3. CASE Conflict(w)
    BY <1>3 DEF TypeOK, Conflict, Go, redis, database
  <1>4. CASE Report(w)
    <2>1. failures' \in [Message -> 0..MaxFailures]
      <3>1. held[w] \in Message /\ OneMore(failures[held[w]]) \in 0..MaxFailures
        BY <1>4, OneMoreRange DEF TypeOK, Report
      <3> QED  BY <1>4, <3>1 DEF TypeOK, Report
    <2> QED  BY <1>4, <2>1 DEF TypeOK, Report, Go, redis, database
  <1> QED  BY <1>1, <1>2, <1>3, <1>4 DEF Process

LEMMA TypeCount ==
  ASSUME TypeOK, NEW w \in Worker, Decide(w) \/ CountLost(w),
         pc[w] = "count" => held[w] \in Message
  PROVE  TypeOK'
  <1>1. held[w] \in Message
    BY DEF Decide, Retry, Exhaust, CountLost
  <1>2. OneMore(counts[held[w]]) \in 0..MaxFailures
    BY <1>1, OneMoreRange DEF TypeOK
  <1>3. CASE Retry(w)
    <2>1. 0 \in 0..MaxFailures /\ 0 \in 0..read
      BY MessagesAssumption, AttemptsAssumption DEF TypeOK
    <2>2. counts' \in [Message -> 0..MaxFailures] /\ recorded' \in [Worker -> 0..MaxFailures]
      BY <1>1, <1>2, <1>3, <2>1 DEF TypeOK, Retry, Forget
    <2> QED  BY <1>3, <2>1, <2>2 DEF TypeOK, Retry, End, Go, NoMessage, database
  <1>4. ASSUME RecordOnce(w)
        PROVE  counts' \in [Message -> 0..MaxFailures] /\ recorded' \in [Worker -> 0..MaxFailures]
    BY <1>1, <1>2, <1>4 DEF TypeOK, RecordOnce
  <1>5. CASE Exhaust(w)
    BY <1>4, <1>5 DEF TypeOK, Exhaust, Go, database
  <1>6. CASE CountLost(w)
    BY <1>4, <1>6 DEF TypeOK, CountLost, Again, Go, database
  <1> QED  BY <1>3, <1>5, <1>6 DEF Decide

LEMMA TypeClose ==
  ASSUME TypeOK, NEW w \in Worker,
         Archive(w) \/ ArchiveFails(w) \/ Ack(w) \/ AckFails(w),
         pc[w] = "archive" => held[w] \in Message /\ error[w] # "none"
  PROVE  TypeOK'
  <1>1. CASE Archive(w)
    <2>1. letters' \in [Message -> Seq({"conflict", "retryable"})]
      <3>1. error[w] \in {"conflict", "retryable"} /\ <<error[w]>> \in Seq({"conflict", "retryable"})
        BY <1>1 DEF TypeOK, Archive
      <3> QED  BY <1>1, <3>1 DEF TypeOK, Archive, WriteOnce
    <2> QED  BY <1>1, <2>1 DEF TypeOK, Archive, Go, database
  <1>2. CASE ArchiveFails(w)
    <2>1. letters' \in [Message -> Seq({"conflict", "retryable"})]
      <3>1. error[w] \in {"conflict", "retryable"} /\ <<error[w]>> \in Seq({"conflict", "retryable"})
        BY <1>2 DEF TypeOK, ArchiveFails
      <3> QED  BY <1>2, <3>1 DEF TypeOK, ArchiveFails, WriteOnce
    <2> QED  BY <1>2, <2>1 DEF TypeOK, ArchiveFails, Again, Go, database
  <1>3. CASE Ack(w)
    <2>1. pending' \in SUBSET (1..read')
      BY <1>3 DEF TypeOK, Ack, Acknowledge
    <2>2. 0 \in 0..MaxFailures /\ 0 \in 0..read
      BY MessagesAssumption, AttemptsAssumption DEF TypeOK
    <2> QED  BY <1>3, <2>1, <2>2 DEF TypeOK, Ack, End, Forget, Go, NoMessage, database
  <1>4. CASE AckFails(w)
    BY <1>4 DEF TypeOK, AckFails, Acknowledge, Again, Go, database
  <1> QED  BY <1>1, <1>2, <1>3, <1>4

-----------------------------------------------------------------------------
(* The inductive invariant: where a worker is tells what it holds, ...     *)
Stage(w) ==
  /\ pc[w] = "idle" => held[w] = NoMessage /\ error[w] = "none"
  /\ pc[w] # "idle" => held[w] \in Message
  /\ pc[w] = "attempt" => error[w] = "none"
  /\ pc[w] = "count" => error[w] = "retryable"
  /\ error[w] # "retryable" => recorded[w] = 0

(* ... a recorded count has been reached by its message, ...               *)
Reached(w) == recorded[w] # 0 => recorded[w] <= counts[held[w]]

(* ... and a worker about to archive has the reason that earns the letter, *)
(* one about to acknowledge an effect or a letter to rely on.              *)
Contradicted(m) == processed[EventOf[m]] \notin {NoEffect, Amount[m]}

Grounds(w) ==
  pc[w] = "archive" =>
    \/ error[w] = "conflict" /\ Contradicted(held[w])
    \/ error[w] = "retryable" /\ recorded[w] >= MaxAttempts

Settled(m) == processed[EventOf[m]] = Amount[m] \/ letters[m] # <<>>

WorkerOK(w) ==
  /\ Stage(w) /\ Reached(w) /\ Grounds(w)
  /\ pc[w] = "ack" => Settled(held[w])

Workers == \A w \in Worker : WorkerOK(w)

(* The reported failures that have not been counted; none is counted twice *)
(* (beyond the bound failures are not told apart).                         *)
Uncounted(m) == {w \in Worker : held[w] = m /\ error[w] = "retryable" /\ recorded[w] = 0}

CountedOnce == \A m \in Message :
  \/ counts[m] + Cardinality(Uncounted(m)) <= failures[m]
  \/ failures[m] = MaxFailures

Earned ==
  \A m \in Message :
    \/ letters[m] = <<>>
    \/ letters[m] = <<"conflict">> /\ Contradicted(m)
    \/ letters[m] = <<"retryable">> /\ failures[m] >= MaxAttempts

IInv == TypeOK /\ Workers /\ CountedOnce /\ Earned

Move(w) ==
  \/ Read(w) \/ \E m \in Message : Claim(w, m)
  \/ Process(w) \/ Report(w) \/ Decide(w) \/ Archive(w) \/ Ack(w) \/ Trouble(w)

LEMMA TypeNext ==
  ASSUME TypeOK, Workers, [Next]_vars
  PROVE  TypeOK'
  <1>1. CASE UNCHANGED vars
    BY <1>1 DEF TypeOK, vars
  <1>2. CASE Next
    <2>1. PICK w \in Worker : Move(w)  BY <1>2 DEF Next, Move
    <2>2. WorkerOK(w)  BY DEF Workers
    <2>3. /\ pc[w] \in {"attempt", "count"} => held[w] \in Message
          /\ pc[w] = "archive" => held[w] \in Message /\ error[w] # "none"
      BY <2>2 DEF WorkerOK, Stage, Grounds
    <2>4. Message # {} \/ ~ \E m \in Message : Claim(w, m)  OBVIOUS
    <2>5. CASE Read(w)
      <3>1. 1 \in Message  BY <2>5, MessagesAssumption DEF Read, TypeOK, Message
      <3> QED  BY <2>5, <3>1, TypeStream
    <2>6. CASE \E m \in Message : Claim(w, m)
      BY <2>6, TypeStream
    <2>7. CASE GiveUp(w) \/ ApplyFails(w)
      <3>1. held[w] \in Message  BY <2>2, <2>7 DEF WorkerOK, Stage, GiveUp, ApplyFails
      <3> QED  BY <2>7, <3>1, TypeStream
    <2>8. CASE Process(w) \/ Report(w)
      BY <2>3, <2>8, TypeProcess
    <2>9. CASE Decide(w) \/ CountLost(w)
      BY <2>3, <2>9, TypeCount
    <2>10. CASE Archive(w) \/ ArchiveFails(w) \/ Ack(w) \/ AckFails(w)
      BY <2>3, <2>10, TypeClose
    <2> QED  BY <2>1, <2>5, <2>6, <2>7, <2>8, <2>9, <2>10 DEF Move, Trouble
  <1> QED  BY <1>1, <1>2

-----------------------------------------------------------------------------
(* What a step of one worker leaves alone, and what only grows.            *)
OthersKept(w) ==
  \A v \in Worker \ {w} :
    /\ pc'[v] = pc[v] /\ held'[v] = held[v]
    /\ error'[v] = error[v] /\ recorded'[v] = recorded[v]

Grown ==
  /\ \A m \in Message :
       /\ counts'[m] >= counts[m] /\ failures'[m] >= failures[m]
       /\ letters[m] # <<>> => letters'[m] = letters[m]
  /\ \A e \in Event : processed[e] # NoEffect => processed'[e] = processed[e]

LEMMA RecordingGrows ==
  ASSUME TypeOK, NEW w \in Worker, RecordOnce(w)
  PROVE  \A m \in Message : counts'[m] >= counts[m]
  <1> TAKE m \in Message
  <1>1. counts[m] \in 0..MaxFailures  BY DEF TypeOK
  <1>2. CASE recorded[w] = 0
    <2>1. counts' = [counts EXCEPT ![held[w]] = OneMore(@)]  BY <1>2 DEF RecordOnce
    <2>2. counts'[m] = IF m = held[w] THEN OneMore(counts[m]) ELSE counts[m]
      BY <2>1 DEF TypeOK
    <2> QED  BY <1>1, <2>2, OneMoreRange
  <1>3. CASE recorded[w] # 0
    BY <1>1, <1>3 DEF RecordOnce
  <1> QED  BY <1>2, <1>3

LEMMA MoveKeeps ==
  ASSUME TypeOK, NEW w \in Worker, Move(w)
  PROVE  OthersKept(w) /\ Grown
  <1> USE DEF OthersKept, Grown
  <1>0. \A m \in Message :
          /\ counts[m] \in Nat /\ OneMore(counts[m]) \in Nat /\ OneMore(counts[m]) >= counts[m]
          /\ failures[m] \in Nat /\ OneMore(failures[m]) >= failures[m]
    <2> TAKE m \in Message
    <2>1. counts[m] \in 0..MaxFailures /\ failures[m] \in 0..MaxFailures  BY DEF TypeOK
    <2> QED  BY <2>1, AttemptsAssumption, OneMoreRange
  <1>1. CASE Read(w) \/ (\E m \in Message : Claim(w, m)) \/ GiveUp(w) \/ ApplyFails(w)
    BY <1>0, <1>1 DEF TypeOK, Read, Claim, GiveUp, ApplyFails, Begin, End, Forget, Go, worker, database
  <1>2. CASE Process(w) \/ Report(w)
    <2>1. CASE Apply(w)
      BY <1>0, <2>1 DEF TypeOK, Apply, Stored, Go, redis
    <2>2. CASE Duplicate(w)
      BY <1>0, <2>2 DEF TypeOK, Duplicate, Go, redis, database
    <2>3. CASE Conflict(w)
      BY <1>0, <2>3 DEF TypeOK, Conflict, Go, redis, database
    <2>4. CASE Report(w)
      BY <1>0, <2>4 DEF TypeOK, Report, Go, redis, database
    <2> QED  BY <1>2, <2>1, <2>2, <2>3, <2>4 DEF Process
  <1>3. CASE Decide(w) \/ CountLost(w)
    <2>1. CASE Retry(w)
      BY <1>0, <2>1 DEF TypeOK, Retry, End, Forget, Go, database
    <2>2. CASE Exhaust(w)
      <3>1. \A m \in Message : counts'[m] >= counts[m]
        BY <2>2, RecordingGrows DEF Exhaust
      <3> QED  BY <1>0, <2>2, <3>1 DEF TypeOK, Exhaust, RecordOnce, Go, database
    <2>3. CASE CountLost(w)
      <3>1. \A m \in Message : counts'[m] >= counts[m]
        BY <2>3, RecordingGrows DEF CountLost
      <3> QED  BY <1>0, <2>3, <3>1 DEF TypeOK, CountLost, RecordOnce, Again, Go, database
    <2> QED  BY <1>3, <2>1, <2>2, <2>3 DEF Decide
  <1>4. CASE Archive(w) \/ ArchiveFails(w)
    BY <1>0, <1>4 DEF TypeOK, Archive, ArchiveFails, WriteOnce, Again, Go, database
  <1>5. CASE Ack(w) \/ AckFails(w)
    BY <1>0, <1>5 DEF TypeOK, Ack, AckFails, End, Forget, Again, Go, database
  <1> QED  BY <1>1, <1>2, <1>3, <1>4, <1>5 DEF Move, Trouble

(* Workers other than the moving one keep what they rely on.               *)
LEMMA OthersStayOK ==
  ASSUME TypeOK, Workers, NEW w \in Worker, Move(w), NEW v \in Worker \ {w}
  PROVE  WorkerOK(v)'
  <1> USE MessagesAssumption
  <1>1. OthersKept(w) /\ Grown  BY MoveKeeps
  <1>2. WorkerOK(v)  BY DEF Workers
  <1>3. Stage(v)'  BY <1>1, <1>2 DEF WorkerOK, Stage, OthersKept
  <1>4. pc[v] # "idle" => held[v] \in Message
    BY <1>2 DEF WorkerOK, Stage
  <1>5. \A m \in Message : /\ Contradicted(m) => Contradicted(m)'
                           /\ Settled(m) => Settled(m)'
    BY <1>1 DEF Contradicted, Settled, Grown, NoEffect
  <1>6. Reached(v)'
    <2>1. recorded[v] # 0 => held[v] \in Message
      BY <1>2, <1>4 DEF WorkerOK, Stage
    <2>2. recorded[v] # 0 => recorded[v] <= counts[held[v]]
      BY <1>2 DEF WorkerOK, Reached
    <2>3. \A m \in Message : counts[m] \in Nat /\ counts'[m] \in Nat
      <3>1. TypeOK'  BY TypeNext DEF Next, Move
      <3> QED  BY <3>1, AttemptsAssumption DEF TypeOK
    <2>4. recorded[v] \in Nat  BY AttemptsAssumption DEF TypeOK
    <2>5. recorded'[v] = recorded[v] /\ held'[v] = held[v]  BY <1>1 DEF OthersKept
    <2>6. recorded[v] # 0 => counts'[held[v]] >= counts[held[v]]  BY <1>1, <2>1 DEF Grown
    <2> QED  BY <2>1, <2>2, <2>3, <2>4, <2>5, <2>6 DEF Reached
  <1>7. Grounds(v)'
    BY <1>1, <1>2, <1>4, <1>5 DEF WorkerOK, Grounds, OthersKept
  <1>8. (pc[v] = "ack" => Settled(held[v]))'
    BY <1>1, <1>2, <1>4, <1>5 DEF WorkerOK, OthersKept, Settled
  <1> QED  BY <1>3, <1>6, <1>7, <1>8 DEF WorkerOK

LEMMA MoverStaysOK ==
  ASSUME TypeOK, Workers, NEW w \in Worker, Move(w)
  PROVE  WorkerOK(w)'
  <1> USE MessagesAssumption, AttemptsAssumption
  <1>1. WorkerOK(w)  BY DEF Workers
  <1>2. CASE Read(w)
    <2>1. read + 1 \in Message  BY <1>2 DEF Read, TypeOK, Message
    <2> QED  BY <1>1, <1>2, <2>1 DEF WorkerOK, Stage, Reached, Grounds, TypeOK, Read, Begin,
                                     Go, worker
  <1>3. CASE \E m \in Message : Claim(w, m)
    BY <1>1, <1>3 DEF WorkerOK, Stage, Reached, Grounds, TypeOK, Claim, Begin, Go
  <1>4. CASE GiveUp(w) \/ ApplyFails(w)
    BY <1>1, <1>4 DEF WorkerOK, Stage, Reached, Grounds, TypeOK, GiveUp, ApplyFails, End,
                      Forget, Go
  <1>5. CASE Process(w)
    <2>1. CASE Apply(w)
      BY <1>1, <2>1 DEF WorkerOK, Stage, Reached, Grounds, Settled, TypeOK, Apply, Go, redis
    <2>2. CASE Duplicate(w)
      BY <1>1, <2>2 DEF WorkerOK, Stage, Reached, Grounds, Settled, TypeOK, Duplicate, Stored,
                        Go, redis, database
    <2>3. CASE Conflict(w)
      BY <1>1, <2>3 DEF WorkerOK, Stage, Reached, Grounds, Contradicted, TypeOK, Conflict,
                        Stored, Go, redis, database
    <2> QED  BY <1>5, <2>1, <2>2, <2>3 DEF Process
  <1>6. CASE Report(w)
    BY <1>1, <1>6 DEF WorkerOK, Stage, Reached, Grounds, TypeOK, Report, Go, redis, database
  <1>7. CASE Retry(w)
    BY <1>1, <1>7 DEF WorkerOK, Stage, Reached, Grounds, TypeOK, Retry, End, Forget, Go
  <1>8. CASE Exhaust(w)
    <2>1. held[w] \in Message /\ error[w] = "retryable"
      BY <1>1, <1>8 DEF WorkerOK, Stage, Exhaust
    <2>2. recorded'[w] >= MaxAttempts /\ recorded'[w] <= counts'[held[w]]
      <3>1. recorded[w] \in Nat /\ counts[held[w]] \in 0..MaxFailures  BY <2>1 DEF TypeOK
      <3>2. OneMore(counts[held[w]]) \in 1..MaxFailures  BY <3>1, OneMoreRange
      <3> QED  BY <1>1, <1>8, <2>1, <3>1, <3>2 DEF WorkerOK, Reached, TypeOK, Exhaust, RecordOnce,
                                        ShouldRetry, FailedAttempts
    <2> QED  BY <1>1, <1>8, <2>1, <2>2 DEF WorkerOK, Stage, Reached, Grounds, TypeOK, Exhaust, Go
  <1>9. CASE CountLost(w)
    <2>1. held[w] \in Message /\ error[w] = "retryable"
      BY <1>1, <1>9 DEF WorkerOK, Stage, CountLost
    <2>2. recorded'[w] <= counts'[held[w]]
      <3>1. recorded[w] \in Nat /\ counts[held[w]] \in 0..MaxFailures  BY <2>1 DEF TypeOK
      <3>2. OneMore(counts[held[w]]) \in 1..MaxFailures  BY <3>1, OneMoreRange
      <3> QED  BY <1>1, <1>9, <2>1, <3>1, <3>2 DEF WorkerOK, Reached, TypeOK, CountLost, RecordOnce
    <2> QED  BY <1>1, <1>9, <2>1, <2>2 DEF WorkerOK, Stage, Reached, Grounds, TypeOK, CountLost,
                                           Again, Go
  <1>10. CASE Archive(w)
    <2>1. letters'[held[w]] # <<>>
      BY <1>1, <1>10 DEF WorkerOK, Stage, TypeOK, Archive, WriteOnce
    <2> QED  BY <1>1, <1>10, <2>1 DEF WorkerOK, Stage, Reached, Grounds, Settled, TypeOK, Archive, Go
  <1>11. CASE ArchiveFails(w)
    BY <1>1, <1>11 DEF WorkerOK, Stage, Reached, Grounds, TypeOK, ArchiveFails, Again, Go
  <1>12. CASE Ack(w)
    BY <1>1, <1>12 DEF WorkerOK, Stage, Reached, Grounds, TypeOK, Ack, End, Forget, Go
  <1>13. CASE AckFails(w)
    BY <1>1, <1>13 DEF WorkerOK, Stage, Reached, Grounds, TypeOK, AckFails, Again, Go
  <1> QED  BY <1>2, <1>3, <1>4, <1>5, <1>6, <1>7, <1>8, <1>9, <1>10, <1>11, <1>12, <1>13
           DEF Move, Decide, Trouble

LEMMA WorkersNext ==
  ASSUME TypeOK, Workers, [Next]_vars
  PROVE  Workers'
  <1>1. CASE UNCHANGED vars
    BY <1>1 DEF vars, Workers, WorkerOK, Stage, Reached, Grounds, Contradicted, Settled
  <1>2. CASE Next
    <2>1. PICK w \in Worker : Move(w)  BY <1>2 DEF Next, Move
    <2> QED  BY <2>1, OthersStayOK, MoverStaysOK DEF Workers
  <1> QED  BY <1>1, <1>2

-----------------------------------------------------------------------------
(* How a step changes the books of a message: one more failed attempt, one *)
(* less that is not counted, or neither.                                   *)
InBooks(w, m) == held[w] = m /\ error[w] = "retryable" /\ recorded[w] = 0

NoEntry(w, m) ==
  InBooks(w, m)' = InBooks(w, m) /\ counts'[m] = counts[m] /\ failures'[m] = failures[m]

Entered(w, m) ==
  /\ ~ InBooks(w, m) /\ InBooks(w, m)' /\ counts'[m] = counts[m]
  /\ failures'[m] = OneMore(failures[m])

Struck(w, m) ==
  /\ InBooks(w, m) /\ ~ InBooks(w, m)'
  /\ counts'[m] = counts[m] \/ counts'[m] = OneMore(counts[m])
  /\ failures'[m] = failures[m]

LEMMA Recording ==
  ASSUME TypeOK, Workers, NEW w \in Worker, RecordOnce(w), pc[w] = "count",
         error'[w] = error[w], held'[w] = held[w], failures' = failures, NEW m \in Message
  PROVE  NoEntry(w, m) \/ Struck(w, m)
  <1>1. error[w] = "retryable"  BY DEF Workers, WorkerOK, Stage
  <1>3. CASE recorded[w] = 0
    <2>1. counts'[m] = IF m = held[w] THEN OneMore(counts[m]) ELSE counts[m]
      BY <1>3 DEF TypeOK, RecordOnce
    <2>2. recorded'[w] # 0
      <3>1. held[w] \in Message  BY DEF Workers, WorkerOK, Stage
      <3>2. OneMore(counts[held[w]]) \in 1..MaxFailures  BY <3>1, OneMoreRange DEF TypeOK
      <3> QED  BY <1>3, <3>2, AttemptsAssumption DEF TypeOK, RecordOnce
    <2> QED  BY <1>1, <1>3, <2>1, <2>2 DEF InBooks, NoEntry, Struck
  <1>4. CASE recorded[w] # 0
    BY <1>4 DEF RecordOnce, InBooks, NoEntry
  <1> QED  BY <1>3, <1>4

LEMMA Entries ==
  ASSUME TypeOK, Workers, NEW w \in Worker, Move(w), NEW m \in Message
  PROVE  NoEntry(w, m) \/ Entered(w, m) \/ Struck(w, m)
  <1>1. Stage(w)  BY DEF Workers, WorkerOK
  <1>3. CASE Read(w) \/ \E n \in Message : Claim(w, n)
    BY <1>1, <1>3 DEF Stage, InBooks, NoEntry, Read, Claim, Begin, worker, database
  <1>4. CASE GiveUp(w) \/ ApplyFails(w)
    BY <1>4 DEF TypeOK, InBooks, NoEntry, Struck, GiveUp, ApplyFails, End, database
  <1>5. CASE Process(w)
    BY <1>1, <1>5 DEF TypeOK, Stage, InBooks, NoEntry, Process, Apply, Duplicate, Conflict, redis
  <1>6. CASE Report(w)
    <2>1. failures'[m] = IF m = held[w] THEN OneMore(failures[m]) ELSE failures[m]
      BY <1>6 DEF TypeOK, Report
    <2>2. error[w] = "none" /\ recorded[w] = 0  BY <1>1, <1>6 DEF Stage, Report
    <2>3. error'[w] = "retryable"  BY <1>6 DEF TypeOK, Report
    <2> QED  BY <1>6, <2>1, <2>2, <2>3 DEF InBooks, NoEntry, Entered, Report, redis
  <1>7. CASE Retry(w)
    <2>1. error[w] = "retryable" /\ error'[w] = "none"
      BY <1>1, <1>7 DEF TypeOK, Stage, Retry, End
    <2>2. counts'[m] = IF m = held[w] /\ recorded[w] = 0 THEN OneMore(counts[m])
                                                         ELSE counts[m]
      BY <1>7 DEF TypeOK, Retry
    <2> QED  BY <1>7, <2>1, <2>2 DEF InBooks, NoEntry, Struck, Retry
  <1>8. CASE Exhaust(w)
    BY <1>8, Recording DEF Exhaust
  <1>9. CASE CountLost(w)
    <2>1. error'[w] = error[w]
      BY <1>1, <1>9 DEF TypeOK, Stage, CountLost, Again
    <2> QED  BY <1>9, <2>1, Recording DEF CountLost, Again
  <1>10. CASE Archive(w)
    BY <1>10 DEF InBooks, NoEntry, Archive
  <1>11. CASE ArchiveFails(w)
    BY <1>11 DEF TypeOK, InBooks, NoEntry, ArchiveFails, Again
  <1>12. CASE Ack(w)
    BY <1>12 DEF TypeOK, InBooks, NoEntry, Struck, Ack, End
  <1>13. CASE AckFails(w)
    BY <1>13 DEF TypeOK, InBooks, NoEntry, AckFails, Again
  <1> QED  BY <1>3, <1>4, <1>5, <1>6, <1>7, <1>8, <1>9, <1>10, <1>11, <1>12, <1>13
           DEF Move, Decide, Trouble

LEMMA FiniteBooks ==
  ASSUME NEW m
  PROVE  IsFiniteSet(Uncounted(m)) /\ Cardinality(Uncounted(m)) \in Nat
  BY WorkersAssumption, FS_Subset, FS_CardinalityType DEF Uncounted

LEMMA CountedNext ==
  ASSUME TypeOK, Workers, CountedOnce, [Next]_vars
  PROVE  CountedOnce'
  <1>1. CASE UNCHANGED vars
    BY <1>1 DEF vars, CountedOnce, Uncounted
  <1>2. CASE Next
    <2>1. PICK w \in Worker : Move(w)  BY <1>2 DEF Next, Move
    <2>2. SUFFICES ASSUME NEW m \in Message
                   PROVE  \/ counts'[m] + Cardinality(Uncounted(m)') <= failures'[m]
                          \/ failures'[m] = MaxFailures
      BY DEF CountedOnce
    <2> DEFINE U == Uncounted(m)
    <2>3. /\ counts[m] \in 0..MaxFailures /\ failures[m] \in 0..MaxFailures
          /\ counts[m] + Cardinality(U) <= failures[m] \/ failures[m] = MaxFailures
      BY DEF TypeOK, CountedOnce
    <2> USE AttemptsAssumption, OneMoreRange
    <2>4. \A v \in Worker : /\ v \in U <=> InBooks(v, m)
                            /\ v \in U' <=> InBooks(v, m)'
      BY DEF Uncounted, InBooks
    <2>5. \A v \in Worker \ {w} : v \in U' <=> v \in U
      BY <2>1, <2>4, MoveKeeps DEF OthersKept, InBooks
    <2>6. U \in SUBSET Worker /\ U' \in SUBSET Worker  BY DEF Uncounted
    <2>7. IsFiniteSet(U) /\ Cardinality(U) \in Nat  BY FiniteBooks
    <2>8. CASE NoEntry(w, m)
      <3>1. U' = U  BY <2>4, <2>5, <2>6, <2>8 DEF NoEntry
      <3> QED  BY <2>3, <2>8, <3>1 DEF NoEntry
    <2>9. CASE Entered(w, m)
      <3>1. w \notin U /\ U' = U \cup {w}  BY <2>4, <2>5, <2>6, <2>9 DEF Entered
      <3>2. Cardinality(U') = Cardinality(U) + 1  BY <2>7, <3>1, FS_AddElement
      <3> QED  BY <2>3, <2>7, <2>9, <3>2 DEF Entered
    <2>10. CASE Struck(w, m)
      <3>1. w \in U /\ U' = U \ {w}  BY <2>4, <2>5, <2>6, <2>10 DEF Struck
      <3>2. Cardinality(U') = Cardinality(U) - 1  BY <2>7, <3>1, FS_RemoveElement
      <3> QED  BY <2>3, <2>7, <2>10, <3>2 DEF Struck
    <2> QED  BY <2>1, <2>8, <2>9, <2>10, Entries
  <1> QED  BY <1>1, <1>2

-----------------------------------------------------------------------------
(* Letters stay earned: only the archiving worker adds one, on its grounds.*)
LEMMA LetterWritten ==
  ASSUME TypeOK, Workers, CountedOnce, NEW w \in Worker, pc[w] = "archive", WriteOnce(w),
         NEW m \in Message, letters'[m] # letters[m]
  PROVE  \/ letters'[m] = <<"conflict">> /\ Contradicted(m)
         \/ letters'[m] = <<"retryable">> /\ failures[m] >= MaxAttempts
  <1> USE AttemptsAssumption
  <1>1. m = held[w] /\ letters'[m] = <<error[w]>>
    BY DEF TypeOK, WriteOnce
  <1>2. CASE error[w] = "conflict" /\ Contradicted(held[w])
    BY <1>1, <1>2
  <1>3. CASE error[w] = "retryable" /\ recorded[w] >= MaxAttempts
    <2>1. recorded[w] <= counts[m]
      BY <1>1, <1>3 DEF TypeOK, Workers, WorkerOK, Reached
    <2>2. counts[m] <= failures[m]
      <3>1. counts[m] \in 0..MaxFailures /\ Cardinality(Uncounted(m)) \in Nat
        BY FiniteBooks DEF TypeOK
      <3>2. failures[m] \in 0..MaxFailures  BY DEF TypeOK
      <3> QED  BY <3>1, <3>2 DEF CountedOnce
    <2>3. recorded[w] \in Nat /\ counts[m] \in Nat /\ failures[m] \in Nat  BY DEF TypeOK
    <2> QED  BY <1>1, <1>3, <2>1, <2>2, <2>3
  <1> QED  BY <1>2, <1>3 DEF Workers, WorkerOK, Grounds

LEMMA EarnedNext ==
  ASSUME IInv, [Next]_vars
  PROVE  Earned'
  <1> USE MessagesAssumption, AttemptsAssumption DEF IInv
  <1>1. CASE UNCHANGED vars
    BY <1>1 DEF vars, Earned, Contradicted
  <1>2. CASE Next
    <2>1. PICK w \in Worker : Move(w)  BY <1>2 DEF Next, Move
    <2>2. Grown  BY <2>1, MoveKeeps
    <2>3. SUFFICES ASSUME NEW m \in Message
                   PROVE  \/ letters'[m] = <<>>
                          \/ letters'[m] = <<"conflict">> /\ Contradicted(m)'
                          \/ letters'[m] = <<"retryable">> /\ failures'[m] >= MaxAttempts
      BY DEF Earned
    <2>4. Contradicted(m) => Contradicted(m)'
      BY <2>2 DEF Contradicted, Grown, NoEffect
    <2>5. failures[m] >= MaxAttempts => failures'[m] >= MaxAttempts
      <3>1. failures[m] \in Nat /\ failures'[m] \in Nat  BY TypeNext DEF TypeOK
      <3> QED  BY <2>2, <3>1 DEF Grown
    <2>6. CASE letters'[m] = letters[m]
      BY <2>4, <2>5, <2>6 DEF Earned
    <2>7. CASE letters'[m] # letters[m]
      <3>1. pc[w] = "archive" /\ WriteOnce(w)
        BY <2>1, <2>7 DEF Move, Process, Decide, Trouble, Read, Claim, Apply, Duplicate, Conflict,
             ApplyFails, Retry, Exhaust, Archive, Ack, Report, CountLost, ArchiveFails, AckFails, GiveUp, redis
      <3> QED  BY <2>4, <2>5, <2>7, <3>1, LetterWritten
    <2> QED  BY <2>6, <2>7
  <1> QED  BY <1>1, <1>2

LEMMA InvInit == Init => IInv
  <1> SUFFICES ASSUME Init  PROVE IInv  OBVIOUS
  <1>1. TypeOK  BY TypeInit
  <1>2. Workers
    BY DEF Init, Workers, WorkerOK, Stage, Reached, Grounds
  <1>3. CountedOnce
    <2>1. \A m \in Message : Uncounted(m) = {}  BY DEF Init, Uncounted
    <2>2. \A m \in Message : Cardinality(Uncounted(m)) = 0  BY <2>1, FS_EmptySet
    <2> QED  BY <2>2 DEF Init, CountedOnce
  <1>4. Earned  BY DEF Init, Earned
  <1> QED  BY <1>1, <1>2, <1>3, <1>4 DEF IInv

LEMMA InvNext == IInv /\ [Next]_vars => IInv'
  BY TypeNext, WorkersNext, CountedNext, EarnedNext DEF IInv

(* IInv holds in every reachable state.                                    *)
LEMMA Invariance == Spec => []IInv
  BY InvInit, InvNext, PTL DEF Spec

(* TypeOK, for every instance.                                             *)
THEOREM TypeCorrect == Spec => []TypeOK
  <1>1. IInv => TypeOK  BY DEF IInv
  <1> QED  BY <1>1, Invariance, PTL

(* However many workers record failures, archive, crash and lose replies,  *)
(* a message has one dead letter at most, and it is earned.                *)
THEOREM EarnedLetters == Spec => []LettersAreEarned
  <1>1. IInv => LettersAreEarned
    <2> SUFFICES ASSUME IInv, NEW m \in Message
                 PROVE  /\ Len(letters[m]) <= 1
                        /\ letters[m] = <<"retryable">> => failures[m] >= MaxAttempts
                        /\ letters[m] = <<"conflict">> => Contradicted(m)
      BY DEF LettersAreEarned, Contradicted
    <2>1. CASE letters[m] = <<>>
      BY <2>1
    <2>2. CASE letters[m] = <<"conflict">> /\ Contradicted(m)
      <3>1. letters[m][1] = "conflict" /\ Len(letters[m]) = 1  BY <2>2
      <3> QED  BY <2>2, <3>1
    <2>3. CASE letters[m] = <<"retryable">> /\ failures[m] >= MaxAttempts
      <3>1. letters[m][1] = "retryable" /\ Len(letters[m]) = 1  BY <2>3
      <3> QED  BY <2>3, <3>1
    <2> QED  BY <2>1, <2>2, <2>3 DEF IInv, Earned
  <1> QED  BY <1>1, Invariance, PTL

-----------------------------------------------------------------------------
(* The workers implement Completion.                                       *)
Archived == {m \in Message : letters[m] # <<>>}
Closed   == {m \in Message : m <= read /\ m \notin pending}

LEMMA OutcomeInit == Init => Outcome!Init
  BY DEF Init, Outcome!Init, NoEffect, Outcome!NoEffect, Message

(* Messages that are archived or acknowledged make a step of Completion,   *)
(* or none when it was done before.                                        *)
LEMMA ArchiveStep ==
  ASSUME IInv, NEW w \in Worker, pc[w] = "archive", WriteOnce(w),
         UNCHANGED <<read, pending, processed, counter, failures>>, NEW n \in Message, held[w] = n
  PROVE  Outcome!Archive(n) \/ UNCHANGED Outcome!vars
  <1>1. held[w] \in Message  OBVIOUS
  <1>2. UNCHANGED Closed  BY DEF Closed
  <1>3. CASE letters[held[w]] = <<>>
    <2>1. letters' = [letters EXCEPT ![held[w]] = <<error[w]>>]  BY <1>3 DEF WriteOnce, IInv, TypeOK
    <2>2. \A m \in Message : letters'[m] = IF m = held[w] THEN <<error[w]>> ELSE letters[m]
      BY <2>1 DEF IInv, TypeOK
    <2>3. Archived' = Archived \cup {held[w]} /\ held[w] \notin Archived
      BY <1>1, <1>3, <2>2 DEF Archived
    <2>4. letters'[held[w]] # letters[held[w]]  BY <1>1, <1>3, <2>2
    <2>5. Contradicted(held[w]) \/ failures[held[w]] >= MaxAttempts
      BY <1>1, <2>4, LetterWritten DEF IInv
    <2> QED  BY <1>2, <2>3, <2>5 DEF Outcome!Archive, Outcome!Conflicts, Outcome!NoEffect,
                                     NoEffect, Contradicted, Archived, Closed
  <1>4. CASE letters[held[w]] # <<>>
    <2>1. letters' = letters  BY <1>4 DEF WriteOnce, IInv, TypeOK
    <2> QED  BY <1>2, <2>1 DEF Outcome!vars, Closed
  <1> QED  BY <1>3, <1>4

LEMMA AckStep ==
  ASSUME IInv, NEW w \in Worker, pc[w] = "ack", Acknowledge(w),
         UNCHANGED <<read, letters, processed, counter, failures>>, NEW n \in Message, held[w] = n
  PROVE  Outcome!Close(n)
  <1>1. held[w] \in Message /\ held[w] <= read  BY DEF IInv, TypeOK
  <1>2. Closed' = Closed \cup {held[w]}
    BY <1>1 DEF Closed, Acknowledge
  <1>3. Settled(held[w])  BY DEF IInv, Workers, WorkerOK
  <1>4. UNCHANGED Archived  BY DEF Archived
  <1> QED  BY <1>1, <1>2, <1>3, <1>4 DEF Outcome!Close, Settled, Closed, Archived

LEMMA OutcomeNext == IInv /\ [Next]_vars => [Outcome!Next]_Outcome!vars
  <1> SUFFICES ASSUME IInv, [Next]_vars  PROVE [Outcome!Next]_Outcome!vars  OBVIOUS
  <1> USE DEF redis, database
  <1>1. CASE UNCHANGED vars
    BY <1>1 DEF vars, Outcome!vars
  <1>2. CASE Next
    <2>1. PICK w \in Worker : Move(w)  BY <1>2 DEF Next, Move
    <2>2. pc[w] # "idle" => \E n \in Message : held[w] = n
      BY DEF IInv, Workers, WorkerOK, Stage
    <2>3. CASE Read(w)
      <3>1. UNCHANGED Closed
        <4>1. read \in Nat /\ read' = read + 1 /\ pending' = pending \cup {read + 1}
          BY <2>3, MessagesAssumption DEF IInv, TypeOK, Read
        <4>2. pending \in SUBSET (1..read)  BY DEF IInv, TypeOK
        <4>3. \A m \in Message : m <= read' /\ m \notin pending' <=> m <= read /\ m \notin pending
          BY <4>1, <4>2, MessagesAssumption DEF Message
        <4> QED  BY <4>3 DEF Closed
      <3> QED  BY <2>3, <3>1 DEF Read, Outcome!vars, Closed
    <2>4. CASE (\E m \in Message : Claim(w, m)) \/ GiveUp(w) \/ ApplyFails(w)
      BY <2>4 DEF Claim, GiveUp, ApplyFails, Outcome!vars
    <2>5. CASE Process(w)
      <3>1. CASE Apply(w)
        <4>1. PICK n \in Message : held[w] = n  BY <2>2, <3>1 DEF Apply
        <4>2. Outcome!Apply(n)
          BY <3>1, <4>1 DEF Apply, Increment, Stored, Outcome!Apply, NoEffect, Outcome!NoEffect
        <4> QED  BY <4>2 DEF Outcome!Next
      <3> QED  BY <2>5, <3>1 DEF Process, Duplicate, Conflict, Outcome!vars
    <2>6. CASE Report(w)
      <3>1. PICK n \in Message : held[w] = n  BY <2>2, <2>6 DEF Report
      <3>2. CASE failures[n] < MaxFailures
        <4>1. OneMore(failures[n]) = failures[n] + 1
          BY <3>1, <3>2, OneMoreRange DEF IInv, TypeOK
        <4>2. Outcome!Report(n)  BY <2>6, <3>1, <4>1 DEF Report, Outcome!Report
        <4> QED  BY <4>2 DEF Outcome!Next
      <3>3. CASE ~ failures[n] < MaxFailures
        <4>1. OneMore(failures[n]) = failures[n]
          BY <3>1, <3>3, OneMoreRange, AttemptsAssumption DEF IInv, TypeOK
        <4>2. failures' = failures  BY <2>6, <3>1, <4>1 DEF Report, IInv, TypeOK
        <4> QED  BY <2>6, <4>2 DEF Report, Outcome!vars
      <3> QED  BY <3>2, <3>3
    <2>7. CASE Decide(w) \/ CountLost(w)
      BY <2>7 DEF Decide, Retry, Exhaust, CountLost, Outcome!vars
    <2>8. CASE Archive(w) \/ ArchiveFails(w)
      <3>1. CASE WriteOnce(w)
        <4>1. PICK n \in Message : held[w] = n  BY <2>2, <2>8 DEF Archive, ArchiveFails
        <4>2. Outcome!Archive(n) \/ UNCHANGED Outcome!vars
          BY <2>8, <3>1, <4>1, ArchiveStep DEF Archive, ArchiveFails
        <4> QED  BY <4>2 DEF Outcome!Next
      <3> QED  BY <2>8, <3>1 DEF Archive, ArchiveFails, Outcome!vars
    <2>9. CASE Ack(w) \/ AckFails(w)
      <3>1. CASE Acknowledge(w)
        <4>1. PICK n \in Message : held[w] = n  BY <2>2, <2>9 DEF Ack, AckFails
        <4>2. Outcome!Close(n)  BY <2>9, <3>1, <4>1, AckStep DEF Ack, AckFails
        <4> QED  BY <4>2 DEF Outcome!Next
      <3> QED  BY <2>9, <3>1 DEF Ack, AckFails, Outcome!vars
    <2> QED  BY <2>1, <2>3, <2>4, <2>5, <2>6, <2>7, <2>8, <2>9 DEF Move, Trouble
  <1> QED  BY <1>1, <1>2

(* Every event has its effect once, and a message is closed only when that *)
(* effect is the one it asks for or the message is kept as a dead letter.  *)
THEOREM ImplementsCompletion == Spec => KeepsOutcome
  BY Invariance, OutcomeInit, OutcomeNext, PTL DEF Spec, KeepsOutcome, Outcome!Spec

-----------------------------------------------------------------------------
(* What an acknowledgement is worth: nothing that the group was given and  *)
(* has no more to do is without its effect or its letter, ...              *)
Accounted == \A m \in Closed : Settled(m)

(* ... and what is done is done: no worker takes back an effect, replaces  *)
(* a letter or makes a message of the group pending again.                 *)
Final ==
  /\ \A e \in Event : processed[e] # NoEffect => processed'[e] = processed[e]
  /\ \A m \in Message : letters[m] # <<>> => letters'[m] = letters[m]
  /\ Closed \subseteq Closed'

StaysDone == [][Final]_vars

LEMMA SettledStays ==
  ASSUME Grown, NEW m \in Message, Settled(m)
  PROVE  Settled(m)'
  BY MessagesAssumption DEF Grown, Settled, NoEffect

(* Only its acknowledgement closes a message, and nothing opens it.        *)
LEMMA ClosedNext ==
  ASSUME IInv, NEW w \in Worker, Move(w)
  PROVE  /\ Closed \subseteq Closed'
         /\ \A m \in Closed' : m \in Closed \/ (held[w] = m /\ pc[w] = "ack")
  <1> USE MessagesAssumption DEF IInv
  <1>1. CASE Read(w)
    <2>1. read \in Nat /\ pending \in SUBSET (1..read)  BY DEF TypeOK
    <2>2. read' = read + 1 /\ pending' = pending \cup {read + 1}  BY <1>1 DEF Read
    <2>3. \A m \in Message : m <= read' /\ m \notin pending' <=> m <= read /\ m \notin pending
      BY <2>1, <2>2 DEF Message
    <2> QED  BY <2>3 DEF Closed
  <1>2. CASE Ack(w) \/ AckFails(w)
    <2>1. read' = read /\ (pending' = pending \/ pending' = pending \ {held[w]}) /\ pc[w] = "ack"
      BY <1>2 DEF Ack, AckFails, Acknowledge
    <2> QED  BY <2>1 DEF Closed
  <1>3. CASE UNCHANGED <<read, pending>>
    BY <1>3 DEF Closed
  <1> QED
    BY <1>1, <1>2, <1>3
       DEF Move, Process, Decide, Trouble, Claim, Apply, Duplicate, Conflict, Report, Retry,
           Exhaust, CountLost, Archive, ArchiveFails, GiveUp, ApplyFails, redis

(* However many workers share a message, die, or lose replies: once it is  *)
(* acknowledged its event has the effect it asks for, or it is kept as a   *)
(* dead letter, and both stay as they are.                                 *)
THEOREM NothingIsLost == Spec => []Accounted /\ StaysDone
  <1>1. Init => Accounted
    BY MessagesAssumption DEF Init, Accounted, Closed, Message
  <1>2. IInv /\ Accounted /\ [Next]_vars => Accounted'
    <2> SUFFICES ASSUME IInv, Accounted, [Next]_vars, NEW m \in Closed'
                 PROVE  Settled(m)'
      BY DEF Accounted
    <2>1. m \in Message  BY DEF Closed
    <2>2. CASE UNCHANGED vars
      BY <2>1, <2>2 DEF vars, Accounted, Closed, Settled
    <2>3. CASE Next
      <3>1. PICK w \in Worker : Move(w)  BY <2>3 DEF Next, Move
      <3>2. Grown  BY <3>1, MoveKeeps DEF IInv
      <3>3. Settled(m)
        <4>1. m \in Closed \/ (held[w] = m /\ pc[w] = "ack")  BY <3>1, ClosedNext
        <4> QED  BY <4>1 DEF Accounted, IInv, Workers, WorkerOK
      <3> QED  BY <2>1, <3>2, <3>3, SettledStays
    <2> QED  BY <2>2, <2>3
  <1>3. IInv /\ [Next]_vars => [Final]_vars
    <2> SUFFICES ASSUME IInv, Next  PROVE Final  OBVIOUS
    <2>1. PICK w \in Worker : Move(w)  BY DEF Next, Move
    <2>2. Grown  BY <2>1, MoveKeeps DEF IInv
    <2>3. Closed \subseteq Closed'  BY <2>1, ClosedNext
    <2> QED  BY <2>2, <2>3 DEF Grown, Final
  <1> QED  BY <1>1, <1>2, <1>3, Invariance, PTL DEF Spec, StaysDone

-----------------------------------------------------------------------------
(* While no worker gives up no failure goes uncounted: one that is to      *)
(* acknowledge after a failure has recorded it, ...                        *)
Recorded == \A w \in Worker : pc[w] = "ack" /\ error[w] = "retryable" => recorded[w] # 0

LEMMA RecordedNext ==
  ASSUME IInv, Recorded, [Next]_vars
  PROVE  Recorded'
  <1> USE AttemptsAssumption DEF IInv, Workers, WorkerOK, Stage
  <1>1. CASE UNCHANGED vars
    BY <1>1 DEF vars, Recorded
  <1>2. CASE Next
    <2>1. PICK w \in Worker : Move(w)  BY <1>2 DEF Next, Move
    <2>2. \A v \in Worker \ {w} : pc'[v] = pc[v] /\ error'[v] = error[v] /\ recorded'[v] = recorded[v]
      BY <2>1, MoveKeeps DEF OthersKept
    <2>3. ASSUME pc'[w] = "ack", error'[w] = "retryable"  PROVE recorded'[w] # 0
      <3>1. CASE Process(w)
        BY <2>3, <3>1 DEF Process, Apply, Duplicate, Conflict, Go, TypeOK
      <3>2. CASE Archive(w)
        <4>1. error[w] = "retryable" /\ recorded'[w] = recorded[w]  BY <2>3, <3>2 DEF Archive
        <4>2. recorded[w] >= MaxAttempts  BY <3>2, <4>1 DEF Archive, Grounds
        <4> QED  BY <4>1, <4>2 DEF TypeOK
      <3> QED
        BY <2>1, <2>3, <3>1, <3>2
           DEF Move, Decide, Trouble, Read, Claim, Begin, End, Again, Retry, Exhaust, Ack, Report,
               CountLost, ApplyFails, ArchiveFails, AckFails, GiveUp, Go, Recorded, TypeOK, worker
    <2> QED  BY <2>2, <2>3 DEF Recorded
  <1> QED  BY <1>1, <1>2

(* ... so that an entry leaves the books only to be counted.               *)
LEMMA StruckCounts ==
  ASSUME "crash" \notin Faults, IInv, Recorded, NEW w \in Worker, Move(w), NEW m \in Message,
         InBooks(w, m), ~ InBooks(w, m)'
  PROVE  counts'[m] = OneMore(counts[m])
  <1> USE DEF InBooks, IInv
  <1>1. Stage(w) /\ Grounds(w)  BY DEF Workers, WorkerOK
  <1>2. pc[w] \notin {"idle", "attempt", "archive", "ack"}
    BY <1>1, AttemptsAssumption DEF Stage, Grounds, Recorded
  <1>3. CASE Retry(w)
    BY <1>3 DEF TypeOK, Retry
  <1>4. CASE Exhaust(w) \/ CountLost(w)
    BY <1>4 DEF TypeOK, Exhaust, CountLost, RecordOnce
  <1> QED
    BY <1>2, <1>3, <1>4
       DEF Move, Process, Decide, Trouble, Read, Claim, Apply, Duplicate, Conflict, Report, Archive,
           ArchiveFails, Ack, AckFails, ApplyFails, GiveUp

Exact == \A m \in Message :
  failures[m] < MaxFailures => counts[m] + Cardinality(Uncounted(m)) = failures[m]

LEMMA ExactNext ==
  ASSUME "crash" \notin Faults, IInv, Recorded, Exact, [Next]_vars
  PROVE  Exact'
  <1> USE DEF IInv
  <1>1. CASE UNCHANGED vars
    BY <1>1 DEF vars, Exact, Uncounted
  <1>2. CASE Next
    <2>1. PICK w \in Worker : Move(w)  BY <1>2 DEF Next, Move
    <2>2. SUFFICES ASSUME NEW m \in Message, failures'[m] < MaxFailures
                   PROVE  counts'[m] + Cardinality(Uncounted(m)') = failures'[m]
      BY DEF Exact
    <2> DEFINE U == Uncounted(m)
    <2>3. /\ counts[m] \in 0..MaxFailures /\ failures[m] \in 0..MaxFailures
          /\ failures[m] < MaxFailures => counts[m] + Cardinality(U) = failures[m]
      BY DEF TypeOK, Exact
    <2>4. \A v \in Worker : /\ v \in U <=> InBooks(v, m)
                            /\ v \in U' <=> InBooks(v, m)'
      BY DEF Uncounted, InBooks
    <2>5. \A v \in Worker \ {w} : v \in U' <=> v \in U
      BY <2>1, <2>4, MoveKeeps DEF OthersKept, InBooks
    <2>6. U \in SUBSET Worker /\ U' \in SUBSET Worker  BY DEF Uncounted
    <2>7. IsFiniteSet(U) /\ Cardinality(U) \in Nat  BY FiniteBooks
    <2>8. CASE NoEntry(w, m)
      <3>1. U' = U  BY <2>4, <2>5, <2>6, <2>8 DEF NoEntry
      <3> QED  BY <2>2, <2>3, <2>8, <3>1 DEF NoEntry
    <2>9. CASE Entered(w, m)
      <3>1. w \notin U /\ U' = U \cup {w}  BY <2>4, <2>5, <2>6, <2>9 DEF Entered
      <3>2. Cardinality(U') = Cardinality(U) + 1  BY <2>7, <3>1, FS_AddElement
      <3>3. failures[m] < MaxFailures /\ failures'[m] = failures[m] + 1
        BY <2>2, <2>3, <2>9, OneMoreRange, AttemptsAssumption DEF Entered
      <3> QED  BY <2>3, <2>7, <2>9, <3>2, <3>3 DEF Entered
    <2>10. CASE Struck(w, m)
      <3>1. w \in U /\ U' = U \ {w}  BY <2>4, <2>5, <2>6, <2>10 DEF Struck
      <3>2. Cardinality(U') = Cardinality(U) - 1  BY <2>7, <3>1, FS_RemoveElement
      <3>3. counts'[m] = OneMore(counts[m])  BY <2>1, <2>10, StruckCounts DEF Struck
      <3>4. failures[m] < MaxFailures /\ counts[m] + Cardinality(U) = failures[m]
        BY <2>2, <2>3, <2>10 DEF Struck
      <3>5. counts'[m] = counts[m] + 1
        <4>1. Cardinality(U') \in Nat
          BY <2>7, <3>1, FS_RemoveElement, FS_CardinalityType
        <4>2. counts[m] < MaxFailures  BY <2>3, <2>7, <3>4, AttemptsAssumption
        <4> QED  BY <2>3, <3>3, <4>2, OneMoreRange
      <3> QED  BY <2>3, <2>7, <2>10, <3>2, <3>4, <3>5 DEF Struck
    <2> QED  BY <2>1, <2>8, <2>9, <2>10, Entries
  <1> QED  BY <1>1, <1>2

(* Unless a worker dies or gives up, every failed attempt it reports to    *)
(* handle_retryable_message_failure is counted once, though the report is  *)
(* made again and again: the count of a message and the reports on their   *)
(* way are all the failures there were, up to a bound that is arbitrary.   *)
THEOREM EveryFailureCounts ==
  ASSUME "crash" \notin Faults
  PROVE  Spec => []Exact
  <1>1. Init => Recorded
    BY DEF Init, Recorded
  <1>2. Init => Exact
    <2> SUFFICES ASSUME Init, NEW m \in Message
                 PROVE  counts[m] + Cardinality(Uncounted(m)) = failures[m]
      BY DEF Exact
    <2>1. Uncounted(m) = {}  BY DEF Init, Uncounted
    <2>2. Cardinality(Uncounted(m)) = 0  BY <2>1, FS_EmptySet
    <2> QED  BY <2>2 DEF Init
  <1>3. IInv /\ Recorded /\ [Next]_vars => Recorded'
    BY RecordedNext
  <1>4. IInv /\ Recorded /\ Exact /\ [Next]_vars => Exact'
    BY ExactNext
  <1> QED  BY <1>1, <1>2, <1>3, <1>4, Invariance, PTL DEF Spec
=============================================================================
