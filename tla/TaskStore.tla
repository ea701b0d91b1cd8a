------------------------------ MODULE TaskStore ------------------------------
(***************************************************************************)
(* What the task endpoints promise their clients, with Redis, the fill     *)
(* lock, its polls and the order of the database calls left out: one store *)
(* that every write changes at once, and that a GET may see late.          *)
(*                                                                         *)
(* A GET answers, at one moment, with what the store shows its user then,  *)
(* or with what was superseded less than that content's Patience ago.  A   *)
(* write takes effect at most once, between its look at the store and its  *)
(* answer, and its answer is never late.  A success or a 404 tells whether *)
(* it took effect; an answer of 500 does not.                              *)
(***************************************************************************)
EXTENDS Naturals

CONSTANTS
  Reader, Writer, Owner,
  MaxTaskId, Seed,  \* as in TaskCache
  Patience,         \* the ticks an outdated content may still be answered
  Faults            \* what may fail: "redis", "db" and "crash"

NotFound == "not_found"
Request  == Reader \cup Writer
Key      == Owner \X (1..MaxTaskId)
Served   == Writer \cup {Seed, NotFound}

VARIABLES
  shown,  \* what the store shows the user of each key
  grace,  \* the ticks a content may still be answered for a key
  stage,  \* of each request: "idle", "begun", "committed" or "over"
  key,    \* the (owner, task) each request is about
  op,     \* the endpoint of each writer
  reply   \* the response of each request

vars == <<shown, grace, stage, key, op, reply>>

Move(q, from, to) == stage[q] = from /\ stage' = [stage EXCEPT ![q] = to]
Answer(q, v)      == reply' = [reply EXCEPT ![q] = v]

(* The task ids are shared by all users; a row has one owner.              *)
ShownAs(t) == {shown[<<o, t>>] : o \in Owner} \ {NotFound}

(* The store shows new from now on; what it replaces is outdated from now. *)
Become(new) ==
  /\ shown' = new
  /\ grace' = [k \in Key |-> [c \in Served |->
       IF c = new[k] THEN 0
       ELSE IF c = shown[k] THEN Patience[c] ELSE grace[k][c]]]

Init ==
  /\ shown \in [Key -> {Seed, NotFound}]
  /\ grace = [k \in Key |-> [c \in Served |-> 0]]
  /\ stage = [q \in Request |-> "idle"]
  /\ key = [q \in Request |-> <<"nobody", 0>>]
  /\ op = [w \in Writer |-> "none"]
  /\ reply = [q \in Request |-> "none"]

(* A GET begins, and answers.                                              *)
Begin(r) ==
  /\ Move(r, "idle", "begun")
  /\ \E k \in Key : key' = [key EXCEPT ![r] = k]
  /\ UNCHANGED <<shown, grace, op, reply>>

MayAnswer(r, c) == c = shown[key[r]] \/ grace[key[r]][c] > 0

Read(r) ==
  /\ Move(r, "begun", "over")
  /\ \/ \E c \in Served : MayAnswer(r, c) /\ Answer(r, c)
     \/ "redis" \in Faults /\ Answer(r, "redis_error")
     \/ "db" \in Faults /\ Answer(r, "db_error")
  /\ UNCHANGED <<shown, grace, key, op>>

(* A POST makes a row of an id under which nobody is shown anything.       *)
Create(w) ==
  /\ Move(w, "idle", "committed")
  /\ \E k \in Key :
       /\ ShownAs(k[2]) = {}
       /\ Become([shown EXCEPT ![k] = w])
       /\ key' = [key EXCEPT ![w] = k]
  /\ op' = [op EXCEPT ![w] = "create"]
  /\ UNCHANGED reply

(* A PATCH or DELETE begins; a 404 says that its user has no such task now.*)
Find(w) ==
  /\ \E k \in Key, o \in {"update", "delete"} :
       /\ key' = [key EXCEPT ![w] = k]
       /\ op' = [op EXCEPT ![w] = o]
       /\ IF shown[k] = NotFound
          THEN Move(w, "idle", "over") /\ Answer(w, NotFound)
          ELSE Move(w, "idle", "begun") /\ UNCHANGED reply
  /\ UNCHANGED <<shown, grace>>

(* It acts on the row that now has the id, whoever owns it, and on no      *)
(* other.                                                                  *)
Update(w) ==
  LET t == key[w][2] IN
  /\ op[w] = "update"
  /\ \/ /\ Move(w, "begun", "committed")
        /\ \/ UNCHANGED <<shown, grace>>
           \/ ShownAs(t) # {} /\ Become([k \in Key |->
                IF k[2] = t /\ shown[k] # NotFound THEN w ELSE shown[k]])
        /\ UNCHANGED reply
     \/ /\ ShownAs(t) = {}
        /\ Move(w, "begun", "over") /\ Answer(w, "row_gone")
        /\ UNCHANGED <<shown, grace>>
  /\ UNCHANGED <<key, op>>

Delete(w) ==
  /\ op[w] = "delete"
  /\ Move(w, "begun", "committed")
  /\ Become([k \in Key |-> IF k[2] = key[w][2] THEN NotFound ELSE shown[k]])
  /\ UNCHANGED <<key, op, reply>>

(* The database fails a write before it has taken effect.                  *)
Refuse(w) ==
  /\ "db" \in Faults
  /\ Move(w, "begun", "over") /\ Answer(w, "db_error")
  /\ UNCHANGED <<shown, grace, key, op>>

(* A write answers once it has taken effect: a PATCH with the content the  *)
(* id has now, whoever put it there.  POST and PATCH read the row again    *)
(* for that, which may be gone or not be readable; a DELETE does not.      *)
Confirm(w) ==
  /\ Move(w, "committed", "over")
  /\ \/ op[w] # "update" /\ Answer(w, "ok")
     \/ op[w] = "update" /\ \E c \in ShownAs(key[w][2]) : Answer(w, c)
     \/ op[w] # "delete" /\ ShownAs(key[w][2]) = {} /\ Answer(w, "row_gone")
     \/ op[w] # "delete" /\ "db" \in Faults /\ Answer(w, "db_error")
  /\ UNCHANGED <<shown, grace, key, op>>

(* A request dies with its process, before or after it took effect.        *)
Die(q) ==
  /\ "crash" \in Faults
  /\ Move(q, "begun", "over") \/ Move(q, "committed", "over")
  /\ UNCHANGED <<shown, grace, key, op, reply>>

Tick ==
  /\ grace' = [k \in Key |-> [c \in Served |->
       IF grace[k][c] = 0 THEN 0 ELSE grace[k][c] - 1]]
  /\ UNCHANGED <<shown, stage, key, op, reply>>

Next ==
  \/ \E r \in Reader : Begin(r) \/ Read(r)
  \/ \E w \in Writer : \/ Create(w) \/ Find(w) \/ Update(w) \/ Delete(w)
                       \/ Refuse(w) \/ Confirm(w)
  \/ \E q \in Request : Die(q)
  \/ Tick

Spec == Init /\ [][Next]_vars
=============================================================================
