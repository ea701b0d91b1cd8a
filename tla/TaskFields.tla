------------------------------ MODULE TaskFields ------------------------------
(***************************************************************************)
(* The fields of one task under concurrent PATCH requests.  update_task    *)
(* reads the row, sets the fields the body names, and commits: SQLAlchemy's*)
(* UPDATE names only the columns whose value is no longer the one that was *)
(* read.  Then it reads the row again for the answer.                      *)
(*                                                                         *)
(* The row is never deleted here, and the cache is left out: both are in   *)
(* TaskCache, whose rows have no fields.                                   *)
(***************************************************************************)
EXTENDS Naturals

CONSTANTS
  Patch,     \* the requests
  Field,     \* the columns a PATCH may name
  Nullable,  \* those that may be null: description, due_date
  Value,     \* what else a field may hold
  Null,
  First      \* the row when the first request comes

Nobody == "nobody"  \* who committed the first values

ASSUME FieldsAssumption ==
  /\ Nullable \subseteq Field
  /\ Null \notin Value /\ Nobody \notin Patch
  /\ First \in [Field -> Value]

VARIABLES
  task,    \* the row
  pc,      \* where each request is
  asked,   \* the body: a value for each field it names
  loaded,  \* the row the request read
  answer,  \* the row the response shows
  last,    \* observer: for each field, the PATCH naming it that committed last
  rivals   \* observer: what committed since a request read, until it has its answer

vars == <<task, pc, asked, loaded, answer, last, rivals>>

Row == [Field -> Value \cup {Null}]

(* What a body may hold: a value for some of the fields.                   *)
Bodies == UNION {[F -> Value \cup {Null}] : F \in SUBSET Field}

(* Mutant: null is let through for every field.                            *)
AnyBody(body) == body \in Bodies

(* TaskUpdate refuses null for the fields that have no null.               *)
Valid(body) == body \in Bodies /\ \A f \in DOMAIN body \ Nullable : body[f] # Null

Go(p, to) == pc' = [pc EXCEPT ![p] = to]

(* get_owned_task_or_404.                                                  *)
Find(p, body) ==
  /\ pc[p] = "idle" /\ Valid(body)
  /\ Go(p, "commit")
  /\ asked' = [asked EXCEPT ![p] = body]
  /\ loaded' = [loaded EXCEPT ![p] = task]
  /\ UNCHANGED <<task, answer, last, rivals>>

(* Mutant: model_dump without exclude_unset.                               *)
SetUnset(p) == [f \in Field |-> IF f \in DOMAIN asked[p] THEN asked[p][f] ELSE Null]

(* stored_task after setattr.                                              *)
Set(p) == [f \in Field |-> IF f \in DOMAIN asked[p] THEN asked[p][f] ELSE loaded[p][f]]

(* The columns that differ from what was read are written.                 *)
Write(p) == [f \in Field |-> IF Set(p)[f] # loaded[p][f] THEN Set(p)[f] ELSE task[f]]

Commit(p) ==
  /\ pc[p] = "commit"
  /\ Go(p, "refresh")
  /\ task' = Write(p)
  /\ last' = [f \in Field |-> IF f \in DOMAIN asked[p] THEN p ELSE last[f]]
  /\ rivals' = [q \in Patch |->
       IF q # p /\ pc[q] \in {"commit", "refresh"} THEN rivals[q] \cup {p} ELSE rivals[q]]
  /\ UNCHANGED <<asked, loaded, answer>>

(* A failing statement, before or after the commit, ends the request.      *)
Fail(p) ==
  /\ pc[p] \in {"commit", "refresh"}
  /\ Go(p, "failed")
  /\ UNCHANGED <<task, asked, loaded, answer, last, rivals>>

(* Mutant: the response shows the object as it was read.                   *)
AnswerLoaded(p) ==
  /\ pc[p] = "refresh"
  /\ Go(p, "done")
  /\ answer' = [answer EXCEPT ![p] = loaded[p]]
  /\ UNCHANGED <<task, asked, loaded, last, rivals>>

(* session.refresh and the response.                                       *)
Answer(p) ==
  /\ pc[p] = "refresh"
  /\ Go(p, "done")
  /\ answer' = [answer EXCEPT ![p] = task]
  /\ UNCHANGED <<task, asked, loaded, last, rivals>>

Init ==
  /\ task = First
  /\ pc = [p \in Patch |-> "idle"]
  /\ asked = [p \in Patch |-> [f \in {} |-> Null]]
  /\ loaded = [p \in Patch |-> First]
  /\ answer = [p \in Patch |-> First]
  /\ last = [f \in Field |-> Nobody]
  /\ rivals = [p \in Patch |-> {}]

Next == \E p \in Patch :
  (\E body \in Bodies : Find(p, body)) \/ Commit(p) \/ Fail(p) \/ Answer(p)

Spec == Init /\ [][Next]_vars

-----------------------------------------------------------------------------
(* Properties.                                                             *)

(* The type of every variable; a field that may not be null is not.        *)
TypeOK ==
  /\ task \in Row
  /\ \A f \in Field \ Nullable : task[f] # Null
  /\ pc \in [Patch -> {"idle", "commit", "refresh", "done", "failed"}]
  /\ asked \in [Patch -> Bodies]
  /\ loaded \in [Patch -> Row]
  /\ answer \in [Patch -> Row]
  /\ last \in [Field -> Patch \cup {Nobody}]
  /\ rivals \in [Patch -> SUBSET Patch]

(* What the rivals of a request asked a field to be.                       *)
Rivalled(p, f) == {asked[q][f] : q \in {r \in rivals[p] : f \in DOMAIN asked[r]}}

(* No update is lost to a request that says nothing of the field: a field  *)
(* has the value of the last PATCH that named it, or that of a PATCH that  *)
(* named it too and committed between the SELECT and the commit of the     *)
(* last.                                                                   *)
LastPatchWins ==
  \A f \in Field : last[f] # Nobody =>
    task[f] \in {asked[last[f]][f]} \cup Rivalled(last[f], f)

(* A response shows every field as the request asked for it, or as it was  *)
(* read if the request did not name it, or as another request that named   *)
(* it and committed meanwhile.                                             *)
AnswersAreHonest ==
  \A p \in Patch : pc[p] = "done" =>
    \A f \in Field : answer[p][f] \in {Set(p)[f]} \cup Rivalled(p, f)
=============================================================================
