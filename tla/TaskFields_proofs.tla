--------------------------- MODULE TaskFields_proofs ---------------------------
(***************************************************************************)
(* Proofs about TaskFields, for any requests, fields and values.           *)
(***************************************************************************)
EXTENDS TaskFields, TLAPS

(* Bodies that were sent name no null where none may be, ...               *)
Sent == \A p \in Patch : \A f \in DOMAIN asked[p] \ Nullable : asked[p][f] # Null

(* ... rivals, and the last to commit, have committed, ...                 *)
Over == {"refresh", "done", "failed"}

Committed ==
  /\ \A p \in Patch : \A q \in rivals[p] : pc[q] \in Over
  /\ \A f \in Field : last[f] # Nobody => pc[last[f]] \in Over /\ f \in DOMAIN asked[last[f]]

(* ... and while a request runs, a field that is not as the request read it*)
(* or, once it has committed, as it set it, is as a rival asked for it.    *)
Tracked ==
  \A p \in Patch : \A f \in Field :
    /\ pc[p] = "commit" => task[f] \in {loaded[p][f]} \cup Rivalled(p, f)
    /\ pc[p] = "refresh" => task[f] \in {Set(p)[f]} \cup Rivalled(p, f)

IInv == TypeOK /\ Sent /\ Committed /\ Tracked /\ LastPatchWins /\ AnswersAreHonest

-----------------------------------------------------------------------------
(* Bodies and rows.                                                        *)
LEMMA BodyValues ==
  ASSUME NEW body \in Bodies, NEW f \in DOMAIN body
  PROVE  body[f] \in Value \cup {Null}
  <1>1. PICK F \in SUBSET Field : body \in [F -> Value \cup {Null}]  BY DEF Bodies
  <1> QED  BY <1>1

LEMMA SetField ==
  ASSUME TypeOK, NEW p \in Patch, NEW f \in Field
  PROVE  /\ Set(p)[f] = IF f \in DOMAIN asked[p] THEN asked[p][f] ELSE loaded[p][f]
         /\ Set(p)[f] \in Value \cup {Null}
         /\ Set(p)[f] # loaded[p][f] => f \in DOMAIN asked[p] /\ Set(p)[f] = asked[p][f]
  <1>1. asked[p] \in Bodies /\ loaded[p][f] \in Value \cup {Null}  BY DEF TypeOK, Row
  <1>2. Set(p)[f] = IF f \in DOMAIN asked[p] THEN asked[p][f] ELSE loaded[p][f]  BY DEF Set
  <1> QED  BY <1>1, <1>2, BodyValues

LEMMA WriteField ==
  ASSUME TypeOK, NEW p \in Patch, NEW f \in Field
  PROVE  Write(p)[f] = IF Set(p)[f] # loaded[p][f] THEN Set(p)[f] ELSE task[f]
  BY DEF Write

LEMMA InitInv == Init => IInv
  <1> SUFFICES ASSUME Init  PROVE IInv  OBVIOUS
  <1> USE FieldsAssumption
  <1>1. First \in Row /\ \A f \in Field : First[f] # Null
    BY DEF Row
  <1>2. [f \in {} |-> Null] \in Bodies
    <2>1. [f \in {} |-> Null] \in [{} -> Value \cup {Null}]  OBVIOUS
    <2> QED  BY <2>1 DEF Bodies
  <1>3. TypeOK  BY <1>1, <1>2 DEF Init, TypeOK
  <1>4. Sent  BY DEF Init, Sent
  <1>5. Committed /\ Tracked /\ LastPatchWins /\ AnswersAreHonest
    BY DEF Init, Committed, Tracked, LastPatchWins, AnswersAreHonest
  <1> QED  BY <1>3, <1>4, <1>5 DEF IInv

(* Reading the row.                                                        *)
LEMMA FindInv ==
  ASSUME IInv, NEW p \in Patch, NEW body \in Bodies, Find(p, body)
  PROVE  IInv'
  <1> USE DEF IInv
  <1>1. /\ \A q \in Patch \ {p} : /\ pc'[q] = pc[q] /\ asked'[q] = asked[q]
                                  /\ loaded'[q] = loaded[q] /\ Set(q)' = Set(q)
        /\ pc[p] = "idle" /\ pc'[p] = "commit" /\ asked'[p] = body /\ loaded'[p] = task
        /\ UNCHANGED <<task, answer, last, rivals>>
    BY DEF TypeOK, Find, Go, Set
  <1>2. TypeOK'  BY DEF TypeOK, Find, Go
  <1>3. Sent'  BY <1>1 DEF Sent, Find, Valid
  <1>4. \A q \in Patch : p \notin rivals[q]  BY <1>1 DEF Committed, Over
  <1>5. \A q \in Patch, f \in Field : Rivalled(q, f)' = Rivalled(q, f)
    BY <1>1, <1>4 DEF TypeOK, Rivalled
  <1>6. \A f \in Field : last[f] # p  BY <1>1, FieldsAssumption DEF Committed, Over
  <1>7. Committed'  BY <1>1, <1>4, <1>6 DEF Committed, Over, TypeOK
  <1>8. Tracked'  BY <1>1, <1>5 DEF Tracked
  <1>9. LastPatchWins'  BY <1>1, <1>5, <1>6 DEF LastPatchWins, TypeOK
  <1>10. AnswersAreHonest'  BY <1>1, <1>5 DEF AnswersAreHonest
  <1> QED  BY <1>2, <1>3, <1>7, <1>8, <1>9, <1>10

(* The commit: what others rely on is still there, or is a rival's now.    *)
LEMMA CommitInv ==
  ASSUME IInv, NEW p \in Patch, Commit(p)
  PROVE  IInv'
  <1> USE DEF IInv
  <1>1. /\ \A q \in Patch \ {p} : pc'[q] = pc[q] /\ rivals[q] \subseteq rivals'[q]
        /\ pc[p] = "commit" /\ pc'[p] = "refresh" /\ rivals'[p] = rivals[p]
        /\ UNCHANGED <<asked, loaded, answer>>
        /\ \A q \in Patch : rivals'[q] \subseteq rivals[q] \cup {p}
        /\ \A q \in Patch \ {p} : pc[q] \in {"commit", "refresh"} => p \in rivals'[q]
    BY DEF TypeOK, Commit, Go
  <1>2. \A q \in Patch : Set(q)' = Set(q)  BY <1>1 DEF Set
  <1>3. \A f \in Field : task'[f] = IF Set(p)[f] # loaded[p][f] THEN Set(p)[f] ELSE task[f]
    BY WriteField DEF Commit
  <1>4. \A f \in Field : Set(p)[f] # loaded[p][f] =>
          f \in DOMAIN asked[p] /\ task'[f] = asked[p][f]
    BY <1>3, SetField
  <1>5. TypeOK'
    <2>1. task' \in Row
      BY SetField DEF TypeOK, Row, Commit, Write
    <2>2. \A f \in Field \ Nullable : task'[f] # Null
      BY <1>3, SetField DEF TypeOK, Sent
    <2> QED  BY <2>1, <2>2 DEF TypeOK, Commit, Go
  <1>6. Sent'  BY <1>1 DEF Sent
  <1>7. Committed'
    <2>1. \A q \in Patch : \A r \in rivals'[q] : pc'[r] \in Over
      BY <1>1 DEF Committed, Over, TypeOK
    <2>2. \A f \in Field : last'[f] = IF f \in DOMAIN asked[p] THEN p ELSE last[f]
      BY DEF Commit
    <2>3. \A f \in Field : last'[f] # Nobody => pc'[last'[f]] \in Over /\ f \in DOMAIN asked'[last'[f]]
      BY <1>1, <2>2 DEF Committed, Over, TypeOK
    <2> QED  BY <2>1, <2>3 DEF Committed
  <1>8. \A q \in Patch, f \in Field : Rivalled(q, f) \subseteq Rivalled(q, f)'
    BY <1>1 DEF Rivalled
  <1>9. \A q \in Patch \ {p}, f \in Field :
          pc[q] \in {"commit", "refresh"} /\ Set(p)[f] # loaded[p][f] => task'[f] \in Rivalled(q, f)'
    BY <1>1, <1>4 DEF Rivalled
  <1>10. Tracked'
    <2> SUFFICES ASSUME NEW q \in Patch, NEW f \in Field
                 PROVE  /\ pc'[q] = "commit" => task'[f] \in {loaded[q][f]} \cup Rivalled(q, f)'
                        /\ pc'[q] = "refresh" => task'[f] \in {Set(q)[f]} \cup Rivalled(q, f)'
      BY <1>1, <1>2 DEF Tracked
    <2>1. CASE q = p
      BY <1>1, <1>3, <1>8, <2>1 DEF Tracked
    <2>2. CASE q # p
      BY <1>1, <1>3, <1>8, <1>9, <2>2 DEF Tracked
    <2> QED  BY <2>1, <2>2
  <1>11. LastPatchWins'
    <2> SUFFICES ASSUME NEW f \in Field, NEW q \in Patch, last'[f] = q
                 PROVE  task'[f] \in {asked[q][f]} \cup Rivalled(q, f)'
      BY <1>1, <1>5 DEF LastPatchWins, Rivalled, TypeOK
    <2>1. CASE f \in DOMAIN asked[p]
      <3>1. q = p  BY <2>1 DEF Commit
      <3>2. Set(p)[f] = asked[p][f]  BY <2>1, SetField
      <3>3. task'[f] \in {Set(p)[f]} \cup Rivalled(p, f)'  BY <1>1, <1>2, <1>10 DEF Tracked
      <3> QED  BY <3>1, <3>2, <3>3
    <2>2. CASE f \notin DOMAIN asked[p]
      <3>1. last[f] = q  BY <2>2 DEF Commit
      <3>2. task'[f] = task[f]  BY <1>3, <2>2, SetField
      <3>3. task[f] \in {asked[q][f]} \cup Rivalled(q, f)
        BY <3>1, FieldsAssumption DEF LastPatchWins, Rivalled
      <3> QED  BY <1>8, <3>2, <3>3
    <2> QED  BY <2>1, <2>2
  <1>12. AnswersAreHonest'
    BY <1>1, <1>2, <1>8 DEF AnswersAreHonest
  <1> QED  BY <1>5, <1>6, <1>7, <1>10, <1>11, <1>12

(* The response, and a statement that fails.                               *)
LEMMA EndInv ==
  ASSUME IInv, NEW p \in Patch, Answer(p) \/ Fail(p)
  PROVE  IInv'
  <1> USE DEF IInv
  <1>1. /\ \A q \in Patch \ {p} : pc'[q] = pc[q] /\ answer'[q] = answer[q]
        /\ pc[p] \in {"commit", "refresh"} /\ pc'[p] \in {"done", "failed"}
        /\ pc'[p] = "done" => pc[p] = "refresh" /\ answer'[p] = task
        /\ UNCHANGED <<task, asked, loaded, last, rivals>>
    BY DEF TypeOK, Answer, Fail, Go
  <1>2. TypeOK'  BY DEF TypeOK, Answer, Fail, Go
  <1>3. Sent'  BY <1>1 DEF Sent
  <1>4. \A q \in Patch, f \in Field : Rivalled(q, f)' = Rivalled(q, f) /\ Set(q)' = Set(q)
    BY <1>1 DEF Rivalled, Set
  <1>5. Committed'  BY <1>1 DEF Committed, Over, TypeOK
  <1>6. Tracked'  BY <1>1, <1>4 DEF Tracked
  <1>7. LastPatchWins'  BY <1>1, <1>4 DEF LastPatchWins, TypeOK
  <1>8. AnswersAreHonest'  BY <1>1, <1>4 DEF AnswersAreHonest, Tracked
  <1> QED  BY <1>2, <1>3, <1>5, <1>6, <1>7, <1>8

LEMMA NextInv == IInv /\ [Next]_vars => IInv'
  <1> SUFFICES ASSUME IInv, [Next]_vars  PROVE IInv'  OBVIOUS
  <1>1. CASE UNCHANGED vars
    BY <1>1 DEF vars, IInv, TypeOK, Sent, Committed, Tracked, LastPatchWins, AnswersAreHonest,
                Rivalled, Set
  <1> QED  BY <1>1, FindInv, CommitInv, EndInv DEF Next

LEMMA Invariance == Spec => []IInv
  BY InitInv, NextInv, PTL DEF Spec

(* TypeOK, for every instance: no field that may not be null ever is.      *)
THEOREM TypeCorrect == Spec => []TypeOK
  <1>1. IInv => TypeOK  BY DEF IInv
  <1> QED  BY <1>1, Invariance, PTL

(* A field has the value of the last PATCH that named it, or of one that   *)
(* overlapped with it.                                                     *)
THEOREM NoUpdateLost == Spec => []LastPatchWins
  <1>1. IInv => LastPatchWins  BY DEF IInv
  <1> QED  BY <1>1, Invariance, PTL

(* A response shows nothing that was not asked for or read.                *)
THEOREM HonestAnswers == Spec => []AnswersAreHonest
  <1>1. IInv => AnswersAreHonest  BY DEF IInv
  <1> QED  BY <1>1, Invariance, PTL
=============================================================================
