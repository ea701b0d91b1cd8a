----------------------------- MODULE MCTaskCache -----------------------------
(* The instances of TaskCache that TLC checks.                             *)
EXTENDS TaskCache, TLC

(* Requests of one kind are interchangeable, and so are the users; used by *)
(* the runs that check no liveness.                                        *)
Symmetry == Permutations(Reader) \cup Permutations(Writer) \cup Permutations(Owner)

(* A bound: GETs come one after another, so that a later one meets what an *)
(* earlier one has left in Redis.  Writers run beside them.                *)
OneGetAtATime ==
  LET busy == {r \in Reader : pc[r] \notin {"idle", "done"}} IN
  \A r, s \in busy : r = s

(* A bound: one POST, one PATCH and one DELETE at most.                    *)
OneOfEach == \A v, w \in Writer : op[v] = op[w] /\ op[v] # "none" => v = w

Contracted == OneGetAtATime /\ OneOfEach
=============================================================================
