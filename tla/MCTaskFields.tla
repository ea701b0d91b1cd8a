----------------------------- MODULE MCTaskFields -----------------------------
(* The instance of TaskFields that TLC checks.                             *)
EXTENDS TaskFields, TLC

CONSTANTS p1, p2, p3, completed, due

AllZero == [f \in Field |-> 0]

Symmetry == Permutations(Patch)
=============================================================================
