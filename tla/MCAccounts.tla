------------------------------ MODULE MCAccounts ------------------------------
(* The instance of Accounts that TLC checks.                               *)
EXTENDS Accounts

CONSTANTS p1, p2, p3, t1, t2, s1, s2, alice, bob

(* Two persons want the same name.                                         *)
SharedName == [p \in Person |-> IF p = p3 THEN bob ELSE alice]
=============================================================================
