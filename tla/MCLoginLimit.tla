----------------------------- MODULE MCLoginLimit -----------------------------
(* The instance of LoginLimit that TLC checks.                             *)
EXTENDS LoginLimit

CONSTANTS i1, c1, r1, r2
=============================================================================
