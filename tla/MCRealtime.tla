------------------------------ MODULE MCRealtime ------------------------------
(* The instances of Realtime that TLC checks.                              *)
EXTENDS Realtime

CONSTANTS i1, s1, s2, s3, alice, bob

(* One instance: two sockets of one user, one of another.                  *)
HomeOne == [s \in Socket |-> i1]
OwnerTwo == [s \in Socket |-> IF s = s3 THEN bob ELSE alice]
=============================================================================
