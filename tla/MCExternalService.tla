-------------------------- MODULE MCExternalService --------------------------
(* The instances of ExternalService that TLC checks.                       *)
EXTENDS ExternalService
=============================================================================
