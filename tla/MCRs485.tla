------------------------------ MODULE MCRs485 ------------------------------
(* Instances of Rs485 for TLC. *)
EXTENDS Rs485
=============================================================================
