------------------------------ MODULE MCEthIf ------------------------------
(* Instance of EthIf for TLC: the scheduling as built, and any scheduling. *)
EXTENDS EthIf

AnyPolicy == BOOLEAN
=============================================================================
