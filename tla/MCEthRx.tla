------------------------------ MODULE MCEthRx ------------------------------
(* Instances of EthRx for TLC: the scheduling as built. *)
EXTENDS EthRx

AsBuilt == {TRUE}
=============================================================================
