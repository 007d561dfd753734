--------------------------- MODULE MCEthEndpoints ---------------------------
(* Instances of EthEndpoints for TLC. *)
EXTENDS EthEndpoints
=============================================================================
