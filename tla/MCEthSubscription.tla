------------------------- MODULE MCEthSubscription -------------------------
(* Instances of EthSubscription for TLC. *)
EXTENDS EthSubscription
=============================================================================
