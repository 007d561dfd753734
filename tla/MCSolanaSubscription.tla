------------------------ MODULE MCSolanaSubscription ------------------------
(* Instances of SolanaSubscription for TLC. *)
EXTENDS SolanaSubscription
=============================================================================
