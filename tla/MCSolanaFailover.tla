-------------------------- MODULE MCSolanaFailover --------------------------
(* Instances of SolanaFailover for TLC. *)
EXTENDS SolanaFailover
=============================================================================
