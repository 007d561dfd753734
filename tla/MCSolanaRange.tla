--------------------------- MODULE MCSolanaRange ---------------------------
(* Instances of SolanaRange for TLC. *)
EXTENDS SolanaRange
=============================================================================
