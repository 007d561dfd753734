------------------------------ MODULE MCSyncer ------------------------------
(* Instances of Syncer for TLC. *)
EXTENDS Syncer
=============================================================================
