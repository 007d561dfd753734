-------------------------- MODULE MCGrpcConnection --------------------------
(* Instances of GrpcConnection for TLC. *)
EXTENDS GrpcConnection
=============================================================================
