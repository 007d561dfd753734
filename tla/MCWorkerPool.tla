---------------------------- MODULE MCWorkerPool ----------------------------
(* Instances of WorkerPool for TLC. *)
EXTENDS WorkerPool, TLC

\* Pids are interchangeable, and so are jobs whose data has no number.
Symmetry == Permutations(Pid) \cup Permutations(NoNumber)
=============================================================================
