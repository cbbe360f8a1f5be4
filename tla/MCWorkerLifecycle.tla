-------------------------- MODULE MCWorkerLifecycle --------------------------
(* The worker's lifecycle for TLC: calls of the same kind are alike. *)
EXTENDS WorkerLifecycle, TLC

Symmetry == Permutations(StartRequest) \cup Permutations(StopRequest)
=============================================================================
