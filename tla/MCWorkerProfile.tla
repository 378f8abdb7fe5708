--------------------------- MODULE MCWorkerProfile ---------------------------
(* Small instances of WorkerProfile for TLC. *)
EXTENDS WorkerProfile, TLC
Symmetric == Permutations(Procs)
=============================================================================
