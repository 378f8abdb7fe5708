--------------------------- MODULE MCWorkerSearch ---------------------------
(* Small instances of WorkerSearch for TLC. *)
EXTENDS WorkerSearch, TLC
Symmetric == Permutations(Procs) \cup Permutations(Bookings)
=============================================================================
