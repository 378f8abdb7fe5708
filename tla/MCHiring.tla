------------------------------ MODULE MCHiring ------------------------------
(* Small instances of Hiring for TLC. *)
EXTENDS Hiring, TLC
CONSTANTS j1, t1
OneJob == [a \in Applications |-> [job |-> j1, applicant |-> t1]]
Handlers == Permutations(Procs)
=============================================================================
