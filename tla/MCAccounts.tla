---------------------------- MODULE MCAccounts ----------------------------
(* Small instances of Accounts for TLC. *)
EXTENDS Accounts, TLC
Symmetric == Permutations(Procs) \cup Permutations(Devices)
============================================================================
