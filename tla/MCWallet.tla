------------------------------ MODULE MCWallet ------------------------------
(* Small instances of Wallet for TLC; amounts in units of 12 rupees. *)
EXTENDS Wallet, TLC
CONSTANTS v1, v2
Symmetric == Permutations(Procs)
=============================================================================
