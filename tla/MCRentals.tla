------------------------------ MODULE MCRentals ------------------------------
(* A small instance of Rentals for TLC. *)
EXTENDS Rentals, TLC
CONSTANTS i1, i2
TwoHours == [i \in Items |-> IF i = i1 THEN 1 ELSE 2]
Symmetric == Permutations(Procs) \cup Permutations(Reservations)
=============================================================================
