---------------------------- MODULE MCBookings ----------------------------
(* Small instances of Bookings for TLC: all bookings are for one worker. *)
EXTENDS Bookings, TLC

CONSTANTS b1, b2, w1

OneWorker == [b \in Bookings |-> w1]
Handlers == Permutations(Procs)
===========================================================================
