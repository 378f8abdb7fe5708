-------------------------- MODULE MCMasterEntries --------------------------
(* Small instances of MasterEntries for TLC. *)
EXTENDS MasterEntries, TLC
TwoFilters == {[type |-> "all", isActive |-> "any"], [type |-> "role", isActive |-> "true"]}
============================================================================
