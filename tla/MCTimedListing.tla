-------------------------- MODULE MCTimedListing --------------------------
(* Instances of TimedListing for TLC. *)
EXTENDS TimedListing, TLC

MCCovers == [sc \in Schedules |-> [d \in Days |-> Times]]

Symmetry == Permutations(Requests)
=============================================================================
