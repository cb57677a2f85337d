--------------------------- MODULE MCBookingStore ---------------------------
(* Instances of BookingStore for TLC. *)
EXTENDS BookingStore, TLC

(* Every slot starts when the clock does: a request that reads it at time 0 *)
(* finds it at its very start, and a tick later it has begun.               *)
MCStartOf == [s \in Slots |-> 0]

Symmetry == Permutations(Requests) \cup Permutations(Users) \cup Permutations(Slots)
=============================================================================
