--------------------------- MODULE MCBookingPages ---------------------------
(* Instances of BookingPages for TLC. *)
EXTENDS BookingPages

(* Two bookings of one user, the third of another; slots start as the clock *)
(* does, or a tick after.                                                   *)
MCUserOf  == [b \in Bookings |-> IF b = 3 THEN "bob" ELSE "ann"]
MCStartOf == [b \in Bookings |-> IF b = 1 THEN 0 ELSE 1]

(* An int of four bits: the offset of page 4 fits it with a size of 1 or 2, *)
(* that of page 7, the largest int, with 1 only; 8 is no int.               *)
MCParams == {Blank, Junk, 0, 1, 2, 4, 7, 8}
=============================================================================
