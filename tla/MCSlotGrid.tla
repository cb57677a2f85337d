----------------------------- MODULE MCSlotGrid -----------------------------
(* Instances of SlotGrid for TLC. *)
EXTENDS SlotGrid

(* None, one, several, the boundaries, out of range, and one listed twice.  *)
MCDayLists == {<< >>, <<1>>, <<7>>, <<0>>, <<8>>, <<5, 3>>, <<2, 2>>, <<6, 7, 6>>,
               <<1, 2, 3, 4, 5, 6, 7>>}
=============================================================================
