--------------------------- MODULE MCMemoryStore ---------------------------
(* Instances of MemoryStore for TLC. *)
EXTENDS MemoryStore, TLC

(* One schedule covers one slot on day 1; the other covers two, and day 2.  *)
MCCovers == [sc \in Schedules |->
              [d \in Days |-> IF sc = "short" THEN {t \in Times : t = 1 /\ d = 1}
                              ELSE Times]]

Symmetry == Permutations(Requests)
=============================================================================
