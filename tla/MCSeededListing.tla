-------------------------- MODULE MCSeededListing --------------------------
(* Instances of SeededListing for TLC. *)
EXTENDS SeededListing, TLC

(* "long" is what an administrator creates.  "seeded" is Room C's schedule: *)
(* it leaves out a weekday, the last, on which the command adds slots       *)
(* anyway.                                                                  *)
MCCovers == [sc \in Schedules |->
              [d \in Days |-> IF sc = "seeded" THEN {t \in Times : t = 1 /\ d = 1}
                              ELSE Times]]

MCSeedSchedule == [room \in SeedRooms |-> "seeded"]
MCSeedTimes    == [room \in SeedRooms |-> {1}]

Symmetry == Permutations(Requests)
=============================================================================
