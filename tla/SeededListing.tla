--------------------------- MODULE SeededListing ---------------------------
(***************************************************************************)
(* The server of SlotListing while the seed command (cmd/seed/main.go)     *)
(* runs against the same database: a process of its own, which writes the  *)
(* four tables statement by statement, knows nothing of the cache, and     *)
(* ends at the first error.  It may be run again at any time.              *)
(***************************************************************************)
EXTENDS SlotListing

CONSTANTS
  SeedRooms,     \* Room A, Room B, Room C
  SeedSchedule,  \* the schedule it gives to each
  SeedTimes,     \* the starts of the slots it gives to each
  Weekdays,      \* Monday to Friday
  DemoRoom       \* Room A

SeedSlots ==
  {s \in Slot : s.room \in SeedRooms /\ s.day \in Week \cap Weekdays
                 /\ s.time \in SeedTimes[s.room]}

ASSUME SeedAssumption ==
  /\ SeedRooms \subseteq Rooms /\ DemoRoom \in SeedRooms
  /\ SeedSchedule \in [SeedRooms -> Schedules]
  /\ SeedTimes \in [SeedRooms -> SUBSET Times]
  /\ Weekdays \subseteq Days

VARIABLES
  seed,       \* the statement the command is about to send
  unsown,     \* the slots it has still to insert
  demo,       \* the slot it is going to book
  seeded      \* history: a run of the command has completed

seeding == <<seed, unsown, demo, seeded>>

SeedTypeOK ==
  /\ TypeOK
  /\ seed \in {"off", "rooms", "schedules", "slots", "pick", "book"}
  /\ unsown \subseteq SeedSlots
  /\ demo \in Slot \cup {None}
  /\ seeded \in BOOLEAN

SeedInit == Init /\ seed = "off" /\ unsown = {} /\ demo = None /\ seeded = FALSE

(* The part of the server that no statement of the command touches. *)
server == <<cache, cacheUp, scan, spoiled, excused>>

-----------------------------------------------------------------------------
StartSeed ==
  /\ seed = "off"
  /\ seed' = "rooms"
  /\ UNCHANGED <<vars, unsown, demo, seeded>>

(* One INSERT of three rooms, ON CONFLICT (id) DO UPDATE. *)
SowRooms ==
  /\ seed = "rooms"
  /\ rooms' = rooms \cup SeedRooms
  /\ seed' = "schedules"
  /\ UNCHANGED <<schedule, rows, bookings, req, pc, resp, todo, seen, blind, server>>
  /\ UNCHANGED <<unsown, demo, seeded>>

(* ON CONFLICT (room_id) DO UPDATE. *)
Rescheduled(room) ==
  IF room \in SeedRooms THEN SeedSchedule[room] ELSE schedule[room]

(* Variants: the loop over the seven days ends at the weekend, or runs on    *)
(* through it.                                                              *)
SlotsUntilWeekend ==
  {s \in SeedSlots : \A d \in Week : d < s.day => d \in Weekdays}
SlotsEveryDay ==
  {s \in Slot : s.room \in SeedRooms /\ s.day \in Week /\ s.time \in SeedTimes[s.room]}

(* It passes over the weekend. *)
SlotsToSow == SeedSlots

SowSchedules ==
  /\ seed = "schedules"
  /\ schedule' = [room \in Rooms |-> Rescheduled(room)]
  /\ seed' = "slots"
  /\ unsown' = SlotsToSow
  /\ UNCHANGED <<rooms, rows, bookings, req, pc, resp, todo, seen, blind, server>>
  /\ UNCHANGED <<demo, seeded>>

(* One INSERT for each slot, day by day, room by room. *)
SowSlot ==
  /\ seed = "slots" /\ unsown # {}
  /\ \E s \in unsown :
       /\ \A t \in unsown : s.day <= t.day
       /\ rows' = rows \cup {s}
       /\ unsown' = unsown \ {s}
  /\ UNCHANGED <<rooms, schedule, bookings, req, pc, resp, todo, seen, blind, server>>
  /\ UNCHANGED <<seed, demo, seeded>>

SlotsSown ==
  /\ seed = "slots" /\ unsown = {}
  /\ seed' = "pick"
  /\ UNCHANGED <<vars, unsown, demo, seeded>>

(* The first slot of the room that has not begun: any, as there is no clock. *)
PickSlot ==
  /\ seed = "pick"
  /\ \E s \in rows : s.room = DemoRoom /\ demo' = s
  /\ seed' = "book"
  /\ UNCHANGED <<vars, unsown, seeded>>

(* Variant: no ON CONFLICT, and no index to conflict with. *)
Always(s) == TRUE
NoConflict(s) == ~ Taken(s)

Completed == seed' = "off" /\ demo' = None /\ seeded' = TRUE /\ UNCHANGED unsown

(* INSERT INTO bookings ... ON CONFLICT DO NOTHING.  The row takes the name *)
(* of a request nobody has made.                                            *)
SowBooking ==
  /\ seed = "book"
  /\ NoConflict(demo)
  /\ \E r \in Requests :
       /\ pc[r] = "idle"
       /\ req' = [req EXCEPT ![r] = [op |-> "book", slot |-> demo]]
       /\ pc' = [pc EXCEPT ![r] = "done"]
       /\ bookings' = [bookings EXCEPT ![r] = "active"]
  /\ Completed
  /\ UNCHANGED <<rooms, schedule, rows, resp, todo, seen, blind, server>>

BookingConflicts ==
  /\ seed = "book"
  /\ Taken(demo)
  /\ Completed
  /\ UNCHANGED vars

(* A statement fails, or there is no slot to pick: log.Fatalf. *)
SeedFails ==
  /\ seed # "off"
  /\ seed' = "off" /\ unsown' = {} /\ demo' = None
  /\ UNCHANGED <<vars, seeded>>

SeedStep ==
  \/ StartSeed \/ SowRooms \/ SowSchedules \/ SowSlot \/ SlotsSown
  \/ PickSlot \/ SowBooking \/ BookingConflicts \/ SeedFails

(* The ids that the server gives to rooms are random. *)
ServerStep ==
  /\ Next
  /\ rooms' \cap SeedRooms = rooms \cap SeedRooms
  /\ UNCHANGED seeding

SeedNext == SeedStep \/ ServerStep

SeedSpec == SeedInit /\ [][SeedNext]_<<vars, seeding>>

-----------------------------------------------------------------------------
(* Properties. *)

(* The request r has inserted a schedule, whatever became of its answer. *)
Inserted(r) ==
  /\ pc[r] \in {"reply", "upsert", "invalidate", "delete", "done", "dead"}
  /\ req[r].op = "create"
  /\ resp[r] \notin {"ROOM_NOT_FOUND", "SCHEDULE_EXISTS"}

(* The schedules a room has had. *)
GivenTo(room) ==
  {SeedSchedule[a] : a \in SeedRooms \cap {room}}
    \cup {req[r].schedule : r \in {q \in Requests : Inserted(q) /\ req[q].room = room}}

(* While schedules are overwritten under lists and creators that have read  *)
(* one and not yet upserted its slots, every slot that can be booked is one *)
(* the command gives the room, or one that a schedule the room has had      *)
(* covers on that very day; and once the command has completed, at whatever *)
(* attempt, its rooms are there with every slot of its week.                *)
SlotsAreAccountedFor ==
  /\ \A s \in rows :
       s \in SeedSlots \/ \E sc \in GivenTo(s.room) : s.time \in Covers[sc][s.day]
  /\ seeded => SeedRooms \subseteq rooms /\ SeedSlots \subseteq rows

(* The booking it adds never joins another on its slot, whichever of the    *)
(* two comes first.                                                         *)
OneActivePerSlot ==
  \A b, c \in Requests :
    bookings[b] = "active" /\ bookings[c] = "active" /\ req[b].slot = req[c].slot => b = c
=============================================================================
