------------------------------ MODULE RoomBook ------------------------------
(***************************************************************************)
(* What the rooms, schedules, slots and bookings are to whoever calls the  *)
(* methods of Store (internal/app/types.go), in PostgreSQL or in memory: a *)
(* room has at most one schedule, which stays; its slots are those of the  *)
(* schedule, and stay; a slot is held by one active booking at most.       *)
(***************************************************************************)
CONSTANTS
  Rooms, Schedules, Days, Times,
  Covers,     \* Covers[sc][d]: the starts of the slots of schedule sc on day d
  Bookings,
  None        \* no schedule, no booking

VARIABLES
  rooms,      \* the rooms there are
  schedule,   \* the schedule of each
  slots,      \* the slots that can be booked
  booking     \* each booking's slot and status

vars == <<rooms, schedule, slots, booking>>

Slot == [room : Rooms, day : Days, time : Times]

Init ==
  /\ rooms = {}
  /\ schedule = [room \in Rooms |-> None]
  /\ slots = {}
  /\ booking = [b \in Bookings |-> None]

CreateRoom(room) ==
  /\ rooms' = rooms \cup {room}
  /\ UNCHANGED <<schedule, slots, booking>>

CreateSchedule(room, sc) ==
  /\ room \in rooms /\ schedule[room] = None
  /\ schedule' = [schedule EXCEPT ![room] = sc]
  /\ UNCHANGED <<rooms, slots, booking>>

(* One slot of UpsertSlots. *)
AddSlot(s) ==
  /\ schedule[s.room] # None
  /\ s.time \in Covers[schedule[s.room]][s.day]
  /\ slots' = slots \cup {s}
  /\ UNCHANGED <<rooms, schedule, booking>>

Free(s) == \A b \in Bookings : booking[b] # [slot |-> s, status |-> "active"]

CreateBooking(b, s) ==
  /\ booking[b] = None
  /\ s \in slots /\ Free(s)
  /\ booking' = [booking EXCEPT ![b] = [slot |-> s, status |-> "active"]]
  /\ UNCHANGED <<rooms, schedule, slots>>

CancelBooking(b) ==
  /\ booking[b] # None
  /\ booking' = [booking EXCEPT ![b].status = "cancelled"]
  /\ UNCHANGED <<rooms, schedule, slots>>

Next ==
  \/ \E room \in Rooms : CreateRoom(room) \/ \E sc \in Schedules : CreateSchedule(room, sc)
  \/ \E s \in Slot : AddSlot(s) \/ \E b \in Bookings : CreateBooking(b, s)
  \/ \E b \in Bookings : CancelBooking(b)

Spec == Init /\ [][Next]_vars
=============================================================================
