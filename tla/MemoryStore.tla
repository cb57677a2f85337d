---------------------------- MODULE MemoryStore ----------------------------
(***************************************************************************)
(* The store of the tests and of the benchmark: the methods of MemoryStore *)
(* (internal/app/store_memory.go) as the handlers of http.go call them.    *)
(*                                                                         *)
(* Its maps have no lock.  The tests send one request at a time; the       *)
(* benchmark lists a date within a week of the creation of the schedule,   *)
(* from many goroutines at once.  Every access to the maps is a step here, *)
(* so that two of them may meet.  Ids are those of uuid.NewString; a room  *)
(* is its id, a booking is named by the request that made it.              *)
(***************************************************************************)
EXTENDS Naturals, FiniteSets

CONSTANTS
  Requests,   \* every request that will ever be made
  Rooms, Schedules, Days, Times,
  Covers,     \* Covers[sc][d]: the starts of the slots of schedule sc on day d
  Week,       \* today and the six days after it
  SlotIds,    \* ids that a slot may be given
  None        \* no entry, no request

Slot == [room : Rooms, day : Days, time : Times]

RoomRequest   == [op : {"room"}, room : Rooms]
CreateRequest == [op : {"create"}, room : Rooms, schedule : Schedules]
ListRequest   == [op : {"list"}, room : Rooms, day : Days]
BookRequest   == [op : {"book"}, slot : SlotIds]
(* own: the caller is the user who made the booking. *)
CancelRequest == [op : {"cancel"}, booking : Requests, own : BOOLEAN]
Request == RoomRequest \cup CreateRequest \cup ListRequest \cup BookRequest \cup CancelRequest

Booking == [slot : SlotIds, status : {"active", "cancelled"}]

ASSUME MemoryAssumption ==
  /\ Days \subseteq Nat /\ Times \subseteq Nat
  /\ Week \subseteq Days
  /\ Covers \in [Schedules -> [Days -> SUBSET Times]]
  /\ None \notin Schedules \cup Slot \cup Booking \cup Request
  /\ None \notin [slot : Slot, status : {"active", "cancelled"}]

VARIABLES
  rooms,      \* the slice of rooms
  schedules,  \* the map of schedules, by room
  slots,      \* the map of slots, by id
  bookings,   \* the map of bookings, by id
  req,        \* what each request asks for
  pc,         \* the access each request is about to make
  resp,       \* the answer, a list's being resp "OK" and the ids in seen
  todo,       \* slots a request has still to upsert
  seen        \* ids of the slots that a list found free

store == <<rooms, schedules, slots, bookings>>
vars  == <<store, req, pc, resp, todo, seen>>

Running == {"append", "exists", "create", "schedule", "find", "put", "listFree",
            "getSlot", "check", "insert", "lookup", "cancel"}
Answers == {"none", "OK", "created", "cancelled", "ROOM_NOT_FOUND", "SCHEDULE_EXISTS",
            "SLOT_NOT_FOUND", "SLOT_ALREADY_BOOKED", "INVALID_REQUEST", "BOOKING_NOT_FOUND",
            "FORBIDDEN"}

TypeOK ==
  /\ rooms \subseteq Rooms
  /\ schedules \in [Rooms -> Schedules \cup {None}]
  /\ slots \in [SlotIds -> Slot \cup {None}]
  /\ bookings \in [Requests -> Booking \cup {None}]
  /\ req \in [Requests -> Request \cup {None}]
  /\ pc \in [Requests -> Running \cup {"idle", "done"}]
  /\ resp \in [Requests -> Answers]
  /\ todo \in [Requests -> SUBSET Slot]
  /\ seen \in [Requests -> SUBSET SlotIds]

(* NewMemoryStore. *)
Init ==
  /\ rooms = {}
  /\ schedules = [room \in Rooms |-> None]
  /\ slots = [id \in SlotIds |-> None]
  /\ bookings = [b \in Requests |-> None]
  /\ req = [r \in Requests |-> None]
  /\ pc = [r \in Requests |-> "idle"]
  /\ resp = [r \in Requests |-> "none"]
  /\ todo = [r \in Requests |-> {}]
  /\ seen = [r \in Requests |-> {}]

-----------------------------------------------------------------------------
Goto(r, step) ==
  /\ pc' = [pc EXCEPT ![r] = step]
  /\ UNCHANGED resp

Answer(r, code) ==
  /\ pc' = [pc EXCEPT ![r] = "done"]
  /\ resp' = [resp EXCEPT ![r] = code]

FirstStep == [room |-> "append", create |-> "create", list |-> "exists",
              book |-> "getSlot", cancel |-> "lookup"]

(* What the benchmark sends in parallel. *)
Benchmarked(q) == q.op = "list" /\ q.day \in Week

(* One request at a time, or the benchmark. *)
Arrive(r) ==
  /\ pc[r] = "idle"
  /\ \E q \in Request :
       /\ \A w \in Requests : pc[w] \in Running => Benchmarked(q) /\ Benchmarked(req[w])
       /\ q.op = "room" => q.room \notin rooms
       /\ req' = [req EXCEPT ![r] = q]
       /\ Goto(r, FirstStep[q.op])
  /\ UNCHANGED <<store, todo, seen>>

Append(r) ==
  /\ pc[r] = "append"
  /\ rooms' = rooms \cup {req[r].room}
  /\ Answer(r, "created")
  /\ UNCHANGED <<schedules, slots, bookings, req, todo, seen>>

-----------------------------------------------------------------------------
(* UpsertSlots, the method and then one slot of it at a time. *)

(* GenerateSlotsForDate, over some days. *)
Generated(room, sc, days) ==
  {s \in Slot : s.room = room /\ s.day \in days /\ s.time \in Covers[sc][s.day]}

(* The first of slots of one room. *)
Firsts(set) ==
  {s \in set : \A t \in set : s.day < t.day \/ (s.day = t.day /\ s.time <= t.time)}

(* An active booking of the slot. *)
Busy(id) == \E b \in Requests : bookings[b] = [slot |-> id, status |-> "active"]

(* On to the first of these slots, or past the loop. *)
Upsert(r, set) ==
  /\ todo' = [todo EXCEPT ![r] = set]
  /\ IF set # {} THEN Goto(r, "find")
     ELSE IF req[r].op = "list" THEN Goto(r, "listFree")
     ELSE Answer(r, "created")

(* Variant: a slot that is booked is not found. *)
FoundFree(s) == \E id \in SlotIds : slots[id] = s /\ ~ Busy(id)
Found(s) == \E id \in SlotIds : slots[id] = s

Find(r) ==
  /\ pc[r] = "find"
  /\ \E s \in Firsts(todo[r]) :
     \/ /\ Found(s)
        /\ Upsert(r, todo[r] \ {s})
     \/ /\ ~ Found(s)
        /\ Goto(r, "put")
        /\ UNCHANGED todo
  /\ UNCHANGED <<store, req, seen>>

(* Which one it is makes no difference. *)
FreshId == CHOOSE id \in SlotIds : slots[id] = None

Put(r) ==
  /\ pc[r] = "put"
  /\ \E id \in SlotIds : slots[id] = None
  /\ \E s \in Firsts(todo[r]) :
       /\ slots' = [slots EXCEPT ![FreshId] = s]
       /\ Upsert(r, todo[r] \ {s})
  /\ UNCHANGED <<rooms, schedules, bookings, req, seen>>

-----------------------------------------------------------------------------
(* The methods, as the handlers call them. *)

(* Variant: the loop of handleCreateSchedule ends a day early. *)
AllButLast == {d \in Week : \E e \in Week : e > d}
Filled == Week

CreateSchedule(r) ==
  /\ pc[r] = "create"
  /\ LET room == req[r].room IN
     \/ /\ room \notin rooms
        /\ Answer(r, "ROOM_NOT_FOUND")
        /\ UNCHANGED <<schedules, todo>>
     \/ /\ room \in rooms /\ schedules[room] # None
        /\ Answer(r, "SCHEDULE_EXISTS")
        /\ UNCHANGED <<schedules, todo>>
     \/ /\ room \in rooms /\ schedules[room] = None
        /\ schedules' = [schedules EXCEPT ![room] = req[r].schedule]
        /\ Upsert(r, Generated(room, req[r].schedule, Filled))
  /\ UNCHANGED <<rooms, slots, bookings, req, seen>>

RoomExists(r) ==
  /\ pc[r] = "exists"
  /\ IF req[r].room \in rooms THEN Goto(r, "schedule") ELSE Answer(r, "ROOM_NOT_FOUND")
  /\ UNCHANGED <<store, req, todo, seen>>

GetScheduleByRoom(r) ==
  /\ pc[r] = "schedule"
  /\ LET sc == schedules[req[r].room] IN
     \/ sc = None /\ Answer(r, "OK") /\ UNCHANGED todo
     \/ sc # None /\ Upsert(r, Generated(req[r].room, sc, {req[r].day}))
  /\ UNCHANGED <<store, req, seen>>

ListAvailableSlots(r) ==
  /\ pc[r] = "listFree"
  /\ seen' = [seen EXCEPT ![r] =
       {id \in SlotIds : /\ slots[id] # None
                         /\ slots[id].room = req[r].room /\ slots[id].day = req[r].day
                         /\ ~ Busy(id)}]
  /\ Answer(r, "OK")
  /\ UNCHANGED <<store, req, todo>>

GetSlot(r) ==
  /\ pc[r] = "getSlot"
  /\ IF slots[req[r].slot] # None THEN Goto(r, "check") ELSE Answer(r, "SLOT_NOT_FOUND")
  /\ UNCHANGED <<store, req, todo, seen>>

(* CreateBooking up to its write.  There is no clock here: any slot may     *)
(* have started.                                                            *)
CheckFree(r) ==
  /\ pc[r] = "check"
  /\ \/ Answer(r, "INVALID_REQUEST")
     \/ Busy(req[r].slot) /\ Answer(r, "SLOT_ALREADY_BOOKED")
     \/ ~ Busy(req[r].slot) /\ Goto(r, "insert")
  /\ UNCHANGED <<store, req, todo, seen>>

InsertBooking(r) ==
  /\ pc[r] = "insert"
  /\ bookings' = [bookings EXCEPT ![r] = [slot |-> req[r].slot, status |-> "active"]]
  /\ Answer(r, "created")
  /\ UNCHANGED <<rooms, schedules, slots, req, todo, seen>>

(* GetBookingByID and GetSlot, whose result is for the cache there is none of. *)
Lookup(r) ==
  /\ pc[r] = "lookup"
  /\ Goto(r, "cancel")
  /\ UNCHANGED <<store, req, todo, seen>>

(* Variant: the wrong spelling of a status. *)
Misspelt(b) == [b EXCEPT !.status = "canceled"]
Cancelled(b) == [b EXCEPT !.status = "cancelled"]

CancelBooking(r) ==
  /\ pc[r] = "cancel"
  /\ LET b == req[r].booking IN
     \/ /\ bookings[b] = None
        /\ Answer(r, "BOOKING_NOT_FOUND")
        /\ UNCHANGED bookings
     \/ /\ bookings[b] # None /\ ~ req[r].own
        /\ Answer(r, "FORBIDDEN")
        /\ UNCHANGED bookings
     \/ /\ bookings[b] # None /\ req[r].own
        /\ bookings' = [bookings EXCEPT ![b] = Cancelled(@)]
        /\ Answer(r, "cancelled")
  /\ UNCHANGED <<rooms, schedules, slots, req, todo, seen>>

Next ==
  \E r \in Requests :
    \/ Arrive(r) \/ Append(r) \/ Find(r) \/ Put(r)
    \/ CreateSchedule(r) \/ RoomExists(r) \/ GetScheduleByRoom(r)
    \/ ListAvailableSlots(r) \/ GetSlot(r) \/ CheckFree(r) \/ InsertBooking(r)
    \/ Lookup(r) \/ CancelBooking(r)

Spec == Init /\ [][Next]_vars

-----------------------------------------------------------------------------
(* Properties. *)

(* The maps that a request is about to read, and to write. *)
Reads(r) ==
  CASE pc[r] \in {"exists", "create"} -> {"rooms", "schedules"}
    [] pc[r] = "schedule" -> {"schedules"}
    [] pc[r] \in {"find", "getSlot"} -> {"slots"}
    [] pc[r] \in {"listFree", "check", "lookup"} -> {"slots", "bookings"}
    [] OTHER -> {}
Writes(r) ==
  CASE pc[r] = "append" -> {"rooms"}
    [] pc[r] = "create" -> {"schedules"}
    [] pc[r] = "put"    -> {"slots"}
    [] pc[r] \in {"insert", "cancel"} -> {"bookings"}
    [] OTHER -> {}

(* No two requests of the tests and the benchmark are at one map together   *)
(* with one of them writing, which Go answers by ending the process: a list *)
(* of a day in the week of its room's schedule upserts nothing, because the *)
(* creation of the schedule has stored every slot that it generates.        *)
NoRace ==
  \A r, q \in Requests : r # q => Writes(r) \cap (Reads(q) \cup Writes(q)) = {}

(* The slots without their ids, and a booking with its slot for the id of it. *)
Kept == {slots[id] : id \in SlotIds} \ {None}
BookingOf(b) ==
  IF bookings[b] = None THEN None
  ELSE [slot |-> slots[bookings[b].slot], status |-> bookings[b].status]

(* The maps are the book of RoomBook, as the tables are: the tests run on a *)
(* store that promises what PostgreSQL does.  A slot with two ids, or an id *)
(* booked twice, would be no step of it.                                    *)
TheBook == INSTANCE RoomBook WITH
  Bookings <- Requests,
  schedule <- schedules,
  slots    <- Kept,
  booking  <- [b \in Requests |-> BookingOf(b)]

IsRoomBook == TheBook!Spec
=============================================================================
