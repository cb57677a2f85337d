------------------------- MODULE SeededListingProofs -------------------------
(***************************************************************************)
(* The server while the seed command runs, for every set of requests,      *)
(* rooms, schedules and slots, whatever the command is to sow, wherever it *)
(* ends and however often it is run again: its types, where every slot     *)
(* comes from, and that the booking it adds is never a second one.         *)
(***************************************************************************)
EXTENDS SeededListing, SlotListingProofs

(* What a run has got done, at each statement that comes later. *)
Sown ==
  /\ seed \in {"schedules", "slots", "pick", "book"} => SeedRooms \subseteq rooms
  /\ seed \in {"slots", "pick", "book"} => SeedSlots \ unsown \subseteq rows
  /\ seed # "slots" => unsown = {}
  /\ seed = "book" => demo \in rows

Accounted(s) == s \in SeedSlots \/ \E sc \in GivenTo(s.room) : s.time \in Covers[sc][s.day]

(* The schedule that a list may read and the slots that are being upserted  *)
(* come from somebody too.                                                  *)
SchedulesAreGiven ==
  /\ \A room \in Rooms : schedule[room] # None => schedule[room] \in GivenTo(room)
  /\ \A r \in Requests : \A s \in todo[r] : Accounted(s)

SeedIInv ==
  /\ SeedTypeOK /\ StepsAgree /\ BookingsAreOfRows /\ OneActivePerSlot
  /\ Sown /\ SchedulesAreGiven /\ SlotsAreAccountedFor

-----------------------------------------------------------------------------
(* Initially nothing is stored, and the command has not been started. *)
LEMMA InitSeedIInv == SeedInit => SeedIInv
  <1> SUFFICES ASSUME SeedInit PROVE SeedIInv
    OBVIOUS
  <1>1. TypeOK /\ StepsAgree /\ BookingsAreOfRows
    BY InitIInv DEF SeedInit, IInv
  <1>2. SeedTypeOK /\ Sown
    BY <1>1 DEF SeedInit, SeedTypeOK, Sown
  <1>3. OneActivePerSlot
    BY DEF SeedInit, Init, OneActivePerSlot
  <1>4. SchedulesAreGiven /\ SlotsAreAccountedFor
    BY DEF SeedInit, Init, SchedulesAreGiven, SlotsAreAccountedFor
  <1> QED
    BY <1>1, <1>2, <1>3, <1>4 DEF SeedIInv

(* A request that has inserted a schedule is not told otherwise. *)
LEMMA InsertedStays ==
  ASSUME TypeOK, StepsAgree, BookingsAreOfRows, Next
  PROVE  \A r \in Requests : Inserted(r) => Inserted(r)' /\ req'[r] = req[r]
  <1> USE RequestKinds
      DEF TypeOK, StepsAgree, Inserted, Goto, Answer, Upsert, Success, Running, ListSteps,
          CreateSteps, BookSteps, CancelSteps
  <1> DEFINE P == \A r \in Requests : Inserted(r) /\ req'[r] = req[r] => Inserted(r)'
  <1>1. ASSUME NEW q \in Requests, Arrive(q) PROVE P
    BY <1>1 DEF Arrive
  <1>2. ASSUME NEW q \in Requests, UpsertSlot(q) PROVE P
    BY <1>2 DEF UpsertSlot
  <1>3. ASSUME NEW q \in Requests, Exists(q) PROVE P
    BY <1>3 DEF Exists
  <1>4. ASSUME NEW q \in Requests, CacheHit(q) PROVE P
    BY <1>4 DEF CacheHit
  <1>5. ASSUME NEW q \in Requests, CacheMiss(q) PROVE P
    BY <1>5 DEF CacheMiss
  <1>6. ASSUME NEW q \in Requests, ReadSchedule(q) PROVE P
    BY <1>6 DEF ReadSchedule
  <1>7. ASSUME NEW q \in Requests, ListFree(q) PROVE P
    BY <1>7 DEF ListFree
  <1>8. ASSUME NEW q \in Requests, CacheSet(q) PROVE P
    BY <1>8 DEF CacheSet, AnswerUnstored
  <1>9. ASSUME NEW q \in Requests, CacheNotSet(q) PROVE P
    BY <1>9 DEF CacheNotSet, AnswerUnstored
  <1>10. ASSUME NEW q \in Requests, CreateSchedule(q) PROVE P
    BY <1>10 DEF CreateSchedule
  <1>11. ASSUME NEW q \in Requests, GetSlot(q) PROVE P
    BY <1>11 DEF GetSlot
  <1>12. ASSUME NEW q \in Requests, Book(q) PROVE P
    BY <1>12 DEF Book
  <1>13. ASSUME NEW q \in Requests, Lookup(q) PROVE P
    BY <1>13 DEF Lookup
  <1>14. ASSUME NEW q \in Requests, Cancel(q) PROVE P
    BY <1>14 DEF Cancel
  <1>15. ASSUME NEW q \in Requests, Reply(q) PROVE P
    BY <1>15 DEF Reply
  <1>16. ASSUME NEW q \in Requests, Invalidate(q) PROVE P
    BY <1>16 DEF Invalidate
  <1>17. ASSUME NEW q \in Requests, Delete(q) PROVE P
    BY <1>17 DEF Delete
  <1>18. ASSUME NEW q \in Requests, Invalidated(q) PROVE P
    BY <1>18 DEF Invalidated
  <1>19. ASSUME NEW q \in Requests, InvalidateNothing(q) PROVE P
    BY <1>19 DEF InvalidateNothing
  <1>20. ASSUME NEW q \in Requests, UpsertFails(q) PROVE P
    BY <1>20 DEF UpsertFails
  <1>21. ASSUME NEW q \in Requests, ReplyLost(q) PROVE P
    BY <1>21 DEF ReplyLost
  <1>22. ASSUME NEW q \in Requests, NotInvalidated(q) PROVE P
    BY <1>22 DEF NotInvalidated
  <1>23. ASSUME NEW q \in Requests, StatementFails(q) PROVE P
    BY <1>23 DEF StatementFails
  <1>24. ASSUME NEW q \in Requests, LeftAdrift(q) PROVE P
    BY <1>24 DEF LeftAdrift
  <1>25. ASSUME NEW q \in Requests, TakesEffect(q) PROVE P
    BY <1>25 DEF TakesEffect
  <1>26. ASSUME NEW room \in Rooms, CreateRoom(room) PROVE P
    BY <1>26 DEF CreateRoom
  <1>27. ASSUME NEW k0 \in Key, Expire(k0) PROVE P
    BY <1>27 DEF Expire
  <1>28. CASE Crash
    BY <1>28 DEF Crash, CutOff
  <1>29. ASSUME NEW q \in Requests, LateSet(q) PROVE P
    BY <1>29 DEF LateSet
  <1>30. P
    BY <1>1, <1>2, <1>3, <1>4, <1>5, <1>6, <1>7, <1>8, <1>9, <1>10, <1>11, <1>12,
       <1>13, <1>14, <1>15, <1>16, <1>17, <1>18, <1>19, <1>20, <1>21, <1>22, <1>23,
       <1>24, <1>25, <1>26, <1>27, <1>28, <1>29
    DEF Next, OtherStep, ListStep, WriteStep, Fault
  <1>31. \A r \in Requests : Inserted(r) => req'[r] = req[r]
    BY NothingIsUndone
  <1> QED
    BY <1>30, <1>31

(* Whoever has been given a schedule has been given it for good. *)
LEMMA GivenStays ==
  ASSUME \A r \in Requests : Inserted(r) => Inserted(r)' /\ req'[r] = req[r]
  PROVE  /\ \A room : GivenTo(room) \subseteq GivenTo(room)'
         /\ \A s : Accounted(s) => Accounted(s)'
  <1>1. \A room : GivenTo(room) \subseteq GivenTo(room)'
    BY DEF GivenTo
  <1> QED
    BY <1>1 DEF Accounted

(* The schedules that a step of the server stores, and the slots it         *)
(* generates, are those that somebody gave the room.                        *)
LEMMA NextGiven ==
  ASSUME SeedIInv, Next
  PROVE  SchedulesAreGiven' /\ \A s \in rows' : Accounted(s)'
  <1> USE DEF SeedIInv, SeedTypeOK
  <1> DEFINE P == /\ \A r \in Requests : \A s \in todo'[r] : Accounted(s)'
                  /\ \A s \in rows' : Accounted(s)'
  <1>1. /\ \A r \in Requests : Inserted(r) => Inserted(r)' /\ req'[r] = req[r]
        /\ \A room : GivenTo(room) \subseteq GivenTo(room)'
        /\ \A s : Accounted(s) => Accounted(s)'
    BY InsertedStays, GivenStays
  <1>2. /\ \A r \in Requests : \A s \in todo[r] : Accounted(s)
        /\ \A s \in rows : Accounted(s)
    BY DEF SchedulesAreGiven, SlotsAreAccountedFor, Accounted
  <1>3. \A r \in Requests : Inserted(r) => req[r].schedule \in GivenTo(req[r].room)
    BY DEF GivenTo
  <1>4. ASSUME NEW room \in Rooms, schedule'[room] # None
        PROVE  schedule'[room] \in GivenTo(room)'
    <2>1. CASE schedule'[room] = schedule[room]
      BY <1>1, <1>4, <2>1 DEF SchedulesAreGiven
    <2>2. CASE schedule'[room] # schedule[room]
      <3>1. PICK w \in Requests : Writes(w)
        BY <2>2, WhoChangesTables DEF tables, CreateRoom, UpsertSlot
      <3>2. InsertSchedule(w)
        BY <2>2, <3>1 DEF Writes, InsertBooking, UpdateBooking
      <3>3. /\ req[w] \in CreateRequest /\ req' = req /\ pc[w] \in {"insert", "adrift"}
            /\ pc'[w] \in {"reply", "dead"} /\ resp' = resp
            /\ schedule'[room] = req[w].schedule /\ room = req[w].room
        BY <2>2, <3>1, <3>2, RequestKinds
        DEF Writes, InsertSchedule, InsertBooking, UpdateBooking, MayBook, TypeOK
      <3>4. resp[w] \in {"none", "INTERNAL_ERROR"}
        BY <3>3 DEF StepsAgree, Running, CreateSteps
      <3>5. Inserted(w)'
        BY <3>3, <3>4, RequestKinds DEF Inserted
      <3> QED
        BY <3>3, <3>5 DEF GivenTo
    <2> QED
      BY <2>1, <2>2
  <1>5. ASSUME NEW q \in Requests, ReadSchedule(q) PROVE P
    <2>1. /\ rows' = rows /\ req[q].room \in Rooms
          /\ \A r \in Requests \ {q} : todo'[r] = todo[r]
          /\ \/ todo'[q] = todo[q]
             \/ /\ schedule[req[q].room] # None
                /\ todo'[q] = Generated(req[q].room, schedule[req[q].room], {req[q].day})
      BY <1>5, RequestKinds
      DEF ReadSchedule, Upsert, tables, StepsAgree, ListSteps, TypeOK
    <2>2. \A s \in Generated(req[q].room, schedule[req[q].room], {req[q].day}) :
            schedule[req[q].room] # None => Accounted(s)
      BY <2>1, GeneratedSlots DEF SchedulesAreGiven, Accounted
    <2> QED
      BY <1>1, <1>2, <2>1, <2>2
  <1>6. ASSUME NEW q \in Requests, Reply(q) PROVE P
    <2>1. /\ rows' = rows /\ pc[q] = "reply"
          /\ \A r \in Requests \ {q} : todo'[r] = todo[r]
          /\ \/ todo'[q] = todo[q]
             \/ /\ req[q].op = "create"
                /\ todo'[q] = Generated(req[q].room, req[q].schedule, Week)
      BY <1>6 DEF Reply, Upsert, tables, TypeOK
    <2>2. req[q].op = "create" => Inserted(q)
      BY <2>1 DEF Inserted, StepsAgree, Running, CreateSteps
    <2>3. \A s \in Generated(req[q].room, req[q].schedule, Week) :
            req[q].op = "create" => Accounted(s)
      BY <1>3, <2>2, GeneratedSlots DEF Accounted
    <2> QED
      BY <1>1, <1>2, <2>1, <2>3
  <1>7. ASSUME NEW q \in Requests, UpsertSlot(q) PROVE P
    <2>1. PICK s0 \in todo[q] : rows' = rows \cup {s0}
      BY <1>7 DEF UpsertSlot, Firsts
    <2>2. \A r \in Requests : todo'[r] \subseteq todo[r]
      BY <1>7 DEF UpsertSlot, Upsert, TypeOK
    <2>3. \A s \in todo[q] : Accounted(s)'
      BY <1>1, <1>2
    <2>4. \A s \in rows' : Accounted(s)'
      BY <1>1, <1>2, <2>1, <2>3
    <2> QED
      BY <1>1, <1>2, <2>2, <2>4
  <1>8. CASE \A q \in Requests : ~ ReadSchedule(q) /\ ~ Reply(q) /\ ~ UpsertSlot(q)
    <2>1. rows' = rows /\ \A r \in Requests : todo'[r] \subseteq todo[r]
      BY <1>8, WhoUpserts
    <2>2. P
      BY <1>1, <1>2, <2>1
    <2> QED
      BY <1>4, <2>2 DEF SchedulesAreGiven
  <1> QED
    BY <1>4, <1>5, <1>6, <1>7, <1>8 DEF SchedulesAreGiven

(* A request makes a booking active only of a slot that nobody holds. *)
LEMMA NextOneActive ==
  ASSUME SeedIInv, Next
  PROVE  OneActivePerSlot'
  <1> USE DEF SeedIInv, SeedTypeOK
  <1>1. \A b \in Requests : bookings[b] # "none" => req'[b] = req[b]
    BY NothingIsUndone, RequestKinds DEF BookingsAreOfRows
  <1>2. CASE bookings' = bookings
    BY <1>1, <1>2 DEF OneActivePerSlot
  <1>3. ASSUME NEW w \in Requests, Writes(w), InsertBooking(w) PROVE OneActivePerSlot'
    <2>1. /\ ~ Taken(req[w].slot) /\ req' = req
          /\ bookings' = [bookings EXCEPT ![w] = "active"]
      BY <1>3 DEF Writes, InsertBooking
    <2> QED
      BY <2>1 DEF OneActivePerSlot, Taken, TypeOK
  <1>4. ASSUME NEW w \in Requests, Writes(w), UpdateBooking(w) PROVE OneActivePerSlot'
    <2>1. bookings' = [bookings EXCEPT ![req[w].booking] = "cancelled"] /\ req' = req
      BY <1>4 DEF Writes, UpdateBooking
    <2> QED
      BY <2>1 DEF OneActivePerSlot, TypeOK
  <1>5. CASE bookings' # bookings
    <2>1. PICK w \in Requests : Writes(w)
      BY <1>5, WhoChangesTables DEF tables, CreateRoom, UpsertSlot
    <2>2. ~ InsertSchedule(w)
      BY <1>5 DEF InsertSchedule
    <2> QED
      BY <1>3, <1>4, <2>1, <2>2 DEF Writes
  <1> QED
    BY <1>2, <1>5

(* A step of the server keeps everything. *)
LEMMA ServerKeeps ==
  ASSUME SeedIInv, Next, UNCHANGED seeding
  PROVE  SeedIInv'
  <1>1. /\ TypeOK /\ StepsAgree /\ BookingsAreOfRows
        /\ UNCHANGED <<seed, unsown, demo, seeded>>
    BY DEF SeedIInv, SeedTypeOK, seeding
  <1>2. TypeOK' /\ StepsAgree' /\ BookingsAreOfRows'
    BY <1>1, NextType, NextStepsAgree, NextBookings
  <1>3. SeedTypeOK'
    BY <1>1, <1>2 DEF SeedIInv, SeedTypeOK
  <1>4. rooms \subseteq rooms' /\ rows \subseteq rows'
    BY <1>1, NothingIsUndone
  <1>5. Sown'
    BY <1>1, <1>4 DEF SeedIInv, Sown
  <1>6. SlotsAreAccountedFor'
    BY <1>1, <1>4, NextGiven DEF SeedIInv, SlotsAreAccountedFor, Accounted
  <1> QED
    BY <1>2, <1>3, <1>5, <1>6, NextGiven, NextOneActive DEF SeedIInv

(* The command's booking is active only where there is none.  It takes the  *)
(* name of a request that was never made, so it takes no other's place.     *)
LEMMA SowBookingKeeps ==
  ASSUME SeedIInv, SowBooking
  PROVE  SeedIInv'
  <1> USE DEF SeedIInv, SeedTypeOK
  <1>1. PICK r \in Requests :
          /\ pc[r] = "idle"
          /\ req' = [req EXCEPT ![r] = [op |-> "book", slot |-> demo]]
          /\ pc' = [pc EXCEPT ![r] = "done"]
          /\ bookings' = [bookings EXCEPT ![r] = "active"]
    BY DEF SowBooking
  <1>2. /\ ~ Taken(demo) /\ seed = "book" /\ demo \in rows
        /\ seed' = "off" /\ demo' = None /\ seeded' = TRUE /\ UNCHANGED unsown
        /\ UNCHANGED <<rooms, schedule, rows, resp, todo, seen, blind>>
        /\ UNCHANGED <<cache, cacheUp, scan, spoiled, excused>>
    BY DEF SowBooking, NoConflict, Completed, server, Sown
  <1>3. demo \in Slot /\ [op |-> "book", slot |-> demo] \in BookRequest
    BY <1>2 DEF TypeOK, BookRequest
  <1>4. SeedTypeOK'
    <2>1. req' \in [Requests -> Request \cup {None}]
      BY <1>1, <1>3 DEF TypeOK, Request
    <2>2. pc' \in [Requests -> {"idle"} \cup Running \cup Ended]
      BY <1>1 DEF TypeOK, Ended
    <2>3. bookings' \in [Requests -> {"none", "active", "cancelled"}]
      BY <1>1 DEF TypeOK
    <2> QED
      BY <1>2, <2>1, <2>2, <2>3 DEF TypeOK
  <1>5. StepsAgree'
    BY <1>1, <1>2, <1>3, RequestKinds
    DEF StepsAgree, TypeOK, Running, ListSteps, CreateSteps, BookSteps, CancelSteps
  <1>6. BookingsAreOfRows'
    BY <1>1, <1>2, <1>3 DEF BookingsAreOfRows, MayBook, TypeOK
  <1>7. OneActivePerSlot'
    BY <1>1, <1>2 DEF OneActivePerSlot, Taken, BookingsAreOfRows, TypeOK
  <1>8. Sown'
    BY <1>2 DEF Sown
  <1>9. SchedulesAreGiven' /\ SlotsAreAccountedFor'
    <2>1. \A q \in Requests : Inserted(q) => Inserted(q)' /\ req'[q] = req[q]
      BY <1>1, <1>2 DEF Inserted, TypeOK
    <2>2. /\ \A room : GivenTo(room) \subseteq GivenTo(room)'
          /\ \A s : Accounted(s) => Accounted(s)'
      BY <2>1, GivenStays
    <2>3. SeedRooms \subseteq rooms /\ SeedSlots \subseteq rows
      BY <1>2 DEF Sown
    <2>4. SchedulesAreGiven'
      BY <1>2, <2>2 DEF SchedulesAreGiven
    <2>5. SlotsAreAccountedFor'
      BY <1>2, <2>2, <2>3 DEF SlotsAreAccountedFor, Accounted
    <2> QED
      BY <2>4, <2>5
  <1> QED
    BY <1>4, <1>5, <1>6, <1>7, <1>8, <1>9

(* Nor does any other statement of the command disturb the bookings, and    *)
(* each leaves what the next relies on.                                     *)
LEMMA SeedKeeps ==
  ASSUME SeedIInv, SeedStep, ~ SowBooking
  PROVE  SeedIInv'
  <1> USE DEF SeedIInv, SeedTypeOK, vars, tables, locals, history, server
  <1>1. UNCHANGED <<bookings, cache, cacheUp, req, pc, resp, todo, seen, blind, scan>>
        /\ UNCHANGED <<spoiled, excused>>
    BY DEF SeedStep, StartSeed, SowRooms, SowSchedules, SowSlot, SlotsSown, PickSlot,
           BookingConflicts, SeedFails
  <1>2. rows \subseteq rows'
    BY DEF SeedStep, StartSeed, SowRooms, SowSchedules, SowSlot, SlotsSown, PickSlot,
           BookingConflicts, SeedFails
  <1>3. StepsAgree' /\ OneActivePerSlot'
    BY <1>1 DEF StepsAgree, OneActivePerSlot
  <1>4. BookingsAreOfRows'
    BY <1>1, <1>2 DEF BookingsAreOfRows, MayBook
  <1>5. /\ rooms' \subseteq Rooms /\ rows' \subseteq Slot /\ unsown' \subseteq SeedSlots
        /\ schedule' \in [Rooms -> Schedules \cup {None}]
    <2>1. rooms' \in {rooms, rooms \cup SeedRooms} /\ rooms \cup SeedRooms \subseteq Rooms
      BY SeedAssumption
      DEF SeedStep, StartSeed, SowRooms, SowSchedules, SowSlot, SlotsSown, PickSlot,
          BookingConflicts, SeedFails, TypeOK
    <2>2. schedule' \in {schedule, [room \in Rooms |-> Rescheduled(room)]}
      BY DEF SeedStep, StartSeed, SowRooms, SowSchedules, SowSlot, SlotsSown, PickSlot,
             BookingConflicts, SeedFails
    <2>3. \A room \in Rooms : Rescheduled(room) \in Schedules \cup {None}
      BY SeedAssumption DEF Rescheduled, TypeOK
    <2>4. unsown' \subseteq unsown \cup SeedSlots /\ rows' \subseteq rows \cup unsown
      BY DEF SeedStep, StartSeed, SowRooms, SowSchedules, SlotsToSow, SowSlot, SlotsSown,
             PickSlot, BookingConflicts, SeedFails, Completed
    <2> QED
      BY <2>1, <2>2, <2>3, <2>4 DEF TypeOK, SeedSlots
  <1>6. TypeOK'
    BY <1>1, <1>5 DEF TypeOK
  <1>7. SeedTypeOK'
    <2>1. demo' \in Slot \cup {None}
      BY DEF SeedStep, StartSeed, SowRooms, SowSchedules, SowSlot, SlotsSown, PickSlot,
             BookingConflicts, SeedFails, Completed, TypeOK
    <2>2. /\ seed' \in {"off", "rooms", "schedules", "slots", "pick", "book"}
          /\ seeded' \in BOOLEAN
      BY DEF SeedStep, StartSeed, SowRooms, SowSchedules, SowSlot, SlotsSown, PickSlot,
             BookingConflicts, SeedFails, Completed
    <2> QED
      BY <1>5, <1>6, <2>1, <2>2
  <1>8. Sown'
    <2>1. CASE StartSeed \/ SowRooms \/ SeedFails
      BY <2>1 DEF StartSeed, SowRooms, SeedFails, Sown
    <2>2. CASE SowSchedules
      BY <2>2 DEF SowSchedules, SlotsToSow, Sown
    <2>3. CASE SowSlot
      BY <2>3 DEF SowSlot, Sown
    <2>4. CASE SlotsSown \/ PickSlot
      BY <2>4 DEF SlotsSown, PickSlot, Sown
    <2>5. CASE BookingConflicts
      BY <2>5 DEF BookingConflicts, Completed, Sown
    <2> QED
      BY <2>1, <2>2, <2>3, <2>4, <2>5 DEF SeedStep
  <1>9. /\ \A room : GivenTo(room)' = GivenTo(room)
        /\ \A s : Accounted(s)' <=> Accounted(s)
    BY <1>1 DEF GivenTo, Accounted, Inserted
  <1>10. SchedulesAreGiven'
    <2>1. schedule' \in {schedule, [room \in Rooms |-> Rescheduled(room)]}
      BY DEF SeedStep, StartSeed, SowRooms, SowSchedules, SowSlot, SlotsSown, PickSlot,
             BookingConflicts, SeedFails
    <2>2. \A room \in Rooms : Rescheduled(room) # None => Rescheduled(room) \in GivenTo(room)
      BY DEF Rescheduled, GivenTo, SchedulesAreGiven
    <2> QED
      BY <1>1, <1>9, <2>1, <2>2 DEF SchedulesAreGiven
  <1>11. SlotsAreAccountedFor'
    <2>1. rows' \subseteq rows \cup SeedSlots /\ rooms \subseteq rooms'
      BY DEF SeedStep, StartSeed, SowRooms, SowSchedules, SowSlot, SlotsSown, PickSlot,
             BookingConflicts, SeedFails
    <2>2. seeded' => seeded \/ (SeedRooms \subseteq rooms /\ SeedSlots \subseteq rows)
      BY DEF SeedStep, StartSeed, SowRooms, SowSchedules, SowSlot, SlotsSown, PickSlot,
             BookingConflicts, SeedFails, Sown
    <2> QED
      BY <1>2, <1>9, <2>1, <2>2 DEF SlotsAreAccountedFor, Accounted
  <1> QED
    BY <1>3, <1>4, <1>7, <1>8, <1>10, <1>11

-----------------------------------------------------------------------------
(* Every step of the server and of the command keeps SeedIInv. *)
LEMMA NextSeedIInv == SeedIInv /\ [SeedNext]_<<vars, seeding>> => SeedIInv'
  <1>1. ASSUME SeedIInv, UNCHANGED <<vars, seeding>> PROVE SeedIInv'
    BY <1>1
    DEF SeedIInv, SeedTypeOK, TypeOK, StepsAgree, BookingsAreOfRows, MayBook, OneActivePerSlot,
        Sown, SchedulesAreGiven, SlotsAreAccountedFor, Accounted, GivenTo, Inserted, vars,
        seeding, tables, locals, history
  <1> QED
    BY <1>1, ServerKeeps, SowBookingKeeps, SeedKeeps DEF SeedNext, ServerStep

(* The invariant of the server and the seed command together. *)
THEOREM SeedInductive == SeedSpec => []SeedIInv
  BY InitSeedIInv, NextSeedIInv, PTL DEF SeedSpec

(* Every variable has its type, the command running or not. *)
THEOREM SeedTypeCorrect == SeedSpec => []SeedTypeOK
  <1>1. SeedIInv => SeedTypeOK
    BY DEF SeedIInv
  <1> QED
    BY <1>1, SeedInductive, PTL

(* Every slot comes from the command's week or from a schedule its room has *)
(* had, and after a run that completed none of that week is missing.        *)
THEOREM SlotsAreGiven == SeedSpec => []SlotsAreAccountedFor
  <1>1. SeedIInv => SlotsAreAccountedFor
    BY DEF SeedIInv
  <1> QED
    BY <1>1, SeedInductive, PTL

(* However the command's INSERT of a booking falls among the bookings and   *)
(* cancellations of the server, a slot has one active booking.              *)
THEOREM SeedNeverDoubleBooks == SeedSpec => []OneActivePerSlot
  <1>1. SeedIInv => OneActivePerSlot
    BY DEF SeedIInv
  <1> QED
    BY <1>1, SeedInductive, PTL
=============================================================================
