--------------------------- MODULE MemoryStoreProofs ---------------------------
(***************************************************************************)
(* MemoryStore, for every set of requests, rooms, schedules, slots and     *)
(* ids: its types, that the tests and the benchmark never race on a map,   *)
(* and that the maps are the book of RoomBook.                             *)
(***************************************************************************)
EXTENDS MemoryStore, TLAPS

(* An access belongs to a request of its kind, and a booking to one that    *)
(* has been answered.                                                       *)
StepsAgree ==
  \A r \in Requests :
    /\ pc[r] = "idle" => req[r] = None
    /\ pc[r] # "idle" => req[r] # None
    /\ pc[r] = "append" => req[r] \in RoomRequest
    /\ pc[r] = "create" => req[r] \in CreateRequest
    /\ pc[r] \in {"exists", "schedule", "listFree"} => req[r] \in ListRequest
    /\ pc[r] \in {"find", "put"} => req[r] \in ListRequest \cup CreateRequest
    /\ pc[r] \in {"getSlot", "check", "insert"} => req[r] \in BookRequest
    /\ pc[r] \in {"lookup", "cancel"} => req[r] \in CancelRequest
    /\ bookings[r] # None => pc[r] = "done"

(* Requests that run together are those of the benchmark. *)
OneAtATime ==
  \A r, q \in Requests :
    r # q /\ pc[r] \in Running /\ pc[q] \in Running =>
      Benchmarked(req[r]) /\ Benchmarked(req[q])

(* What is to be upserted is of the schedule of the room, and of the day,   *)
(* of the request.                                                          *)
TodoFits ==
  \A r \in Requests : pc[r] \in {"find", "put"} =>
    /\ schedules[req[r].room] # None
    /\ \A s \in todo[r] :
         /\ s.room = req[r].room
         /\ s.time \in Covers[schedules[s.room]][s.day]
         /\ req[r].op = "list" => s.day = req[r].day

(* A slot has one id. *)
SlotsOnce ==
  \A i, j \in SlotIds : slots[i] # None /\ slots[i] = slots[j] => i = j

(* What a request has found out of the maps and acts on later still holds.  *)
ChecksHold ==
  \A r \in Requests :
    /\ pc[r] = "put" => ~ Benchmarked(req[r]) /\ \A s \in Firsts(todo[r]) : ~ Found(s)
    /\ pc[r] \in {"check", "insert"} => slots[req[r].slot] # None
    /\ pc[r] = "insert" => ~ Busy(req[r].slot)
    /\ bookings[r] # None => slots[bookings[r].slot] # None

(* r creates a schedule and has s still to store. *)
WillStore(r, s) ==
  pc[r] \in {"find", "put"} /\ req[r].op = "create" /\ s \in todo[r]

(* The slots of a schedule's first week are stored, or whoever creates it   *)
(* is about to store them.                                                  *)
WeekFilled ==
  \A s \in Slot :
    schedules[s.room] # None /\ s.day \in Week
        /\ s.time \in Covers[schedules[s.room]][s.day] =>
      Found(s) \/ \E r \in Requests : WillStore(r, s)

IInv ==
  /\ TypeOK /\ StepsAgree /\ OneAtATime /\ TodoFits /\ SlotsOnce /\ ChecksHold
  /\ WeekFilled

-----------------------------------------------------------------------------
(* Initially the maps are empty and nothing has been asked. *)
LEMMA InitIInv == Init => IInv
  <1> SUFFICES ASSUME Init PROVE IInv
    OBVIOUS
  <1>1. TypeOK
    BY MemoryAssumption DEF Init, TypeOK, Answers
  <1>2. StepsAgree /\ OneAtATime /\ TodoFits
    BY DEF Init, StepsAgree, OneAtATime, TodoFits, Running
  <1>3. SlotsOnce /\ ChecksHold /\ WeekFilled
    BY DEF Init, SlotsOnce, ChecksHold, WeekFilled, Slot
  <1> QED
    BY <1>1, <1>2, <1>3 DEF IInv

(* What a kind of request has, told by its op. *)
LEMMA RequestKinds ==
  /\ None \notin Request
  /\ \A q \in RoomRequest : q.op = "room" /\ q \in Request /\ q.room \in Rooms
  /\ \A q \in CreateRequest : /\ q.op = "create" /\ q \in Request
                             /\ q.room \in Rooms /\ q.schedule \in Schedules
  /\ \A q \in ListRequest : /\ q.op = "list" /\ q \in Request
                           /\ q.room \in Rooms /\ q.day \in Days
  /\ \A q \in BookRequest : q.op = "book" /\ q \in Request /\ q.slot \in SlotIds
  /\ \A q \in CancelRequest : q.op = "cancel" /\ q \in Request /\ q.booking \in Requests
  /\ \A q \in Request : q \in RoomRequest \/ q \in CreateRequest \/ q \in ListRequest
                          \/ q \in BookRequest \/ q \in CancelRequest
  BY MemoryAssumption
  DEF Request, RoomRequest, CreateRequest, ListRequest, BookRequest, CancelRequest

(* Where a request begins, told by its op. *)
LEMMA Beginnings ==
  ASSUME NEW q \in Request
  PROVE  \/ q \in RoomRequest /\ FirstStep[q.op] = "append"
         \/ q \in CreateRequest /\ FirstStep[q.op] = "create"
         \/ q \in ListRequest /\ FirstStep[q.op] = "exists"
         \/ q \in BookRequest /\ FirstStep[q.op] = "getSlot"
         \/ q \in CancelRequest /\ FirstStep[q.op] = "lookup"
  BY RequestKinds DEF FirstStep

(* What GenerateSlotsForDate gives fits the schedule it was given. *)
LEMMA GeneratedSlots ==
  ASSUME NEW room, NEW sc, NEW days
  PROVE  /\ Generated(room, sc, days) \subseteq Slot
         /\ \A s \in Generated(room, sc, days) :
              s.room = room /\ s.day \in days /\ s.time \in Covers[sc][s.day]
  BY DEF Generated

(* Of the slots of one room, one is the first. *)
LEMMA OneFirst ==
  ASSUME NEW set \in SUBSET Slot, \A s, t \in set : s.room = t.room,
         NEW s \in Firsts(set), NEW t \in Firsts(set)
  PROVE  s = t
  <1>1. s \in Slot /\ t \in Slot /\ s.room = t.room
    BY DEF Firsts
  <1>2. s.day \in Nat /\ t.day \in Nat /\ s.time \in Nat /\ t.time \in Nat
    BY <1>1, MemoryAssumption DEF Slot
  <1>3. s.day = t.day /\ s.time = t.time
    BY <1>2 DEF Firsts
  <1> QED
    BY <1>1, <1>3 DEF Slot

(* An upsert stores its first slot under an id that was free. *)
LEMMA PutStores ==
  ASSUME TypeOK, NEW q \in Requests, Put(q)
  PROVE  \E s \in Firsts(todo[q]) : \E id \in SlotIds :
           /\ s \in Slot /\ slots[id] = None
           /\ slots' = [slots EXCEPT ![id] = s]
           /\ Upsert(q, todo[q] \ {s})
  <1>1. FreshId \in SlotIds /\ slots[FreshId] = None
    BY DEF Put, FreshId
  <1> QED
    BY <1>1 DEF Put, TypeOK, Firsts

(* Every step keeps the types. *)
LEMMA NextType ==
  ASSUME IInv, [Next]_vars
  PROVE  TypeOK'
  <1> USE DEF IInv, TypeOK, Goto, Answer, Upsert, Running, Answers, store
  <1>1. ASSUME NEW q \in Requests, Arrive(q) PROVE TypeOK'
    BY <1>1, Beginnings DEF Arrive
  <1>2. ASSUME NEW q \in Requests, Append(q) PROVE TypeOK'
    BY <1>2, RequestKinds DEF Append, StepsAgree
  <1>3. ASSUME NEW q \in Requests, Find(q) PROVE TypeOK'
    BY <1>3 DEF Find, Firsts
  <1>4. ASSUME NEW q \in Requests, Put(q) PROVE TypeOK'
    <2>1. PICK s \in Firsts(todo[q]), id \in SlotIds :
            /\ s \in Slot /\ slots[id] = None
            /\ slots' = [slots EXCEPT ![id] = s]
            /\ Upsert(q, todo[q] \ {s})
      BY <1>4, PutStores
    <2> QED
      BY <1>4, <2>1 DEF Put
  <1>5. ASSUME NEW q \in Requests, CreateSchedule(q) PROVE TypeOK'
    BY <1>5, RequestKinds, GeneratedSlots DEF CreateSchedule, StepsAgree
  <1>6. ASSUME NEW q \in Requests, RoomExists(q) PROVE TypeOK'
    BY <1>6 DEF RoomExists
  <1>7. ASSUME NEW q \in Requests, GetScheduleByRoom(q) PROVE TypeOK'
    BY <1>7, GeneratedSlots DEF GetScheduleByRoom
  <1>8. ASSUME NEW q \in Requests, ListAvailableSlots(q) PROVE TypeOK'
    BY <1>8 DEF ListAvailableSlots
  <1>9. ASSUME NEW q \in Requests, GetSlot(q) PROVE TypeOK'
    BY <1>9 DEF GetSlot
  <1>10. ASSUME NEW q \in Requests, CheckFree(q) PROVE TypeOK'
    BY <1>10 DEF CheckFree
  <1>11. ASSUME NEW q \in Requests, InsertBooking(q) PROVE TypeOK'
    BY <1>11, RequestKinds DEF InsertBooking, StepsAgree, Booking
  <1>12. ASSUME NEW q \in Requests, Lookup(q) PROVE TypeOK'
    BY <1>12 DEF Lookup
  <1>13. ASSUME NEW q \in Requests, CancelBooking(q) PROVE TypeOK'
    BY <1>13, RequestKinds DEF CancelBooking, StepsAgree, Cancelled, Booking
  <1>14. CASE UNCHANGED vars
    BY <1>14 DEF vars, store
  <1> QED
    BY <1>1, <1>2, <1>3, <1>4, <1>5, <1>6, <1>7, <1>8, <1>9, <1>10, <1>11, <1>12,
       <1>13, <1>14
    DEF Next

(* What no step undoes: a request, a schedule, a slot under its id, a       *)
(* booking.                                                                 *)
LEMMA NothingIsUndone ==
  ASSUME IInv, [Next]_vars
  PROVE  /\ \A r \in Requests : req[r] # None => req'[r] = req[r]
         /\ rooms \subseteq rooms'
         /\ \A room \in Rooms : schedules[room] # None => schedules'[room] = schedules[room]
         /\ \A id \in SlotIds : slots[id] # None => slots'[id] = slots[id]
         /\ \A b \in Requests : bookings[b] # None =>
              bookings'[b] # None /\ bookings'[b].slot = bookings[b].slot
  <1> USE DEF IInv, TypeOK, store
  <1> DEFINE Stays ==
        /\ \A r \in Requests : req[r] # None => req'[r] = req[r]
        /\ rooms \subseteq rooms'
        /\ \A room \in Rooms : schedules[room] # None => schedules'[room] = schedules[room]
        /\ \A id \in SlotIds : slots[id] # None => slots'[id] = slots[id]
        /\ \A b \in Requests : bookings[b] # None =>
             bookings'[b] # None /\ bookings'[b].slot = bookings[b].slot
  <1>1. ASSUME NEW q \in Requests, Arrive(q) PROVE Stays
    BY <1>1 DEF Arrive, StepsAgree
  <1>2. ASSUME NEW q \in Requests, Append(q) PROVE Stays
    BY <1>2 DEF Append
  <1>3. ASSUME NEW q \in Requests, Find(q) PROVE Stays
    BY <1>3 DEF Find
  <1>4. ASSUME NEW q \in Requests, Put(q) PROVE Stays
    <2>1. PICK s \in Firsts(todo[q]), id \in SlotIds :
            /\ s \in Slot /\ slots[id] = None
            /\ slots' = [slots EXCEPT ![id] = s]
            /\ Upsert(q, todo[q] \ {s})
      BY <1>4, PutStores
    <2> QED
      BY <1>4, <2>1 DEF Put
  <1>5. ASSUME NEW q \in Requests, CreateSchedule(q) PROVE Stays
    BY <1>5 DEF CreateSchedule
  <1>6. ASSUME NEW q \in Requests, RoomExists(q) PROVE Stays
    BY <1>6 DEF RoomExists
  <1>7. ASSUME NEW q \in Requests, GetScheduleByRoom(q) PROVE Stays
    BY <1>7 DEF GetScheduleByRoom
  <1>8. ASSUME NEW q \in Requests, ListAvailableSlots(q) PROVE Stays
    BY <1>8 DEF ListAvailableSlots
  <1>9. ASSUME NEW q \in Requests, GetSlot(q) PROVE Stays
    BY <1>9 DEF GetSlot
  <1>10. ASSUME NEW q \in Requests, CheckFree(q) PROVE Stays
    BY <1>10 DEF CheckFree
  <1>11. ASSUME NEW q \in Requests, InsertBooking(q) PROVE Stays
    BY <1>11 DEF InsertBooking, StepsAgree
  <1>12. ASSUME NEW q \in Requests, Lookup(q) PROVE Stays
    BY <1>12 DEF Lookup
  <1>13. ASSUME NEW q \in Requests, CancelBooking(q) PROVE Stays
    <2>1. req[q].booking \in Requests
      BY <1>13, RequestKinds DEF CancelBooking, StepsAgree
    <2>2. CASE bookings[req[q].booking] # None
      <3>1. Cancelled(bookings[req[q].booking]) \in Booking
        BY <2>1, <2>2 DEF Cancelled, Booking
      <3>2. Cancelled(bookings[req[q].booking]).slot = bookings[req[q].booking].slot
        BY <2>1, <2>2 DEF Cancelled, Booking
      <3> QED
        BY <1>13, <2>1, <3>1, <3>2, MemoryAssumption DEF CancelBooking
    <2> QED
      BY <1>13, <2>1, <2>2 DEF CancelBooking
  <1>14. CASE UNCHANGED vars
    BY <1>14 DEF vars, store
  <1> QED
    BY <1>1, <1>2, <1>3, <1>4, <1>5, <1>6, <1>7, <1>8, <1>9, <1>10, <1>11, <1>12,
       <1>13, <1>14
    DEF Next

(* Every step leaves each request at an access of its kind. *)
LEMMA NextStepsAgree ==
  ASSUME IInv, [Next]_vars
  PROVE  StepsAgree'
  <1> USE RequestKinds, NothingIsUndone
      DEF IInv, TypeOK, StepsAgree, Goto, Answer, Upsert, store
  <1>1. ASSUME NEW q \in Requests, Arrive(q) PROVE StepsAgree'
    BY <1>1, Beginnings DEF Arrive
  <1>2. ASSUME NEW q \in Requests, Append(q) PROVE StepsAgree'
    BY <1>2 DEF Append
  <1>3. ASSUME NEW q \in Requests, Find(q) PROVE StepsAgree'
    BY <1>3 DEF Find
  <1>4. ASSUME NEW q \in Requests, Put(q) PROVE StepsAgree'
    BY <1>4 DEF Put
  <1>5. ASSUME NEW q \in Requests, CreateSchedule(q) PROVE StepsAgree'
    BY <1>5 DEF CreateSchedule
  <1>6. ASSUME NEW q \in Requests, RoomExists(q) PROVE StepsAgree'
    BY <1>6 DEF RoomExists
  <1>7. ASSUME NEW q \in Requests, GetScheduleByRoom(q) PROVE StepsAgree'
    BY <1>7 DEF GetScheduleByRoom
  <1>8. ASSUME NEW q \in Requests, ListAvailableSlots(q) PROVE StepsAgree'
    BY <1>8 DEF ListAvailableSlots
  <1>9. ASSUME NEW q \in Requests, GetSlot(q) PROVE StepsAgree'
    BY <1>9 DEF GetSlot
  <1>10. ASSUME NEW q \in Requests, CheckFree(q) PROVE StepsAgree'
    BY <1>10 DEF CheckFree
  <1>11. ASSUME NEW q \in Requests, InsertBooking(q) PROVE StepsAgree'
    BY <1>11 DEF InsertBooking
  <1>12. ASSUME NEW q \in Requests, Lookup(q) PROVE StepsAgree'
    BY <1>12 DEF Lookup
  <1>13. ASSUME NEW q \in Requests, CancelBooking(q) PROVE StepsAgree'
    BY <1>13 DEF CancelBooking
  <1>14. CASE UNCHANGED vars
    BY <1>14 DEF vars, store
  <1> QED
    BY <1>1, <1>2, <1>3, <1>4, <1>5, <1>6, <1>7, <1>8, <1>9, <1>10, <1>11, <1>12,
       <1>13, <1>14
    DEF Next

(* A request comes alone or with the benchmark's. *)
LEMMA NextOneAtATime ==
  ASSUME IInv, [Next]_vars
  PROVE  OneAtATime'
  <1> USE NothingIsUndone
      DEF IInv, TypeOK, StepsAgree, OneAtATime, Running, Goto, Answer, Upsert, store
  <1>1. ASSUME NEW q \in Requests, Arrive(q) PROVE OneAtATime'
    BY <1>1 DEF Arrive
  <1>2. ASSUME NEW q \in Requests, Append(q) PROVE OneAtATime'
    BY <1>2 DEF Append
  <1>3. ASSUME NEW q \in Requests, Find(q) PROVE OneAtATime'
    BY <1>3 DEF Find
  <1>4. ASSUME NEW q \in Requests, Put(q) PROVE OneAtATime'
    BY <1>4 DEF Put
  <1>5. ASSUME NEW q \in Requests, CreateSchedule(q) PROVE OneAtATime'
    BY <1>5 DEF CreateSchedule
  <1>6. ASSUME NEW q \in Requests, RoomExists(q) PROVE OneAtATime'
    BY <1>6 DEF RoomExists
  <1>7. ASSUME NEW q \in Requests, GetScheduleByRoom(q) PROVE OneAtATime'
    BY <1>7 DEF GetScheduleByRoom
  <1>8. ASSUME NEW q \in Requests, ListAvailableSlots(q) PROVE OneAtATime'
    BY <1>8 DEF ListAvailableSlots
  <1>9. ASSUME NEW q \in Requests, GetSlot(q) PROVE OneAtATime'
    BY <1>9 DEF GetSlot
  <1>10. ASSUME NEW q \in Requests, CheckFree(q) PROVE OneAtATime'
    BY <1>10 DEF CheckFree
  <1>11. ASSUME NEW q \in Requests, InsertBooking(q) PROVE OneAtATime'
    BY <1>11 DEF InsertBooking
  <1>12. ASSUME NEW q \in Requests, Lookup(q) PROVE OneAtATime'
    BY <1>12 DEF Lookup
  <1>13. ASSUME NEW q \in Requests, CancelBooking(q) PROVE OneAtATime'
    BY <1>13 DEF CancelBooking
  <1>14. CASE UNCHANGED vars
    BY <1>14 DEF vars, store
  <1> QED
    BY <1>1, <1>2, <1>3, <1>4, <1>5, <1>6, <1>7, <1>8, <1>9, <1>10, <1>11, <1>12,
       <1>13, <1>14
    DEF Next

(* Whoever writes to a map is none of the benchmark's, and alone. *)
LEMMA WritersAreAlone ==
  ASSUME IInv, NEW r \in Requests, pc[r] \in {"append", "create", "put", "insert", "cancel"}
  PROVE  /\ ~ Benchmarked(req[r])
         /\ \A q \in Requests \ {r} : pc[q] \notin Running
  <1>1. ~ Benchmarked(req[r])
    BY RequestKinds DEF IInv, StepsAgree, ChecksHold, Benchmarked
  <1> QED
    BY <1>1 DEF IInv, OneAtATime, Running

(* Only the creation of a schedule gives one to a room. *)
LEMMA WhoSchedules ==
  ASSUME IInv, [Next]_vars, schedules' # schedules
  PROVE  \E q \in Requests :
           /\ CreateSchedule(q) /\ schedules[req[q].room] = None
           /\ schedules' = [schedules EXCEPT ![req[q].room] = req[q].schedule]
           /\ todo' = [todo EXCEPT ![q] = Generated(req[q].room, req[q].schedule, Filled)]
  <1> DEFINE P == \E q \in Requests :
           /\ CreateSchedule(q) /\ schedules[req[q].room] = None
           /\ schedules' = [schedules EXCEPT ![req[q].room] = req[q].schedule]
           /\ todo' = [todo EXCEPT ![q] = Generated(req[q].room, req[q].schedule, Filled)]
  <1> USE DEF store
  <1>1. ASSUME NEW q \in Requests, Arrive(q) PROVE P
    BY <1>1 DEF Arrive
  <1>2. ASSUME NEW q \in Requests, Append(q) PROVE P
    BY <1>2 DEF Append
  <1>3. ASSUME NEW q \in Requests, Find(q) PROVE P
    BY <1>3 DEF Find
  <1>4. ASSUME NEW q \in Requests, Put(q) PROVE P
    BY <1>4 DEF Put
  <1>5. ASSUME NEW q \in Requests, CreateSchedule(q) PROVE P
    BY <1>5 DEF CreateSchedule, Upsert
  <1>6. ASSUME NEW q \in Requests, RoomExists(q) PROVE P
    BY <1>6 DEF RoomExists
  <1>7. ASSUME NEW q \in Requests, GetScheduleByRoom(q) PROVE P
    BY <1>7 DEF GetScheduleByRoom
  <1>8. ASSUME NEW q \in Requests, ListAvailableSlots(q) PROVE P
    BY <1>8 DEF ListAvailableSlots
  <1>9. ASSUME NEW q \in Requests, GetSlot(q) PROVE P
    BY <1>9 DEF GetSlot
  <1>10. ASSUME NEW q \in Requests, CheckFree(q) PROVE P
    BY <1>10 DEF CheckFree
  <1>11. ASSUME NEW q \in Requests, InsertBooking(q) PROVE P
    BY <1>11 DEF InsertBooking
  <1>12. ASSUME NEW q \in Requests, Lookup(q) PROVE P
    BY <1>12 DEF Lookup
  <1>13. ASSUME NEW q \in Requests, CancelBooking(q) PROVE P
    BY <1>13 DEF CancelBooking
  <1>14. CASE UNCHANGED vars
    BY <1>14 DEF vars, store
  <1> QED
    BY <1>1, <1>2, <1>3, <1>4, <1>5, <1>6, <1>7, <1>8, <1>9, <1>10, <1>11, <1>12,
       <1>13, <1>14
    DEF Next

(* Slots are generated from the schedule, which is there before and after.  *)
LEMMA NextTodoFits ==
  ASSUME IInv, [Next]_vars
  PROVE  TodoFits'
  <1> USE RequestKinds, NothingIsUndone
      DEF IInv, TypeOK, StepsAgree, TodoFits, Goto, Answer, Upsert, store
  <1>1. ASSUME NEW q \in Requests, Arrive(q) PROVE TodoFits'
    BY <1>1, Beginnings DEF Arrive
  <1>2. ASSUME NEW q \in Requests, Append(q) PROVE TodoFits'
    BY <1>2 DEF Append
  <1>3. ASSUME NEW q \in Requests, Find(q) PROVE TodoFits'
    BY <1>3 DEF Find
  <1>4. ASSUME NEW q \in Requests, Put(q) PROVE TodoFits'
    <2>1. PICK s \in Firsts(todo[q]), id \in SlotIds :
            /\ s \in Slot /\ slots[id] = None
            /\ slots' = [slots EXCEPT ![id] = s]
            /\ Upsert(q, todo[q] \ {s})
      BY <1>4, PutStores
    <2> QED
      BY <1>4, <2>1 DEF Put
  <1>5. ASSUME NEW q \in Requests, CreateSchedule(q) PROVE TodoFits'
    BY <1>5, GeneratedSlots, MemoryAssumption DEF CreateSchedule
  <1>6. ASSUME NEW q \in Requests, RoomExists(q) PROVE TodoFits'
    BY <1>6 DEF RoomExists
  <1>7. ASSUME NEW q \in Requests, GetScheduleByRoom(q) PROVE TodoFits'
    BY <1>7, GeneratedSlots DEF GetScheduleByRoom
  <1>8. ASSUME NEW q \in Requests, ListAvailableSlots(q) PROVE TodoFits'
    BY <1>8 DEF ListAvailableSlots
  <1>9. ASSUME NEW q \in Requests, GetSlot(q) PROVE TodoFits'
    BY <1>9 DEF GetSlot
  <1>10. ASSUME NEW q \in Requests, CheckFree(q) PROVE TodoFits'
    BY <1>10 DEF CheckFree
  <1>11. ASSUME NEW q \in Requests, InsertBooking(q) PROVE TodoFits'
    BY <1>11 DEF InsertBooking
  <1>12. ASSUME NEW q \in Requests, Lookup(q) PROVE TodoFits'
    BY <1>12 DEF Lookup
  <1>13. ASSUME NEW q \in Requests, CancelBooking(q) PROVE TodoFits'
    BY <1>13 DEF CancelBooking
  <1>14. CASE UNCHANGED vars
    BY <1>14 DEF vars, store
  <1> QED
    BY <1>1, <1>2, <1>3, <1>4, <1>5, <1>6, <1>7, <1>8, <1>9, <1>10, <1>11, <1>12,
       <1>13, <1>14
    DEF Next

(* A slot is stored under a second id by nobody. *)
LEMMA NextSlotsOnce ==
  ASSUME IInv, [Next]_vars
  PROVE  SlotsOnce'
  <1> USE DEF IInv, SlotsOnce, store
  <1>1. ASSUME NEW q \in Requests, Arrive(q) PROVE SlotsOnce'
    BY <1>1 DEF Arrive
  <1>2. ASSUME NEW q \in Requests, Append(q) PROVE SlotsOnce'
    BY <1>2 DEF Append
  <1>3. ASSUME NEW q \in Requests, Find(q) PROVE SlotsOnce'
    BY <1>3 DEF Find
  <1>4. ASSUME NEW q \in Requests, Put(q) PROVE SlotsOnce'
    <2>1. PICK s \in Firsts(todo[q]), id \in SlotIds :
            /\ s \in Slot /\ slots[id] = None
            /\ slots' = [slots EXCEPT ![id] = s]
            /\ Upsert(q, todo[q] \ {s})
      BY <1>4, PutStores DEF IInv
    <2>2. ~ Found(s)
      BY <1>4 DEF Put, IInv, ChecksHold
    <2> QED
      BY <2>1, <2>2 DEF Found, IInv, TypeOK
  <1>5. ASSUME NEW q \in Requests, CreateSchedule(q) PROVE SlotsOnce'
    BY <1>5 DEF CreateSchedule
  <1>6. ASSUME NEW q \in Requests, RoomExists(q) PROVE SlotsOnce'
    BY <1>6 DEF RoomExists
  <1>7. ASSUME NEW q \in Requests, GetScheduleByRoom(q) PROVE SlotsOnce'
    BY <1>7 DEF GetScheduleByRoom
  <1>8. ASSUME NEW q \in Requests, ListAvailableSlots(q) PROVE SlotsOnce'
    BY <1>8 DEF ListAvailableSlots
  <1>9. ASSUME NEW q \in Requests, GetSlot(q) PROVE SlotsOnce'
    BY <1>9 DEF GetSlot
  <1>10. ASSUME NEW q \in Requests, CheckFree(q) PROVE SlotsOnce'
    BY <1>10 DEF CheckFree
  <1>11. ASSUME NEW q \in Requests, InsertBooking(q) PROVE SlotsOnce'
    BY <1>11 DEF InsertBooking
  <1>12. ASSUME NEW q \in Requests, Lookup(q) PROVE SlotsOnce'
    BY <1>12 DEF Lookup
  <1>13. ASSUME NEW q \in Requests, CancelBooking(q) PROVE SlotsOnce'
    BY <1>13 DEF CancelBooking
  <1>14. CASE UNCHANGED vars
    BY <1>14 DEF vars, store
  <1> QED
    BY <1>1, <1>2, <1>3, <1>4, <1>5, <1>6, <1>7, <1>8, <1>9, <1>10, <1>11, <1>12,
       <1>13, <1>14
    DEF Next

(* A benchmarked list finds all its slots. *)
LEMMA BenchmarkFinds ==
  ASSUME IInv, NEW q \in Requests, pc[q] = "find", Benchmarked(req[q]), NEW s \in todo[q]
  PROVE  Found(s)
  <1>1. /\ s \in Slot /\ schedules[s.room] # None /\ s.day \in Week
        /\ s.time \in Covers[schedules[s.room]][s.day]
    BY DEF IInv, TypeOK, TodoFits, Benchmarked
  <1>2. ~ \E r \in Requests : WillStore(r, s)
    BY DEF IInv, OneAtATime, WillStore, Benchmarked, Running
  <1> QED
    BY <1>1, <1>2 DEF IInv, WeekFilled

(* What is checked in one access holds at the next, since whoever could     *)
(* undo it is not running.                                                  *)
LEMMA NextChecksHold ==
  ASSUME IInv, [Next]_vars
  PROVE  ChecksHold'
  <1> USE NothingIsUndone, RequestKinds
      DEF IInv, TypeOK, StepsAgree, ChecksHold, Goto, Answer, Upsert, Running, store, Found,
          Busy
  <1>1. ASSUME NEW q \in Requests, Arrive(q) PROVE ChecksHold'
    BY <1>1, Beginnings DEF Arrive
  <1>2. ASSUME NEW q \in Requests, Append(q) PROVE ChecksHold'
    BY <1>2 DEF Append
  <1>3. ASSUME NEW q \in Requests, Find(q) PROVE ChecksHold'
    <2>1. PICK s \in Firsts(todo[q]) :
            \/ /\ Found(s)
               /\ Upsert(q, todo[q] \ {s})
            \/ /\ ~ Found(s)
               /\ Goto(q, "put")
               /\ UNCHANGED todo
      BY <1>3 DEF Find
    <2>2. s \in todo[q] /\ pc[q] = "find" /\ UNCHANGED <<store, req>>
      BY <1>3, <2>1 DEF Find, Firsts
    <2>3. \A t \in Firsts(todo[q]) : t = s
      BY <2>1, <2>2, OneFirst DEF TodoFits
    <2>4. ~ Found(s) => ~ Benchmarked(req[q])
      BY <2>2, BenchmarkFinds
    <2> QED
      BY <2>1, <2>2, <2>3, <2>4
  <1>4. ASSUME NEW q \in Requests, Put(q) PROVE ChecksHold'
    <2>1. PICK s \in Firsts(todo[q]), id \in SlotIds :
            /\ s \in Slot /\ slots[id] = None
            /\ slots' = [slots EXCEPT ![id] = s]
            /\ Upsert(q, todo[q] \ {s})
      BY <1>4, PutStores
    <2>2. pc[q] = "put" /\ \A r \in Requests \ {q} : pc[r] \notin Running
      BY <1>4, WritersAreAlone DEF Put
    <2> QED
      BY <1>4, <2>1, <2>2 DEF Put
  <1>5. ASSUME NEW q \in Requests, CreateSchedule(q) PROVE ChecksHold'
    BY <1>5 DEF CreateSchedule
  <1>6. ASSUME NEW q \in Requests, RoomExists(q) PROVE ChecksHold'
    BY <1>6 DEF RoomExists
  <1>7. ASSUME NEW q \in Requests, GetScheduleByRoom(q) PROVE ChecksHold'
    BY <1>7 DEF GetScheduleByRoom
  <1>8. ASSUME NEW q \in Requests, ListAvailableSlots(q) PROVE ChecksHold'
    BY <1>8 DEF ListAvailableSlots
  <1>9. ASSUME NEW q \in Requests, GetSlot(q) PROVE ChecksHold'
    BY <1>9 DEF GetSlot
  <1>10. ASSUME NEW q \in Requests, CheckFree(q) PROVE ChecksHold'
    BY <1>10 DEF CheckFree
  <1>11. ASSUME NEW q \in Requests, InsertBooking(q) PROVE ChecksHold'
    BY <1>11, WritersAreAlone DEF InsertBooking
  <1>12. ASSUME NEW q \in Requests, Lookup(q) PROVE ChecksHold'
    BY <1>12 DEF Lookup
  <1>13. ASSUME NEW q \in Requests, CancelBooking(q) PROVE ChecksHold'
    BY <1>13, WritersAreAlone DEF CancelBooking, Cancelled
  <1>14. CASE UNCHANGED vars
    BY <1>14 DEF vars, store
  <1> QED
    BY <1>1, <1>2, <1>3, <1>4, <1>5, <1>6, <1>7, <1>8, <1>9, <1>10, <1>11, <1>12,
       <1>13, <1>14
    DEF Next

(* Whoever has a slot still to store goes on until it is stored. *)
LEMMA NextStored ==
  ASSUME IInv, [Next]_vars, NEW r \in Requests, NEW s \in Slot, WillStore(r, s)
  PROVE  WillStore(r, s)' \/ Found(s)'
  <1> DEFINE P == WillStore(r, s)' \/ Found(s)'
  <1> USE NothingIsUndone DEF IInv, TypeOK, WillStore, Goto, Answer, Upsert, store
  <1>1. ASSUME NEW q \in Requests, Arrive(q) PROVE P
    BY <1>1 DEF Arrive
  <1>2. ASSUME NEW q \in Requests, Append(q) PROVE P
    BY <1>2 DEF Append
  <1>3. ASSUME NEW q \in Requests, Find(q) PROVE P
    BY <1>3 DEF Find, Found
  <1>4. ASSUME NEW q \in Requests, Put(q) PROVE P
    <2>1. PICK t \in Firsts(todo[q]), id \in SlotIds :
            /\ t \in Slot /\ slots[id] = None
            /\ slots' = [slots EXCEPT ![id] = t]
            /\ Upsert(q, todo[q] \ {t})
      BY <1>4, PutStores
    <2> QED
      BY <1>4, <2>1 DEF Put, Found
  <1>5. ASSUME NEW q \in Requests, CreateSchedule(q) PROVE P
    BY <1>5 DEF CreateSchedule
  <1>6. ASSUME NEW q \in Requests, RoomExists(q) PROVE P
    BY <1>6 DEF RoomExists
  <1>7. ASSUME NEW q \in Requests, GetScheduleByRoom(q) PROVE P
    BY <1>7 DEF GetScheduleByRoom
  <1>8. ASSUME NEW q \in Requests, ListAvailableSlots(q) PROVE P
    BY <1>8 DEF ListAvailableSlots
  <1>9. ASSUME NEW q \in Requests, GetSlot(q) PROVE P
    BY <1>9 DEF GetSlot
  <1>10. ASSUME NEW q \in Requests, CheckFree(q) PROVE P
    BY <1>10 DEF CheckFree
  <1>11. ASSUME NEW q \in Requests, InsertBooking(q) PROVE P
    BY <1>11 DEF InsertBooking
  <1>12. ASSUME NEW q \in Requests, Lookup(q) PROVE P
    BY <1>12 DEF Lookup
  <1>13. ASSUME NEW q \in Requests, CancelBooking(q) PROVE P
    BY <1>13 DEF CancelBooking
  <1>14. CASE UNCHANGED vars
    BY <1>14 DEF vars, store
  <1> QED
    BY <1>1, <1>2, <1>3, <1>4, <1>5, <1>6, <1>7, <1>8, <1>9, <1>10, <1>11, <1>12,
       <1>13, <1>14
    DEF Next

(* A schedule comes with the slots of its week still to store. *)
LEMMA NextWeekFilled ==
  ASSUME IInv, [Next]_vars
  PROVE  WeekFilled'
  <1> SUFFICES ASSUME NEW s \in Slot, schedules'[s.room] # None, s.day \in Week,
                      s.time \in Covers[schedules'[s.room]][s.day]
               PROVE  Found(s)' \/ \E r \in Requests : WillStore(r, s)'
    BY DEF WeekFilled
  <1>1. s.room \in Rooms
    BY DEF Slot
  <1>2. CASE schedules[s.room] # None
    <2>1. schedules'[s.room] = schedules[s.room]
      BY <1>1, <1>2, NothingIsUndone
    <2>2. Found(s) => Found(s)'
      BY NothingIsUndone, MemoryAssumption DEF Found
    <2> QED
      BY <1>2, <2>1, <2>2, NextStored DEF IInv, WeekFilled
  <1>3. CASE schedules[s.room] = None
    <2>1. PICK q \in Requests :
            /\ CreateSchedule(q) /\ schedules[req[q].room] = None
            /\ schedules' = [schedules EXCEPT ![req[q].room] = req[q].schedule]
            /\ todo' = [todo EXCEPT ![q] = Generated(req[q].room, req[q].schedule, Filled)]
      BY <1>3, WhoSchedules
    <2>2. pc[q] = "create" /\ req[q] \in CreateRequest /\ req' = req
      BY <2>1 DEF CreateSchedule, IInv, StepsAgree
    <2>3. req[q].room = s.room /\ schedules'[s.room] = req[q].schedule
      BY <1>1, <1>3, <2>1, <2>2, RequestKinds DEF IInv, TypeOK
    <2>4. s \in todo'[q]
      BY <2>1, <2>3 DEF IInv, TypeOK, Generated, Filled
    <2>5. pc'[q] = "find"
      BY <2>1, <2>2, <2>3, <2>4 DEF CreateSchedule, Upsert, Goto, IInv, TypeOK
    <2> QED
      BY <2>2, <2>4, <2>5, RequestKinds DEF WillStore
  <1> QED
    BY <1>2, <1>3

(* Every step keeps IInv. *)
LEMMA NextIInv == IInv /\ [Next]_vars => IInv'
  BY NextType, NextStepsAgree, NextOneAtATime, NextTodoFits, NextSlotsOnce, NextChecksHold,
     NextWeekFilled DEF IInv

-----------------------------------------------------------------------------
(* The inductive invariant: IInv holds in every state the tests and the     *)
(* benchmark bring the maps to.                                             *)
THEOREM Inductive == Spec => []IInv
  BY InitIInv, NextIInv, PTL DEF Spec

(* Every variable keeps its type. *)
THEOREM TypeCorrect == Spec => []TypeOK
  BY Inductive, PTL DEF IInv

(* The benchmark's lists never write to a map that others read              *)
(* (MemoryStore.UpsertSlots).                                               *)
THEOREM BenchmarkIsSafe == Spec => []NoRace
  <1>1. IInv => NoRace
    <2> SUFFICES ASSUME IInv, NEW r \in Requests, NEW q \in Requests, r # q
                 PROVE  Writes(r) \cap (Reads(q) \cup Writes(q)) = {}
      BY DEF NoRace
    <2>1. CASE pc[r] \in {"append", "create", "put", "insert", "cancel"}
      <3>1. pc[q] \notin Running
        BY <2>1, WritersAreAlone
      <3> QED
        BY <3>1 DEF Reads, Writes, Running
    <2>2. CASE pc[r] \notin {"append", "create", "put", "insert", "cancel"}
      BY <2>2 DEF Writes
    <2> QED
      BY <2>1, <2>2
  <1> QED
    BY <1>1, Inductive, PTL

-----------------------------------------------------------------------------
(* A step that makes and cancels no booking changes none in the book.       *)
LEMMA BookingsStay ==
  ASSUME IInv, [Next]_vars, NEW b \in Requests, bookings'[b] = bookings[b]
  PROVE  BookingOf(b)' = BookingOf(b)
  <1>1. CASE bookings[b] = None
    BY <1>1 DEF BookingOf
  <1>2. CASE bookings[b] # None
    <2>1. bookings[b].slot \in SlotIds /\ slots[bookings[b].slot] # None
      BY <1>2 DEF IInv, TypeOK, Booking, ChecksHold
    <2> QED
      BY <1>2, <2>1, NothingIsUndone DEF BookingOf
  <1> QED
    BY <1>1, <1>2

(* Making a booking, and cancelling one, are steps of the book. *)
LEMMA InsertIsCreateBooking ==
  ASSUME IInv, [Next]_vars, NEW q \in Requests, InsertBooking(q)
  PROVE  slots[req[q].slot] \in Slot /\ TheBook!CreateBooking(q, slots[req[q].slot])
  <1> DEFINE id == req[q].slot
             s == slots[id]
             booked == [slot |-> id, status |-> "active"]
  <1>1. /\ UNCHANGED <<rooms, schedules, slots>>
        /\ pc[q] = "insert" /\ bookings' = [bookings EXCEPT ![q] = booked]
    BY DEF InsertBooking
  <1>2. id \in SlotIds /\ s # None /\ s \in Slot /\ bookings[q] = None /\ ~ Busy(id)
    BY <1>1, RequestKinds DEF IInv, TypeOK, StepsAgree, ChecksHold
  <1>3. s \in Kept /\ Kept' = Kept
    BY <1>1, <1>2 DEF Kept
  <1>4. \A b \in Requests : BookingOf(b) # [slot |-> s, status |-> "active"]
    <2> SUFFICES ASSUME NEW b \in Requests, BookingOf(b) = [slot |-> s, status |-> "active"]
                 PROVE  FALSE
      OBVIOUS
    <2>1. CASE bookings[b] = None
      <3>1. BookingOf(b) = None
        BY <2>1 DEF BookingOf
      <3> QED
        BY <3>1, <1>2, MemoryAssumption
    <2>2. CASE bookings[b] # None
      <3>1. /\ bookings[b] \in Booking /\ bookings[b].slot \in SlotIds
            /\ slots[bookings[b].slot] = s /\ bookings[b].status = "active"
        BY <2>2 DEF BookingOf, IInv, TypeOK, Booking
      <3>2. bookings[b].slot = id
        BY <1>2, <3>1 DEF IInv, SlotsOnce
      <3>3. bookings[b] = booked
        BY <3>1, <3>2 DEF Booking
      <3> QED
        BY <1>2, <3>3 DEF Busy
    <2> QED
      BY <2>1, <2>2
  <1>5. \A b \in Requests \ {q} : BookingOf(b)' = BookingOf(b)
    BY <1>1, BookingsStay DEF IInv, TypeOK
  <1>6. BookingOf(q) = None
    BY <1>2 DEF BookingOf
  <1>7. BookingOf(q)' = [slot |-> s, status |-> "active"]
    <2>1. booked \in Booking
      BY <1>2 DEF Booking
    <2>2. booked # None
      BY <2>1, MemoryAssumption
    <2> QED
      BY <1>1, <1>2, <2>2 DEF BookingOf, IInv, TypeOK
  <1> QED
    BY <1>1, <1>2, <1>3, <1>4, <1>5, <1>6, <1>7 DEF TheBook!CreateBooking, TheBook!Free

(* Cancelling, the same way: the booking keeps its slot. *)
LEMMA CancelIsCancelBooking ==
  ASSUME IInv, [Next]_vars, NEW q \in Requests, CancelBooking(q), bookings' # bookings
  PROVE  req[q].booking \in Requests /\ TheBook!CancelBooking(req[q].booking)
  <1> DEFINE b == req[q].booking
  <1>1. /\ UNCHANGED <<rooms, schedules, slots, req>>
        /\ pc[q] = "cancel" /\ bookings[b] # None
        /\ bookings' = [bookings EXCEPT ![b] = Cancelled(@)]
    BY DEF CancelBooking
  <1>2. b \in Requests
    BY <1>1, RequestKinds DEF IInv, StepsAgree
  <1>3. /\ bookings[b] \in Booking
        /\ bookings'[b] = [bookings[b] EXCEPT !.status = "cancelled"]
    BY <1>1, <1>2 DEF IInv, TypeOK, Cancelled
  <1>4. /\ bookings'[b] \in Booking /\ bookings'[b] # None
        /\ bookings'[b].slot = bookings[b].slot /\ bookings'[b].status = "cancelled"
    BY <1>3, MemoryAssumption DEF Booking
  <1>5. slots[bookings[b].slot] \in Slot
    BY <1>1, <1>2, <1>3 DEF IInv, TypeOK, ChecksHold, Booking
  <1>6. /\ BookingOf(b) = [slot |-> slots[bookings[b].slot], status |-> bookings[b].status]
        /\ BookingOf(b)' = [slot |-> slots[bookings[b].slot], status |-> "cancelled"]
    BY <1>1, <1>4 DEF BookingOf
  <1>7. BookingOf(b) # None
    BY <1>3, <1>5, <1>6, MemoryAssumption DEF Booking
  <1>8. BookingOf(b)' = [BookingOf(b) EXCEPT !.status = "cancelled"]
    BY <1>6
  <1>9. \A c \in Requests \ {b} : BookingOf(c)' = BookingOf(c)
    BY <1>1, <1>2, BookingsStay DEF IInv, TypeOK
  <1>10. Kept' = Kept
    BY <1>1 DEF Kept
  <1> QED
    BY <1>1, <1>2, <1>7, <1>8, <1>9, <1>10 DEF TheBook!CancelBooking

(* A slot that is stored is one that its room's schedule covers, and the    *)
(* others stay.                                                             *)
LEMMA PutIsAddSlot ==
  ASSUME IInv, [Next]_vars, NEW q \in Requests, Put(q)
  PROVE  \E s \in Slot : TheBook!AddSlot(s)
  <1>1. PICK s \in Firsts(todo[q]), id \in SlotIds :
          /\ s \in Slot /\ slots[id] = None
          /\ slots' = [slots EXCEPT ![id] = s]
          /\ Upsert(q, todo[q] \ {s})
    BY PutStores DEF IInv
  <1>2. /\ pc[q] = "put" /\ UNCHANGED <<rooms, schedules, bookings>>
        /\ s \in todo[q]
    BY <1>1 DEF Put, Firsts
  <1>3. schedules[s.room] # None /\ s.time \in Covers[schedules[s.room]][s.day]
    BY <1>2 DEF IInv, TodoFits
  <1>4. s # None
    BY <1>1, MemoryAssumption
  <1>5. Kept' = Kept \cup {s}
    BY <1>1, <1>4 DEF Kept, IInv, TypeOK
  <1>6. \A b \in Requests : BookingOf(b)' = BookingOf(b)
    BY <1>2, BookingsStay
  <1> QED
    BY <1>1, <1>2, <1>3, <1>5, <1>6 DEF TheBook!AddSlot

(* Who changes the maps. *)
LEMMA WhoChangesMaps ==
  ASSUME IInv, [Next]_vars
  PROVE  \/ UNCHANGED store
         \/ \E q \in Requests : \/ Append(q) \/ Put(q) \/ InsertBooking(q)
                                \/ CancelBooking(q) /\ bookings' # bookings
                                \/ CreateSchedule(q) /\ schedules' # schedules
  <1> DEFINE P ==
         \/ UNCHANGED store
         \/ \E q \in Requests : \/ Append(q) \/ Put(q) \/ InsertBooking(q)
                                \/ CancelBooking(q) /\ bookings' # bookings
                                \/ CreateSchedule(q) /\ schedules' # schedules
  <1> USE DEF store
  <1>1. ASSUME NEW q \in Requests, Arrive(q) PROVE P
    BY <1>1 DEF Arrive
  <1>2. ASSUME NEW q \in Requests, Append(q) PROVE P
    BY <1>2 DEF Append
  <1>3. ASSUME NEW q \in Requests, Find(q) PROVE P
    BY <1>3 DEF Find
  <1>4. ASSUME NEW q \in Requests, Put(q) PROVE P
    BY <1>4 DEF Put
  <1>5. ASSUME NEW q \in Requests, CreateSchedule(q) PROVE P
    BY <1>5 DEF CreateSchedule
  <1>6. ASSUME NEW q \in Requests, RoomExists(q) PROVE P
    BY <1>6 DEF RoomExists
  <1>7. ASSUME NEW q \in Requests, GetScheduleByRoom(q) PROVE P
    BY <1>7 DEF GetScheduleByRoom
  <1>8. ASSUME NEW q \in Requests, ListAvailableSlots(q) PROVE P
    BY <1>8 DEF ListAvailableSlots
  <1>9. ASSUME NEW q \in Requests, GetSlot(q) PROVE P
    BY <1>9 DEF GetSlot
  <1>10. ASSUME NEW q \in Requests, CheckFree(q) PROVE P
    BY <1>10 DEF CheckFree
  <1>11. ASSUME NEW q \in Requests, InsertBooking(q) PROVE P
    BY <1>11 DEF InsertBooking
  <1>12. ASSUME NEW q \in Requests, Lookup(q) PROVE P
    BY <1>12 DEF Lookup
  <1>13. ASSUME NEW q \in Requests, CancelBooking(q) PROVE P
    BY <1>13 DEF CancelBooking
  <1>14. CASE UNCHANGED vars
    BY <1>14 DEF vars, store
  <1> QED
    BY <1>1, <1>2, <1>3, <1>4, <1>5, <1>6, <1>7, <1>8, <1>9, <1>10, <1>11, <1>12,
       <1>13, <1>14
    DEF Next

(* The maps of the tests are the book that Store promises, as PostgreSQL's  *)
(* tables are.                                                              *)
THEOREM ImplementsRoomBook == Spec => IsRoomBook
  <1>1. Init => TheBook!Init
    BY DEF Init, TheBook!Init, BookingOf, Kept
  <1>2. ASSUME IInv, [Next]_vars
        PROVE  [TheBook!Next]_(TheBook!vars)
    <2>1. CASE UNCHANGED store
      <3>1. \A b \in Requests : BookingOf(b)' = BookingOf(b)
        BY <1>2, <2>1, BookingsStay DEF store
      <3> QED
        BY <2>1, <3>1 DEF store, TheBook!vars, Kept
    <2>2. ASSUME NEW q \in Requests, Append(q) PROVE TheBook!Next
      <3>1. \A b \in Requests : BookingOf(b)' = BookingOf(b)
        BY <1>2, <2>2, BookingsStay DEF Append
      <3>2. req[q].room \in Rooms
        BY <1>2, <2>2, RequestKinds DEF Append, IInv, StepsAgree
      <3>3. TheBook!CreateRoom(req[q].room)
        BY <2>2, <3>1 DEF Append, TheBook!CreateRoom, Kept
      <3> QED
        BY <3>2, <3>3 DEF TheBook!Next
    <2>3. ASSUME NEW q \in Requests, Put(q) PROVE TheBook!Next
      BY <1>2, <2>3, PutIsAddSlot DEF TheBook!Next, TheBook!Slot, Slot
    <2>4. ASSUME NEW q \in Requests, CreateSchedule(q), schedules' # schedules
          PROVE  TheBook!Next
      <3>1. \A b \in Requests : BookingOf(b)' = BookingOf(b)
        BY <1>2, <2>4, BookingsStay DEF CreateSchedule
      <3>2. /\ req[q].room \in rooms /\ schedules[req[q].room] = None
            /\ UNCHANGED <<rooms, slots>>
            /\ schedules' = [schedules EXCEPT ![req[q].room] = req[q].schedule]
        BY <2>4 DEF CreateSchedule
      <3>3. req[q].room \in Rooms /\ req[q].schedule \in Schedules
        BY <1>2, <2>4, RequestKinds DEF CreateSchedule, IInv, StepsAgree
      <3>4. TheBook!CreateSchedule(req[q].room, req[q].schedule)
        BY <3>1, <3>2 DEF TheBook!CreateSchedule, Kept
      <3> QED
        BY <3>3, <3>4 DEF TheBook!Next
    <2>5. ASSUME NEW q \in Requests, InsertBooking(q) PROVE TheBook!Next
      BY <1>2, <2>5, InsertIsCreateBooking DEF TheBook!Next, TheBook!Slot, Slot
    <2>6. ASSUME NEW q \in Requests, CancelBooking(q), bookings' # bookings
          PROVE  TheBook!Next
      BY <1>2, <2>6, CancelIsCancelBooking DEF TheBook!Next
    <2> QED
      BY <1>2, <2>1, <2>2, <2>3, <2>4, <2>5, <2>6, WhoChangesMaps
  <1> QED
    BY <1>1, <1>2, Inductive, PTL DEF Spec, IsRoomBook, TheBook!Spec
=============================================================================
