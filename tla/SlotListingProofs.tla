--------------------------- MODULE SlotListingProofs ---------------------------
(***************************************************************************)
(* SlotListing, for every set of requests, rooms, schedules, slots and     *)
(* keys, and whatever fails: its types, what the tables promise, and the   *)
(* exact causes of a wrong cached answer.                                  *)
(***************************************************************************)
EXTENDS SlotListing, TLAPS

(* A statement belongs to a request of its kind. *)
StepsAgree ==
  \A r \in Requests :
    /\ pc[r] = "idle" => req[r] = None /\ resp[r] = "none"
    /\ pc[r] # "idle" => req[r] # None
    /\ pc[r] \in ListSteps \ {"upsert"} => req[r] \in ListRequest
    /\ pc[r] = "upsert" => req[r] \in ListRequest \cup CreateRequest
    /\ pc[r] = "insert" => req[r] \in CreateRequest
    /\ pc[r] \in {"getSlot", "book"} => req[r] \in BookRequest
    /\ pc[r] \in {"lookup", "cancel"} => req[r] \in CancelRequest
    /\ pc[r] \in {"reply", "invalidate", "delete"} =>
         req[r] \in CreateRequest \cup BookRequest \cup CancelRequest
    /\ pc[r] = "unstored" => req[r] \in ListRequest
    /\ pc[r] = "adrift" => /\ req[r] \in CreateRequest \cup BookRequest \cup CancelRequest
                           /\ resp[r] \in {"none", "INTERNAL_ERROR"}
    /\ pc[r] \in Running => resp[r] = "none"

(* r has a booking yet to make, if the statement is still carried out. *)
MayBook(r) == pc[r] = "book" \/ (pc[r] = "adrift" /\ req[r] \in BookRequest)

(* A booking is of a row, and was made by the statement that makes them.    *)
BookingsAreOfRows ==
  \A r \in Requests :
    /\ pc[r] \in {"idle", "getSlot"} \/ MayBook(r) => bookings[r] = "none"
    /\ MayBook(r) => req[r].slot \in rows
    /\ bookings[r] # "none" => req[r] \in BookRequest /\ req[r].slot \in rows

(* What its room's schedule, and it alone, covers. *)
Fits(s) == schedule[s.room] # None /\ s.time \in Covers[schedule[s.room]][s.day]

SlotsFit ==
  /\ \A s \in rows : Fits(s)
  /\ \A r \in Requests : \A s \in todo[r] : Fits(s)

(* r inserted the schedule of its room and has not lost the reply. *)
Creator(r) ==
  /\ req[r] \in CreateRequest
  /\ pc[r] \in {"reply", "upsert", "invalidate", "delete"} \/ resp[r] = "created"

OneCreator ==
  \A r \in Requests : Creator(r) =>
    /\ schedule[req[r].room] = req[r].schedule
    /\ \A q \in Requests : Creator(q) /\ req[q].room = req[r].room => q = r

(* A list that is past reading the schedule has stored, or is about to      *)
(* store, every slot of its day, unless an upsert failed.                   *)
ListsFillTheirDay ==
  \A r \in Requests :
    req[r] # None /\ req[r].op = "list" /\ pc[r] \in {"upsert", "listFree"}
        /\ r \notin spoiled =>
      /\ schedule[req[r].room] # None
      /\ Generated(req[r].room, schedule[req[r].room], {req[r].day})
           \subseteq rows \cup (IF pc[r] = "upsert" THEN todo[r] ELSE {})

(* The booking that a cancellation gives back was made, so that its room is *)
(* known from then on.                                                      *)
WritersKnowTheirRoom ==
  \A r \in Requests :
    req[r] # None /\ req[r].op = "cancel" /\ pc[r] \in {"reply", "invalidate", "delete"} =>
      bookings[req[r].booking] # "none"

IInv ==
  /\ TypeOK /\ StepsAgree /\ BookingsAreOfRows /\ SlotsFit /\ OneCreator
  /\ OffersAreRows /\ ListsFillTheirDay /\ ReadsAreFresh
  /\ WritersKnowTheirRoom /\ StaleForCause

-----------------------------------------------------------------------------
(* Initially the tables and the cache are empty and nothing has been asked. *)
LEMMA InitIInv == Init => IInv
  <1> SUFFICES ASSUME Init PROVE IInv
    OBVIOUS
  <1>1. TypeOK
    BY ListingAssumption DEF Init, PingOutcomes, TypeOK, Answers
  <1>2. StepsAgree /\ BookingsAreOfRows /\ SlotsFit
    BY DEF Init, StepsAgree, BookingsAreOfRows, MayBook, SlotsFit, Running, ListSteps, CreateSteps,
           BookSteps, CancelSteps
  <1>3. OneCreator /\ OffersAreRows
    BY DEF Init, OneCreator, Creator, OffersAreRows
  <1>4. ListsFillTheirDay /\ ReadsAreFresh /\ WritersKnowTheirRoom /\ StaleForCause
    BY DEF Init, ListsFillTheirDay, ReadsAreFresh, WritersKnowTheirRoom, StaleForCause, Stale
  <1> QED
    BY <1>1, <1>2, <1>3, <1>4 DEF IInv

(* What a kind of request has, told by its op. *)
LEMMA RequestKinds ==
  /\ None \notin Request
  /\ \A q \in ListRequest : /\ q.op = "list" /\ q \in Request
                           /\ q.room \in Rooms /\ q.spelling \in Spellings /\ q.day \in Days
  /\ \A q \in CreateRequest : /\ q.op = "create" /\ q \in Request
                             /\ q.room \in Rooms /\ q.spelling \in Spellings
                             /\ q.schedule \in Schedules
  /\ \A q \in BookRequest : q.op = "book" /\ q \in Request /\ q.slot \in Slot
  /\ \A q \in CancelRequest : q.op = "cancel" /\ q \in Request /\ q.booking \in Requests
  /\ \A q \in Request : q \in ListRequest \/ q \in CreateRequest
                          \/ q \in BookRequest \/ q \in CancelRequest
  BY ListingAssumption
  DEF Request, ListRequest, CreateRequest, BookRequest, CancelRequest

(* Where a request begins, told by its op. *)
LEMMA Beginnings ==
  ASSUME NEW q \in Request
  PROVE  \/ q \in ListRequest /\ FirstStep[q.op] = "exists"
         \/ q \in CreateRequest /\ FirstStep[q.op] = "insert"
         \/ q \in BookRequest /\ FirstStep[q.op] = "getSlot"
         \/ q \in CancelRequest /\ FirstStep[q.op] = "lookup"
  BY RequestKinds DEF FirstStep

(* What GenerateSlotsForDate gives fits the schedule it was given. *)
LEMMA GeneratedSlots ==
  ASSUME NEW room, NEW sc, NEW days
  PROVE  /\ Generated(room, sc, days) \subseteq Slot
         /\ \A s \in Generated(room, sc, days) :
              s.room = room /\ s.day \in days /\ s.time \in Covers[sc][s.day]
  BY DEF Generated

(* Every step keeps the types. *)
LEMMA NextType ==
  ASSUME TypeOK, StepsAgree, BookingsAreOfRows, [Next]_vars
  PROVE  TypeOK'
  <1> USE DEF TypeOK, Goto, Answer, Excuse, Overtake, Upsert, Running, ListSteps,
              CreateSteps, BookSteps, CancelSteps, Ended, Answers, tables, locals, history
  <1>1. ASSUME NEW q \in Requests, Arrive(q) PROVE TypeOK'
    BY <1>1, Beginnings DEF Arrive
  <1>2. ASSUME NEW q \in Requests, UpsertSlot(q) PROVE TypeOK'
    BY <1>2 DEF UpsertSlot, Firsts
  <1>3. ASSUME NEW q \in Requests, Exists(q) PROVE TypeOK'
    BY <1>3 DEF Exists
  <1>4. ASSUME NEW q \in Requests, CacheHit(q) PROVE TypeOK'
    BY <1>4, RequestKinds DEF CacheHit, StepsAgree, KeyOf, Key
  <1>5. ASSUME NEW q \in Requests, CacheMiss(q) PROVE TypeOK'
    BY <1>5 DEF CacheMiss
  <1>6. ASSUME NEW q \in Requests, ReadSchedule(q) PROVE TypeOK'
    BY <1>6, GeneratedSlots DEF ReadSchedule
  <1>7. ASSUME NEW q \in Requests, ListFree(q) PROVE TypeOK'
    BY <1>7 DEF ListFree, Available
  <1>8. ASSUME NEW q \in Requests, CacheSet(q) PROVE TypeOK'
    <2>1. KeyOf(q) \in Key
      BY <1>8, RequestKinds DEF CacheSet, StepsAgree, KeyOf, Key
    <2> QED
      BY <1>8, <2>1 DEF CacheSet, Store, AnswerUnstored
  <1>9. ASSUME NEW q \in Requests, CacheNotSet(q) PROVE TypeOK'
    BY <1>9 DEF CacheNotSet, AnswerUnstored
  <1>10. ASSUME NEW q \in Requests, CreateSchedule(q) PROVE TypeOK'
    BY <1>10, RequestKinds DEF CreateSchedule, InsertSchedule, WritesNothing, StepsAgree
  <1>11. ASSUME NEW q \in Requests, GetSlot(q) PROVE TypeOK'
    BY <1>11 DEF GetSlot
  <1>12. ASSUME NEW q \in Requests, Book(q) PROVE TypeOK'
    BY <1>12 DEF Book, InsertBooking, WritesNothing
  <1>13. ASSUME NEW q \in Requests, Lookup(q) PROVE TypeOK'
    BY <1>13 DEF Lookup
  <1>14. ASSUME NEW q \in Requests, Cancel(q) PROVE TypeOK'
    BY <1>14 DEF Cancel, UpdateBooking, WritesNothing
  <1>15. ASSUME NEW q \in Requests, Reply(q) PROVE TypeOK'
    BY <1>15, GeneratedSlots DEF Reply, KeysOf
  <1>16. ASSUME NEW q \in Requests, Invalidate(q) PROVE TypeOK'
    BY <1>16 DEF Invalidate, Matching, KeysOf
  <1>17. ASSUME NEW q \in Requests, Delete(q) PROVE TypeOK'
    BY <1>17 DEF Delete, Matching, KeysOf, Drop
  <1>18. ASSUME NEW q \in Requests, Invalidated(q) PROVE TypeOK'
    BY <1>18 DEF Invalidated, Success
  <1>19. ASSUME NEW q \in Requests, InvalidateNothing(q) PROVE TypeOK'
    BY <1>19 DEF InvalidateNothing, KeysOf, Success
  <1>20. ASSUME NEW q \in Requests, UpsertFails(q) PROVE TypeOK'
    BY <1>20 DEF UpsertFails, Firsts
  <1>21. ASSUME NEW q \in Requests, ReplyLost(q) PROVE TypeOK'
    BY <1>21 DEF ReplyLost, KeysOf
  <1>22. ASSUME NEW q \in Requests, NotInvalidated(q) PROVE TypeOK'
    BY <1>22 DEF NotInvalidated, KeysOf, Success
  <1>23. ASSUME NEW q \in Requests, StatementFails(q) PROVE TypeOK'
    BY <1>23 DEF StatementFails
  <1>24. ASSUME NEW q \in Requests, LeftAdrift(q) PROVE TypeOK'
    BY <1>24 DEF LeftAdrift
  <1>25. ASSUME NEW q \in Requests, TakesEffect(q) PROVE TypeOK'
    BY <1>25, RequestKinds
    DEF TakesEffect, InsertSchedule, InsertBooking, UpdateBooking, StepsAgree, KeysOf
  <1>26. ASSUME NEW room \in Rooms, CreateRoom(room) PROVE TypeOK'
    BY <1>26 DEF CreateRoom
  <1>27. ASSUME NEW k0 \in Key, Expire(k0) PROVE TypeOK'
    BY <1>27 DEF Expire, Drop
  <1>28. CASE Crash
    BY <1>28 DEF Crash, CutOff, PingOutcomes
  <1>29. CASE UNCHANGED vars
    BY <1>29 DEF vars
  <1>30. ASSUME NEW q \in Requests, LateSet(q) PROVE TypeOK'
    <2>1. KeyOf(q) \in Key
      BY <1>30, RequestKinds DEF LateSet, StepsAgree, KeyOf, Key
    <2> QED
      BY <1>30, <2>1 DEF LateSet, Store
  <1> QED
    BY <1>1, <1>2, <1>3, <1>4, <1>5, <1>6, <1>7, <1>8, <1>9, <1>10, <1>11, <1>12,
       <1>13, <1>14, <1>15, <1>16, <1>17, <1>18, <1>19, <1>20, <1>21, <1>22, <1>23,
       <1>24, <1>25, <1>26, <1>27, <1>28, <1>29, <1>30
    DEF Next, OtherStep, ListStep, WriteStep, Fault

(* What no step undoes: a request, a room, a schedule, a slot, a booking. *)
LEMMA NothingIsUndone ==
  ASSUME TypeOK, StepsAgree, BookingsAreOfRows, [Next]_vars
  PROVE  /\ \A r \in Requests : req[r] # None => req'[r] = req[r]
         /\ \A room \in Rooms : schedule[room] # None => schedule'[room] = schedule[room]
         /\ rows \subseteq rows' /\ rooms \subseteq rooms'
         /\ \A b \in Requests : bookings[b] # "none" => bookings'[b] # "none"
  <1> USE DEF TypeOK, tables
  <1> DEFINE Kept ==
        /\ \A r \in Requests : req[r] # None => req'[r] = req[r]
        /\ \A room \in Rooms : schedule[room] # None => schedule'[room] = schedule[room]
        /\ rows \subseteq rows' /\ rooms \subseteq rooms'
        /\ \A b \in Requests : bookings[b] # "none" => bookings'[b] # "none"
  <1>1. ASSUME NEW q \in Requests, Arrive(q) PROVE Kept
    BY <1>1 DEF Arrive, StepsAgree
  <1>2. ASSUME NEW q \in Requests, UpsertSlot(q) PROVE Kept
    BY <1>2 DEF UpsertSlot
  <1>3. ASSUME NEW q \in Requests, Exists(q) PROVE Kept
    BY <1>3 DEF Exists
  <1>4. ASSUME NEW q \in Requests, CacheHit(q) PROVE Kept
    BY <1>4 DEF CacheHit
  <1>5. ASSUME NEW q \in Requests, CacheMiss(q) PROVE Kept
    BY <1>5 DEF CacheMiss
  <1>6. ASSUME NEW q \in Requests, ReadSchedule(q) PROVE Kept
    BY <1>6 DEF ReadSchedule
  <1>7. ASSUME NEW q \in Requests, ListFree(q) PROVE Kept
    BY <1>7 DEF ListFree
  <1>8. ASSUME NEW q \in Requests, CacheSet(q) PROVE Kept
    BY <1>8 DEF CacheSet, Store, AnswerUnstored
  <1>9. ASSUME NEW q \in Requests, CacheNotSet(q) PROVE Kept
    BY <1>9 DEF CacheNotSet, AnswerUnstored
  <1>10. ASSUME NEW q \in Requests, CreateSchedule(q) PROVE Kept
    BY <1>10 DEF CreateSchedule, InsertSchedule, WritesNothing, Unscheduled
  <1>11. ASSUME NEW q \in Requests, GetSlot(q) PROVE Kept
    BY <1>11 DEF GetSlot
  <1>12. ASSUME NEW q \in Requests, Book(q) PROVE Kept
    BY <1>12 DEF Book, InsertBooking, WritesNothing
  <1>13. ASSUME NEW q \in Requests, Lookup(q) PROVE Kept
    BY <1>13 DEF Lookup
  <1>14. ASSUME NEW q \in Requests, Cancel(q) PROVE Kept
    BY <1>14 DEF Cancel, UpdateBooking, WritesNothing
  <1>15. ASSUME NEW q \in Requests, Reply(q) PROVE Kept
    BY <1>15 DEF Reply
  <1>16. ASSUME NEW q \in Requests, Invalidate(q) PROVE Kept
    BY <1>16 DEF Invalidate
  <1>17. ASSUME NEW q \in Requests, Delete(q) PROVE Kept
    BY <1>17 DEF Delete
  <1>18. ASSUME NEW q \in Requests, Invalidated(q) PROVE Kept
    BY <1>18 DEF Invalidated
  <1>19. ASSUME NEW q \in Requests, InvalidateNothing(q) PROVE Kept
    BY <1>19 DEF InvalidateNothing
  <1>20. ASSUME NEW q \in Requests, UpsertFails(q) PROVE Kept
    BY <1>20 DEF UpsertFails
  <1>21. ASSUME NEW q \in Requests, ReplyLost(q) PROVE Kept
    BY <1>21 DEF ReplyLost
  <1>22. ASSUME NEW q \in Requests, NotInvalidated(q) PROVE Kept
    BY <1>22 DEF NotInvalidated
  <1>23. ASSUME NEW q \in Requests, StatementFails(q) PROVE Kept
    BY <1>23 DEF StatementFails
  <1>24. ASSUME NEW q \in Requests, LeftAdrift(q) PROVE Kept
    BY <1>24 DEF LeftAdrift
  <1>25. ASSUME NEW q \in Requests, TakesEffect(q) PROVE Kept
    BY <1>25 DEF TakesEffect, InsertSchedule, InsertBooking, UpdateBooking, Unscheduled
  <1>26. ASSUME NEW room \in Rooms, CreateRoom(room) PROVE Kept
    BY <1>26 DEF CreateRoom
  <1>27. ASSUME NEW k0 \in Key, Expire(k0) PROVE Kept
    BY <1>27 DEF Expire
  <1>28. CASE Crash
    BY <1>28 DEF Crash, CutOff
  <1>29. CASE UNCHANGED vars
    BY <1>29 DEF vars
  <1>30. ASSUME NEW q \in Requests, LateSet(q) PROVE Kept
    BY <1>30 DEF LateSet, Store
  <1> QED
    BY <1>1, <1>2, <1>3, <1>4, <1>5, <1>6, <1>7, <1>8, <1>9, <1>10, <1>11, <1>12,
       <1>13, <1>14, <1>15, <1>16, <1>17, <1>18, <1>19, <1>20, <1>21, <1>22, <1>23,
       <1>24, <1>25, <1>26, <1>27, <1>28, <1>29, <1>30
    DEF Next, OtherStep, ListStep, WriteStep, Fault

(* Every step leaves each request at a statement of its kind. *)
LEMMA NextStepsAgree ==
  ASSUME TypeOK, StepsAgree, BookingsAreOfRows, [Next]_vars
  PROVE  StepsAgree'
  <1> USE DEF TypeOK, StepsAgree, Goto, Answer, Upsert, Running, ListSteps,
              CreateSteps, BookSteps, CancelSteps, Success
  <1>1. ASSUME NEW q \in Requests, Arrive(q) PROVE StepsAgree'
    <2>1. PICK q0 \in Request :
            req' = [req EXCEPT ![q] = q0] /\ Goto(q, FirstStep[q0.op])
      BY <1>1 DEF Arrive
    <2> QED
      BY <1>1, <2>1, Beginnings, RequestKinds DEF Arrive
  <1>2. ASSUME NEW q \in Requests, UpsertSlot(q) PROVE StepsAgree'
    BY <1>2, RequestKinds DEF UpsertSlot
  <1>3. ASSUME NEW q \in Requests, Exists(q) PROVE StepsAgree'
    BY <1>3 DEF Exists
  <1>4. ASSUME NEW q \in Requests, CacheHit(q) PROVE StepsAgree'
    BY <1>4 DEF CacheHit
  <1>5. ASSUME NEW q \in Requests, CacheMiss(q) PROVE StepsAgree'
    BY <1>5 DEF CacheMiss
  <1>6. ASSUME NEW q \in Requests, ReadSchedule(q) PROVE StepsAgree'
    BY <1>6, RequestKinds DEF ReadSchedule
  <1>7. ASSUME NEW q \in Requests, ListFree(q) PROVE StepsAgree'
    BY <1>7 DEF ListFree
  <1>8. ASSUME NEW q \in Requests, CacheSet(q) PROVE StepsAgree'
    BY <1>8 DEF CacheSet, Store, AnswerUnstored
  <1>9. ASSUME NEW q \in Requests, CacheNotSet(q) PROVE StepsAgree'
    BY <1>9 DEF CacheNotSet, AnswerUnstored
  <1>10. ASSUME NEW q \in Requests, CreateSchedule(q) PROVE StepsAgree'
    BY <1>10, RequestKinds DEF CreateSchedule, InsertSchedule, WritesNothing
  <1>11. ASSUME NEW q \in Requests, GetSlot(q) PROVE StepsAgree'
    BY <1>11 DEF GetSlot
  <1>12. ASSUME NEW q \in Requests, Book(q) PROVE StepsAgree'
    BY <1>12 DEF Book, InsertBooking, WritesNothing
  <1>13. ASSUME NEW q \in Requests, Lookup(q) PROVE StepsAgree'
    BY <1>13 DEF Lookup
  <1>14. ASSUME NEW q \in Requests, Cancel(q) PROVE StepsAgree'
    BY <1>14 DEF Cancel, UpdateBooking, WritesNothing
  <1>15. ASSUME NEW q \in Requests, Reply(q) PROVE StepsAgree'
    BY <1>15, RequestKinds DEF Reply
  <1>16. ASSUME NEW q \in Requests, Invalidate(q) PROVE StepsAgree'
    BY <1>16 DEF Invalidate
  <1>17. ASSUME NEW q \in Requests, Delete(q) PROVE StepsAgree'
    BY <1>17 DEF Delete
  <1>18. ASSUME NEW q \in Requests, Invalidated(q) PROVE StepsAgree'
    BY <1>18 DEF Invalidated
  <1>19. ASSUME NEW q \in Requests, InvalidateNothing(q) PROVE StepsAgree'
    BY <1>19 DEF InvalidateNothing
  <1>20. ASSUME NEW q \in Requests, UpsertFails(q) PROVE StepsAgree'
    BY <1>20, RequestKinds DEF UpsertFails
  <1>21. ASSUME NEW q \in Requests, ReplyLost(q) PROVE StepsAgree'
    BY <1>21 DEF ReplyLost
  <1>22. ASSUME NEW q \in Requests, NotInvalidated(q) PROVE StepsAgree'
    BY <1>22 DEF NotInvalidated
  <1>23. ASSUME NEW q \in Requests, StatementFails(q) PROVE StepsAgree'
    BY <1>23 DEF StatementFails
  <1>24. ASSUME NEW q \in Requests, LeftAdrift(q) PROVE StepsAgree'
    BY <1>24 DEF LeftAdrift
  <1>25. ASSUME NEW q \in Requests, TakesEffect(q) PROVE StepsAgree'
    BY <1>25 DEF TakesEffect, InsertSchedule, InsertBooking, UpdateBooking
  <1>26. ASSUME NEW room \in Rooms, CreateRoom(room) PROVE StepsAgree'
    BY <1>26 DEF CreateRoom
  <1>27. ASSUME NEW k0 \in Key, Expire(k0) PROVE StepsAgree'
    BY <1>27 DEF Expire
  <1>28. CASE Crash
    BY <1>28 DEF Crash, CutOff
  <1>29. CASE UNCHANGED vars
    BY <1>29 DEF vars
  <1>30. ASSUME NEW q \in Requests, LateSet(q) PROVE StepsAgree'
    BY <1>30 DEF LateSet, Store
  <1> QED
    BY <1>1, <1>2, <1>3, <1>4, <1>5, <1>6, <1>7, <1>8, <1>9, <1>10, <1>11, <1>12,
       <1>13, <1>14, <1>15, <1>16, <1>17, <1>18, <1>19, <1>20, <1>21, <1>22, <1>23,
       <1>24, <1>25, <1>26, <1>27, <1>28, <1>29, <1>30
    DEF Next, OtherStep, ListStep, WriteStep, Fault

(* Only Book makes a booking, and of the slot that GetSlot has found.       *)
LEMMA NextBookings ==
  ASSUME TypeOK, StepsAgree, BookingsAreOfRows, [Next]_vars
  PROVE  BookingsAreOfRows'
  <1> USE DEF TypeOK, StepsAgree, BookingsAreOfRows, MayBook, Goto, Answer, Upsert, Running,
              ListSteps, CreateSteps, BookSteps, CancelSteps, Success, tables
  <1>1. ASSUME NEW q \in Requests, Arrive(q) PROVE BookingsAreOfRows'
    <2>1. PICK q0 \in Request :
            req' = [req EXCEPT ![q] = q0] /\ Goto(q, FirstStep[q0.op])
      BY <1>1 DEF Arrive
    <2> QED
      BY <1>1, <2>1, Beginnings DEF Arrive
  <1>2. ASSUME NEW q \in Requests, UpsertSlot(q) PROVE BookingsAreOfRows'
    BY <1>2 DEF UpsertSlot
  <1>3. ASSUME NEW q \in Requests, Exists(q) PROVE BookingsAreOfRows'
    BY <1>3 DEF Exists
  <1>4. ASSUME NEW q \in Requests, CacheHit(q) PROVE BookingsAreOfRows'
    BY <1>4 DEF CacheHit
  <1>5. ASSUME NEW q \in Requests, CacheMiss(q) PROVE BookingsAreOfRows'
    BY <1>5 DEF CacheMiss
  <1>6. ASSUME NEW q \in Requests, ReadSchedule(q) PROVE BookingsAreOfRows'
    BY <1>6 DEF ReadSchedule
  <1>7. ASSUME NEW q \in Requests, ListFree(q) PROVE BookingsAreOfRows'
    BY <1>7 DEF ListFree
  <1>8. ASSUME NEW q \in Requests, CacheSet(q) PROVE BookingsAreOfRows'
    BY <1>8 DEF CacheSet, Store, AnswerUnstored
  <1>9. ASSUME NEW q \in Requests, CacheNotSet(q) PROVE BookingsAreOfRows'
    BY <1>9 DEF CacheNotSet, AnswerUnstored
  <1>10. ASSUME NEW q \in Requests, CreateSchedule(q) PROVE BookingsAreOfRows'
    BY <1>10 DEF CreateSchedule, InsertSchedule, WritesNothing
  <1>11. ASSUME NEW q \in Requests, GetSlot(q) PROVE BookingsAreOfRows'
    BY <1>11 DEF GetSlot
  <1>12. ASSUME NEW q \in Requests, Book(q) PROVE BookingsAreOfRows'
    BY <1>12 DEF Book, InsertBooking, WritesNothing
  <1>13. ASSUME NEW q \in Requests, Lookup(q) PROVE BookingsAreOfRows'
    BY <1>13 DEF Lookup
  <1>14. ASSUME NEW q \in Requests, Cancel(q) PROVE BookingsAreOfRows'
    BY <1>14 DEF Cancel, UpdateBooking, WritesNothing
  <1>15. ASSUME NEW q \in Requests, Reply(q) PROVE BookingsAreOfRows'
    BY <1>15 DEF Reply
  <1>16. ASSUME NEW q \in Requests, Invalidate(q) PROVE BookingsAreOfRows'
    BY <1>16 DEF Invalidate
  <1>17. ASSUME NEW q \in Requests, Delete(q) PROVE BookingsAreOfRows'
    BY <1>17 DEF Delete
  <1>18. ASSUME NEW q \in Requests, Invalidated(q) PROVE BookingsAreOfRows'
    BY <1>18 DEF Invalidated
  <1>19. ASSUME NEW q \in Requests, InvalidateNothing(q) PROVE BookingsAreOfRows'
    BY <1>19 DEF InvalidateNothing
  <1>20. ASSUME NEW q \in Requests, UpsertFails(q) PROVE BookingsAreOfRows'
    BY <1>20 DEF UpsertFails
  <1>21. ASSUME NEW q \in Requests, ReplyLost(q) PROVE BookingsAreOfRows'
    BY <1>21 DEF ReplyLost
  <1>22. ASSUME NEW q \in Requests, NotInvalidated(q) PROVE BookingsAreOfRows'
    BY <1>22 DEF NotInvalidated
  <1>23. ASSUME NEW q \in Requests, StatementFails(q) PROVE BookingsAreOfRows'
    BY <1>23 DEF StatementFails
  <1>24. ASSUME NEW q \in Requests, LeftAdrift(q) PROVE BookingsAreOfRows'
    BY <1>24, RequestKinds DEF LeftAdrift
  <1>25. ASSUME NEW q \in Requests, TakesEffect(q) PROVE BookingsAreOfRows'
    BY <1>25, RequestKinds DEF TakesEffect, InsertSchedule, InsertBooking, UpdateBooking
  <1>26. ASSUME NEW room \in Rooms, CreateRoom(room) PROVE BookingsAreOfRows'
    BY <1>26 DEF CreateRoom
  <1>27. ASSUME NEW k0 \in Key, Expire(k0) PROVE BookingsAreOfRows'
    BY <1>27 DEF Expire
  <1>28. CASE Crash
    BY <1>28, RequestKinds DEF Crash, CutOff
  <1>29. CASE UNCHANGED vars
    BY <1>29 DEF vars
  <1>30. ASSUME NEW q \in Requests, LateSet(q) PROVE BookingsAreOfRows'
    BY <1>30 DEF LateSet, Store
  <1> QED
    BY <1>1, <1>2, <1>3, <1>4, <1>5, <1>6, <1>7, <1>8, <1>9, <1>10, <1>11, <1>12,
       <1>13, <1>14, <1>15, <1>16, <1>17, <1>18, <1>19, <1>20, <1>21, <1>22, <1>23,
       <1>24, <1>25, <1>26, <1>27, <1>28, <1>29, <1>30
    DEF Next, OtherStep, ListStep, WriteStep, Fault

(* Only two steps choose the slots to upsert, and one stores them. *)
LEMMA WhoUpserts ==
  ASSUME TypeOK, [Next]_vars,
         \A q \in Requests : ~ ReadSchedule(q) /\ ~ Reply(q) /\ ~ UpsertSlot(q)
  PROVE  rows' = rows /\ \A r \in Requests : todo'[r] \subseteq todo[r]
  <1> USE DEF TypeOK, tables, locals
  <1> DEFINE P == rows' = rows /\ \A r \in Requests : todo'[r] \subseteq todo[r]
  <1>1. ASSUME NEW q \in Requests, Arrive(q) PROVE P
    BY <1>1 DEF Arrive
  <1>2. ASSUME NEW q \in Requests, UpsertSlot(q) PROVE P
    BY <1>2 DEF UpsertSlot
  <1>3. ASSUME NEW q \in Requests, Exists(q) PROVE P
    BY <1>3 DEF Exists
  <1>4. ASSUME NEW q \in Requests, CacheHit(q) PROVE P
    BY <1>4 DEF CacheHit
  <1>5. ASSUME NEW q \in Requests, CacheMiss(q) PROVE P
    BY <1>5 DEF CacheMiss
  <1>6. ASSUME NEW q \in Requests, ReadSchedule(q) PROVE P
    BY <1>6 DEF ReadSchedule
  <1>7. ASSUME NEW q \in Requests, ListFree(q) PROVE P
    BY <1>7 DEF ListFree
  <1>8. ASSUME NEW q \in Requests, CacheSet(q) PROVE P
    BY <1>8 DEF CacheSet, Store, AnswerUnstored
  <1>9. ASSUME NEW q \in Requests, CacheNotSet(q) PROVE P
    BY <1>9 DEF CacheNotSet, AnswerUnstored
  <1>10. ASSUME NEW q \in Requests, CreateSchedule(q) PROVE P
    BY <1>10 DEF CreateSchedule, InsertSchedule, WritesNothing
  <1>11. ASSUME NEW q \in Requests, GetSlot(q) PROVE P
    BY <1>11 DEF GetSlot
  <1>12. ASSUME NEW q \in Requests, Book(q) PROVE P
    BY <1>12 DEF Book, InsertBooking, WritesNothing
  <1>13. ASSUME NEW q \in Requests, Lookup(q) PROVE P
    BY <1>13 DEF Lookup
  <1>14. ASSUME NEW q \in Requests, Cancel(q) PROVE P
    BY <1>14 DEF Cancel, UpdateBooking, WritesNothing
  <1>15. ASSUME NEW q \in Requests, Reply(q) PROVE P
    BY <1>15 DEF Reply
  <1>16. ASSUME NEW q \in Requests, Invalidate(q) PROVE P
    BY <1>16 DEF Invalidate
  <1>17. ASSUME NEW q \in Requests, Delete(q) PROVE P
    BY <1>17 DEF Delete
  <1>18. ASSUME NEW q \in Requests, Invalidated(q) PROVE P
    BY <1>18 DEF Invalidated
  <1>19. ASSUME NEW q \in Requests, InvalidateNothing(q) PROVE P
    BY <1>19 DEF InvalidateNothing
  <1>20. ASSUME NEW q \in Requests, UpsertFails(q) PROVE P
    BY <1>20 DEF UpsertFails, Upsert
  <1>21. ASSUME NEW q \in Requests, ReplyLost(q) PROVE P
    BY <1>21 DEF ReplyLost
  <1>22. ASSUME NEW q \in Requests, NotInvalidated(q) PROVE P
    BY <1>22 DEF NotInvalidated
  <1>23. ASSUME NEW q \in Requests, StatementFails(q) PROVE P
    BY <1>23 DEF StatementFails
  <1>24. ASSUME NEW q \in Requests, LeftAdrift(q) PROVE P
    BY <1>24 DEF LeftAdrift
  <1>25. ASSUME NEW q \in Requests, TakesEffect(q) PROVE P
    BY <1>25 DEF TakesEffect, InsertSchedule, InsertBooking, UpdateBooking
  <1>26. ASSUME NEW room \in Rooms, CreateRoom(room) PROVE P
    BY <1>26 DEF CreateRoom
  <1>27. ASSUME NEW k0 \in Key, Expire(k0) PROVE P
    BY <1>27 DEF Expire
  <1>28. CASE Crash
    BY <1>28 DEF Crash, CutOff
  <1>29. CASE UNCHANGED vars
    BY <1>29 DEF vars
  <1>30. ASSUME NEW q \in Requests, LateSet(q) PROVE P
    BY <1>30 DEF LateSet, Store
  <1> QED
    BY <1>1, <1>2, <1>3, <1>4, <1>5, <1>6, <1>7, <1>8, <1>9, <1>10, <1>11, <1>12,
       <1>13, <1>14, <1>15, <1>16, <1>17, <1>18, <1>19, <1>20, <1>21, <1>22, <1>23,
       <1>24, <1>25, <1>26, <1>27, <1>28, <1>29, <1>30
    DEF Next, OtherStep, ListStep, WriteStep, Fault

(* Slots are generated from the schedule, which is there before and after. *)
LEMMA NextSlotsFit ==
  ASSUME IInv, [Next]_vars
  PROVE  SlotsFit'
  <1> USE DEF IInv, TypeOK, SlotsFit
  <1>1. ASSUME NEW s \in Slot, Fits(s)
        PROVE  Fits(s)'
    BY <1>1, NothingIsUndone DEF Fits, Slot
  <1>2. ASSUME NEW q \in Requests, ReadSchedule(q) PROVE SlotsFit'
    <2>1. /\ rows' = rows /\ schedule' = schedule
          /\ \A r \in Requests \ {q} : todo'[r] = todo[r]
          /\ \/ todo'[q] = todo[q]
             \/ /\ schedule[req[q].room] # None
                /\ todo'[q] = Generated(req[q].room, schedule[req[q].room], {req[q].day})
      BY <1>2 DEF ReadSchedule, Upsert, tables
    <2> QED
      BY <1>1, <2>1, GeneratedSlots DEF Fits
  <1>3. ASSUME NEW q \in Requests, Reply(q) PROVE SlotsFit'
    <2>1. /\ rows' = rows /\ schedule' = schedule
          /\ \A r \in Requests \ {q} : todo'[r] = todo[r]
      BY <1>3 DEF Reply, Upsert, tables
    <2>2. CASE req[q].op = "create"
      <3>1. /\ schedule[req[q].room] = req[q].schedule /\ req[q].schedule \in Schedules
            /\ pc[q] = "reply"
        BY <1>3, <2>2, RequestKinds DEF Reply, StepsAgree, OneCreator, Creator
      <3>2. todo'[q] = Generated(req[q].room, req[q].schedule, Week) \/ todo'[q] = todo[q]
        BY <1>3, <2>2 DEF Reply, Upsert
      <3> QED
        BY <1>1, <2>1, <3>1, <3>2, GeneratedSlots, ListingAssumption DEF Fits
    <2>3. CASE req[q].op # "create"
      <3>1. todo'[q] = todo[q]
        BY <1>3, <2>3 DEF Reply
      <3> QED
        BY <1>1, <2>1, <3>1
    <2> QED
      BY <2>2, <2>3
  <1>4. ASSUME NEW q \in Requests, UpsertSlot(q) PROVE SlotsFit'
    <2>1. /\ \E s \in todo[q] : rows' = rows \cup {s}
          /\ \A r \in Requests : todo'[r] \subseteq todo[r]
      BY <1>4 DEF UpsertSlot, Upsert, Firsts
    <2> QED
      BY <1>1, <2>1
  <1>5. CASE \A q \in Requests : ~ ReadSchedule(q) /\ ~ Reply(q) /\ ~ UpsertSlot(q)
    <2>1. rows' = rows /\ \A r \in Requests : todo'[r] \subseteq todo[r]
      BY <1>5, WhoUpserts
    <2> QED
      BY <1>1, <2>1
  <1> QED
    BY <1>2, <1>3, <1>4, <1>5

(* Only an INSERT into schedules that succeeds makes a creator. *)
LEMMA WhoCreates ==
  ASSUME IInv, [Next]_vars,
         \A q \in Requests : ~ (CreateSchedule(q) /\ Unscheduled(req[q].room))
  PROVE  \A r \in Requests : Creator(r)' => Creator(r) /\ req'[r] = req[r]
  <1> USE RequestKinds DEF IInv, TypeOK, Creator, StepsAgree, Goto, Answer, Upsert, Running,
              ListSteps, CreateSteps, BookSteps, CancelSteps, Success, tables
  <1> DEFINE P == \A r \in Requests : Creator(r)' => Creator(r) /\ req'[r] = req[r]
  <1>1. ASSUME NEW q \in Requests, Arrive(q) PROVE P
    <2>1. PICK q0 \in Request :
            req' = [req EXCEPT ![q] = q0] /\ Goto(q, FirstStep[q0.op])
      BY <1>1 DEF Arrive
    <2> QED
      BY <1>1, <2>1, Beginnings DEF Arrive
  <1>2. ASSUME NEW q \in Requests, UpsertSlot(q) PROVE P
    BY <1>2 DEF UpsertSlot
  <1>3. ASSUME NEW q \in Requests, Exists(q) PROVE P
    BY <1>3 DEF Exists
  <1>4. ASSUME NEW q \in Requests, CacheHit(q) PROVE P
    BY <1>4 DEF CacheHit
  <1>5. ASSUME NEW q \in Requests, CacheMiss(q) PROVE P
    BY <1>5 DEF CacheMiss
  <1>6. ASSUME NEW q \in Requests, ReadSchedule(q) PROVE P
    BY <1>6 DEF ReadSchedule
  <1>7. ASSUME NEW q \in Requests, ListFree(q) PROVE P
    BY <1>7 DEF ListFree
  <1>8. ASSUME NEW q \in Requests, CacheSet(q) PROVE P
    BY <1>8 DEF CacheSet, Store, AnswerUnstored
  <1>9. ASSUME NEW q \in Requests, CacheNotSet(q) PROVE P
    BY <1>9 DEF CacheNotSet, AnswerUnstored
  <1>10. ASSUME NEW q \in Requests, CreateSchedule(q) PROVE P
    BY <1>10 DEF CreateSchedule, InsertSchedule, WritesNothing, Unscheduled
  <1>11. ASSUME NEW q \in Requests, GetSlot(q) PROVE P
    BY <1>11 DEF GetSlot
  <1>12. ASSUME NEW q \in Requests, Book(q) PROVE P
    BY <1>12 DEF Book, InsertBooking, WritesNothing
  <1>13. ASSUME NEW q \in Requests, Lookup(q) PROVE P
    BY <1>13 DEF Lookup
  <1>14. ASSUME NEW q \in Requests, Cancel(q) PROVE P
    BY <1>14 DEF Cancel, UpdateBooking, WritesNothing
  <1>15. ASSUME NEW q \in Requests, Reply(q) PROVE P
    BY <1>15 DEF Reply
  <1>16. ASSUME NEW q \in Requests, Invalidate(q) PROVE P
    BY <1>16 DEF Invalidate
  <1>17. ASSUME NEW q \in Requests, Delete(q) PROVE P
    BY <1>17 DEF Delete
  <1>18. ASSUME NEW q \in Requests, Invalidated(q) PROVE P
    BY <1>18 DEF Invalidated
  <1>19. ASSUME NEW q \in Requests, InvalidateNothing(q) PROVE P
    BY <1>19 DEF InvalidateNothing
  <1>20. ASSUME NEW q \in Requests, UpsertFails(q) PROVE P
    BY <1>20 DEF UpsertFails
  <1>21. ASSUME NEW q \in Requests, ReplyLost(q) PROVE P
    BY <1>21 DEF ReplyLost
  <1>22. ASSUME NEW q \in Requests, NotInvalidated(q) PROVE P
    BY <1>22 DEF NotInvalidated
  <1>23. ASSUME NEW q \in Requests, StatementFails(q) PROVE P
    BY <1>23 DEF StatementFails
  <1>24. ASSUME NEW q \in Requests, LeftAdrift(q) PROVE P
    BY <1>24 DEF LeftAdrift
  <1>25. ASSUME NEW q \in Requests, TakesEffect(q) PROVE P
    BY <1>25 DEF TakesEffect, InsertSchedule, InsertBooking, UpdateBooking
  <1>26. ASSUME NEW room \in Rooms, CreateRoom(room) PROVE P
    BY <1>26 DEF CreateRoom
  <1>27. ASSUME NEW k0 \in Key, Expire(k0) PROVE P
    BY <1>27 DEF Expire
  <1>28. CASE Crash
    BY <1>28 DEF Crash, CutOff
  <1>29. CASE UNCHANGED vars
    BY <1>29 DEF vars
  <1>30. ASSUME NEW q \in Requests, LateSet(q) PROVE P
    BY <1>30 DEF LateSet, Store
  <1> QED
    BY <1>1, <1>2, <1>3, <1>4, <1>5, <1>6, <1>7, <1>8, <1>9, <1>10, <1>11, <1>12,
       <1>13, <1>14, <1>15, <1>16, <1>17, <1>18, <1>19, <1>20, <1>21, <1>22, <1>23,
       <1>24, <1>25, <1>26, <1>27, <1>28, <1>29, <1>30
    DEF Next, OtherStep, ListStep, WriteStep, Fault

(* Of several that create the schedule of a room, one inserts it, and keeps *)
(* to what it inserted.                                                     *)
LEMMA NextCreator ==
  ASSUME IInv, [Next]_vars
  PROVE  OneCreator'
  <1> USE DEF IInv, TypeOK, OneCreator
  <1>1. ASSUME NEW q \in Requests, CreateSchedule(q), Unscheduled(req[q].room)
        PROVE  OneCreator'
    <2>1. /\ schedule' = [schedule EXCEPT ![req[q].room] = req[q].schedule]
          /\ schedule[req[q].room] = None /\ req' = req
          /\ req[q] \in CreateRequest /\ req[q].room \in Rooms
          /\ \A r \in Requests \ {q} : pc'[r] = pc[r] /\ resp'[r] = resp[r]
      BY <1>1, RequestKinds, ListingAssumption
      DEF CreateSchedule, InsertSchedule, Unscheduled, StepsAgree, Goto, Answer
    <2>2. \A r \in Requests \ {q} : Creator(r)' => Creator(r) /\ req[r].room # req[q].room
      BY <2>1, RequestKinds, ListingAssumption DEF Creator
    <2> QED
      BY <2>1, <2>2, RequestKinds DEF Creator
  <1>2. CASE \A q \in Requests : ~ (CreateSchedule(q) /\ Unscheduled(req[q].room))
    <2>1. \A r \in Requests : Creator(r)' => Creator(r) /\ req'[r] = req[r]
      BY <1>2, WhoCreates
    <2>2. \A r \in Requests : Creator(r) => schedule'[req[r].room] = req[r].schedule
      BY NothingIsUndone, RequestKinds, ListingAssumption DEF Creator
    <2> QED
      BY <2>1, <2>2
  <1> QED
    BY <1>1, <1>2

(* A list answers with rows, and stores no others. *)
LEMMA NextOffers ==
  ASSUME IInv, [Next]_vars
  PROVE  OffersAreRows'
  <1> USE NothingIsUndone DEF IInv, TypeOK, OffersAreRows, tables, locals
  <1> DEFINE P == OffersAreRows'
  <1>1. ASSUME NEW q \in Requests, Arrive(q) PROVE P
    BY <1>1 DEF Arrive
  <1>2. ASSUME NEW q \in Requests, UpsertSlot(q) PROVE P
    BY <1>2 DEF UpsertSlot
  <1>3. ASSUME NEW q \in Requests, Exists(q) PROVE P
    BY <1>3 DEF Exists
  <1>4. ASSUME NEW q \in Requests, CacheHit(q) PROVE P
    <2>1. KeyOf(q) \in Key /\ cache[KeyOf(q)] # None
      BY <1>4, RequestKinds DEF CacheHit, StepsAgree, KeyOf, Key, ListSteps
    <2> QED
      BY <1>4, <2>1 DEF CacheHit
  <1>5. ASSUME NEW q \in Requests, CacheMiss(q) PROVE P
    BY <1>5 DEF CacheMiss
  <1>6. ASSUME NEW q \in Requests, ReadSchedule(q) PROVE P
    BY <1>6 DEF ReadSchedule
  <1>7. ASSUME NEW q \in Requests, ListFree(q) PROVE P
    BY <1>7 DEF ListFree, Available
  <1>8. ASSUME NEW q \in Requests, CacheSet(q) PROVE P
    BY <1>8 DEF CacheSet, Store, AnswerUnstored
  <1>9. ASSUME NEW q \in Requests, CacheNotSet(q) PROVE P
    BY <1>9 DEF CacheNotSet, AnswerUnstored
  <1>10. ASSUME NEW q \in Requests, CreateSchedule(q) PROVE P
    BY <1>10 DEF CreateSchedule, InsertSchedule, WritesNothing
  <1>11. ASSUME NEW q \in Requests, GetSlot(q) PROVE P
    BY <1>11 DEF GetSlot
  <1>12. ASSUME NEW q \in Requests, Book(q) PROVE P
    BY <1>12 DEF Book, InsertBooking, WritesNothing
  <1>13. ASSUME NEW q \in Requests, Lookup(q) PROVE P
    BY <1>13 DEF Lookup
  <1>14. ASSUME NEW q \in Requests, Cancel(q) PROVE P
    BY <1>14 DEF Cancel, UpdateBooking, WritesNothing
  <1>15. ASSUME NEW q \in Requests, Reply(q) PROVE P
    BY <1>15 DEF Reply
  <1>16. ASSUME NEW q \in Requests, Invalidate(q) PROVE P
    BY <1>16 DEF Invalidate
  <1>17. ASSUME NEW q \in Requests, Delete(q) PROVE P
    BY <1>17 DEF Delete, Drop, Matching, KeysOf
  <1>18. ASSUME NEW q \in Requests, Invalidated(q) PROVE P
    BY <1>18 DEF Invalidated
  <1>19. ASSUME NEW q \in Requests, InvalidateNothing(q) PROVE P
    BY <1>19 DEF InvalidateNothing
  <1>20. ASSUME NEW q \in Requests, UpsertFails(q) PROVE P
    BY <1>20 DEF UpsertFails
  <1>21. ASSUME NEW q \in Requests, ReplyLost(q) PROVE P
    BY <1>21 DEF ReplyLost
  <1>22. ASSUME NEW q \in Requests, NotInvalidated(q) PROVE P
    BY <1>22 DEF NotInvalidated
  <1>23. ASSUME NEW q \in Requests, StatementFails(q) PROVE P
    BY <1>23 DEF StatementFails
  <1>24. ASSUME NEW q \in Requests, LeftAdrift(q) PROVE P
    BY <1>24 DEF LeftAdrift
  <1>25. ASSUME NEW q \in Requests, TakesEffect(q) PROVE P
    BY <1>25 DEF TakesEffect, InsertSchedule, InsertBooking, UpdateBooking
  <1>26. ASSUME NEW room \in Rooms, CreateRoom(room) PROVE P
    BY <1>26 DEF CreateRoom
  <1>27. ASSUME NEW k0 \in Key, Expire(k0) PROVE P
    BY <1>27 DEF Expire, Drop
  <1>28. CASE Crash
    BY <1>28 DEF Crash, CutOff
  <1>29. CASE UNCHANGED vars
    BY <1>29 DEF vars
  <1>30. ASSUME NEW q \in Requests, LateSet(q) PROVE P
    BY <1>30 DEF LateSet, Store
  <1> QED
    BY <1>1, <1>2, <1>3, <1>4, <1>5, <1>6, <1>7, <1>8, <1>9, <1>10, <1>11, <1>12,
       <1>13, <1>14, <1>15, <1>16, <1>17, <1>18, <1>19, <1>20, <1>21, <1>22, <1>23,
       <1>24, <1>25, <1>26, <1>27, <1>28, <1>29, <1>30
    DEF Next, OtherStep, ListStep, WriteStep, Fault

(* A cancellation past its first statement is of a booking that was made. *)
LEMMA NextWriters ==
  ASSUME IInv, [Next]_vars
  PROVE  WritersKnowTheirRoom'
  <1> USE NothingIsUndone, RequestKinds
      DEF IInv, TypeOK, StepsAgree, WritersKnowTheirRoom, tables, locals, Goto, Answer,
          Upsert, Running, ListSteps, CreateSteps, BookSteps, CancelSteps
  <1> DEFINE P == WritersKnowTheirRoom'
  <1>1. ASSUME NEW q \in Requests, Arrive(q) PROVE P
    <2>1. PICK q0 \in Request :
            req' = [req EXCEPT ![q] = q0] /\ Goto(q, FirstStep[q0.op])
      BY <1>1 DEF Arrive
    <2> QED
      BY <1>1, <2>1, Beginnings DEF Arrive
  <1>2. ASSUME NEW q \in Requests, UpsertSlot(q) PROVE P
    BY <1>2 DEF UpsertSlot
  <1>3. ASSUME NEW q \in Requests, Exists(q) PROVE P
    BY <1>3 DEF Exists
  <1>4. ASSUME NEW q \in Requests, CacheHit(q) PROVE P
    BY <1>4 DEF CacheHit
  <1>5. ASSUME NEW q \in Requests, CacheMiss(q) PROVE P
    BY <1>5 DEF CacheMiss
  <1>6. ASSUME NEW q \in Requests, ReadSchedule(q) PROVE P
    BY <1>6 DEF ReadSchedule
  <1>7. ASSUME NEW q \in Requests, ListFree(q) PROVE P
    BY <1>7 DEF ListFree
  <1>8. ASSUME NEW q \in Requests, CacheSet(q) PROVE P
    BY <1>8 DEF CacheSet, Store, AnswerUnstored
  <1>9. ASSUME NEW q \in Requests, CacheNotSet(q) PROVE P
    BY <1>9 DEF CacheNotSet, AnswerUnstored
  <1>10. ASSUME NEW q \in Requests, CreateSchedule(q) PROVE P
    BY <1>10 DEF CreateSchedule, InsertSchedule, WritesNothing
  <1>11. ASSUME NEW q \in Requests, GetSlot(q) PROVE P
    BY <1>11 DEF GetSlot
  <1>12. ASSUME NEW q \in Requests, Book(q) PROVE P
    BY <1>12 DEF Book, InsertBooking, WritesNothing
  <1>13. ASSUME NEW q \in Requests, Lookup(q) PROVE P
    BY <1>13 DEF Lookup
  <1>14. ASSUME NEW q \in Requests, Cancel(q) PROVE P
    BY <1>14 DEF Cancel, UpdateBooking, WritesNothing
  <1>15. ASSUME NEW q \in Requests, Reply(q) PROVE P
    BY <1>15 DEF Reply
  <1>16. ASSUME NEW q \in Requests, Invalidate(q) PROVE P
    BY <1>16 DEF Invalidate
  <1>17. ASSUME NEW q \in Requests, Delete(q) PROVE P
    BY <1>17 DEF Delete
  <1>18. ASSUME NEW q \in Requests, Invalidated(q) PROVE P
    BY <1>18 DEF Invalidated
  <1>19. ASSUME NEW q \in Requests, InvalidateNothing(q) PROVE P
    BY <1>19 DEF InvalidateNothing
  <1>20. ASSUME NEW q \in Requests, UpsertFails(q) PROVE P
    BY <1>20 DEF UpsertFails
  <1>21. ASSUME NEW q \in Requests, ReplyLost(q) PROVE P
    BY <1>21 DEF ReplyLost
  <1>22. ASSUME NEW q \in Requests, NotInvalidated(q) PROVE P
    BY <1>22 DEF NotInvalidated
  <1>23. ASSUME NEW q \in Requests, StatementFails(q) PROVE P
    BY <1>23 DEF StatementFails
  <1>24. ASSUME NEW q \in Requests, LeftAdrift(q) PROVE P
    BY <1>24 DEF LeftAdrift
  <1>25. ASSUME NEW q \in Requests, TakesEffect(q) PROVE P
    BY <1>25 DEF TakesEffect, InsertSchedule, InsertBooking, UpdateBooking
  <1>26. ASSUME NEW room \in Rooms, CreateRoom(room) PROVE P
    BY <1>26 DEF CreateRoom
  <1>27. ASSUME NEW k0 \in Key, Expire(k0) PROVE P
    BY <1>27 DEF Expire
  <1>28. CASE Crash
    BY <1>28 DEF Crash, CutOff
  <1>29. CASE UNCHANGED vars
    BY <1>29 DEF vars
  <1>30. ASSUME NEW q \in Requests, LateSet(q) PROVE P
    BY <1>30 DEF LateSet, Store
  <1> QED
    BY <1>1, <1>2, <1>3, <1>4, <1>5, <1>6, <1>7, <1>8, <1>9, <1>10, <1>11, <1>12,
       <1>13, <1>14, <1>15, <1>16, <1>17, <1>18, <1>19, <1>20, <1>21, <1>22, <1>23,
       <1>24, <1>25, <1>26, <1>27, <1>28, <1>29, <1>30
    DEF Next, OtherStep, ListStep, WriteStep, Fault

(* Who moves a list that upserts, and what forgets that it was overtaken.   *)
LEMMA WhoFills ==
  ASSUME IInv, [Next]_vars,
         \A q \in Requests : ~ ReadSchedule(q) /\ ~ UpsertSlot(q) /\ ~ UpsertFails(q)
  PROVE  /\ \A r \in Requests : pc'[r] \in {"upsert", "listFree"} /\ req'[r].op = "list" =>
              pc'[r] = pc[r] /\ todo'[r] = todo[r] /\ req'[r] = req[r]
         /\ spoiled \subseteq spoiled'
  <1> USE RequestKinds
      DEF IInv, TypeOK, StepsAgree, tables, locals, history, Goto, Answer, Overtake,
          Upsert, Running, ListSteps, CreateSteps, BookSteps, CancelSteps
  <1> DEFINE P ==
        /\ \A r \in Requests : pc'[r] \in {"upsert", "listFree"} /\ req'[r].op = "list" =>
             pc'[r] = pc[r] /\ todo'[r] = todo[r] /\ req'[r] = req[r]
        /\ spoiled \subseteq spoiled'
  <1>1. ASSUME NEW q \in Requests, Arrive(q) PROVE P
    <2>1. PICK q0 \in Request :
            req' = [req EXCEPT ![q] = q0] /\ Goto(q, FirstStep[q0.op])
      BY <1>1 DEF Arrive
    <2> QED
      BY <1>1, <2>1, Beginnings DEF Arrive
  <1>2. ASSUME NEW q \in Requests, UpsertSlot(q) PROVE P
    BY <1>2 DEF UpsertSlot
  <1>3. ASSUME NEW q \in Requests, Exists(q) PROVE P
    BY <1>3 DEF Exists
  <1>4. ASSUME NEW q \in Requests, CacheHit(q) PROVE P
    BY <1>4 DEF CacheHit
  <1>5. ASSUME NEW q \in Requests, CacheMiss(q) PROVE P
    BY <1>5 DEF CacheMiss
  <1>6. ASSUME NEW q \in Requests, ReadSchedule(q) PROVE P
    BY <1>6 DEF ReadSchedule
  <1>7. ASSUME NEW q \in Requests, ListFree(q) PROVE P
    BY <1>7 DEF ListFree
  <1>8. ASSUME NEW q \in Requests, CacheSet(q) PROVE P
    BY <1>8 DEF CacheSet, Store, AnswerUnstored
  <1>9. ASSUME NEW q \in Requests, CacheNotSet(q) PROVE P
    BY <1>9 DEF CacheNotSet, AnswerUnstored
  <1>10. ASSUME NEW q \in Requests, CreateSchedule(q) PROVE P
    BY <1>10 DEF CreateSchedule, InsertSchedule, WritesNothing
  <1>11. ASSUME NEW q \in Requests, GetSlot(q) PROVE P
    BY <1>11 DEF GetSlot
  <1>12. ASSUME NEW q \in Requests, Book(q) PROVE P
    BY <1>12 DEF Book, InsertBooking, WritesNothing
  <1>13. ASSUME NEW q \in Requests, Lookup(q) PROVE P
    BY <1>13 DEF Lookup
  <1>14. ASSUME NEW q \in Requests, Cancel(q) PROVE P
    BY <1>14 DEF Cancel, UpdateBooking, WritesNothing
  <1>15. ASSUME NEW q \in Requests, Reply(q) PROVE P
    BY <1>15 DEF Reply
  <1>16. ASSUME NEW q \in Requests, Invalidate(q) PROVE P
    BY <1>16 DEF Invalidate
  <1>17. ASSUME NEW q \in Requests, Delete(q) PROVE P
    BY <1>17 DEF Delete
  <1>18. ASSUME NEW q \in Requests, Invalidated(q) PROVE P
    BY <1>18 DEF Invalidated
  <1>19. ASSUME NEW q \in Requests, InvalidateNothing(q) PROVE P
    BY <1>19 DEF InvalidateNothing
  <1>20. ASSUME NEW q \in Requests, UpsertFails(q) PROVE P
    BY <1>20 DEF UpsertFails
  <1>21. ASSUME NEW q \in Requests, ReplyLost(q) PROVE P
    BY <1>21 DEF ReplyLost
  <1>22. ASSUME NEW q \in Requests, NotInvalidated(q) PROVE P
    BY <1>22 DEF NotInvalidated
  <1>23. ASSUME NEW q \in Requests, StatementFails(q) PROVE P
    BY <1>23 DEF StatementFails
  <1>24. ASSUME NEW q \in Requests, LeftAdrift(q) PROVE P
    BY <1>24 DEF LeftAdrift
  <1>25. ASSUME NEW q \in Requests, TakesEffect(q) PROVE P
    BY <1>25 DEF TakesEffect, InsertSchedule, InsertBooking, UpdateBooking
  <1>26. ASSUME NEW room \in Rooms, CreateRoom(room) PROVE P
    BY <1>26 DEF CreateRoom
  <1>27. ASSUME NEW k0 \in Key, Expire(k0) PROVE P
    BY <1>27 DEF Expire
  <1>28. CASE Crash
    BY <1>28 DEF Crash, CutOff
  <1>29. CASE UNCHANGED vars
    BY <1>29 DEF vars
  <1>30. ASSUME NEW q \in Requests, LateSet(q) PROVE P
    BY <1>30 DEF LateSet, Store
  <1> QED
    BY <1>1, <1>2, <1>3, <1>4, <1>5, <1>6, <1>7, <1>8, <1>9, <1>10, <1>11, <1>12,
       <1>13, <1>14, <1>15, <1>16, <1>17, <1>18, <1>19, <1>20, <1>21, <1>22, <1>23,
       <1>24, <1>25, <1>26, <1>27, <1>28, <1>29, <1>30
    DEF Next, OtherStep, ListStep, WriteStep, Fault

(* A list that is not overtaken by an error stores its whole day. *)
LEMMA NextFill ==
  ASSUME IInv, [Next]_vars
  PROVE  ListsFillTheirDay'
  <1> USE NothingIsUndone DEF IInv, TypeOK, ListsFillTheirDay
  <1> DEFINE Full(r) ==
        req[r] # None /\ req[r].op = "list" /\ pc[r] \in {"upsert", "listFree"}
            /\ r \notin spoiled =>
          /\ schedule[req[r].room] # None
          /\ Generated(req[r].room, schedule[req[r].room], {req[r].day})
               \subseteq rows \cup (IF pc[r] = "upsert" THEN todo[r] ELSE {})
  <1>1. ASSUME NEW r \in Requests, req'[r] = req[r], pc'[r] = pc[r], todo'[r] = todo[r],
               spoiled \subseteq spoiled'
        PROVE  Full(r)'
    <2>1. pc[r] \in {"upsert", "listFree"} /\ req[r].op = "list" => req[r].room \in Rooms
      BY RequestKinds DEF StepsAgree, ListSteps
    <2> QED
      BY <1>1, <2>1
  <1>2. ASSUME NEW q \in Requests, ReadSchedule(q) PROVE ListsFillTheirDay'
    <2>1. /\ schedule' = schedule /\ rows' = rows /\ req' = req /\ spoiled' = spoiled
          /\ \A r \in Requests \ {q} : pc'[r] = pc[r] /\ todo'[r] = todo[r]
      BY <1>2 DEF ReadSchedule, Upsert, Goto, tables, history
    <2>2. \/ pc'[q] = "cacheSet"
          \/ /\ schedule[req[q].room] # None
             /\ todo'[q] = Generated(req[q].room, schedule[req[q].room], {req[q].day})
             /\ pc'[q] # "upsert" => todo'[q] = {}
      BY <1>2 DEF ReadSchedule, Upsert, Goto
    <2>3. Full(q)'
      BY <2>1, <2>2
    <2> QED
      BY <1>1, <2>1, <2>3
  <1>3. ASSUME NEW q \in Requests, UpsertSlot(q) PROVE ListsFillTheirDay'
    <2>1. /\ schedule' = schedule /\ req' = req /\ spoiled' = spoiled
          /\ \A r \in Requests \ {q} : pc'[r] = pc[r] /\ todo'[r] = todo[r]
      BY <1>3 DEF UpsertSlot, Upsert, Goto, history
    <2>2. PICK s \in todo[q] :
            /\ rows' = rows \cup {s} /\ todo'[q] = todo[q] \ {s}
            /\ pc[q] = "upsert" /\ (pc'[q] # "upsert" => todo'[q] = {})
      BY <1>3 DEF UpsertSlot, Upsert, Goto, Firsts
    <2>3. Full(q)'
      <3>1. Full(q)
        OBVIOUS
      <3>2. rows \cup todo[q] \subseteq rows' \cup todo'[q]
        BY <2>2
      <3>3. pc'[q] # "upsert" => rows \cup todo[q] \subseteq rows'
        BY <2>2
      <3> QED
        BY <2>1, <2>2, <3>1, <3>2, <3>3
    <2> QED
      BY <1>1, <2>1, <2>3
  <1>4. ASSUME NEW q \in Requests, UpsertFails(q) PROVE ListsFillTheirDay'
    <2>1. /\ req' = req /\ spoiled \subseteq spoiled'
          /\ req[q].op = "list" => q \in spoiled'
          /\ \A r \in Requests \ {q} : pc'[r] = pc[r] /\ todo'[r] = todo[r]
      BY <1>4 DEF UpsertFails, Upsert, Goto
    <2> QED
      BY <1>1, <2>1
  <1>5. CASE \A q \in Requests : ~ ReadSchedule(q) /\ ~ UpsertSlot(q) /\ ~ UpsertFails(q)
    BY <1>1, <1>5, WhoFills
  <1> QED
    BY <1>2, <1>3, <1>4, <1>5

-----------------------------------------------------------------------------
(* What a list would answer changes with the tables only. *)
LEMMA FreshStays ==
  ASSUME IInv, [Next]_vars, schedule' = schedule, bookings' = bookings
  PROVE  \A room \in Rooms, day \in Days : Fresh(room, day)' = Fresh(room, day)
  <1>1. \A s \in Slot : Taken(s)' <=> Taken(s)
    BY NothingIsUndone, RequestKinds DEF IInv, BookingsAreOfRows, Taken
  <1>2. \A room, sc, days : Generated(room, sc, days) \subseteq Slot
    BY GeneratedSlots
  <1> QED
    BY <1>1, <1>2 DEF Fresh

(* w carries out a statement that writes: its request is about to learn so, *)
(* or has ended, and nothing will be invalidated.                           *)
Writes(w) ==
  /\ \/ pc[w] \in {"insert", "adrift"} /\ req[w] \in CreateRequest /\ InsertSchedule(w)
     \/ MayBook(w) /\ req[w] \in BookRequest /\ InsertBooking(w)
     \/ pc[w] \in {"cancel", "adrift"} /\ req[w] \in CancelRequest /\ UpdateBooking(w)
  /\ UNCHANGED <<rooms, rows, req, seen, cache, scan>>
  /\ \A v \in Requests \ {w} : pc'[v] = pc[v]
  /\ pc'[w] \in {"reply", "dead"} /\ resp' = resp
  /\ excused \subseteq excused'
  /\ pc'[w] = "reply" \/ \A k \in KeysOf(RoomOf(w)) : Stale(k)' => k \in excused'

(* What follows: the lists of its room may have a new answer, and those     *)
(* that it overtook are known.                                              *)
Wrote(w) ==
  /\ Writes(w)
  /\ pc[w] \in {"insert", "book", "cancel", "adrift"}
  /\ spoiled \subseteq spoiled'
  /\ RoomOf(w)' = RoomOf(w)
  /\ \A room \in Rooms, day \in Days : Fresh(room, day)' # Fresh(room, day) =>
       /\ room = RoomOf(w)
       /\ \A h \in Requests :
            pc[h] \in {"cacheSet", "unstored"} /\ req[h].room = room /\ req[h].day = day =>
              h \in spoiled'

(* Who changes the tables. *)
LEMMA WhoChangesTables ==
  ASSUME TypeOK, StepsAgree, [Next]_vars
  PROVE  \/ UNCHANGED tables
         \/ \E room \in Rooms : CreateRoom(room)
         \/ \E w \in Requests : UpsertSlot(w) \/ Writes(w)
  <1> USE DEF tables
  <1> DEFINE P == \/ UNCHANGED tables
                  \/ \E room \in Rooms : CreateRoom(room)
                  \/ \E w \in Requests : UpsertSlot(w) \/ Writes(w)
  <1>1. ASSUME NEW q \in Requests, Arrive(q) PROVE P
    BY <1>1 DEF Arrive
  <1>2. ASSUME NEW q \in Requests, UpsertSlot(q) PROVE P
    BY <1>2 DEF UpsertSlot
  <1>3. ASSUME NEW q \in Requests, Exists(q) PROVE P
    BY <1>3 DEF Exists
  <1>4. ASSUME NEW q \in Requests, CacheHit(q) PROVE P
    BY <1>4 DEF CacheHit
  <1>5. ASSUME NEW q \in Requests, CacheMiss(q) PROVE P
    BY <1>5 DEF CacheMiss
  <1>6. ASSUME NEW q \in Requests, ReadSchedule(q) PROVE P
    BY <1>6 DEF ReadSchedule
  <1>7. ASSUME NEW q \in Requests, ListFree(q) PROVE P
    BY <1>7 DEF ListFree
  <1>8. ASSUME NEW q \in Requests, CacheSet(q) PROVE P
    BY <1>8 DEF CacheSet, Store, AnswerUnstored
  <1>9. ASSUME NEW q \in Requests, CacheNotSet(q) PROVE P
    BY <1>9 DEF CacheNotSet, AnswerUnstored
  <1>10. ASSUME NEW q \in Requests, CreateSchedule(q) PROVE P
    BY <1>10 DEF CreateSchedule, WritesNothing, Writes, InsertSchedule, StepsAgree, TypeOK,
                 Goto, locals
  <1>11. ASSUME NEW q \in Requests, GetSlot(q) PROVE P
    BY <1>11 DEF GetSlot
  <1>12. ASSUME NEW q \in Requests, Book(q) PROVE P
    BY <1>12
    DEF Book, WritesNothing, Writes, MayBook, InsertBooking, StepsAgree, TypeOK, Goto, locals
  <1>13. ASSUME NEW q \in Requests, Lookup(q) PROVE P
    BY <1>13 DEF Lookup
  <1>14. ASSUME NEW q \in Requests, Cancel(q) PROVE P
    BY <1>14
    DEF Cancel, WritesNothing, Writes, UpdateBooking, StepsAgree, TypeOK, Goto, locals
  <1>15. ASSUME NEW q \in Requests, Reply(q) PROVE P
    BY <1>15 DEF Reply
  <1>16. ASSUME NEW q \in Requests, Invalidate(q) PROVE P
    BY <1>16 DEF Invalidate
  <1>17. ASSUME NEW q \in Requests, Delete(q) PROVE P
    BY <1>17 DEF Delete
  <1>18. ASSUME NEW q \in Requests, Invalidated(q) PROVE P
    BY <1>18 DEF Invalidated
  <1>19. ASSUME NEW q \in Requests, InvalidateNothing(q) PROVE P
    BY <1>19 DEF InvalidateNothing
  <1>20. ASSUME NEW q \in Requests, UpsertFails(q) PROVE P
    BY <1>20 DEF UpsertFails
  <1>21. ASSUME NEW q \in Requests, ReplyLost(q) PROVE P
    BY <1>21 DEF ReplyLost
  <1>22. ASSUME NEW q \in Requests, NotInvalidated(q) PROVE P
    BY <1>22 DEF NotInvalidated
  <1>23. ASSUME NEW q \in Requests, StatementFails(q) PROVE P
    BY <1>23 DEF StatementFails
  <1>24. ASSUME NEW q \in Requests, LeftAdrift(q) PROVE P
    BY <1>24 DEF LeftAdrift
  <1>25. ASSUME NEW q \in Requests, TakesEffect(q) PROVE P
    <2>1. /\ pc[q] = "adrift" /\ UNCHANGED <<rooms, rows, req, seen, cache, scan>>
          /\ \A v \in Requests \ {q} : pc'[v] = pc[v]
          /\ pc'[q] = "dead" /\ resp' = resp
          /\ excused \subseteq excused'
          /\ \A k \in KeysOf(RoomOf(q)) : Stale(k)' => k \in excused'
      BY <1>25 DEF TakesEffect, TypeOK, locals
    <2>2. \/ req[q] \in CreateRequest /\ InsertSchedule(q)
          \/ req[q] \in BookRequest /\ InsertBooking(q)
          \/ req[q] \in CancelRequest /\ UpdateBooking(q)
      BY <1>25, <2>1, RequestKinds DEF TakesEffect, StepsAgree
    <2> QED
      BY <2>1, <2>2 DEF Writes, MayBook
  <1>26. ASSUME NEW room \in Rooms, CreateRoom(room) PROVE P
    BY <1>26 DEF CreateRoom
  <1>27. ASSUME NEW k0 \in Key, Expire(k0) PROVE P
    BY <1>27 DEF Expire
  <1>28. CASE Crash
    BY <1>28 DEF Crash, CutOff
  <1>29. CASE UNCHANGED vars
    BY <1>29 DEF vars
  <1>30. ASSUME NEW q \in Requests, LateSet(q) PROVE P
    BY <1>30 DEF LateSet, Store
  <1> QED
    BY <1>1, <1>2, <1>3, <1>4, <1>5, <1>6, <1>7, <1>8, <1>9, <1>10, <1>11, <1>12,
       <1>13, <1>14, <1>15, <1>16, <1>17, <1>18, <1>19, <1>20, <1>21, <1>22, <1>23,
       <1>24, <1>25, <1>26, <1>27, <1>28, <1>29, <1>30
    DEF Next, OtherStep, ListStep, WriteStep, Fault

(* The tables that a list reads change by a request that writes, and it is  *)
(* left to invalidate what it made wrong.                                   *)
LEMMA WhoWrites ==
  ASSUME IInv, [Next]_vars
  PROVE  \/ schedule' = schedule /\ bookings' = bookings
         \/ \E w \in Requests : Wrote(w)
  <1> USE DEF IInv, TypeOK
  <1>1. ASSUME NEW w \in Requests, Writes(w), req[w] \in CreateRequest
        PROVE  Wrote(w)
    <2>1. /\ req[w].room \in Rooms /\ req[w].op = "create"
          /\ pc[w] \in {"insert", "adrift"} /\ UNCHANGED <<req, bookings>>
          /\ schedule' = [schedule EXCEPT ![req[w].room] = req[w].schedule]
          /\ spoiled' = spoiled \cup
               {h \in Requests : /\ pc[h] \in {"cacheSet", "unstored"}
                                 /\ req[h].room = req[w].room /\ req[h].day \in Days}
      BY <1>1, RequestKinds DEF Writes, InsertSchedule, Overtake
    <2>2. \A s \in Slot : Taken(s)' <=> Taken(s)
      BY <2>1 DEF Taken
    <2>3. \A room, sc, days : Generated(room, sc, days) \subseteq Slot
      BY GeneratedSlots
    <2>4. \A room \in Rooms, day \in Days : room # req[w].room =>
            Fresh(room, day)' = Fresh(room, day)
      BY <2>1, <2>2, <2>3 DEF Fresh
    <2> QED
      BY <1>1, <2>1, <2>4 DEF Wrote, RoomOf
  <1>2. ASSUME NEW w \in Requests, Writes(w), NEW s0 \in Slot,
               pc[w] \in {"book", "cancel", "adrift"}, schedule' = schedule,
               RoomOf(w) = s0.room, Overtake(s0.room, {s0.day}),
               \A s \in Slot \ {s0} : Taken(s)' <=> Taken(s)
        PROVE  Wrote(w)
    <2>1. req' = req /\ RoomOf(w)' = RoomOf(w)
      BY <1>2 DEF Writes, RoomOf, SlotOf
    <2>2. \A room \in Rooms, day \in Days : room # s0.room \/ day # s0.day =>
            Fresh(room, day)' = Fresh(room, day)
      <3>1. ASSUME NEW room \in Rooms, NEW day \in Days, room # s0.room \/ day # s0.day,
                   NEW s \in Generated(room, schedule[room], {day})
            PROVE  Taken(s)' <=> Taken(s)
        BY <1>2, <3>1, GeneratedSlots
      <3> QED
        BY <1>2, <3>1 DEF Fresh
    <2> QED
      BY <1>2, <2>1, <2>2 DEF Wrote, Overtake
  <1>3. ASSUME NEW w \in Requests, Writes(w), req[w] \in BookRequest
        PROVE  Wrote(w)
    <2>1. /\ MayBook(w) /\ UNCHANGED <<req, schedule>>
          /\ bookings' = [bookings EXCEPT ![w] = "active"]
          /\ Overtake(req[w].slot.room, {req[w].slot.day})
          /\ req[w].slot \in Slot /\ req[w].op = "book"
      BY <1>3, RequestKinds DEF Writes, InsertBooking
    <2>2. bookings[w] = "none"
      BY <2>1 DEF BookingsAreOfRows
    <2>3. \A s \in Slot \ {req[w].slot} : Taken(s)' <=> Taken(s)
      BY <2>1, <2>2 DEF Taken
    <2>4. RoomOf(w) = req[w].slot.room
      BY <2>1 DEF RoomOf, SlotOf
    <2> QED
      BY <1>2, <1>3, <2>1, <2>3, <2>4 DEF MayBook
  <1>4. ASSUME NEW w \in Requests, Writes(w), req[w] \in CancelRequest
        PROVE  Wrote(w)
    <2> DEFINE b == req[w].booking
    <2>1. /\ pc[w] \in {"cancel", "adrift"} /\ UNCHANGED <<req, schedule>>
          /\ bookings[b] = "active" /\ bookings' = [bookings EXCEPT ![b] = "cancelled"]
          /\ Overtake(req[b].slot.room, {req[b].slot.day})
          /\ b \in Requests /\ req[w].op = "cancel"
      BY <1>4, RequestKinds DEF Writes, UpdateBooking, SlotOf
    <2>2. req[b].slot \in Slot
      BY <2>1, RequestKinds DEF BookingsAreOfRows
    <2>3. \A s \in Slot \ {req[b].slot} : Taken(s)' <=> Taken(s)
      BY <2>1 DEF Taken
    <2>4. RoomOf(w) = req[b].slot.room
      BY <2>1 DEF RoomOf, SlotOf
    <2> QED
      BY <1>2, <1>4, <2>1, <2>2, <2>3, <2>4
  <1>5. \/ schedule' = schedule /\ bookings' = bookings
        \/ \E w \in Requests : Writes(w)
    BY WhoChangesTables DEF tables, CreateRoom, UpsertSlot
  <1> QED
    BY <1>1, <1>3, <1>4, <1>5 DEF Writes

(* A statement that takes effect after its request has ended shows in the   *)
(* tables.                                                                  *)
LEMMA EffectsShow ==
  ASSUME IInv, NEW w \in Requests, TakesEffect(w)
  PROVE  schedule' # schedule \/ bookings' # bookings
  <1> USE DEF IInv, TypeOK
  <1>1. /\ req[w].op = "create" => req[w].room \in Rooms /\ req[w].schedule # None
        /\ req[w].op = "book" => bookings[w] = "none"
        /\ req[w].op = "cancel" => req[w].booking \in Requests
    BY RequestKinds, ListingAssumption DEF TakesEffect, StepsAgree, BookingsAreOfRows, MayBook
  <1> QED
    BY <1>1 DEF TakesEffect, InsertSchedule, InsertBooking, UpdateBooking, Unscheduled

(* Who comes to store a list. *)
LEMMA WhoReads ==
  ASSUME IInv, [Next]_vars,
         \A q \in Requests : ~ ReadSchedule(q) /\ ~ ListFree(q)
  PROVE  /\ \A r \in Requests : pc'[r] \in {"cacheSet", "unstored"} =>
              pc[r] \in {"cacheSet", "unstored"} /\ seen'[r] = seen[r] /\ req'[r] = req[r]
         /\ spoiled \subseteq spoiled'
  <1> USE RequestKinds
      DEF IInv, TypeOK, tables, locals, history, Goto, Answer, Overtake, Upsert
  <1> DEFINE P ==
        /\ \A r \in Requests : pc'[r] \in {"cacheSet", "unstored"} =>
             pc[r] \in {"cacheSet", "unstored"} /\ seen'[r] = seen[r] /\ req'[r] = req[r]
        /\ spoiled \subseteq spoiled'
  <1>1. ASSUME NEW q \in Requests, Arrive(q) PROVE P
    <2>1. PICK q0 \in Request :
            req' = [req EXCEPT ![q] = q0] /\ Goto(q, FirstStep[q0.op])
      BY <1>1 DEF Arrive
    <2> QED
      BY <1>1, <2>1, Beginnings DEF Arrive
  <1>2. ASSUME NEW q \in Requests, UpsertSlot(q) PROVE P
    BY <1>2 DEF UpsertSlot
  <1>3. ASSUME NEW q \in Requests, Exists(q) PROVE P
    BY <1>3 DEF Exists
  <1>4. ASSUME NEW q \in Requests, CacheHit(q) PROVE P
    BY <1>4 DEF CacheHit
  <1>5. ASSUME NEW q \in Requests, CacheMiss(q) PROVE P
    BY <1>5 DEF CacheMiss
  <1>6. ASSUME NEW q \in Requests, ReadSchedule(q) PROVE P
    BY <1>6 DEF ReadSchedule
  <1>7. ASSUME NEW q \in Requests, ListFree(q) PROVE P
    BY <1>7 DEF ListFree
  <1>8. ASSUME NEW q \in Requests, CacheSet(q) PROVE P
    BY <1>8 DEF CacheSet, Store, AnswerUnstored
  <1>9. ASSUME NEW q \in Requests, CacheNotSet(q) PROVE P
    BY <1>9 DEF CacheNotSet, AnswerUnstored
  <1>10. ASSUME NEW q \in Requests, CreateSchedule(q) PROVE P
    BY <1>10 DEF CreateSchedule, InsertSchedule, WritesNothing
  <1>11. ASSUME NEW q \in Requests, GetSlot(q) PROVE P
    BY <1>11 DEF GetSlot
  <1>12. ASSUME NEW q \in Requests, Book(q) PROVE P
    BY <1>12 DEF Book, InsertBooking, WritesNothing
  <1>13. ASSUME NEW q \in Requests, Lookup(q) PROVE P
    BY <1>13 DEF Lookup
  <1>14. ASSUME NEW q \in Requests, Cancel(q) PROVE P
    BY <1>14 DEF Cancel, UpdateBooking, WritesNothing
  <1>15. ASSUME NEW q \in Requests, Reply(q) PROVE P
    BY <1>15 DEF Reply
  <1>16. ASSUME NEW q \in Requests, Invalidate(q) PROVE P
    BY <1>16 DEF Invalidate
  <1>17. ASSUME NEW q \in Requests, Delete(q) PROVE P
    BY <1>17 DEF Delete
  <1>18. ASSUME NEW q \in Requests, Invalidated(q) PROVE P
    BY <1>18 DEF Invalidated
  <1>19. ASSUME NEW q \in Requests, InvalidateNothing(q) PROVE P
    BY <1>19 DEF InvalidateNothing
  <1>20. ASSUME NEW q \in Requests, UpsertFails(q) PROVE P
    BY <1>20 DEF UpsertFails
  <1>21. ASSUME NEW q \in Requests, ReplyLost(q) PROVE P
    BY <1>21 DEF ReplyLost
  <1>22. ASSUME NEW q \in Requests, NotInvalidated(q) PROVE P
    BY <1>22 DEF NotInvalidated
  <1>23. ASSUME NEW q \in Requests, StatementFails(q) PROVE P
    BY <1>23 DEF StatementFails
  <1>24. ASSUME NEW q \in Requests, LeftAdrift(q) PROVE P
    BY <1>24 DEF LeftAdrift
  <1>25. ASSUME NEW q \in Requests, TakesEffect(q) PROVE P
    BY <1>25 DEF TakesEffect, InsertSchedule, InsertBooking, UpdateBooking
  <1>26. ASSUME NEW room \in Rooms, CreateRoom(room) PROVE P
    BY <1>26 DEF CreateRoom
  <1>27. ASSUME NEW k0 \in Key, Expire(k0) PROVE P
    BY <1>27 DEF Expire
  <1>28. CASE Crash
    BY <1>28 DEF Crash, CutOff
  <1>29. CASE UNCHANGED vars
    BY <1>29 DEF vars
  <1>30. ASSUME NEW q \in Requests, LateSet(q) PROVE P
    BY <1>30 DEF LateSet, Store
  <1> QED
    BY <1>1, <1>2, <1>3, <1>4, <1>5, <1>6, <1>7, <1>8, <1>9, <1>10, <1>11, <1>12,
       <1>13, <1>14, <1>15, <1>16, <1>17, <1>18, <1>19, <1>20, <1>21, <1>22, <1>23,
       <1>24, <1>25, <1>26, <1>27, <1>28, <1>29, <1>30
    DEF Next, OtherStep, ListStep, WriteStep, Fault

(* Every row of a day is one that the schedule generates, and all of those  *)
(* are rows when ListFree reads them.                                       *)
LEMMA AvailableIsFresh ==
  ASSUME IInv, NEW q \in Requests, ListFree(q), q \notin spoiled
  PROVE  Available(req[q].room, req[q].day) = Fresh(req[q].room, req[q].day)
  <1> DEFINE room == req[q].room
             day  == req[q].day
  <1>1. req[q] \in ListRequest /\ pc[q] = "listFree" /\ req[q] # None /\ req[q].op = "list"
    BY RequestKinds DEF IInv, StepsAgree, ListFree, ListSteps
  <1>2. /\ schedule[room] # None
        /\ Generated(room, schedule[room], {day}) \subseteq rows
    BY <1>1 DEF IInv, ListsFillTheirDay
  <1>3. \A s \in rows : s.room = room /\ s.day = day =>
          s \in Generated(room, schedule[room], {day})
    BY DEF IInv, TypeOK, SlotsFit, Fits, Generated
  <1>4. \A s \in Generated(room, schedule[room], {day}) : s.room = room /\ s.day = day
    BY GeneratedSlots
  <1> QED
    BY <1>2, <1>3, <1>4 DEF Available, Fresh

(* A list reads what the tables say, or a write overtakes it. *)
LEMMA NextReads ==
  ASSUME IInv, [Next]_vars
  PROVE  ReadsAreFresh'
  <1> DEFINE Right(r, room, day) ==
        pc[r] \in {"cacheSet", "unstored"} /\ r \notin spoiled
            /\ req[r].room = room /\ req[r].day = day =>
          seen[r] = Fresh(room, day)
  <1>1. \A r \in Requests :
          pc[r] \in {"cacheSet", "unstored"} => req[r].room \in Rooms /\ req[r].day \in Days
    BY RequestKinds DEF IInv, StepsAgree, ListSteps
  <1>2. (\A r \in Requests, room \in Rooms, day \in Days : Right(r, room, day)')
           => ReadsAreFresh'
    <2>1. \A r \in Requests :
            (pc[r] \in {"cacheSet", "unstored"} =>
               req[r].room \in Rooms /\ req[r].day \in Days)'
      BY NextStepsAgree, RequestKinds DEF IInv, StepsAgree, ListSteps
    <2> QED
      BY <2>1 DEF ReadsAreFresh
  <1>3. \A r \in Requests, room \in Rooms, day \in Days : Right(r, room, day)
    BY DEF IInv, ReadsAreFresh
  <1>4. ASSUME NEW q \in Requests, ReadSchedule(q) \/ ListFree(q) PROVE ReadsAreFresh'
    <2>1. /\ UNCHANGED <<schedule, bookings, req, spoiled>>
          /\ \A r \in Requests \ {q} : pc'[r] = pc[r] /\ seen'[r] = seen[r]
      BY <1>4 DEF IInv, TypeOK, ReadSchedule, ListFree, Upsert, Goto, tables, history
    <2>2. \A room \in Rooms, day \in Days : Fresh(room, day)' = Fresh(room, day)
      BY <2>1, FreshStays
    <2>3. pc'[q] \in {"cacheSet", "unstored"} /\ q \notin spoiled =>
            seen'[q] = Fresh(req[q].room, req[q].day)
      <3>1. CASE ReadSchedule(q)
        BY <3>1 DEF IInv, TypeOK, ReadSchedule, Upsert, Goto, Fresh
      <3>2. CASE ListFree(q)
        BY <3>2, AvailableIsFresh DEF IInv, TypeOK, ListFree
      <3> QED
        BY <1>4, <3>1, <3>2
    <2> QED
      BY <1>2, <1>3, <2>1, <2>2, <2>3
  <1>5. CASE \A q \in Requests : ~ ReadSchedule(q) /\ ~ ListFree(q)
    <2>1. /\ \A r \in Requests : pc'[r] \in {"cacheSet", "unstored"} =>
               pc[r] \in {"cacheSet", "unstored"} /\ seen'[r] = seen[r] /\ req'[r] = req[r]
          /\ spoiled \subseteq spoiled'
      BY <1>5, WhoReads
    <2>2. CASE schedule' = schedule /\ bookings' = bookings
      BY <1>2, <1>3, <2>1, <2>2, FreshStays
    <2>3. ASSUME NEW w \in Requests, Wrote(w) PROVE ReadsAreFresh'
      BY <1>2, <1>3, <2>1, <2>3 DEF Wrote, Writes
    <2> QED
      BY <2>2, <2>3, WhoWrites
  <1> QED
    BY <1>4, <1>5

(* w has written and not yet come to the end of its invalidation. *)
Pending(w) ==
  \/ pc[w] \in {"reply", "invalidate", "delete"}
  \/ pc[w] = "upsert" /\ req[w].op = "create"

(* It stays a writer of the same room. *)
LEMMA RoomStays ==
  ASSUME IInv, [Next]_vars, NEW w \in Requests, Pending(w)
  PROVE  RoomOf(w)' = RoomOf(w) /\ req'[w] = req[w]
  <1>1. /\ req[w] # None /\ req'[w] = req[w]
        /\ req[w].op \in {"create", "book", "cancel"}
    BY NothingIsUndone, RequestKinds DEF IInv, StepsAgree, Pending
  <1>2. CASE req[w].op = "cancel"
    <2>1. req[w] \in CancelRequest /\ bookings[req[w].booking] # "none"
      BY <1>1, <1>2, RequestKinds DEF IInv, StepsAgree, Pending, WritersKnowTheirRoom
    <2>2. req'[req[w].booking] = req[req[w].booking]
      BY <2>1, NothingIsUndone, RequestKinds DEF IInv, BookingsAreOfRows
    <2> QED
      BY <1>1, <1>2, <2>2 DEF RoomOf, SlotOf
  <1> QED
    BY <1>1, <1>2 DEF RoomOf, SlotOf

(* Who leaves the writers, the cache and the excuses as they are. *)
LEMMA WhoKeeps ==
  ASSUME IInv, [Next]_vars, ~ Crash, \A k \in Key : ~ Expire(k),
         \A q \in Requests :
           ~ (\/ CacheSet(q) \/ LateSet(q) \/ Reply(q) \/ ReplyLost(q) \/ Invalidate(q)
              \/ Delete(q) \/ Invalidated(q) \/ InvalidateNothing(q) \/ NotInvalidated(q)
              \/ TakesEffect(q))
  PROVE  /\ cache' = cache /\ excused' = excused /\ scan' = scan
         /\ \A w \in Requests : Pending(w) =>
              pc'[w] = pc[w] \/ (pc[w] = "upsert" /\ pc'[w] = "invalidate")
  <1> USE DEF IInv, TypeOK, StepsAgree, Pending, tables, locals, history, Goto, Answer,
              Upsert, Overtake
  <1> DEFINE P ==
        /\ cache' = cache /\ excused' = excused /\ scan' = scan
        /\ \A w \in Requests : Pending(w) =>
             pc'[w] = pc[w] \/ (pc[w] = "upsert" /\ pc'[w] = "invalidate")
  <1>1. ASSUME NEW q \in Requests, Arrive(q) PROVE P
    BY <1>1 DEF Arrive
  <1>2. ASSUME NEW q \in Requests, UpsertSlot(q) PROVE P
    BY <1>2 DEF UpsertSlot
  <1>3. ASSUME NEW q \in Requests, Exists(q) PROVE P
    BY <1>3 DEF Exists
  <1>4. ASSUME NEW q \in Requests, CacheHit(q) PROVE P
    BY <1>4 DEF CacheHit
  <1>5. ASSUME NEW q \in Requests, CacheMiss(q) PROVE P
    BY <1>5 DEF CacheMiss
  <1>6. ASSUME NEW q \in Requests, ReadSchedule(q) PROVE P
    BY <1>6 DEF ReadSchedule
  <1>7. ASSUME NEW q \in Requests, ListFree(q) PROVE P
    BY <1>7 DEF ListFree
  <1>8. ASSUME NEW q \in Requests, CacheSet(q) PROVE P
    BY <1>8 DEF CacheSet, Store, AnswerUnstored
  <1>9. ASSUME NEW q \in Requests, CacheNotSet(q) PROVE P
    BY <1>9 DEF CacheNotSet, AnswerUnstored
  <1>10. ASSUME NEW q \in Requests, CreateSchedule(q) PROVE P
    BY <1>10 DEF CreateSchedule, InsertSchedule, WritesNothing
  <1>11. ASSUME NEW q \in Requests, GetSlot(q) PROVE P
    BY <1>11 DEF GetSlot
  <1>12. ASSUME NEW q \in Requests, Book(q) PROVE P
    BY <1>12 DEF Book, InsertBooking, WritesNothing
  <1>13. ASSUME NEW q \in Requests, Lookup(q) PROVE P
    BY <1>13 DEF Lookup
  <1>14. ASSUME NEW q \in Requests, Cancel(q) PROVE P
    BY <1>14 DEF Cancel, UpdateBooking, WritesNothing
  <1>15. ASSUME NEW q \in Requests, Reply(q) PROVE P
    BY <1>15 DEF Reply
  <1>16. ASSUME NEW q \in Requests, Invalidate(q) PROVE P
    BY <1>16 DEF Invalidate
  <1>17. ASSUME NEW q \in Requests, Delete(q) PROVE P
    BY <1>17 DEF Delete
  <1>18. ASSUME NEW q \in Requests, Invalidated(q) PROVE P
    BY <1>18 DEF Invalidated
  <1>19. ASSUME NEW q \in Requests, InvalidateNothing(q) PROVE P
    BY <1>19 DEF InvalidateNothing
  <1>20. ASSUME NEW q \in Requests, UpsertFails(q) PROVE P
    BY <1>20 DEF UpsertFails
  <1>21. ASSUME NEW q \in Requests, ReplyLost(q) PROVE P
    BY <1>21 DEF ReplyLost
  <1>22. ASSUME NEW q \in Requests, NotInvalidated(q) PROVE P
    BY <1>22 DEF NotInvalidated
  <1>23. ASSUME NEW q \in Requests, StatementFails(q) PROVE P
    BY <1>23 DEF StatementFails
  <1>24. ASSUME NEW q \in Requests, LeftAdrift(q) PROVE P
    BY <1>24 DEF LeftAdrift
  <1>25. ASSUME NEW q \in Requests, TakesEffect(q) PROVE P
    BY <1>25
  <1>26. ASSUME NEW room \in Rooms, CreateRoom(room) PROVE P
    BY <1>26 DEF CreateRoom
  <1>27. ASSUME NEW k0 \in Key, Expire(k0) PROVE P
    BY <1>27 DEF Expire
  <1>28. CASE Crash
    BY <1>28 DEF Crash, CutOff
  <1>29. CASE UNCHANGED vars
    BY <1>29 DEF vars
  <1>30. ASSUME NEW q \in Requests, LateSet(q) PROVE P
    BY <1>30 DEF LateSet, Store
  <1> QED
    BY <1>1, <1>2, <1>3, <1>4, <1>5, <1>6, <1>7, <1>8, <1>9, <1>10, <1>11, <1>12,
       <1>13, <1>14, <1>15, <1>16, <1>17, <1>18, <1>19, <1>20, <1>21, <1>22, <1>23,
       <1>24, <1>25, <1>26, <1>27, <1>28, <1>29, <1>30
    DEF Next, OtherStep, ListStep, WriteStep, Fault

(* An entry that goes takes nothing from the writers that have others to    *)
(* delete.                                                                  *)
LEMMA DropKeeps ==
  ASSUME IInv, NEW k0 \in Key, Drop(k0), UNCHANGED <<pc, req>>, NEW k \in Key, cache'[k] # None
  PROVE  /\ k # k0 /\ cache'[k] = cache[k]
         /\ k \in excused => k \in excused'
         /\ \A w \in Requests : k \in scan[w] => k \in scan'[w]
  BY DEF IInv, TypeOK, Drop

(* One step at a time, what was stale has its cause still, and what becomes *)
(* stale has one.                                                           *)
LEMMA NextStale ==
  ASSUME IInv, [Next]_vars
  PROVE  StaleForCause'
  <1> DEFINE Caused(k) == k \in excused \/ \E w \in Requests : WillInvalidate(w, k)
  <1> SUFFICES ASSUME NEW k \in Key, Stale(k)'
               PROVE  Caused(k)'
    BY DEF StaleForCause
  <1>1. k.room \in Rooms /\ k.day \in Days
    BY DEF Key
  <1>2. Stale(k) => Caused(k)
    BY DEF IInv, StaleForCause
  <1>3. \A w \in Requests : WillInvalidate(w, k) => Pending(w) /\ RoomOf(w)' = RoomOf(w)
                                                    /\ req'[w] = req[w]
    BY RoomStays DEF WillInvalidate, Pending
  <1>4. ASSUME NEW w \in Requests, Wrote(w) PROVE Caused(k)'
    <2>1. WillInvalidate(w, k)' \/ k.room # RoomOf(w) \/ k \in excused'
      BY <1>4 DEF Wrote, Writes, WillInvalidate, KeysOf
    <2>2. k.room # RoomOf(w) => Stale(k)
      BY <1>1, <1>4 DEF Wrote, Writes, Stale
    <2>3. \A v \in Requests \ {w} : WillInvalidate(v, k) => WillInvalidate(v, k)'
      BY <1>3, <1>4 DEF Wrote, Writes, WillInvalidate
    <2>4. ~ WillInvalidate(w, k)
      BY <1>4 DEF Wrote, WillInvalidate
    <2> QED
      BY <1>2, <1>4, <2>1, <2>2, <2>3, <2>4 DEF Wrote, Writes
  <1>5. CASE schedule' = schedule /\ bookings' = bookings
    <2>1. Fresh(k.room, k.day)' = Fresh(k.room, k.day)
      BY <1>1, <1>5, FreshStays
    <2>2. cache'[k] # None /\ cache'[k] # Fresh(k.room, k.day)
      BY <2>1 DEF Stale
    <2>3. cache'[k] = cache[k] => Stale(k)
      BY <2>2 DEF Stale
    <2>4. ASSUME NEW q \in Requests, CacheSet(q) \/ LateSet(q) PROVE Caused(k)'
      <3>1. /\ cache' = [cache EXCEPT ![KeyOf(q)] = seen[q]]
            /\ pc[q] \in {"cacheSet", "unstored"}
            /\ excused' = IF q \in spoiled THEN excused \cup {KeyOf(q)}
                                          ELSE excused \ {KeyOf(q)}
            /\ scan' = scan /\ req' = req /\ \A w \in Requests \ {q} : pc'[w] = pc[w]
        BY <2>4 DEF IInv, TypeOK, CacheSet, LateSet, Store, AnswerUnstored, Answer, Goto, locals
      <3>2. CASE k = KeyOf(q)
        <4>1. q \notin spoiled => seen[q] = Fresh(k.room, k.day)
          BY <3>1, <3>2 DEF IInv, ReadsAreFresh, KeyOf
        <4>2. cache'[k] = seen[q]
          BY <3>1, <3>2 DEF IInv, TypeOK
        <4> QED
          BY <2>2, <3>1, <3>2, <4>1, <4>2
      <3>3. CASE k # KeyOf(q)
        <4>1. Caused(k)
          BY <1>2, <2>3, <3>1, <3>3 DEF IInv, TypeOK
        <4>2. \A w \in Requests : WillInvalidate(w, k) => WillInvalidate(w, k)'
          BY <1>3, <3>1 DEF WillInvalidate
        <4> QED
          BY <3>1, <3>3, <4>1, <4>2
      <3> QED
        BY <3>2, <3>3
    <2>5. ASSUME NEW q \in Requests, Reply(q) PROVE Caused(k)'
      <3>1. /\ cache' = cache /\ scan' = scan /\ req' = req /\ pc[q] = "reply"
            /\ excused \subseteq excused'
            /\ \A w \in Requests \ {q} : pc'[w] = pc[w]
            /\ \/ pc'[q] = "invalidate" \/ (pc'[q] = "upsert" /\ req[q].op = "create")
               \/ Excuse(KeysOf(RoomOf(q)))
        BY <2>5 DEF Reply, Upsert, Goto, Answer, Excuse, IInv, TypeOK
      <3>2. Caused(k)
        BY <1>2, <2>3, <3>1
      <3>3. WillInvalidate(q, k) => Caused(k)'
        <4>1. WillInvalidate(q, k) => WillInvalidate(q, k)' \/ Excuse(KeysOf(RoomOf(q)))
          BY <1>3, <3>1 DEF WillInvalidate
        <4>2. Excuse(KeysOf(RoomOf(q))) /\ WillInvalidate(q, k) => k \in excused'
          BY <2>3, <3>1 DEF Excuse, KeysOf, WillInvalidate
        <4> QED
          BY <4>1, <4>2
      <3>4. \A w \in Requests \ {q} : WillInvalidate(w, k) => WillInvalidate(w, k)'
        BY <1>3, <3>1 DEF WillInvalidate
      <3> QED
        BY <3>1, <3>2, <3>3, <3>4
    <2>6. ASSUME NEW q \in Requests,
                 ReplyLost(q) \/ InvalidateNothing(q) \/ NotInvalidated(q)
          PROVE  Caused(k)'
      <3>1. /\ cache' = cache /\ req' = req /\ Excuse(KeysOf(RoomOf(q)))
            /\ \A w \in Requests \ {q} : pc'[w] = pc[w] /\ scan'[w] = scan[w]
        BY <2>6 DEF ReplyLost, InvalidateNothing, NotInvalidated, Answer, locals, IInv, TypeOK
      <3>2. Caused(k)
        BY <1>2, <2>3, <3>1
      <3>3. WillInvalidate(q, k) => k \in excused'
        BY <2>3, <3>1 DEF Excuse, KeysOf, WillInvalidate
      <3>4. \A w \in Requests \ {q} : WillInvalidate(w, k) => WillInvalidate(w, k)'
        BY <1>3, <3>1 DEF WillInvalidate
      <3> QED
        BY <3>1, <3>2, <3>3, <3>4 DEF Excuse
    <2>7. ASSUME NEW q \in Requests, Invalidate(q) PROVE Caused(k)'
      <3>1. /\ cache' = cache /\ req' = req /\ pc'[q] = "delete" /\ scan'[q] = Matching(q)
            /\ Excuse({key \in KeysOf(RoomOf(q)) : key.spelling # SpellingOf(q)})
            /\ \A w \in Requests \ {q} : pc'[w] = pc[w] /\ scan'[w] = scan[w]
        BY <2>7 DEF Invalidate, Goto, IInv, TypeOK
      <3>2. Caused(k)
        BY <1>2, <2>3, <3>1
      <3>3. ASSUME WillInvalidate(q, k)
            PROVE  Caused(k)'
        <4>1. k \in KeysOf(RoomOf(q))
          BY <3>3 DEF WillInvalidate, KeysOf
        <4>2. CASE k.spelling = SpellingOf(q)
          <5>1. k \in scan'[q]
            BY <2>2, <3>1, <4>1, <4>2 DEF Matching
          <5>2. WillInvalidate(q, k)'
            BY <1>3, <3>1, <3>3, <5>1 DEF WillInvalidate
          <5> QED
            BY <5>2
        <4>3. CASE k.spelling # SpellingOf(q)
          BY <2>3, <3>1, <4>1, <4>3 DEF Excuse
        <4> QED
          BY <4>2, <4>3
      <3>4. \A w \in Requests \ {q} : WillInvalidate(w, k) => WillInvalidate(w, k)'
        BY <1>3, <3>1 DEF WillInvalidate
      <3> QED
        BY <3>1, <3>2, <3>3, <3>4 DEF Excuse
    <2>8. ASSUME NEW k0 \in Key, Drop(k0), UNCHANGED <<pc, req>> PROVE Caused(k)'
      <3>1. /\ cache'[k] = cache[k] /\ (k \in excused => k \in excused')
            /\ \A w \in Requests : k \in scan[w] => k \in scan'[w]
        BY <2>2, <2>8, DropKeeps
      <3>2. \A w \in Requests : WillInvalidate(w, k) => WillInvalidate(w, k)'
        BY <1>3, <2>8, <3>1 DEF WillInvalidate
      <3> QED
        BY <1>2, <2>3, <3>1, <3>2
    <2>9. ASSUME NEW q \in Requests, Invalidated(q) PROVE Caused(k)'
      <3>1. /\ UNCHANGED <<cache, req, scan, excused>> /\ pc[q] = "delete" /\ scan[q] = {}
            /\ \A w \in Requests \ {q} : pc'[w] = pc[w]
        BY <2>9 DEF Invalidated, Answer, locals, history
      <3>2. \A w \in Requests : WillInvalidate(w, k) => WillInvalidate(w, k)'
        BY <1>3, <3>1 DEF WillInvalidate
      <3> QED
        BY <1>2, <2>3, <3>1, <3>2
    <2>10. CASE Crash
      BY <2>3, <2>10 DEF Crash, Excuse
    <2>11. CASE /\ ~ Crash /\ \A k0 \in Key : ~ Expire(k0)
                /\ \A q \in Requests :
                     ~ (\/ CacheSet(q) \/ LateSet(q) \/ Reply(q) \/ ReplyLost(q)
                        \/ Invalidate(q) \/ Delete(q) \/ Invalidated(q)
                        \/ InvalidateNothing(q) \/ NotInvalidated(q))
      <3>1. /\ cache' = cache /\ excused' = excused /\ scan' = scan
            /\ \A w \in Requests : Pending(w) =>
                 pc'[w] = pc[w] \/ (pc[w] = "upsert" /\ pc'[w] = "invalidate")
        BY <1>5, <2>11, EffectsShow, WhoKeeps
      <3>2. \A w \in Requests : WillInvalidate(w, k) => WillInvalidate(w, k)'
        BY <1>3, <3>1 DEF WillInvalidate
      <3> QED
        BY <1>2, <2>3, <3>1, <3>2
    <2>12. ASSUME NEW q \in Requests, Delete(q) PROVE Caused(k)'
      BY <2>8, <2>12 DEF Delete, Matching, KeysOf
    <2>13. ASSUME NEW k0 \in Key, Expire(k0) PROVE Caused(k)'
      BY <2>8, <2>13 DEF Expire
    <2> QED
      BY <2>4, <2>5, <2>6, <2>7, <2>9, <2>10, <2>11, <2>12, <2>13
  <1> QED
    BY <1>4, <1>5, WhoWrites

(* Every step keeps IInv. *)
LEMMA NextIInv == IInv /\ [Next]_vars => IInv'
  BY NextType, NextStepsAgree, NextBookings, NextSlotsFit, NextCreator, NextOffers,
     NextFill, NextReads, NextWriters, NextStale DEF IInv

-----------------------------------------------------------------------------
(* The inductive invariant: IInv holds in every state the program reaches,  *)
(* whatever fails.                                                          *)
THEOREM Inductive == Spec => []IInv
  BY InitIInv, NextIInv, PTL DEF Spec

(* Every variable keeps its type. *)
THEOREM TypeCorrect == Spec => []TypeOK
  BY Inductive, PTL DEF IInv

(* A list offers rows only, from the cache too (handleListSlots).           *)
THEOREM OffersCanBeBooked == Spec => []OffersAreRows
  BY Inductive, PTL DEF IInv

(* A room's schedule is created once and stays (CreateSchedule).            *)
THEOREM CreatedOnce == Spec => []CreatedScheduleStands
  <1>1. IInv => CreatedScheduleStands
    <2> SUFFICES ASSUME IInv, NEW r \in Requests, NEW q \in Requests,
                        Created(r)
                 PROVE  /\ schedule[req[r].room] = req[r].schedule
                        /\ Created(q) /\ req[q].room = req[r].room => q = r
      BY DEF CreatedScheduleStands
    <2>1. \A v \in Requests : Created(v) => Creator(v)
      <3> SUFFICES ASSUME NEW v \in Requests, Created(v) PROVE Creator(v)
        OBVIOUS
      <3>1. req[v] \in Request
        BY DEF IInv, TypeOK, StepsAgree, Created
      <3> QED
        BY <3>1, RequestKinds DEF Created, Creator
    <2> QED
      BY <2>1 DEF IInv, OneCreator
  <1> QED
    BY <1>1, Inductive, PTL

(* A list stores what the tables say unless a write overtook it             *)
(* (handleListSlots).                                                       *)
THEOREM FreshUnlessOvertaken == Spec => []ReadsAreFresh
  BY Inductive, PTL DEF IInv

(* No cached answer is wrong but for the causes that StaleForCause names    *)
(* (InvalidateRoom, SetSlots).                                              *)
THEOREM NothingElseIsStale == Spec => []StaleForCause
  BY Inductive, PTL DEF IInv

(* A step that makes and cancels no booking changes none in the book.       *)
LEMMA BookingsStay ==
  ASSUME IInv, [Next]_vars, NEW b \in Requests, bookings'[b] = bookings[b]
  PROVE  BookingOf(b)' = BookingOf(b)
  BY NothingIsUndone, RequestKinds DEF IInv, BookingsAreOfRows, BookingOf

(* Making a booking, and cancelling one, are steps of the book, be it after *)
(* the request that asked for it has ended.                                 *)
LEMMA BookIsCreateBooking ==
  ASSUME IInv, [Next]_vars, NEW w \in Requests, Writes(w), req[w] \in BookRequest
  PROVE  TheBook!CreateBooking(w, req[w].slot) /\ req[w].slot \in Slot
  <1> DEFINE s == req[w].slot
  <1>1. /\ UNCHANGED <<rooms, schedule, rows, req>>
        /\ MayBook(w) /\ ~ Taken(s)
        /\ bookings' = [bookings EXCEPT ![w] = "active"]
    BY RequestKinds DEF Writes, InsertBooking
  <1>2. s \in Slot /\ s \in rows /\ bookings[w] = "none"
    BY <1>1, RequestKinds DEF IInv, BookingsAreOfRows
  <1>3. \A b \in Requests : BookingOf(b) # [slot |-> s, status |-> "active"]
    <2> SUFFICES ASSUME NEW b \in Requests, BookingOf(b) = [slot |-> s, status |-> "active"]
                 PROVE  FALSE
      OBVIOUS
    <2>1. [slot |-> s, status |-> "active"] \in Booking
      BY <1>2 DEF Booking
    <2>2. BookingOf(b) # None
      BY <2>1, ListingAssumption
    <2>3. BookingOf(b) = [slot |-> req[b].slot, status |-> bookings[b]]
      BY <2>2 DEF BookingOf
    <2>4. req[b].slot = s /\ bookings[b] = "active"
      BY <2>3
    <2> QED
      BY <1>1, <2>4 DEF Taken
  <1>4. \A b \in Requests \ {w} : BookingOf(b)' = BookingOf(b)
    BY <1>1, BookingsStay DEF IInv, TypeOK
  <1>5. BookingOf(w) = None /\ BookingOf(w)' = [slot |-> s, status |-> "active"]
    BY <1>1, <1>2 DEF BookingOf, IInv, TypeOK
  <1> QED
    BY <1>1, <1>2, <1>3, <1>4, <1>5 DEF TheBook!CreateBooking, TheBook!Free

(* Cancelling, the same way. *)
LEMMA CancelIsCancelBooking ==
  ASSUME IInv, [Next]_vars, NEW w \in Requests, Writes(w), req[w] \in CancelRequest
  PROVE  req[w].booking \in Requests /\ TheBook!CancelBooking(req[w].booking)
  <1> DEFINE b == req[w].booking
  <1>1. /\ UNCHANGED <<rooms, schedule, rows, req>>
        /\ bookings[b] = "active"
        /\ bookings' = [bookings EXCEPT ![b] = "cancelled"]
    BY RequestKinds DEF Writes, UpdateBooking
  <1>2. b \in Requests
    BY RequestKinds
  <1>3. \A c \in Requests \ {b} : BookingOf(c)' = BookingOf(c)
    BY <1>1, BookingsStay DEF IInv, TypeOK
  <1>4. /\ BookingOf(b) = [slot |-> req[b].slot, status |-> "active"]
        /\ BookingOf(b)' = [slot |-> req[b].slot, status |-> "cancelled"]
    BY <1>1, <1>2 DEF BookingOf, IInv, TypeOK
  <1>5. BookingOf(b) # None
    <2>1. req[b].slot \in Slot
      BY <1>1, <1>2, RequestKinds DEF IInv, BookingsAreOfRows
    <2>2. BookingOf(b) \in Booking
      BY <1>4, <2>1 DEF Booking
    <2> QED
      BY <2>2, ListingAssumption
  <1>6. BookingOf(b)' = [BookingOf(b) EXCEPT !.status = "cancelled"]
    BY <1>4
  <1> QED
    BY <1>1, <1>2, <1>3, <1>5, <1>6 DEF TheBook!CancelBooking

(* The tables, under every interleaving and every failure of the requests   *)
(* that read and write them, are the book that Store promises.              *)
THEOREM ImplementsRoomBook == Spec => IsRoomBook
  <1>1. Init => TheBook!Init
    BY DEF Init, TheBook!Init, BookingOf
  <1>2. ASSUME IInv, [Next]_vars
        PROVE  [TheBook!Next]_(TheBook!vars)
    <2>1. CASE UNCHANGED tables
      <3>1. \A b \in Requests : BookingOf(b)' = BookingOf(b)
        BY <1>2, <2>1, BookingsStay DEF tables
      <3> QED
        BY <2>1, <3>1 DEF tables, TheBook!vars
    <2>2. ASSUME NEW room \in Rooms, CreateRoom(room) PROVE TheBook!Next
      <3>1. \A b \in Requests : BookingOf(b)' = BookingOf(b)
        BY <1>2, <2>2, BookingsStay DEF CreateRoom
      <3> QED
        BY <2>2, <3>1 DEF CreateRoom, TheBook!Next, TheBook!CreateRoom
    <2>3. ASSUME NEW w \in Requests, UpsertSlot(w) PROVE TheBook!Next
      <3>1. \A b \in Requests : BookingOf(b)' = BookingOf(b)
        BY <1>2, <2>3, BookingsStay DEF UpsertSlot
      <3>2. PICK s \in todo[w] : rows' = rows \cup {s} /\ UNCHANGED <<rooms, schedule>>
        BY <2>3 DEF UpsertSlot, Firsts
      <3>3. s \in Slot /\ Fits(s)
        BY <1>2, <3>2 DEF IInv, TypeOK, SlotsFit
      <3>4. TheBook!AddSlot(s)
        BY <3>1, <3>2, <3>3 DEF TheBook!AddSlot, Fits
      <3> QED
        BY <3>3, <3>4 DEF TheBook!Next, TheBook!Slot, Slot
    <2>4. ASSUME NEW w \in Requests, Writes(w), req[w] \in CreateRequest
          PROVE  TheBook!Next
      <3>1. /\ Unscheduled(req[w].room) /\ UNCHANGED <<rooms, rows, bookings>>
            /\ schedule' = [schedule EXCEPT ![req[w].room] = req[w].schedule]
        BY <2>4, RequestKinds DEF Writes, InsertSchedule
      <3>2. \A b \in Requests : BookingOf(b)' = BookingOf(b)
        BY <1>2, <3>1, BookingsStay
      <3>3. req[w].room \in Rooms /\ req[w].schedule \in Schedules
        BY <2>4, RequestKinds
      <3> QED
        BY <3>1, <3>2, <3>3 DEF TheBook!Next, TheBook!CreateSchedule, Unscheduled
    <2>5. ASSUME NEW w \in Requests, Writes(w), req[w] \in BookRequest PROVE TheBook!Next
      BY <1>2, <2>5, BookIsCreateBooking DEF TheBook!Next, TheBook!Slot, Slot
    <2>6. ASSUME NEW w \in Requests, Writes(w), req[w] \in CancelRequest PROVE TheBook!Next
      BY <1>2, <2>6, CancelIsCancelBooking DEF TheBook!Next
    <2>7. IInv => TypeOK /\ StepsAgree
      BY DEF IInv
    <2> QED
      BY <1>2, <2>1, <2>2, <2>3, <2>4, <2>5, <2>6, <2>7, WhoChangesTables DEF Writes
  <1> QED
    BY <1>1, <1>2, Inductive, PTL DEF Spec, IsRoomBook, TheBook!Spec
=============================================================================
