---------------------------- MODULE SlotListing ----------------------------
(***************************************************************************)
(* What GET /rooms/{roomId}/slots/list offers, while schedules are created *)
(* and slots are booked and cancelled: handleListSlots,                    *)
(* handleCreateSchedule, handleCreateBooking and handleCancelBooking       *)
(* (internal/app/http.go) over the tables of PostgresStore and the cache   *)
(* of free slots kept in Redis (internal/app/cache.go).                    *)
(*                                                                         *)
(* Every statement sent to PostgreSQL or Redis is an action, so requests   *)
(* interleave between them.  Creating a booking is one step here, which is *)
(* what BookingStore shows of its transaction, and it may come after its   *)
(* request has ended; whether a slot has begun is that module's business   *)
(* too, so the check may go either way.  Slots are the times a schedule    *)
(* covers on a date (slots.go), a date is a day, and the seven dates a new *)
(* schedule is filled for are the days of Week.                            *)
(***************************************************************************)
EXTENDS Naturals, FiniteSets

CONSTANTS
  Requests,   \* every request that will ever be made
  Rooms,      \* ids of rooms, whether or not a row exists yet
  Schedules,  \* what a schedule may say: days of the week, from, until
  Days, Times,
  Covers,     \* Covers[sc][d]: the starts of the slots of schedule sc on day d
  Week,       \* today and the six days after it
  Spellings,  \* ways of writing a room's UUID that PostgreSQL takes for the same
  Canonical,  \* the one it writes itself
  Faults,     \* bound: which of "postgres", "redis", "process" may fail
  None        \* no row, no cache entry

Slot == [room : Rooms, day : Days, time : Times]
Key  == [room : Rooms, spelling : Spellings, day : Days]
Booking == [slot : Slot, status : {"active", "cancelled"}]

ListRequest   == [op : {"list"}, room : Rooms, spelling : Spellings, day : Days]
CreateRequest == [op : {"create"}, room : Rooms, spelling : Spellings,
                  schedule : Schedules]
BookRequest   == [op : {"book"}, slot : Slot]
(* own: the caller is the user who made the booking. *)
CancelRequest == [op : {"cancel"}, booking : Requests, own : BOOLEAN]
Request == ListRequest \cup CreateRequest \cup BookRequest \cup CancelRequest

ASSUME ListingAssumption ==
  /\ Days \subseteq Nat /\ Times \subseteq Nat
  /\ Week \subseteq Days
  /\ Covers \in [Schedules -> [Days -> SUBSET Times]]
  /\ Canonical \in Spellings
  /\ Faults \subseteq {"postgres", "redis", "process"}
  /\ None \notin Schedules \cup Request \cup Booking
  /\ \A slots \in SUBSET Slot : slots # None

VARIABLES
  rooms,      \* table rooms
  schedule,   \* table schedules, by room
  rows,       \* table slots
  bookings,   \* table bookings: the status of the one a request made
  cache,      \* Redis: the slots stored under each key, or None
  cacheUp,    \* this process reached Redis when it started
  req,        \* what each request asks for
  pc,         \* the statement each request is about to send
  resp,       \* the answer, a list's being resp "OK" and the slots in seen
  todo,       \* slots a request has still to upsert
  seen,       \* slots a list read, from a table or from the cache
  blind,      \* cancellations that did not learn the room of their booking
  scan,       \* keys that the SCAN of a request is bound to come upon
  spoiled,    \* history: lists that hold what a later write made untrue
  excused     \* history: keys whose entry no invalidation will remove

tables  == <<rooms, schedule, rows, bookings>>
locals  == <<todo, seen, blind, scan>>
history == <<spoiled, excused>>
vars    == <<tables, cache, cacheUp, req, pc, resp, locals, history>>

ListSteps   == {"exists", "cacheGet", "readSchedule", "upsert", "listFree", "cacheSet"}
CreateSteps == {"insert", "reply", "upsert", "invalidate", "delete"}
BookSteps   == {"getSlot", "book", "reply", "invalidate", "delete"}
CancelSteps == {"lookup", "cancel", "reply", "invalidate", "delete"}
Running == ListSteps \cup CreateSteps \cup BookSteps \cup CancelSteps
(* "dead": the process died and nothing was answered; "adrift": it died, or *)
(* answered 500, while a statement that writes was under way, and the       *)
(* database may yet carry it out; "unstored": it died, or heard nothing of  *)
(* its SET, and Redis may yet carry that out.                               *)
Ended   == {"done", "dead", "adrift", "unstored"}

Answers == {"none", "OK", "created", "cancelled", "ROOM_NOT_FOUND", "SCHEDULE_EXISTS",
            "SLOT_NOT_FOUND", "SLOT_ALREADY_BOOKED", "INVALID_REQUEST", "BOOKING_NOT_FOUND",
            "FORBIDDEN", "INTERNAL_ERROR"}

TypeOK ==
  /\ rooms \subseteq Rooms
  /\ schedule \in [Rooms -> Schedules \cup {None}]
  /\ rows \subseteq Slot
  /\ bookings \in [Requests -> {"none", "active", "cancelled"}]
  /\ cache \in [Key -> {None} \cup SUBSET Slot]
  /\ cacheUp \in BOOLEAN
  /\ req \in [Requests -> Request \cup {None}]
  /\ pc \in [Requests -> {"idle"} \cup Running \cup Ended]
  /\ resp \in [Requests -> Answers]
  /\ todo \in [Requests -> SUBSET Slot]
  /\ seen \in [Requests -> SUBSET Slot]
  /\ blind \subseteq Requests
  /\ scan \in [Requests -> SUBSET Key]
  /\ spoiled \subseteq Requests
  /\ excused \subseteq Key

(* main: when Redis does not answer the first PING, the process runs        *)
(* without a cache until it ends.                                           *)
PingOutcomes == IF "redis" \in Faults THEN BOOLEAN ELSE {TRUE}

Init ==
  /\ rooms = {}
  /\ schedule = [room \in Rooms |-> None]
  /\ rows = {}
  /\ bookings = [r \in Requests |-> "none"]
  /\ cache = [k \in Key |-> None]
  /\ cacheUp \in PingOutcomes
  /\ req = [r \in Requests |-> None]
  /\ pc = [r \in Requests |-> "idle"]
  /\ resp = [r \in Requests |-> "none"]
  /\ todo = [r \in Requests |-> {}]
  /\ seen = [r \in Requests |-> {}]
  /\ blind = {}
  /\ scan = [r \in Requests |-> {}]
  /\ spoiled = {}
  /\ excused = {}

-----------------------------------------------------------------------------
(* What the tables say. *)

(* Variant: the days of the week are not looked at (as in cmd/seed). *)
GeneratedEveryDay(room, sc, days) ==
  {s \in Slot : s.room = room /\ s.day \in days
                 /\ \E d \in Days : s.time \in Covers[sc][d]}

(* GenerateSlotsForDate, over some days. *)
Generated(room, sc, days) ==
  {s \in Slot : s.room = room /\ s.day \in days /\ s.time \in Covers[sc][s.day]}

Taken(s) ==
  \E b \in Requests : bookings[b] = "active" /\ req[b].slot = s

(* What a list with no cache and no failure would answer now. *)
Fresh(room, day) ==
  IF schedule[room] = None THEN {}
  ELSE {s \in Generated(room, schedule[room], {day}) : ~ Taken(s)}

(* A cached answer that is not what the tables would give. *)
Stale(k) == cache[k] # None /\ cache[k] # Fresh(k.room, k.day)

(* The slot a request books or gives back, and the room a request writes    *)
(* to and how it spells it.                                                 *)
SlotOf(r) == IF req[r].op = "book" THEN req[r].slot ELSE req[req[r].booking].slot
RoomOf(r) == IF req[r].op = "create" THEN req[r].room ELSE SlotOf(r).room
SpellingOf(r) == IF req[r].op = "create" THEN req[r].spelling ELSE Canonical

KeyOf(r) == [room |-> req[r].room, spelling |-> req[r].spelling, day |-> req[r].day]

-----------------------------------------------------------------------------
(* How a request moves on. *)

Goto(r, step) ==
  /\ pc' = [pc EXCEPT ![r] = step]
  /\ UNCHANGED resp

Answer(r, code) ==
  /\ pc' = [pc EXCEPT ![r] = "done"]
  /\ resp' = [resp EXCEPT ![r] = code]

(* After a write to a room, the lists of it that have read and not yet      *)
(* stored what they read hold something the tables no longer say.           *)
Overtake(room, days) ==
  spoiled' = spoiled \cup
    {h \in Requests : /\ pc[h] \in {"cacheSet", "unstored"}
                      /\ req[h].room = room /\ req[h].day \in days}

(* A writer ends without having removed these entries. *)
Excuse(keys) == excused' = excused \cup {k \in keys : Stale(k)}

KeysOf(room) == {k \in Key : k.room = room}

FirstStep == [list |-> "exists", create |-> "insert",
              book |-> "getSlot", cancel |-> "lookup"]

Arrive(r) ==
  /\ pc[r] = "idle"
  /\ \E q \in Request :
       /\ req' = [req EXCEPT ![r] = q]
       /\ Goto(r, FirstStep[q.op])
  /\ UNCHANGED <<tables, cache, cacheUp, locals, history>>

(* POST /rooms/create: one INSERT. *)
CreateRoom(room) ==
  /\ room \notin rooms
  /\ rooms' = rooms \cup {room}
  /\ UNCHANGED <<schedule, rows, bookings, cache, cacheUp, req, pc, resp, locals, history>>

-----------------------------------------------------------------------------
(* UpsertSlots: one INSERT ... ON CONFLICT DO NOTHING per slot, day by day.  *)

Firsts(slots) ==
  {s \in slots : \A t \in slots : s.day < t.day \/ (s.day = t.day /\ s.time <= t.time)}

(* On to the first of these slots, or past the loop. *)
Upsert(r, slots) ==
  /\ todo' = [todo EXCEPT ![r] = slots]
  /\ Goto(r, IF slots # {} THEN "upsert"
             ELSE IF req[r].op = "list" THEN "listFree" ELSE "invalidate")

UpsertSlot(r) ==
  /\ pc[r] = "upsert"
  /\ \E s \in Firsts(todo[r]) :
       /\ rows' = rows \cup {s}
       /\ Upsert(r, todo[r] \ {s})
  /\ UNCHANGED <<rooms, schedule, bookings, cache, cacheUp, req, seen, blind, scan, history>>

(* An error ends the loop over the slots of the day, and nobody looks at it. *)
UpsertFails(r) ==
  /\ "postgres" \in Faults
  /\ pc[r] = "upsert"
  /\ \E first \in Firsts(todo[r]) : Upsert(r, {s \in todo[r] : s.day # first.day})
  /\ spoiled' = IF req[r].op = "list" THEN spoiled \cup {r} ELSE spoiled
  /\ UNCHANGED <<tables, cache, cacheUp, req, seen, blind, scan, excused>>

-----------------------------------------------------------------------------
(* GET /rooms/{roomId}/slots/list *)

Exists(r) ==
  /\ pc[r] = "exists"
  /\ IF req[r].room \in rooms THEN Goto(r, "cacheGet")
                              ELSE Answer(r, "ROOM_NOT_FOUND")
  /\ UNCHANGED <<tables, cache, cacheUp, req, locals, history>>

CacheHit(r) ==
  /\ pc[r] = "cacheGet"
  /\ cacheUp /\ cache[KeyOf(r)] # None
  /\ seen' = [seen EXCEPT ![r] = cache[KeyOf(r)]]
  /\ Answer(r, "OK")
  /\ UNCHANGED <<tables, cache, cacheUp, req, todo, blind, scan, history>>

(* An error of Redis counts as a miss. *)
CacheMiss(r) ==
  /\ pc[r] = "cacheGet"
  /\ ~ cacheUp \/ cache[KeyOf(r)] = None \/ "redis" \in Faults
  /\ Goto(r, "readSchedule")
  /\ UNCHANGED <<tables, cache, cacheUp, req, locals, history>>

ReadSchedule(r) ==
  /\ pc[r] = "readSchedule"
  /\ \/ /\ schedule[req[r].room] = None
        /\ seen' = [seen EXCEPT ![r] = {}]
        /\ Goto(r, "cacheSet")
        /\ UNCHANGED todo
     \/ /\ schedule[req[r].room] # None
        /\ Upsert(r, Generated(req[r].room, schedule[req[r].room], {req[r].day}))
        /\ UNCHANGED seen
  /\ UNCHANGED <<tables, cache, cacheUp, req, blind, scan, history>>

(* Variants: answering what was generated instead of what was stored, and   *)
(* a LEFT JOIN without b.id IS NULL.                                        *)
AvailableGenerated(room, day) == Fresh(room, day)
AvailableOrTaken(room, day) == {s \in rows : s.room = room /\ s.day = day}

(* ListAvailableSlots: the rows of the day without an active booking. *)
Available(room, day) ==
  {s \in rows : s.room = room /\ s.day = day /\ ~ Taken(s)}

ListFree(r) ==
  /\ pc[r] = "listFree"
  /\ seen' = [seen EXCEPT ![r] = Available(req[r].room, req[r].day)]
  /\ Goto(r, "cacheSet")
  /\ UNCHANGED <<tables, cache, cacheUp, req, todo, blind, scan, history>>

(* SetSlots.  Its error is dropped, and then nobody knows whether Redis     *)
(* carries the SET out, or carries it out again: its client repeats a       *)
(* command that was not answered.                                           *)
Store(r) ==
  /\ cache' = [cache EXCEPT ![KeyOf(r)] = seen[r]]
  /\ excused' = IF r \in spoiled THEN excused \cup {KeyOf(r)} ELSE excused \ {KeyOf(r)}

AnswerUnstored(r) ==
  /\ "redis" \in Faults /\ cacheUp
  /\ pc' = [pc EXCEPT ![r] = "unstored"]
  /\ resp' = [resp EXCEPT ![r] = "OK"]

CacheSet(r) ==
  /\ pc[r] = "cacheSet"
  /\ cacheUp
  /\ Store(r)
  /\ Answer(r, "OK") \/ AnswerUnstored(r)
  /\ UNCHANGED <<tables, cacheUp, req, locals, spoiled>>

CacheNotSet(r) ==
  /\ pc[r] = "cacheSet"
  /\ (~ cacheUp /\ Answer(r, "OK")) \/ AnswerUnstored(r)
  /\ UNCHANGED <<tables, cache, cacheUp, req, locals, history>>

(* The SET of a list that has ended takes effect. *)
LateSet(r) ==
  /\ pc[r] = "unstored"
  /\ Store(r)
  /\ Goto(r, "dead")
  /\ UNCHANGED <<tables, cacheUp, req, locals, spoiled>>

-----------------------------------------------------------------------------
(* The three requests that write, up to the statement that does. *)

(* Variant: ON CONFLICT (room_id) DO UPDATE. *)
AnyRoom(room) == room \in rooms

(* schedules.room_id is UNIQUE and REFERENCES rooms. *)
Unscheduled(room) == room \in rooms /\ schedule[room] = None

(* What the three statements that write do to the tables: INSERT INTO       *)
(* schedules, INSERT INTO bookings with its COMMIT, UPDATE bookings.        *)
InsertSchedule(r) ==
  /\ Unscheduled(req[r].room)
  /\ schedule' = [schedule EXCEPT ![req[r].room] = req[r].schedule]
  /\ Overtake(req[r].room, Days)
  /\ UNCHANGED bookings

InsertBooking(r) ==
  /\ ~ Taken(req[r].slot)
  /\ bookings' = [bookings EXCEPT ![r] = "active"]
  /\ Overtake(req[r].slot.room, {req[r].slot.day})
  /\ UNCHANGED schedule

UpdateBooking(r) ==
  /\ bookings[req[r].booking] = "active" /\ req[r].own
  /\ bookings' = [bookings EXCEPT ![req[r].booking] = "cancelled"]
  /\ Overtake(SlotOf(r).room, {SlotOf(r).day})
  /\ UNCHANGED schedule

WritesNothing == UNCHANGED <<schedule, bookings, spoiled>>

CreateSchedule(r) ==
  /\ pc[r] = "insert"
  /\ \/ /\ req[r].room \notin rooms
        /\ Answer(r, "ROOM_NOT_FOUND")
        /\ WritesNothing
     \/ /\ schedule[req[r].room] # None
        /\ Answer(r, "SCHEDULE_EXISTS")
        /\ WritesNothing
     \/ InsertSchedule(r) /\ Goto(r, "reply")
  /\ UNCHANGED <<rooms, rows, cache, cacheUp, req, locals, excused>>

(* store.GetSlot. *)
GetSlot(r) ==
  /\ pc[r] = "getSlot"
  /\ IF req[r].slot \in rows THEN Goto(r, "book") ELSE Answer(r, "SLOT_NOT_FOUND")
  /\ UNCHANGED <<tables, cache, cacheUp, req, locals, history>>

(* store.CreateBooking, whole. *)
Book(r) ==
  /\ pc[r] = "book"
  /\ \/ Answer(r, "INVALID_REQUEST") /\ WritesNothing
     \/ Taken(req[r].slot) /\ Answer(r, "SLOT_ALREADY_BOOKED") /\ WritesNothing
     \/ InsertBooking(r) /\ Goto(r, "reply")
  /\ UNCHANGED <<rooms, rows, cache, cacheUp, req, locals, excused>>

(* GetBookingByID and GetSlot, to learn the room; any error is passed over. *)
Lookup(r) ==
  /\ pc[r] = "lookup"
  /\ \/ /\ bookings[req[r].booking] # "none"
        /\ UNCHANGED blind
     \/ /\ bookings[req[r].booking] = "none" \/ "postgres" \in Faults
        /\ blind' = blind \cup {r}
  /\ Goto(r, "cancel")
  /\ UNCHANGED <<tables, cache, cacheUp, req, todo, seen, scan, history>>

(* store.CancelBooking, whole; it succeeds on a cancelled booking too. *)
Cancel(r) ==
  /\ pc[r] = "cancel"
  /\ LET b == req[r].booking IN
     \/ bookings[b] = "none" /\ Answer(r, "BOOKING_NOT_FOUND") /\ WritesNothing
     \/ bookings[b] # "none" /\ ~ req[r].own /\ Answer(r, "FORBIDDEN") /\ WritesNothing
     \/ UpdateBooking(r) /\ Goto(r, "reply")
     \/ bookings[b] = "cancelled" /\ req[r].own /\ Goto(r, "reply") /\ WritesNothing
  /\ UNCHANGED <<rooms, rows, cache, cacheUp, req, locals, excused>>

-----------------------------------------------------------------------------
(* The three requests that write, from there on. *)

(* Variant: the answers spelled otherwise. *)
Misspelt(r) == IF req[r].op = "cancel" THEN "canceled" ELSE "Created"

Success(r) == IF req[r].op = "cancel" THEN "cancelled" ELSE "created"

(* The write is known to have succeeded. *)
Reply(r) ==
  /\ pc[r] = "reply"
  /\ \/ /\ req[r].op = "create"
        /\ Upsert(r, Generated(req[r].room, req[r].schedule, Week))
        /\ UNCHANGED excused
     \/ /\ req[r].op # "create" /\ r \notin blind
        /\ Goto(r, "invalidate")
        /\ UNCHANGED <<todo, excused>>
     \/ /\ r \in blind
        /\ Answer(r, "cancelled")
        /\ Excuse(KeysOf(RoomOf(r)))
        /\ UNCHANGED todo
  /\ UNCHANGED <<tables, cache, cacheUp, req, seen, blind, scan, spoiled>>

(* The write took effect and the statement, or the one that reads its       *)
(* result back, still returned an error: 500, and no invalidation.          *)
ReplyLost(r) ==
  /\ "postgres" \in Faults
  /\ pc[r] = "reply"
  /\ Answer(r, "INTERNAL_ERROR")
  /\ Excuse(KeysOf(RoomOf(r)))
  /\ UNCHANGED <<tables, cache, cacheUp, req, locals, spoiled>>

(* Variant: a pattern without its wildcard. *)
MatchingNothing(r) == {}

(* The keys that the pattern of InvalidateRoom matches now. *)
Matching(r) ==
  {k \in KeysOf(RoomOf(r)) : k.spelling = SpellingOf(r) /\ cache[k] # None}

(* InvalidateRoom begins to iterate: SCAN returns every key that is there   *)
(* from its beginning to its end, and may return one that is there at times.*)
Invalidate(r) ==
  /\ pc[r] = "invalidate"
  /\ cacheUp
  /\ scan' = [scan EXCEPT ![r] = Matching(r)]
  /\ Goto(r, "delete")
  /\ Excuse({k \in KeysOf(RoomOf(r)) : k.spelling # SpellingOf(r)})
  /\ UNCHANGED <<tables, cache, cacheUp, req, todo, seen, blind, spoiled>>

(* A key goes, and no SCAN is bound to come upon it any more. *)
Drop(k) ==
  /\ cache[k] # None
  /\ cache' = [cache EXCEPT ![k] = None]
  /\ scan' = [w \in Requests |-> scan[w] \ {k}]
  /\ excused' = excused \ {k}

Delete(r) ==
  /\ pc[r] = "delete"
  /\ \E k \in Matching(r) : Drop(k)
  /\ UNCHANGED <<tables, cacheUp, req, pc, resp, todo, seen, blind, spoiled>>

Invalidated(r) ==
  /\ pc[r] = "delete"
  /\ scan[r] = {}
  /\ Answer(r, Success(r))
  /\ UNCHANGED <<tables, cache, cacheUp, req, locals, history>>

(* NoopSlotsCache.InvalidateRoom. *)
InvalidateNothing(r) ==
  /\ pc[r] = "invalidate"
  /\ ~ cacheUp
  /\ Answer(r, Success(r))
  /\ Excuse(KeysOf(RoomOf(r)))
  /\ UNCHANGED <<tables, cache, cacheUp, req, locals, spoiled>>

(* SCAN or DEL fails; the error is dropped. *)
NotInvalidated(r) ==
  /\ "redis" \in Faults
  /\ pc[r] \in {"invalidate", "delete"} /\ cacheUp
  /\ scan' = [scan EXCEPT ![r] = {}]
  /\ Answer(r, Success(r))
  /\ Excuse(KeysOf(RoomOf(r)))
  /\ UNCHANGED <<tables, cache, cacheUp, req, todo, seen, blind, spoiled>>

-----------------------------------------------------------------------------
(* What may happen to a request, and around it. *)

(* A statement that reads fails: 500. *)
StatementFails(r) ==
  /\ "postgres" \in Faults
  /\ pc[r] \in {"exists", "readSchedule", "listFree", "getSlot"}
  /\ Answer(r, "INTERNAL_ERROR")
  /\ UNCHANGED <<tables, cache, cacheUp, req, locals, history>>

(* A statement that writes fails, or its connection breaks: 500 too, and    *)
(* whether it takes effect, and when, nobody will learn.                    *)
LeftAdrift(r) ==
  /\ "postgres" \in Faults
  /\ pc[r] \in {"insert", "book", "cancel"}
  /\ pc' = [pc EXCEPT ![r] = "adrift"]
  /\ resp' = [resp EXCEPT ![r] = "INTERNAL_ERROR"]
  /\ UNCHANGED <<tables, cache, cacheUp, req, locals, history>>

(* It takes effect after all, and no invalidation follows. *)
TakesEffect(r) ==
  /\ pc[r] = "adrift"
  /\ \/ req[r].op = "create" /\ InsertSchedule(r)
     \/ req[r].op = "book" /\ InsertBooking(r)
     \/ req[r].op = "cancel" /\ UpdateBooking(r)
  /\ pc' = [pc EXCEPT ![r] = "dead"]
  /\ UNCHANGED <<rooms, rows, cache, cacheUp, req, resp, locals>>
  /\ excused' = excused \cup {k \in KeysOf(RoomOf(r)) : Stale(k)'}

(* The 30 seconds of an entry run out (TimedListing counts them). *)
Expire(k) ==
  /\ Drop(k)
  /\ UNCHANGED <<tables, cacheUp, req, pc, resp, todo, seen, blind, spoiled>>

(* The process dies with every request it is serving, and is restarted. *)
CutOff(r) ==
  CASE pc[r] \in {"insert", "book", "cancel"} -> "adrift"
    [] pc[r] = "cacheSet" /\ cacheUp -> "unstored"
    [] OTHER -> "dead"

Crash ==
  /\ "process" \in Faults
  /\ \E r \in Requests : pc[r] \in Running
  /\ pc' = [r \in Requests |-> IF pc[r] \in Running THEN CutOff(r) ELSE pc[r]]
  /\ scan' = [r \in Requests |-> {}]
  /\ cacheUp' \in PingOutcomes
  /\ Excuse(Key)
  /\ UNCHANGED <<tables, cache, req, resp, todo, seen, blind, spoiled>>

ListStep(r)  == \/ Exists(r) \/ CacheHit(r) \/ CacheMiss(r) \/ ReadSchedule(r)
                \/ ListFree(r) \/ CacheNotSet(r)
WriteStep(r) == \/ CreateSchedule(r) \/ GetSlot(r) \/ Book(r) \/ Lookup(r) \/ Cancel(r)
                \/ Reply(r) \/ Invalidate(r) \/ Delete(r) \/ Invalidated(r)
                \/ InvalidateNothing(r)
Fault(r)     == \/ UpsertFails(r) \/ ReplyLost(r) \/ NotInvalidated(r)
                \/ StatementFails(r) \/ LeftAdrift(r) \/ TakesEffect(r)

(* Everything but what begins or ends the life of an entry by itself. *)
OtherStep ==
  \/ \E r \in Requests :
       Arrive(r) \/ UpsertSlot(r) \/ ListStep(r) \/ WriteStep(r) \/ Fault(r)
  \/ \E room \in Rooms : CreateRoom(room)
  \/ Crash

Next ==
  \/ OtherStep
  \/ \E r \in Requests : CacheSet(r) \/ LateSet(r)
  \/ \E k \in Key : Expire(k)

Spec == Init /\ [][Next]_vars

-----------------------------------------------------------------------------
(* Properties. *)

(* The tables are the book of RoomBook, and every step one of its steps or  *)
(* none: a room has the slots of its one schedule and no others, whichever  *)
(* of several concurrent CreateSchedules won and whoever upserts the slots  *)
(* (the winner, for the week, or any list, for its day), and what is booked *)
(* is a row that nobody holds.                                              *)
BookingOf(b) ==
  IF bookings[b] = "none" THEN None ELSE [slot |-> req[b].slot, status |-> bookings[b]]

TheBook == INSTANCE RoomBook WITH
  Bookings <- Requests, slots <- rows, booking <- [b \in Requests |-> BookingOf(b)]

IsRoomBook == TheBook!Spec

(* Every slot that a list answers, from the cache too, is a row: its id can *)
(* be booked, even when the upsert of some slots failed.                    *)
OffersAreRows ==
  /\ \A r \in Requests : seen[r] \subseteq rows
  /\ \A k \in Key : cache[k] # None => cache[k] \subseteq rows

(* A schedule answered 201 is the schedule of its room from then on, and no *)
(* second request is told so: created only once, and not to be changed once *)
(* it is (api.yaml, POST /rooms/{roomId}/schedule/create).                  *)
Created(r) == resp[r] = "created" /\ req[r].op = "create"

CreatedScheduleStands ==
  \A r \in Requests :
    Created(r) =>
      /\ schedule[req[r].room] = req[r].schedule
      /\ \A q \in Requests :
           Created(q) /\ req[q].room = req[r].room => q = r

(* w has written, or is about to delete the entry its write made stale. *)
WillInvalidate(w, k) ==
  /\ \/ pc[w] \in {"reply", "invalidate"}
     \/ pc[w] = "upsert" /\ req[w].op = "create"
     \/ pc[w] = "delete" /\ k \in scan[w]
  /\ RoomOf(w) = k.room

(* The exact causes of a wrong cached answer, under every interleaving of   *)
(* the statements: the writer has not come to invalidate yet, or a list     *)
(* stored what it read before the write (and perhaps only after the list    *)
(* had ended), or an invalidation was lost (an error of Redis, a process    *)
(* that died or ran without a cache, an error before or after the effect, a *)
(* UUID spelled otherwise).  Nothing else is stale, so InvalidateRoom,      *)
(* which scans and deletes key by key, misses nothing.                      *)
StaleForCause ==
  \A k \in Key :
    Stale(k) => k \in excused \/ \E w \in Requests : WillInvalidate(w, k)

(* A list that nothing overtook is about to store what the tables say. *)
ReadsAreFresh ==
  \A r \in Requests :
    pc[r] \in {"cacheSet", "unstored"} /\ r \notin spoiled =>
      seen[r] = Fresh(req[r].room, req[r].day)

(* What a list is answered that has the service to itself. *)
AnswerNow(k) ==
  IF cacheUp /\ cache[k] # None THEN cache[k] ELSE Fresh(k.room, k.day)

Idle == \A r \in Requests : pc[r] \notin Running

(* A list offers no slot that has an active booking (api.yaml, GET          *)
(* /rooms/{roomId}/slots/list), asked of a service that has answered every  *)
(* other request.                                                           *)
OffersAreFree ==
  Idle => \A k \in Key : \A s \in AnswerNow(k) : ~ Taken(s)

(* A list is empty only if the room has no schedule or no free slot on that *)
(* day, asked of a service that has answered every other request.           *)
EmptyForCause ==
  Idle => \A k \in Key : AnswerNow(k) = {} => Fresh(k.room, k.day) = {}
=============================================================================
