# TLA+ verification of the room booking service

The service is one Go process over PostgreSQL, with Redis as a cache in front of
its most used query. Administrators create rooms and give each one weekly
schedule; users list the free half-hour slots of a room on a date, book one, and
cancel. The specifications here follow the code in `internal/app` and
`internal/migrations`, statement by statement where requests can interleave.

## The system

| component | state it keeps | operations | source |
|---|---|---|---|
| Bookings | table `bookings`, its partial unique index, open transactions | create, cancel | `http.go` 268-306, 352-377; `store_postgres.go` 157-202, 246-271; `000001_init.up.sql` 29-39 |
| Slot listing and cache | Redis entries by room and date, with a TTL of 30 s | list; invalidate after every write | `http.go` 219-266; `cache.go` |
| Schedules and slots | tables `schedules`, `slots` | create a schedule (once), generate and upsert slots | `http.go` 185-217; `slots.go`; `store_postgres.go` 65-128 |
| Rooms | table `rooms` | create, list | `http.go` 155-183 |
| Routing, authentication, roles | none (the secret) | `authMiddleware`, `requireRole`, JWT | `http.go` 46-67, 383-413; `jwt.go` |
| Accounts | a map of users in the process's memory, one mutex; tokens, in the clients' hands | register, login, dummyLogin | `http.go` 73-153 |
| Booking lists | none (the client's place in its walk) | pages of all bookings; the caller's future bookings | `http.go` 308-350; `store_postgres.go` 204-244 |
| Start-up | migrations; whether Redis answered the first PING | `main` | `cmd/server/main.go`; `migrations.go` |
| Seed command | none; writes the four tables | `main` | `cmd/seed/main.go` |
| In-memory store | maps, without a lock | the `Store` interface, for tests | `store_memory.go` |

Every HTTP request is a goroutine that runs its handler once; nothing retries and
nothing runs in the background. Requests meet in PostgreSQL, in Redis, and in one map of
the process, that of the accounts. The seed command is a second program on the same
database, and knows nothing of the cache. The database arbitrates: one schedule for each
room (`UNIQUE(room_id)`), one row for each slot (`ON CONFLICT DO NOTHING`), one active
booking for each slot (`idx_bookings_active_per_slot`). The cache is kept right by
deletion alone: whoever creates a schedule, books or cancels scans for the room's keys
and deletes them, after the write and outside any transaction.

What is hard about it:

- **Transactions.** `CreateBooking` is the only handler with an explicit transaction.
  An INSERT of a slot whose key is uncommitted elsewhere waits for that transaction.
  COMMIT may succeed although its caller saw an error. Clients and the process may
  go away at any statement.
- **Cancellation** compares the owner, updates, and reads the answer back in three
  transactions.
- **The cache.** A list reads, then stores; a writer writes, then invalidates; the
  invalidation is itself a loop over SCAN. Every error of the cache is dropped, a SET
  may take effect when its list has long been answered, and a process that could not
  reach Redis at start-up never invalidates. What is left is the 30 seconds of an entry.
- **Partial failure.** A schedule is one INSERT and up to a few hundred upserts, whose
  errors are dropped.
- **Calendar arithmetic.** Sunday is 0 for `time.Weekday`, 7 for a schedule.
- **Accounts** are lost with the process while the tokens issued for them stay good
  for a day. A login looks its account up under the mutex and compares the password
  after it; a registration has three ways out while it holds the mutex.
- **Pages.** The total and the page are two statements, two pages are two requests,
  and rows are ordered by the time of BEGIN, which is not the order in which they
  appear. `(page-1)*pageSize` has no upper bound.
- **The seed command** overwrites schedules, and ends at its first error.
- **The in-memory store** has no lock, and finds a slot again by comparing times.

What makes each component correct: bookings: no slot is held twice, the `created_at` of
a booking (the time of its BEGIN; the row may be stored later) is not after its slot's
start, answers are true of the table, only the owner cancels. Listing: what is offered
can be booked and is free, and a wrong entry has a known cause and goes in time.
Schedules: a schedule is accepted when whole half-hours fill it on days of the week that
differ, its slots are those half-hours, and a room's slots fit its one schedule.
Accounts: a registration that was answered stands, and who acts has earned it with a
password. Booking lists: a walk over the pages misses nothing, and no page is another's.
Seed: every slot has an origin, a completed run leaves none of its own out, and its
booking joins no other. In-memory store: it promises what the tables do. `PROJECT.json`
lists the hazards line by line, with the properties that would catch each.

## Modules

| module | what it is |
|---|---|
| `BookingLedger` | abstract: what the slots and bookings tables promise, one atomic step for a slot, a booking, a cancellation |
| `BookingStore` | `CreateBooking` and `CancelBooking` statement by statement; implements `BookingLedger` |
| `RoomBook` | abstract: what the interface `Store` promises of rooms, schedules, slots and bookings |
| `SlotListing` | lists, schedules, bookings and cancellations over the tables and Redis; implements `RoomBook` |
| `TimedListing` | `SlotListing` with a clock, by which cache entries run out |
| `MemoryStore` | the maps of `store_memory.go` under the tests and the benchmark; implements `RoomBook` |
| `SeededListing` | `SlotListing` with the seed command beside it |
| `SlotGrid` | `ValidateSchedule` and `GenerateSlotsForDate`, loop by loop |
| `Accounts` | register, login, dummyLogin, and authentication and roles of a call |
| `BookingPages` | both lists of bookings, read while bookings are made and cancelled |
| `MC...` | constants and symmetry for TLC |
| `BookingStoreProofs`, `SlotListingProofs`, `TimedListingProofs`, `SeededListingProofs`, `MemoryStoreProofs`, `AccountsProofs`, `BookingPagesProofs`, `SlotGridProofs` | theorems about the module of that name, and their proofs |

Definitions marked *Variant* are plausible mistakes, each the counterpart of the
definition that follows it. No specification uses them: putting one in the place of
its counterpart makes a property fail, which shows that the property depends on that
line of the code.

### BookingStore

`Requests` is every request there will ever be, since a goroutine runs once. `pc[r]`
is the statement request `r` will send next; `tx[r]` is what the database knows of
its transaction. The two are separate variables because they come apart: after
`ConnLost` or `Crash`, `pc[r]` has ended while `tx[r]` may still be open, hold an
uncommitted key, be on its way to commit, or have the UPDATE of a cancellation still to
carry out. A transaction that had not been sent its last statement is dropped
(`DbAbort`); one that had may end either way, whenever the database comes to it.

| action | code |
|---|---|
| `GetSlot`, `BeginTx`, `ReadSlot`, `Insert`, `SendCommit`, `CommitReply` | `http.go` 281-305 and `store_postgres.go` 157-202, in that order; every early return rolls back (line 163) |
| `Insert` | its guard is the wait on the partial unique index; its result is what the index says then |
| `DbCommit`, `DbAbort` | the server's side of COMMIT, and of a transaction whose client is gone |
| `ReadOwner`, `SendUpdate`, `UpdateReply`, `Reread` | the three statements of `CancelBooking` |
| `DbUpdate` | the UPDATE is carried out, by then perhaps for nobody |
| `ConnLost`, `Crash`, `UpsertSlot`, `Tick` | the surroundings |

A row is named by the request that inserted it: that is all the model keeps of
`gen_random_uuid()`. `created_at` is `began[r]`, because `NOW()` is the time of BEGIN.
The lookup of the room that a cancellation makes for the cache, and invalidation, are
in `SlotListing`. SERIALIZABLE isolation is modelled by what the code relies on: the
unique index arbitrates, and any COMMIT may be refused (`DbAbort`). Aborts that
PostgreSQL might raise at other statements are covered by `ConnLost`, which answers
the same 500 and leaves the transaction to be dropped; a 409 for an INSERT that
collides is what the index gives. The branches of lines 167-169 (the slot vanished:
no statement deletes slots) and 196-198 (a duplicate key at COMMIT: the index is not
deferred) have no action, since no execution takes them.

### SlotListing

A slot is a room, a day and a time. `Covers[sc][d]` is what `GenerateSlotsForDate`
gives for schedule `sc` on day `d`, the subject of `SlotGrid`. Creating a booking is
one step (what `BookingStore` shows of its transaction), and so is cancelling;
whether the slot has begun is a free choice, because this module has no clock.

| action | code |
|---|---|
| `Exists`, `CacheHit`, `CacheMiss`, `ReadSchedule`, `UpsertSlot`, `ListFree` | `handleListSlots` up to SetSlots |
| `CreateSchedule`, `Reply`, `UpsertSlot` | `handleCreateSchedule`: INSERT, then the seven days |
| `GetSlot`, `Book`, `Reply` | `handleCreateBooking` |
| `Lookup`, `Cancel`, `Reply` | `handleCancelBooking`; a request in `blind` did not learn the room and will not invalidate |
| `Invalidate`, `Delete`, `Invalidated`, `InvalidateNothing` | `InvalidateRoom`, and that of a process without a cache: `scan[r]` holds the keys the SCAN is bound to return, those present from its start on; it may return others too |
| `UpsertFails`, `NotInvalidated` | errors the code drops |
| `CacheSet`, `CacheNotSet`, `LateSet` | SetSlots, whose error is dropped too: the SET is carried out, or it is not, and a list that heard nothing of it (`pc[r] = "unstored"`) may see it carried out, or carried out again, after its answer |
| `StatementFails`, `ReplyLost` | a 500 when a statement that reads fails, and one after a write took effect |
| `LeftAdrift`, `TakesEffect` | a 500 while a statement that writes is under way: it takes effect later, or never |
| `Expire`, `Crash` | the TTL; a restart, at which the PING decides again whether there is a cache |

`InsertSchedule`, `InsertBooking` and `UpdateBooking` are what the three statements that
write do to the tables. They are part of `CreateSchedule`, `Book` and `Cancel`, and of
`TakesEffect`: like the COMMIT of `BookingStore`, they may be carried out after their
request has answered 500 or its process has died (`pc[r] = "adrift"`), when lists have
cached what the tables said before. A late upsert of a slot has no action: every list
upserts its day before it reads, so a row that comes late is one that a list puts there.
Nor has a late DEL, which does no more than `Expire` does: it takes an entry away. A late
SET is another matter, since it puts a wrong one back when the writer has come and gone.

A key is a room, the spelling of its UUID in the path, and a day: PostgreSQL takes
many spellings for one UUID, Redis does not. `Faults` bounds which of PostgreSQL,
Redis and the process may fail. Two history variables name causes: `spoiled` has the
lists that a write overtook between their read and their SetSlots, `excused` the keys
whose wrong entry no invalidation is going to remove.

`RoomBook` is what remains of all this for a caller of `Store`: `IsRoomBook` maps the
rows and the bookings of `SlotListing` to it, under every interleaving and failure.

### TimedListing

`Expire` takes an entry away at any time, which says nothing of how long it may stay.
`TimedListing` adds the clock `now`, stores each entry with the time it runs out
(`TimedSet`: the 30 seconds that both calls of SetSlots give, counted by Redis from the
SET), and lets it go at that time and no earlier (`TimedExpire`). `Tick` may not pass an
entry whose time has come: Redis answers with none that has run out, whenever it removes
it. `missed` is when a list found nothing in the cache, `took` how long it was from there
to its SET, `changed` when a room's lists last came to say something else (or a list was
spoiled by an upsert of its own that failed). Nothing bounds how long a list takes. Every
other step of `SlotListing`, faults and restarts included, is `TimedOther`.

`StaleIsBrief` is what the cache promises at its worst: an entry is wrong for no longer
than its TTL and the time of the list that stored it, counted from the change that made
it wrong, whatever invalidation was lost or never sent.

### MemoryStore

The same handlers over the maps, one access to a map at a time. `Append`,
`CreateSchedule`, `Find` and `Put` (the inner loop of `UpsertSlots` and its
append), `RoomExists`, `GetScheduleByRoom`, `ListAvailableSlots`, `GetSlot`,
`CheckFree` and `InsertBooking`, `Lookup` and `CancelBooking` are the methods, or the
parts of them that another goroutine might meet. `Arrive` is what the repository does
with this store: the tests send one request after the other, the benchmark lists a date
of the coming week from many goroutines. `NoRace` is the condition under which that is
a legal Go program; it would fail were a list to be the first to generate a slot.
`IsRoomBook` has slots as values where the maps have them under ids: were a slot
stored twice, or lost, no step of `RoomBook` would match.

### SeededListing

Extends `SlotListing` by `seed`, the statement the command is at. `SowRooms` and
`SowSchedules` are one INSERT each, with ON CONFLICT DO UPDATE; `SowSlot` is one per
slot, DO NOTHING; `PickSlot` and `SowBooking` (or `BookingConflicts`) are the demo
booking. `SeedFails` ends the command anywhere, `StartSeed` runs it again. Its booking
is in the table under the name of a request that nobody made.

`ServerStep` is a step of `SlotListing`, except that the server never makes a room under
one of the command's ids, which are fixed where its own are random.

The command gives Room C slots on Tuesdays and Thursdays, which are not days of its
schedule; it replaces a schedule while lists and creators may have read the one before
and upsert its slots; and it invalidates no cache, so that lists of its rooms may answer
what they did until the TTL. `IsRoomBook` and `StaleForCause` are therefore properties of
the server alone and are not checked here. What remains of the slots is
`SlotsAreAccountedFor`: each is one of the command's, or is on a day and at a time of a
schedule that the room has had, and a run that completes has left none of its own out.
That the schedule of an administrator does not stand is the third disagreement below.

### Accounts

| action | code |
|---|---|
| `Arrive` | the handlers up to their validation, `http.go` 79-86, 107-110, 130-147 |
| `Lock`, `Read`, `Write`, `Unlock` | `usersMu` and the accesses of the map, of `handleRegister` and `handleLogin` |
| `Verify`, `DummyLogin` | the comparison of the password, after `Unlock`; `IssueToken` |
| `Authenticate`, `RequireRole`, `Handle` | `authMiddleware` with `ParseToken`, `requireRole`, and the handler, which acts as `claims[r].id` |
| `Restart`, `Tick` | the process dies with its requests and its map; tokens age |

Locking is not built into the reads and writes: `Read` happens at its step whoever holds
the mutex, so a mutex released too early would show in `CreatedAccountStands`. A key that
is not in the map gives Go's zero value (`Zero`), whose password is the empty string: a
login for an unknown address with an empty password is refused only because the code
tests `ok` too. A call carries a token that was issued, or none: that the signature cannot
be forged is taken from the library. An id is the request that registered it.

A restart has a consequence that no property forbids: the same address registers again,
under a new id that does not own the bookings made under the old one, and an old token
acts for the old id until it expires. `ActsAreAuthorised` is stated so as to hold across
it: in some process, somebody gave the password.

### BookingPages

`Begin` and `Commit` give a row its `created_at` and its appearance, in that order but
not in the same order for every row. A client asks for a page (`AskPage`), is answered
by two statements (`Count`, `Select`), and asks for the next as long as pages are full
(`AskNext`); or it asks for its own bookings (`AskMine`, `SelectMine`). `Orders` are the
orders that `ORDER BY created_at DESC` permits. `Wrap` is the arithmetic of an int of
which `MaxInt` is the largest.

Two weaknesses of the code are visible in how the properties must be stated.
`WalkSkipsNothing` speaks of rows that share their `created_at` with no other, because
the order of the others may change from page to page. `WrongOnlyByOverflow` allows one
wrong answer: beyond the width of an int the OFFSET becomes negative, and the client is
answered 500, or it comes out small, and the client is answered 200 with another
page's rows.

### SlotGrid

A behaviour is one call for one date or seven. A date is a day number, a time the
minute of the day; a string that `time.Parse` refuses is `Unparsable`. The checks run
in the code's order and stop at the first that fails. `Grid` and `Valid` are the
independent definitions that the loops are compared with.

## What is checked

| run | bounds | what it shows |
|---|---|---|
| `BookingSafety` | 3 requests, 2 users, 2 slots, clock 0..1 | types; `OneActivePerSlot`, `CreatedBeforeStart`, `AnswersAreTrue`, `RefusalsAreTrue`, `OnlyTheOwnerCancels`, `IsLedger` (refinement) |
| `BookingLiveness` | 3 requests, 1 user, 1 slot, clock 0..1 | `EveryRequestEnds`, `EveryTransactionEnds` |
| `ListingFaults` | 3 requests, 1 room, 1 spelling, 2 schedules, 2 days of 2 times, everything fails | types; `OffersAreRows`, `CreatedScheduleStands`, `StaleForCause`, `IsRoomBook` (refinement) |
| `ListingTime` | 3 requests, 1 slot, 1 spelling, clock 0..2, a TTL of 1, everything fails | types; `StaleIsBrief`, `StaleForCause`, `ReadsAreFresh` |
| `ListingRace` | 3 requests, nothing fails | `OffersAreFree` is **violated** |
| `ListingEmpty` | 3 requests, nothing fails | `EmptyForCause` is **violated** |
| `Grid` | 9 lists of days, 7 minutes, 7 first dates, 1 or 7 dates | verdict, slots, weekdays, termination |
| `Accounts` | 3 requests of 13 kinds, an address in 2 spellings, tokens of 1 tick | types; `CreatedAccountStands`, `RefusalsAreTrue`, `ActsAreAuthorised`, `MapIsGuarded`, `EveryRequestEnds` |
| `BookingPages` | 3 bookings, clock 0..2, 1 client, an int of 4 bits | types; `WalkSkipsNothing`, `PageFillsTotal`, `WrongOnlyByOverflow`, `MineIsWhole` |
| `MemoryStore` | 5 requests, 1 room, 2 schedules, 2 days of 2 times | types; `NoRace`, `IsRoomBook` (refinement) |
| `Seed` | 2 requests and the command's booking, 1 room, 3 days of 1 slot, the second of a weekend | types; `SlotsAreAccountedFor`, `OneActivePerSlot`, no deadlock |
| `SeedOverwrites` | 1 request and the command, nothing fails | `CreatedScheduleStands` is **violated** |

Why the bounds are enough for the questions asked: a double booking takes two bookings,
and a third request is the cancellation that frees the slot, the one that waits, or a
repeated cancellation (booked, cancelled, booked again and the cancellation repeated are
four requests, which only the theorems cover); two slots tell a booking that waits from
one that has no reason to. A clock of two values puts every statement at the start of a
slot or after it, and the theorems cover the rest. A stale entry takes a list, a
schedule and a booking. A clock of three instants and a TTL of one have an entry stored
at once, stored late, and run out; every fault occurs there on one slot, and in
`ListingFaults` on the four of two days, so that a SCAN has several keys to return. Two
days of two times are the fewest that tell an upsert error, which ends a day, from the
end of the week, and two schedules the fewest that differ in times and in days. What no
run of `SlotListing` has room for is a cancellation as a fourth request, and a room id
spelled in two ways: there the theorems stand alone, `NothingElseIsStale` and
`NothingIsStaleForLong` for any number of spellings, and `FreshUnlessOvertaken` for any
number of requests. The lists of days of `Grid` have both boundaries, a value beyond
each, duplicates near and apart, and all seven; its minutes are distances of 0, 15, 30
and more, and the last minute of the day. In `Accounts` two registrations race and a
third request logs in, or a registration, its login and a call follow one another with
restarts between; a blank password is the one that Go's zero value would match. In
`BookingPages` three bookings make pages of one and two rows full and short; an int of
four bits holds the offset of page 4 for sizes 1 and 2 but not for 3, page 7 is the
largest int and 8 is none, and the two wrong answers of an overflow both occur. One
client suffices, since clients only read. `MemoryStore` needs two requests to set up a
room and leaves three for lists in parallel or a booking, its cancellation and a second
booking. In `Seed` the requests are a booking of the demo slot or an administrator's
schedule, and a list that has read a schedule when the command replaces it; a day of the
weekend between two weekdays tells a loop that passes over it from one that ends there.

Deadlock is checked in `Seed` only, where the command can always start again: elsewhere
requests are finitely many, so the system stops.

### The three disagreements with api.yaml

`api.yaml` (512, 528) promises slots that no active booking holds, and an empty list
only where there is no schedule or no slot. The first two runs start with nothing cached
and no failure, and ask a service that has answered every request. It promises too (443,
489) that a schedule cannot be changed once created.

- `ListingRace`: a list reads a slot as free; a booking of it commits and invalidates;
  the list then stores what it read. Until the TTL the booked slot is offered.
- `ListingEmpty`: the same with the empty answer of a room without a schedule, and
  `CreateSchedule` as the writer.
- `SeedOverwrites`: an administrator creates the schedule of a room that the seed command
  has made, and is answered 201; the command replaces it with its next statement, or
  when it is run again (ON CONFLICT (room_id) DO UPDATE, `cmd/seed/main.go` 61-62).

The damage of the first two is bounded: booking an offered slot that is taken is refused
(`OneActivePerSlot`), and `StaleIsBrief` says when the entry is gone. `StaleForCause`
shows that there are no causes of staleness beyond the ones it names. Without the seed
command `CreatedScheduleStands` holds, under every failure.

### Fairness

`BookingStore`: weak fairness for each request's next statement (the Go scheduler runs
a goroutine that can run; the lock queue of PostgreSQL wakes an INSERT whose blocker
is gone) and for the database's own steps (it answers the COMMIT it received and
drops a transaction whose connection is closed). Nothing is assumed of arrivals,
faults, crashes or the clock. An INSERT needs no strong fairness with finitely many
requests.

`SlotGrid`: weak fairness of one sequential computation. `Accounts`: weak fairness for
each request's next step. A mutex needs no more with finitely many requests, and every
one of them holds it for three steps at most. `SlotListing` and `TimedListing` assume
none: that an entry goes is there a bound on the clock, a safety property.

## What is proved

`tlapm` checks the proofs for all values of the constants, under the modules' named
assumptions. Every safety invariant, action property and refinement that a passing run
checks is also the statement of a theorem.

| assumption | what it says |
|---|---|
| `StoreAssumption` | starts and the clock are naturals; `None` is no row and no request |
| `ListingAssumption` | days and times are naturals, the canonical spelling is a spelling, `None` is no data |
| `TimedAssumption` | the TTL is a positive natural, the clock stops at a natural |
| `SeedAssumption` | what the command is to sow is of rooms, schedules and times that exist |
| `MemoryAssumption` | days and times are naturals, the dates of the week are days, `None` is no data |
| `AccountsAssumption` | the id of a registration is neither of the two constants of `dummyLogin` nor empty; `None` is no data |
| `PagesAssumption` | a parameter is an integer, absent or no number; the default size is at most the largest, and that at most the largest int |
| `GridAssumption` | days are integers, minutes are those of a day, `Blank` and `Unparsable` are no minutes |

TLC evaluates each of them in the runs. None says how many requests, rooms, slots or
keys there are: the sets may be infinite.

Few of the properties are inductive. Each module has an inductive invariant (`IInv`,
`TimedIInv` in `TimedListingProofs`, `SeedIInv` in `SeededListingProofs`), the
conjunction of named parts; a lemma for each part shows that every action keeps it, one
step for each action, and one lemma puts them together. What the invariant adds to the
properties:

**`BookingStoreProofs`.** `NoDoubleBooking`, `CreatedInTime`, `AnswersKept`,
`RefusalsJustified`, `TypeCorrect` are `Spec => []P`; `OwnerCancels` is an action
property; `ImplementsLedger` is the refinement. `OneActivePerSlot` says nothing of
uncommitted rows, so a commit could break it; the
inductive form is `OneHolderPerSlot`, in which a request *holds* its slot from its
INSERT until its transaction is gone or its booking cancelled. `CreatedBeforeStart`
needs `BeganInTime`: past the check, BEGIN precedes the start, even when the clock no
longer does. `AnswersAreTrue` needs `CancelsOwn`, that the row a cancellation updates
is still of the user it compared, however late the UPDATE is carried out. All need
`StepsAgree`: which `pc`, `tx`, request and
row occur together. For the refinement, `UpsertSlot` is an `AddSlot`, `DbCommit` is a
`Book`, of a slot that was found and is there still (`SlotsStand`), a `DbUpdate`
of an active row is a `Cancel`, every other step a stutter.

**`SlotListingProofs`.** `OffersCanBeBooked`, `CreatedOnce`, `FreshUnlessOvertaken`,
`NothingElseIsStale`, `TypeCorrect` are `Spec => []P`; `ImplementsRoomBook` is the
refinement. `BookingsAreOfRows` says that a request which may yet book, although it may
have ended, has no booking so far and asks for a row. `SlotsFit` extends the promise of
the rows to the slots that requests have
still to upsert, for a schedule that was read statements before. `OneCreator`
says that of the requests that create a room's schedule one at most is past its
INSERT, and that the schedule is its own. `ReadsAreFresh` needs
`ListsFillTheirDay`: a list that no upsert error and no writer has overtaken has all
slots of its day stored, or still on its list, when it comes to read.
`StaleForCause` is inductive with these. The argument: the tables change by a statement
that writes, and by no other (`WhoChangesTables`). Either its request is waiting for it
and then `Pending`, so that it will invalidate what became wrong, or it has ended,
which excuses the entry. A list
stores a wrong answer only if it is in `spoiled`, which excuses it too; `Delete` and
`Expire` remove entries only; and a SCAN returns whatever was there from its start on, so
that a writer is done only when nothing is left that it made wrong. `WritersKnowTheirRoom`
says that the room which a writer invalidates does not change on the way.

**`TimedListingProofs`.** `TimedTypeCorrect` and `NothingIsStaleForLong` (`StaleIsBrief`).
A step of `TimedListing` is one of `SlotListing` (`TimedStepIsStep`), so `TimedIInv` has
all of `IInv`. `StaleSinceTheChange` is the inductive form: a wrong entry runs out no
later than the change, the time of its list and a TTL. An entry that becomes wrong does
so at a change, which is now, and `ClocksAgree` says that it has a TTL left at most. An
entry that is stored wrong is of a list in `spoiled` (`ReadsAreFresh`, which is in
`IInv`), and `SpoiledSinceTheMiss` says that the change which spoiled it came after the
list had missed the cache, however late its SET. Since `IInv` is kept, `StaleForCause` and
`ReadsAreFresh` hold under the clock too.

**`SeededListingProofs`.** `SeedTypeCorrect`, `SlotsAreGiven`, `SeedNeverDoubleBooks`, which
rest on the lemmas of `SlotListingProofs` about the server's steps. Of the server's
invariant, `StepsAgree` and `BookingsAreOfRows` survive the command and are kept;
`SlotsFit`, `OneCreator` and `StaleForCause` do not, which is the point of the section on
`SeededListing` above. `Sown` says what the command has got done at each of
its statements, however the server's steps fall between them. In the place of `SlotsFit`
there is `SchedulesAreGiven`: a room's schedule, and every slot that a request has yet to
upsert, comes from a schedule that the room was given, and `GivenTo` never shrinks
(`GivenStays`), because a request that has inserted a schedule is not answered otherwise
(`InsertedStays`). `OneActivePerSlot` is inductive with these, since both programs make a
booking active only of a slot that nobody holds.

**`MemoryStoreProofs`.** `TypeCorrect`, `BenchmarkIsSafe` (`NoRace`) and
`ImplementsRoomBook`. There is no lock to
prove anything from: what keeps the accesses apart is what the repository does with the
store. `OneAtATime` says that a request that may write runs alone, and `WeekFilled` that
when the benchmark's lists run in parallel every slot of their days is stored, so that
`Find` finds it and none comes to `Put`; `TodoFits` that the slots a list looks for are
slots of its room's schedule. For the refinement `SlotsOnce` says that no slot is stored
under two ids, and `ChecksHold` that what a request has checked is so until it writes.

**`BookingPagesProofs`.** `TypeCorrect`, `PagesFillTheirTotal`, `OnlyOverflowGoesWrong`,
`MineAreWhole`, `WalksSkipNothing`, for any set of bookings, finite or not, and any width
of an int. Rows are only added, one at a time, so what is stored is finite
(`KnownIsStored`, `TableGrows`), and each order of it is a bijection from the positions to the
rows (`OrderIsOnto`), which gives the length of a page. `WrongOnlyByOverflow` is not
inductive, since a row more could fill a page that was past the end; `OffsetsFit`, which
compares the offset with the number of rows, is. `WalkSkipsNothing` needs
`NothingIsBehind`: of a row that shares its `created_at` with no other and was there when
the walk began, either the walk has seen it or at least as many rows come before it as the
walk has passed, and a row that commits meanwhile can only add to those. That the row is
at one place in every order is `BeforeIsPrefix`. `WalkStaysWithin` says that a walk page
by page is refused at the first offset beyond an int, so that it never wraps to a small
one.

**`AccountsProofs`.** `OneAtATime`, `RegisteredForLife`, `RefusedForCause`, `Authorised`,
`TypeCorrect`. `MapIsGuarded` is inductive and gives `WritesFindNothing`: a registration
about to store its account still finds the address free, though it looked a step
earlier. Then the map holds exactly what this process answered (`UsersAreRegistered` and
`CreatedAccountStands`), a login past the mutex has copied the account that was promised
before it came (`FoundIsRegistered`), and so, across any number of restarts, a
token was earned (`TokensAreEarned`) and a call that was let through is entitled
(`CallsAreChecked`).

**`SlotGridProofs`.** `VerdictCorrect`, `GridCollected`, `WeekCovered`, and `NoOverlap`,
which no run checks: slots of a schedule never overlap and stay within their date.
The invariant says that the days looked at are listed and distinct (`DaysListed`),
that the cursor stays on the half-hour grid of the schedule, so that the `break` of
the loop never cuts a slot (`InStep`), and that what is collected is the part of
`Grid` already passed (`Collected`).

**Only model-checked** is liveness, since fairness and ENABLED are out of the prover's
reach: `EveryRequestEnds` of `BookingStore` and `Accounts`, `EveryTransactionEnds`, and
`Terminates` of `SlotGrid`. The three violated properties are statements of `api.yaml`
that the code refutes; `CreatedOnce` proves the third of the server without the command.

## What is not modelled, and what is not asked

- Names, descriptions and the order of rooms (`ListRooms`), JSON, SQL text, conference
  links: data no property is about.
  A malformed UUID makes PostgreSQL return an error, which is `StatementFails`.
- The signature of a token, and a login that fails to sign one: the library's.
- `ListAllBookings` and `ListMyFutureBookings` of the in-memory store. They only read.
  The tests ask them for first pages; a negative offset, which PostgreSQL refuses, would
  be an index out of range there.
- What the database driver hands to `intArrayScanner` (`store_postgres.go` 298-302,
  which accepts `[]byte` only) is outside the repository. The model takes it as the
  code expects. A driver that hands over a string makes every `CreateSchedule` the
  `ReplyLost` of the model, and every list of a room with a schedule its
  `StatementFails`; the unit tests use the in-memory store and would not notice.
- The connection pool's limit of 25: no handler waits for a second connection while
  it holds one, so the pool delays requests and cannot deadlock them.
- Several server processes: `SlotListing` has one `cacheUp`, `Accounts` one map.
  Bookings are safe with any number, since `BookingStore` keeps no state in the process.
- `golang-migrate` (locks, dirty versions) is a library; the API description and its
  generated copy in `docs` have no state.
- Liveness of `SlotListing`: its handlers are straight lines and loops over finite sets,
  and the SCAN ends when Redis says so.
- No property forbids that an address registers again after a restart, under an id that
  does not own its old bookings, or that a second run of the seed command books a further
  slot. The models have both, and nothing in the repository says they should not happen.

## Plan

Done: every module of the table above, and a proof of every safety property the runs
check. Left: a composition of `BookingStore` with the steps of `RoomBook` that make
rooms, schedules and slots, shown to implement `RoomBook`, so that its atomic
`CreateBooking` and `CancelBooking`, which `SlotListing` relies on, are proved of the
transactions as well.
