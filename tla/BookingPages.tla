---------------------------- MODULE BookingPages ----------------------------
(***************************************************************************)
(* Reading the bookings while they are made and cancelled:                 *)
(* handleListBookings and handleMyBookings (internal/app/http.go) over     *)
(* ListAllBookings and ListMyFutureBookings (store_postgres.go).           *)
(*                                                                         *)
(* The total and the page are two statements, and so are two pages.  A row *)
(* carries the time its transaction began and appears when it commits, so  *)
(* rows appear anywhere in the order, not only at its head.  A client asks *)
(* for one page after the other until one is short; each starts from the   *)
(* parameters of its first request.                                        *)
(***************************************************************************)
EXTENDS Integers, FiniteSets, SequencesExt

CONSTANTS
  Bookings,     \* every booking that will ever be made
  Users, UserOf,
  StartOf,      \* the start of a booking's slot
  Clients,      \* each reads once: one page, the pages from there on, or its own bookings
  Params,       \* bound: values of a query parameter: integers, or:
  Blank, Junk,  \* not given, and not an integer
  DefaultSize, MaxSize,  \* 20 and 100
  MaxInt,       \* the largest int
  Horizon,      \* bound: the clock stops here
  None          \* no request

PageRequest == [op : {"page"}, page : Params, size : Params]
MineRequest == [op : {"mine"}, user : Users]
Request     == PageRequest \cup MineRequest

ASSUME PagesAssumption ==
  /\ UserOf \in [Bookings -> Users]
  /\ StartOf \in [Bookings -> Nat]
  /\ Params \subseteq Int \cup {Blank, Junk}
  /\ DefaultSize \in 1 .. MaxSize /\ MaxSize \in 1 .. MaxInt
  /\ MaxInt \in Nat /\ Horizon \in Nat
  /\ None \notin Request

VARIABLES
  rows,     \* table bookings: the status of each, "none" and "open" before its COMMIT
  created,  \* created_at: the time of BEGIN
  now,
  req,      \* what a client asked first
  pc,       \* the statement its request is about to send
  resp,     \* the last answer
  page,     \* the page it asked for last
  asked,    \* the clock, when it was asked
  total,    \* what the count said
  got,      \* the rows of the last answer
  seen,     \* history: the rows of all its answers
  known     \* history: the rows there were when it began

table  == <<rows, created>>
reader == <<req, pc, resp, page, asked, total, got, seen, known>>
vars   == <<table, now, reader>>

TypeOK ==
  /\ rows \in [Bookings -> {"none", "open", "active", "cancelled"}]
  /\ created \in [Bookings -> 0 .. Horizon]
  /\ now \in 0 .. Horizon
  /\ req \in [Clients -> Request \cup {None}]
  /\ pc \in [Clients -> {"idle", "count", "select", "mine", "answered"}]
  /\ resp \in [Clients -> {"none", "OK", "INVALID_REQUEST", "INTERNAL_ERROR",
                         "NEGATIVE_OFFSET"}]
  /\ page \in [Clients -> 1 .. MaxInt]
  /\ asked \in [Clients -> 0 .. Horizon]
  /\ total \in [Clients -> Nat]
  /\ got \in [Clients -> Seq(Bookings)]
  /\ seen \in [Clients -> SUBSET Bookings]
  /\ known \in [Clients -> SUBSET Bookings]

Init ==
  /\ rows = [b \in Bookings |-> "none"]
  /\ created = [b \in Bookings |-> 0]
  /\ now = 0
  /\ req = [c \in Clients |-> None]
  /\ pc = [c \in Clients |-> "idle"]
  /\ resp = [c \in Clients |-> "none"]
  /\ page = [c \in Clients |-> 1]
  /\ asked = [c \in Clients |-> 0]
  /\ total = [c \in Clients |-> 0]
  /\ got = [c \in Clients |-> << >>]
  /\ seen = [c \in Clients |-> {}]
  /\ known = [c \in Clients |-> {}]

-----------------------------------------------------------------------------
(* The writers: what CreateBooking and CancelBooking do to the table. *)

Stored == {b \in Bookings : rows[b] \in {"active", "cancelled"}}
(* Variant: bookings that were cancelled are left out of the pages. *)
StoredActive == {b \in Bookings : rows[b] = "active"}
Listed == Stored

Begin(b) ==
  /\ rows[b] = "none"
  /\ rows' = [rows EXCEPT ![b] = "open"]
  /\ created' = [created EXCEPT ![b] = now]
  /\ UNCHANGED <<now, reader>>

Commit(b) ==
  /\ rows[b] = "open"
  /\ rows' = [rows EXCEPT ![b] = "active"]
  /\ UNCHANGED <<created, now, reader>>

Cancel(b) ==
  /\ rows[b] = "active"
  /\ rows' = [rows EXCEPT ![b] = "cancelled"]
  /\ UNCHANGED <<created, now, reader>>

Tick ==
  /\ now < Horizon
  /\ now' = now + 1
  /\ UNCHANGED <<table, reader>>

-----------------------------------------------------------------------------
(* Parameters and offsets. *)

Parsed(raw, default) == IF raw = Blank THEN default ELSE raw

(* Variant: page 0 is let through. *)
FromZero(p) == p # Junk /\ p >= 0 /\ p <= MaxInt
(* strconv.Atoi fails beyond an int. *)
PageIsValid(p) == p # Junk /\ p >= 1 /\ p <= MaxInt
SizeIsValid(n) == n # Junk /\ n >= 1 /\ n <= MaxSize

Size(c) == Parsed(req[c].size, DefaultSize)

(* Arithmetic at the width of an int. *)
Wrap(n) == ((n + MaxInt + 1) % (2 * (MaxInt + 1))) - (MaxInt + 1)

(* Variant: pages counted from 0. *)
OffsetFromZero(c) == Wrap(page[c] * Size(c))
Offset(c) == Wrap((page[c] - 1) * Size(c))

-----------------------------------------------------------------------------
(* GET /bookings/list *)

(* A client asks for its first page. *)
AskPage(c) ==
  /\ pc[c] = "idle"
  /\ \E q \in PageRequest :
       /\ req' = [req EXCEPT ![c] = q]
       /\ LET p == Parsed(q.page, 1) IN
          \/ /\ PageIsValid(p) /\ SizeIsValid(Parsed(q.size, DefaultSize))
             /\ page' = [page EXCEPT ![c] = p]
             /\ pc' = [pc EXCEPT ![c] = "count"]
             /\ UNCHANGED resp
          \/ /\ ~ (PageIsValid(p) /\ SizeIsValid(Parsed(q.size, DefaultSize)))
             /\ pc' = [pc EXCEPT ![c] = "answered"]
             /\ resp' = [resp EXCEPT ![c] = "INVALID_REQUEST"]
             /\ UNCHANGED page
  /\ known' = [known EXCEPT ![c] = Stored]
  /\ UNCHANGED <<table, now, asked, total, got, seen>>

(* And for the one after a page that was full. *)
AskNext(c) ==
  /\ pc[c] = "answered" /\ resp[c] = "OK" /\ req[c].op = "page"
  /\ Len(got[c]) = Size(c) /\ page[c] < MaxInt
  /\ page' = [page EXCEPT ![c] = @ + 1]
  /\ pc' = [pc EXCEPT ![c] = "count"]
  /\ resp' = [resp EXCEPT ![c] = "none"]
  /\ got' = [got EXCEPT ![c] = << >>]
  /\ UNCHANGED <<table, now, req, asked, total, seen, known>>

Count(c) ==
  /\ pc[c] = "count"
  /\ total' = [total EXCEPT ![c] = Cardinality(Stored)]
  /\ pc' = [pc EXCEPT ![c] = "select"]
  /\ UNCHANGED <<table, now, req, resp, page, asked, got, seen, known>>

(* Variant: no ORDER BY. *)
AnyOrders(S) == SetToSeqs(S)

(* ORDER BY created_at DESC: rows of one time come in any order. *)
Orders(S) ==
  {f \in SetToSeqs(S) :
     \A i, j \in 1 .. Len(f) : i < j => created[f[i]] >= created[f[j]]}

(* LIMIT size OFFSET offset. *)
PageOf(f, offset, size) ==
  SubSeq(f, offset + 1, IF Len(f) < offset + size THEN Len(f) ELSE offset + size)

(* PostgreSQL refuses a negative OFFSET, and the client is answered 500 as  *)
(* for any error.                                                           *)
Select(c) ==
  /\ pc[c] = "select"
  /\ pc' = [pc EXCEPT ![c] = "answered"]
  /\ \/ /\ Offset(c) < 0
        /\ resp' = [resp EXCEPT ![c] = "NEGATIVE_OFFSET"]
        /\ UNCHANGED <<got, seen>>
     \/ /\ Offset(c) >= 0
        /\ resp' = [resp EXCEPT ![c] = "OK"]
        /\ \E f \in Orders(Listed) :
             /\ got' = [got EXCEPT ![c] = PageOf(f, Offset(c), Size(c))]
             /\ seen' = [seen EXCEPT ![c] = @ \cup ToSet(got'[c])]
  /\ UNCHANGED <<table, now, req, page, asked, total, known>>

-----------------------------------------------------------------------------
(* GET /bookings/my: the handler reads the clock, then sends its statement. *)

AskMine(c) ==
  /\ pc[c] = "idle"
  /\ \E u \in Users : req' = [req EXCEPT ![c] = [op |-> "mine", user |-> u]]
  /\ asked' = [asked EXCEPT ![c] = now]
  /\ known' = [known EXCEPT ![c] = Stored]
  /\ pc' = [pc EXCEPT ![c] = "mine"]
  /\ UNCHANGED <<table, now, resp, page, total, got, seen>>

(* Variant: a slot that starts now is left out. *)
StillAhead(b, c) == StartOf[b] > asked[c]
Ahead(b, c) == StartOf[b] >= asked[c]

SelectMine(c) ==
  /\ pc[c] = "mine"
  /\ seen' = [seen EXCEPT ![c] =
                {b \in Stored : UserOf[b] = req[c].user /\ Ahead(b, c)}]
  /\ pc' = [pc EXCEPT ![c] = "answered"]
  /\ resp' = [resp EXCEPT ![c] = "OK"]
  /\ UNCHANGED <<table, now, req, page, asked, total, got, known>>

(* A statement fails: 500. *)
StatementFails(c) ==
  /\ pc[c] \in {"count", "select", "mine"}
  /\ pc' = [pc EXCEPT ![c] = "answered"]
  /\ resp' = [resp EXCEPT ![c] = "INTERNAL_ERROR"]
  /\ UNCHANGED <<table, now, req, page, asked, total, got, seen, known>>

Next ==
  \/ \E b \in Bookings : Begin(b) \/ Commit(b) \/ Cancel(b)
  \/ \E c \in Clients :
       \/ AskPage(c) \/ AskNext(c) \/ Count(c) \/ Select(c)
       \/ AskMine(c) \/ SelectMine(c) \/ StatementFails(c)
  \/ Tick

Spec == Init /\ [][Next]_vars

-----------------------------------------------------------------------------
(* Properties. *)

(* The last answer of c is a page. *)
Paged(c) == pc[c] = "answered" /\ resp[c] = "OK" /\ req[c].op = "page"

(* Where the page begins, had an int no width. *)
Skipped(c) == (page[c] - 1) * Size(c)

Alone(b) == \A d \in Stored \ {b} : created[d] # created[b]

(* A client that reads from page 1 to a page that is short has seen every   *)
(* booking there was when it began and that shares its created_at with no   *)
(* other, although bookings commit between its pages and may come before    *)
(* the place it has reached: rows are only ever pushed back                 *)
(* (ListAllBookings).  A client that stops where the total says may miss    *)
(* one, and so may any client where two rows have one created_at.           *)
WalkSkipsNothing ==
  \A c \in Clients :
    Paged(c) /\ Parsed(req[c].page, 1) = 1 /\ Len(got[c]) < Size(c) =>
      \A b \in known[c] : Alone(b) => b \in seen[c]

(* A page is never shorter than the total beside it says, and never longer  *)
(* than was asked for: the two statements of ListAllBookings come in the    *)
(* order in which rows only being added does no harm.                       *)
PageFillsTotal ==
  \A c \in Clients : Paged(c) =>
    /\ Len(got[c]) <= Size(c)
    /\ Len(got[c]) >= Size(c) \/ Len(got[c]) >= total[c] - Skipped(c)

(* Whatever page is asked for, PostgreSQL is sent a negative OFFSET, or a   *)
(* page past the end comes back with rows in it, in one case only: the      *)
(* product (page-1)*pageSize is beyond an int.                              *)
WrongOnlyByOverflow ==
  \A c \in Clients :
    \/ resp[c] = "NEGATIVE_OFFSET"
    \/ Paged(c) /\ got[c] # << >> /\ Skipped(c) >= Cardinality(Stored)
    => Skipped(c) > MaxInt

(* The caller's future bookings are the caller's, are all that had been     *)
(* made when it asked, cancelled ones too, and none had started by then.    *)
MineIsWhole ==
  \A c \in Clients : pc[c] = "answered" /\ resp[c] = "OK" /\ req[c].op = "mine" =>
    LET mine == {b \in Bookings : UserOf[b] = req[c].user /\ asked[c] <= StartOf[b]} IN
    known[c] \cap mine \subseteq seen[c] /\ seen[c] \subseteq mine
=============================================================================
