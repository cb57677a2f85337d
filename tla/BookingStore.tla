---------------------------- MODULE BookingStore ----------------------------
(***************************************************************************)
(* Creating and cancelling bookings over PostgreSQL: handleCreateBooking   *)
(* and handleCancelBooking (internal/app/http.go) down to the statements   *)
(* that PostgresStore sends (internal/app/store_postgres.go) and the       *)
(* partial unique index that arbitrates between them                       *)
(* (internal/migrations/000001_init.up.sql).                               *)
(*                                                                         *)
(* Every HTTP request is one goroutine that runs once, so Requests is the  *)
(* set of all requests the service will ever see.  A request inserts at    *)
(* most one booking, and that booking is named by its request: this is all *)
(* the model keeps of gen_random_uuid().  One statement is one action, but *)
(* for the two that make a change last, COMMIT and the UPDATE of a         *)
(* cancellation: the state of a transaction on the server side is kept     *)
(* apart from where its request has got to, because the two come apart     *)
(* when a connection breaks or the process dies while one is under way.    *)
(***************************************************************************)
EXTENDS Naturals

CONSTANTS
  Requests,   \* every request that will ever be made
  Users,      \* user ids a token may carry
  Slots,      \* ids of slots, whether or not a row exists yet
  StartOf,    \* start_at of each slot
  Horizon,    \* bound: the clock stops here, later than every start
  None        \* no row, no request

VARIABLES
  slots,      \* ids of the rows of table slots
  bookings,   \* the row of table bookings each request inserted and committed
  tx,         \* what the database knows of the transaction of each request
  began,      \* NOW() inside that transaction: the time of its BEGIN
  req,        \* what each request asks for
  pc,         \* the statement each request is about to send
  resp,       \* what each request was answered
  now         \* the clock the server and the database share

table == <<slots, bookings>>
txn   == <<tx, began>>
vars  == <<slots, bookings, tx, began, req, pc, resp, now>>

(***************************************************************************)
(* The promise this module keeps.                                          *)
(***************************************************************************)
Ledger == INSTANCE BookingLedger WITH Bookings <- Requests

Row == Ledger!Row

BookRequest   == [op : {"book"}, slot : Slots, user : Users]
CancelRequest == [op : {"cancel"}, booking : Requests, user : Users]

(* The last is the UPDATE of a cancellation, a transaction of its own.       *)
TxStates == {"none", "open", "inserted", "committing", "updating"}

BookSteps   == {"getSlot", "begin", "readSlot", "insert", "commit", "committing"}
CancelSteps == {"owner", "update", "updating", "reread"}
(* "done": answered in the ordinary way; "lost": answered 500 after its     *)
(* connection broke; "dead": the process died and nothing was answered.     *)
Ended   == {"done", "lost", "dead"}
Running == BookSteps \cup CancelSteps

Refusals == {"SLOT_NOT_FOUND", "SLOT_ALREADY_BOOKED", "INVALID_REQUEST",
             "BOOKING_NOT_FOUND", "FORBIDDEN"}
(* A 201 is "created"; a 200 carries the status of the booking returned.    *)
Answers == {"none", "created", "INTERNAL_ERROR"} \cup Ledger!Status \cup Refusals

ASSUME StoreAssumption ==
  /\ Horizon \in Nat
  /\ StartOf \in [Slots -> Nat]
  /\ None \notin Row
  /\ None \notin BookRequest \cup CancelRequest

TypeOK ==
  /\ slots \subseteq Slots
  /\ bookings \in [Requests -> Row \cup {None}]
  /\ tx \in [Requests -> TxStates]
  /\ began \in [Requests -> Nat]
  /\ req \in [Requests -> BookRequest \cup CancelRequest \cup {None}]
  /\ pc \in [Requests -> {"idle"} \cup Running \cup Ended]
  /\ resp \in [Requests -> Answers]
  /\ now \in Nat

Init ==
  /\ slots = {}
  /\ bookings = [r \in Requests |-> None]
  /\ tx = [r \in Requests |-> "none"]
  /\ began = [r \in Requests |-> 0]
  /\ req = [r \in Requests |-> None]
  /\ pc = [r \in Requests |-> "idle"]
  /\ resp = [r \in Requests |-> "none"]
  /\ now = 0

-----------------------------------------------------------------------------
(* How a request moves on. *)

Goto(r, step) ==
  /\ pc' = [pc EXCEPT ![r] = step]
  /\ UNCHANGED resp

Answer(r, code) ==
  /\ pc' = [pc EXCEPT ![r] = "done"]
  /\ resp' = [resp EXCEPT ![r] = code]

(* The database forgets a transaction. *)
EndTx(r) ==
  /\ tx' = [tx EXCEPT ![r] = "none"]
  /\ UNCHANGED began

(* Variant: CreateBooking without defer tx.Rollback(). *)
RollbackForgotten(r) == UNCHANGED txn

(* The deferred tx.Rollback() of CreateBooking, on a live connection. *)
Rollback(r) == EndTx(r)

ActiveOn(s) == {b \in Requests : Ledger!Active(b) /\ bookings[b].slot = s}

(* Variants: an INSERT that overlooks uncommitted rows, and one that waits  *)
(* for whoever has read the slot.                                           *)
NobodyInFlight(s) == {}
ReadersOf(s) ==
  {r \in Requests : tx[r] \in {"open", "inserted", "committing"} /\ req[r].slot = s}

(* Requests whose transaction has put an uncommitted key for s in the index. *)
InFlightOn(s) ==
  {r \in Requests : tx[r] \in {"inserted", "committing"} /\ req[r].slot = s}

-----------------------------------------------------------------------------
(* POST /bookings/create *)

ArriveBook(r) ==
  /\ pc[r] = "idle"
  /\ \E s \in Slots, u \in Users :
       req' = [req EXCEPT ![r] = [op |-> "book", slot |-> s, user |-> u]]
  /\ Goto(r, "getSlot")
  /\ UNCHANGED <<table, txn, now>>

(* store.GetSlot, outside any transaction. *)
GetSlot(r) ==
  /\ pc[r] = "getSlot"
  /\ IF req[r].slot \in slots THEN Goto(r, "begin")
                              ELSE Answer(r, "SLOT_NOT_FOUND")
  /\ UNCHANGED <<table, txn, req, now>>

BeginTx(r) ==
  /\ pc[r] = "begin"
  /\ tx' = [tx EXCEPT ![r] = "open"]
  /\ began' = [began EXCEPT ![r] = now]
  /\ Goto(r, "readSlot")
  /\ UNCHANGED <<table, req, now>>

(* Variant: the end of the slot is compared instead of its start. *)
EndInThePast(s) == StartOf[s] + 1 < now

(* slotStart.Before(time.Now().UTC()) *)
InThePast(s) == StartOf[s] < now

ReadSlot(r) ==
  /\ pc[r] = "readSlot"
  /\ IF InThePast(req[r].slot)
       THEN Answer(r, "INVALID_REQUEST") /\ Rollback(r)
       ELSE Goto(r, "insert") /\ UNCHANGED txn
  /\ UNCHANGED <<table, req, now>>

(* idx_bookings_active_per_slot: an INSERT waits while another transaction  *)
(* holds an uncommitted row for the slot, then succeeds or fails on what    *)
(* that transaction left behind.                                            *)
Insert(r) ==
  /\ pc[r] = "insert"
  /\ InFlightOn(req[r].slot) = {}
  /\ IF ActiveOn(req[r].slot) # {}
       THEN Answer(r, "SLOT_ALREADY_BOOKED") /\ Rollback(r)
       ELSE /\ tx' = [tx EXCEPT ![r] = "inserted"]
            /\ Goto(r, "commit")
            /\ UNCHANGED began
  /\ UNCHANGED <<table, req, now>>

SendCommit(r) ==
  /\ pc[r] = "commit"
  /\ tx' = [tx EXCEPT ![r] = "committing"]
  /\ Goto(r, "committing")
  /\ UNCHANGED <<table, began, req, now>>

(* Variant: the error of tx.Commit is dropped. *)
AlwaysCreated(r) == "created"

CommitOutcome(r) == IF bookings[r] # None THEN "created" ELSE "INTERNAL_ERROR"

(* tx.Commit returns: the row is there, or the database refused. *)
CommitReply(r) ==
  /\ pc[r] = "committing" /\ tx[r] = "none"
  /\ Answer(r, CommitOutcome(r))
  /\ UNCHANGED <<table, txn, req, now>>

-----------------------------------------------------------------------------
(* The database's side of a transaction. *)

(* created_at DEFAULT NOW() is the time of BEGIN, not of COMMIT. *)
DbCommit(r) ==
  /\ tx[r] = "committing"
  /\ bookings' = [bookings EXCEPT ![r] =
       [slot |-> req[r].slot, user |-> req[r].user,
        status |-> "active", createdAt |-> began[r]]]
  /\ EndTx(r)
  /\ UNCHANGED <<slots, req, pc, resp, now>>

(* PostgreSQL drops a transaction whose client is gone, and may refuse any  *)
(* COMMIT (a serialization failure, a backend that is shut down).           *)
DbAbort(r) ==
  /\ tx[r] # "none"
  /\ pc[r] \in {"lost", "dead"} \/ tx[r] = "committing"
  /\ EndTx(r)
  /\ UNCHANGED <<table, req, pc, resp, now>>

-----------------------------------------------------------------------------
(* POST /bookings/{bookingId}/cancel *)

ArriveCancel(r) ==
  /\ pc[r] = "idle"
  /\ \E b \in Requests, u \in Users :
       req' = [req EXCEPT ![r] = [op |-> "cancel", booking |-> b, user |-> u]]
  /\ Goto(r, "owner")
  /\ UNCHANGED <<table, txn, now>>

(* Variant: the owner is not compared. *)
Anyone(r) == TRUE

IsOwner(r) == bookings[req[r].booking].user = req[r].user

ReadOwner(r) ==
  /\ pc[r] = "owner"
  /\ LET b == req[r].booking IN
     \/ bookings[b] = None /\ Answer(r, "BOOKING_NOT_FOUND")
     \/ bookings[b] # None /\ ~ IsOwner(r) /\ Answer(r, "FORBIDDEN")
     \/ bookings[b] # None /\ IsOwner(r) /\ Goto(r, "update")
  /\ UNCHANGED <<table, txn, req, now>>

SendUpdate(r) ==
  /\ pc[r] = "update"
  /\ tx' = [tx EXCEPT ![r] = "updating"]
  /\ Goto(r, "updating")
  /\ UNCHANGED <<table, began, req, now>>

(* UPDATE bookings SET status='cancelled' WHERE id=$1 AND status='active',  *)
(* carried out although nobody may be waiting for it any more.              *)
DbUpdate(r) ==
  /\ tx[r] = "updating"
  /\ LET b == req[r].booking IN
     bookings' = IF Ledger!Active(b)
                   THEN [bookings EXCEPT ![b] = Ledger!Cancelled(bookings[b])]
                   ELSE bookings
  /\ EndTx(r)
  /\ UNCHANGED <<slots, req, pc, resp, now>>

UpdateReply(r) ==
  /\ pc[r] = "updating" /\ tx[r] = "none"
  /\ Goto(r, "reread")
  /\ UNCHANGED <<table, txn, req, now>>

Reread(r) ==
  /\ pc[r] = "reread"
  /\ Answer(r, bookings[req[r].booking].status)
  /\ UNCHANGED <<table, txn, req, now>>

-----------------------------------------------------------------------------
(* What may happen to a request, and around it. *)

(* A statement fails or its connection breaks: the handler answers 500 and  *)
(* does not learn whether what it had sent took effect.                     *)
ConnLost(r) ==
  /\ pc[r] \in Running
  /\ pc' = [pc EXCEPT ![r] = "lost"]
  /\ resp' = [resp EXCEPT ![r] = "INTERNAL_ERROR"]
  /\ UNCHANGED <<table, txn, req, now>>

(* The process dies with every request it is serving, and is restarted. *)
Crash ==
  /\ \E r \in Requests : pc[r] \in Running
  /\ pc' = [r \in Requests |-> IF pc[r] \in Running THEN "dead" ELSE pc[r]]
  /\ UNCHANGED <<table, txn, req, resp, now>>

(* UpsertSlots adds a row; no statement of the service ever deletes one. *)
UpsertSlot(s) ==
  /\ s \notin slots
  /\ slots' = slots \cup {s}
  /\ UNCHANGED <<bookings, txn, req, pc, resp, now>>

Tick ==
  /\ now < Horizon
  /\ now' = now + 1
  /\ UNCHANGED <<table, txn, req, pc, resp>>

BookStep(r)   == \/ GetSlot(r) \/ BeginTx(r) \/ ReadSlot(r) \/ Insert(r)
                 \/ SendCommit(r) \/ CommitReply(r)
CancelStep(r) == ReadOwner(r) \/ SendUpdate(r) \/ UpdateReply(r) \/ Reread(r)
DbStep(r)     == DbCommit(r) \/ DbUpdate(r) \/ DbAbort(r)

Next ==
  \/ \E r \in Requests :
       \/ ArriveBook(r) \/ ArriveCancel(r)
       \/ BookStep(r) \/ CancelStep(r) \/ DbStep(r)
       \/ ConnLost(r)
  \/ Crash
  \/ \E s \in Slots : UpsertSlot(s)
  \/ Tick

Spec == Init /\ [][Next]_vars

(* A goroutine that can send its next statement is scheduled, and the       *)
(* database resolves what it was sent and what was abandoned.  Arrivals,    *)
(* faults, crashes and the clock are under no obligation.                   *)
Fairness == \A r \in Requests : /\ WF_vars(BookStep(r) \/ CancelStep(r))
                                /\ WF_vars(DbStep(r))

FairSpec == Spec /\ Fairness

-----------------------------------------------------------------------------
(* Properties. *)

(* A slot is never held by two active bookings, however the transactions    *)
(* of CreateBooking overlap, abort or outlive their connections             *)
(* (idx_bookings_active_per_slot).                                          *)
OneActivePerSlot ==
  \A a, b \in Requests :
    Ledger!Active(a) /\ Ledger!Active(b) /\ bookings[a].slot = bookings[b].slot
      => a = b

(* Every booking is recorded as created no later than its slot starts,      *)
(* although the clock runs on between the check in CreateBooking and its    *)
(* COMMIT: created_at is the time of BEGIN, which precedes the check.       *)
CreatedBeforeStart ==
  \A b \in Requests :
    bookings[b] # None => bookings[b].createdAt <= StartOf[bookings[b].slot]

(* What a successful answer says stays true for ever, crashes included: a   *)
(* 201 names a booking that exists as asked, and a 200 to a cancellation    *)
(* shows the caller's own booking, cancelled, be it the first call or not.  *)
AnswersAreTrue ==
  \A r \in Requests :
    /\ resp[r] = "created" =>
         /\ bookings[r] # None
         /\ bookings[r].slot = req[r].slot /\ bookings[r].user = req[r].user
    /\ resp[r] \in Ledger!Status =>
         /\ bookings[req[r].booking] # None
         /\ bookings[req[r].booking].user = req[r].user
         /\ bookings[req[r].booking].status = "cancelled"
         /\ resp[r] = "cancelled"

(* A refused request leaves no booking and no transaction behind, then or   *)
(* later, and was refused for cause: a 409 lost to a booking that was       *)
(* really committed for the slot, a 400 came after the start, and a 403     *)
(* concerned somebody else's booking.                                       *)
RefusalsAreTrue ==
  \A r \in Requests :
    /\ resp[r] \in Refusals => bookings[r] = None /\ tx[r] = "none"
    /\ resp[r] = "SLOT_ALREADY_BOOKED" =>
         \E b \in Requests : bookings[b] # None /\ bookings[b].slot = req[r].slot
    /\ resp[r] = "INVALID_REQUEST" => InThePast(req[r].slot)
    /\ resp[r] = "FORBIDDEN" =>
         /\ bookings[req[r].booking] # None
         /\ bookings[req[r].booking].user # req[r].user

(* A committed booking changes in one way only: it becomes cancelled, by    *)
(* the UPDATE of a cancellation that its own user asked for.  CancelBooking *)
(* reads the owner and updates the row in two separate statements, and the  *)
(* second may be carried out when its request has long ended.               *)
OnlyTheOwnerCancels ==
  [][\A b \in Requests :
       bookings[b] # None /\ bookings'[b] # bookings[b] =>
         /\ bookings'[b] = Ledger!Cancelled(bookings[b])
         /\ \E r \in Requests : /\ tx[r] = "updating" /\ tx'[r] = "none"
                                /\ req[r].booking = b
                                /\ req[r].user = bookings[b].user]_vars

(* The table, seen through all of this, is the ledger. *)
IsLedger == Ledger!Spec

(* Every request that arrives is answered unless the process dies: an       *)
(* INSERT that waits for another transaction does not wait for ever.        *)
EveryRequestEnds ==
  \A r \in Requests : pc[r] \in Running ~> pc[r] \in Ended

(* No transaction keeps its slot locked for ever, whichever way CreateBooking *)
(* returns and wherever its connection broke.                               *)
EveryTransactionEnds ==
  \A r \in Requests : tx[r] # "none" ~> tx[r] = "none"

-----------------------------------------------------------------------------
(* The inductive invariant. *)

(* Where a request is tells what it asked for and what its transaction did. *)
StepsAgree ==
  \A r \in Requests :
    /\ pc[r] = "idle" => req[r] = None
    /\ pc[r] \in BookSteps => req[r] \in BookRequest
    /\ pc[r] \in CancelSteps => req[r] \in CancelRequest
    /\ pc[r] \in {"idle", "getSlot", "begin", "done", "owner", "update", "reread"}
         => tx[r] = "none"
    /\ pc[r] \in {"readSlot", "insert"} => tx[r] = "open"
    /\ pc[r] = "commit" => tx[r] = "inserted"
    /\ pc[r] = "committing" => tx[r] \in {"committing", "none"}
    /\ pc[r] = "updating" => tx[r] \in {"updating", "none"}
    /\ tx[r] \in {"open", "inserted", "committing"} =>
         req[r] \in BookRequest /\ bookings[r] = None
    /\ tx[r] = "updating" => req[r] \in CancelRequest /\ pc[r] \in {"updating", "lost", "dead"}
    /\ bookings[r] # None => pc[r] \in {"committing"} \cup Ended

(* A slot that was found is there for good. *)
SlotsStand ==
  \A r \in Requests :
    pc[r] \in BookSteps \ {"getSlot"} \/ tx[r] \in {"open", "inserted", "committing"}
      => req[r].slot \in slots

(* A row is what its request asked for, stamped with its BEGIN. *)
RowsAgree ==
  \A r \in Requests :
    bookings[r] # None =>
      /\ req[r] \in BookRequest
      /\ bookings[r].slot = req[r].slot /\ bookings[r].user = req[r].user
      /\ bookings[r].createdAt = began[r]

(* Past the check, a transaction began before its slot starts. *)
BeganInTime ==
  \A r \in Requests :
    /\ began[r] <= now
    /\ (pc[r] \in {"insert", "commit"} \/ tx[r] \in {"inserted", "committing"}
         \/ bookings[r] # None)
         => began[r] <= StartOf[req[r].slot]

(* The unique index sees committed and uncommitted keys alike. *)
Holds(r) == Ledger!Active(r) \/ tx[r] \in {"inserted", "committing"}

OneHolderPerSlot ==
  \A a, b \in Requests :
    Holds(a) /\ Holds(b) /\ req[a].slot = req[b].slot => a = b

(* Past its check, a cancellation is about a booking of its own user, and   *)
(* its UPDATE too, whatever has become of the request.                      *)
CancelsOwn ==
  \A r \in Requests :
    /\ pc[r] \in {"update", "updating", "reread"} \/ tx[r] = "updating" =>
         /\ bookings[req[r].booking] # None
         /\ bookings[req[r].booking].user = req[r].user
    /\ pc[r] = "reread" \/ (pc[r] = "updating" /\ tx[r] = "none") =>
         bookings[req[r].booking].status = "cancelled"

(* An answer is given where the request ended, to what it asked. *)
AnswersAgree ==
  \A r \in Requests :
    /\ resp[r] # "none" => pc[r] \in {"done", "lost"}
    /\ resp[r] \in Ledger!Status \cup {"BOOKING_NOT_FOUND", "FORBIDDEN"}
         => req[r] \in CancelRequest
    /\ resp[r] \in {"created", "SLOT_NOT_FOUND", "SLOT_ALREADY_BOOKED", "INVALID_REQUEST"}
         => req[r] \in BookRequest

IInv ==
  /\ TypeOK
  /\ StepsAgree
  /\ SlotsStand
  /\ RowsAgree
  /\ BeganInTime
  /\ OneHolderPerSlot
  /\ CancelsOwn
  /\ AnswersAgree
  /\ AnswersAreTrue
  /\ RefusalsAreTrue
=============================================================================
