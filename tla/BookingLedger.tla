---------------------------- MODULE BookingLedger ----------------------------
(***************************************************************************)
(* What the bookings table promises, whatever the requests do to get there *)
(* (internal/app/types.go, Store.CreateBooking and Store.CancelBooking): a *)
(* booking appears whole, on a stored slot that nobody holds, recorded as  *)
(* created no later than the slot starts; it can be cancelled once; it     *)
(* never changes otherwise and never goes away, and neither do slots.      *)
(*                                                                         *)
(* BookingStore, with its transactions, blocked inserts, lost connections  *)
(* and crashes, is shown to implement this specification.                  *)
(***************************************************************************)
EXTENDS Naturals

CONSTANTS
  Bookings,   \* identities a booking may be given
  Slots,      \* identities of slots
  Users,      \* identities of users
  StartOf,    \* the start of each slot, on the clock createdAt is read from
  None        \* no booking

VARIABLES
  slots,      \* the slots that are stored
  bookings    \* the row of each booking, or None

Status == {"active", "cancelled"}

Row == [slot : Slots, user : Users, status : Status, createdAt : Nat]

(* A booking that still stands. *)
Active(b) == bookings[b] # None /\ bookings[b].status = "active"

(* Somebody holds slot s. *)
Taken(s) == \E b \in Bookings : Active(b) /\ bookings[b].slot = s

(* Variant: a status that the CHECK of the table does not list. *)
CancelledMisspelt(row) == [row EXCEPT !.status = "canceled"]

(* The row a cancellation leaves behind. *)
Cancelled(row) == [row EXCEPT !.status = "cancelled"]

Init ==
  /\ slots = {}
  /\ bookings = [b \in Bookings |-> None]

AddSlot(s) ==
  /\ slots' = slots \cup {s}
  /\ UNCHANGED bookings

Book(b, s, u, t) ==
  /\ bookings[b] = None
  /\ s \in slots
  /\ ~ Taken(s)
  /\ t <= StartOf[s]
  /\ bookings' = [bookings EXCEPT ![b] =
       [slot |-> s, user |-> u, status |-> "active", createdAt |-> t]]
  /\ UNCHANGED slots

Cancel(b) ==
  /\ Active(b)
  /\ bookings' = [bookings EXCEPT ![b] = Cancelled(bookings[b])]
  /\ UNCHANGED slots

Next ==
  \/ \E s \in Slots : AddSlot(s)
  \/ \E b \in Bookings :
       \/ \E s \in Slots, u \in Users : \E t \in 0 .. StartOf[s] : Book(b, s, u, t)
       \/ Cancel(b)

Spec == Init /\ [][Next]_<<slots, bookings>>
==============================================================================
