------------------------- MODULE BookingStoreProofs -------------------------
(***************************************************************************)
(* BookingStore, for every set of requests, users and slots: its types,    *)
(* the inductive invariant, what follows from it, and that it implements   *)
(* BookingLedger.                                                          *)
(***************************************************************************)
EXTENDS BookingStore, TLAPS

(* Initially nothing has been asked, inserted or answered. *)
LEMMA InitIInv == Init => IInv
  BY StoreAssumption
  DEF Init, IInv, TypeOK, StepsAgree, SlotsStand, RowsAgree, BeganInTime, OneHolderPerSlot, Holds,
      CancelsOwn, AnswersAgree, AnswersAreTrue, RefusalsAreTrue, Answers, Refusals,
      TxStates, BookSteps, CancelSteps, Running, Ended, Ledger!Status, Ledger!Active

(* A cancelled row is a row, and differs in its status only. *)
LEMMA CancelledRow ==
  ASSUME NEW row \in Row
  PROVE  /\ Ledger!Cancelled(row) \in Row
         /\ Ledger!Cancelled(row).slot = row.slot
         /\ Ledger!Cancelled(row).user = row.user
         /\ Ledger!Cancelled(row).createdAt = row.createdAt
         /\ Ledger!Cancelled(row).status = "cancelled"
  BY DEF Row, Ledger!Row, Ledger!Status, Ledger!Cancelled

(* What the UPDATE of CancelBooking does to the table: rows keep everything *)
(* but their status, which only ever becomes "cancelled".                   *)
LEMMA UpdateEffect ==
  ASSUME TypeOK, StepsAgree, CancelsOwn, NEW r \in Requests, DbUpdate(r)
  PROVE  /\ bookings' \in [Requests -> Row \cup {None}]
         /\ \A b \in Requests : bookings'[b] = None <=> bookings[b] = None
         /\ \A b \in Requests : bookings[b] # None =>
              /\ bookings'[b].slot = bookings[b].slot
              /\ bookings'[b].user = bookings[b].user
              /\ bookings'[b].createdAt = bookings[b].createdAt
              /\ bookings'[b].status \in {bookings[b].status, "cancelled"}
         /\ req[r] \in CancelRequest /\ req[r].booking \in Requests
         /\ bookings'[req[r].booking].status = "cancelled"
         /\ tx[r] = "updating" /\ tx' = [tx EXCEPT ![r] = "none"]
         /\ UNCHANGED <<slots, began, req, pc, resp, now>>
  <1> DEFINE b0 == req[r].booking
  <1>1. /\ tx[r] = "updating" /\ tx' = [tx EXCEPT ![r] = "none"]
        /\ UNCHANGED <<slots, began, req, pc, resp, now>>
    BY DEF DbUpdate, EndTx
  <1>2. req[r] \in CancelRequest /\ b0 \in Requests
    BY <1>1 DEF StepsAgree, CancelRequest
  <1>3. bookings[b0] \in Row
    BY <1>1, <1>2 DEF CancelsOwn, TypeOK
  <1>4. CASE Ledger!Active(b0)
    <2>1. bookings' = [bookings EXCEPT ![b0] = Ledger!Cancelled(bookings[b0])]
      BY <1>4 DEF DbUpdate
    <2>2. bookings[b0] # None /\ Ledger!Cancelled(bookings[b0]) # None
      BY <1>3, CancelledRow, StoreAssumption
    <2> QED
      BY <1>1, <1>2, <1>3, <2>1, <2>2, CancelledRow DEF TypeOK
  <1>5. CASE ~ Ledger!Active(b0)
    <2>1. bookings' = bookings
      BY <1>5 DEF DbUpdate
    <2>2. bookings[b0].status = "cancelled"
      BY <1>3, <1>5, StoreAssumption DEF Ledger!Active, Row, Ledger!Row, Ledger!Status
    <2> QED
      BY <1>1, <1>2, <2>1, <2>2 DEF TypeOK
  <1> QED
    BY <1>4, <1>5

(* Types are preserved. *)
LEMMA NextType ==
  ASSUME TypeOK, StepsAgree, CancelsOwn, [Next]_vars
  PROVE  TypeOK'
  <1> USE DEF TypeOK, table, txn
  <1>1. ASSUME NEW r \in Requests, ArriveBook(r) PROVE TypeOK'
    BY <1>1 DEF ArriveBook, Goto, Running, BookSteps, BookRequest
  <1>2. ASSUME NEW r \in Requests, ArriveCancel(r) PROVE TypeOK'
    BY <1>2 DEF ArriveCancel, Goto, Running, CancelSteps, CancelRequest
  <1>3. ASSUME NEW r \in Requests, GetSlot(r) PROVE TypeOK'
    BY <1>3 DEF GetSlot, Goto, Answer, Running, BookSteps, Ended, Answers, Refusals
  <1>4. ASSUME NEW r \in Requests, BeginTx(r) PROVE TypeOK'
    BY <1>4 DEF BeginTx, Goto, Running, BookSteps, TxStates
  <1>5. ASSUME NEW r \in Requests, ReadSlot(r) PROVE TypeOK'
    BY <1>5 DEF ReadSlot, Goto, Answer, Rollback, EndTx, Running, BookSteps, Ended,
                Answers, Refusals, TxStates
  <1>6. ASSUME NEW r \in Requests, Insert(r) PROVE TypeOK'
    BY <1>6 DEF Insert, Goto, Answer, Rollback, EndTx, Running, BookSteps, Ended,
                Answers, Refusals, TxStates
  <1>7. ASSUME NEW r \in Requests, SendCommit(r) PROVE TypeOK'
    BY <1>7 DEF SendCommit, Goto, Running, BookSteps, TxStates
  <1>8. ASSUME NEW r \in Requests, CommitReply(r) PROVE TypeOK'
    BY <1>8 DEF CommitReply, CommitOutcome, Answer, Ended, Answers
  <1>9. ASSUME NEW r \in Requests, DbCommit(r) PROVE TypeOK'
    <2>1. req[r] \in BookRequest
      BY <1>9 DEF DbCommit, StepsAgree
    <2>2. [slot |-> req[r].slot, user |-> req[r].user,
           status |-> "active", createdAt |-> began[r]] \in Row
      BY <2>1 DEF BookRequest, Row, Ledger!Row, Ledger!Status
    <2> QED
      BY <1>9, <2>2 DEF DbCommit, Rollback, EndTx, TxStates
  <1>10. ASSUME NEW r \in Requests, DbAbort(r) PROVE TypeOK'
    BY <1>10 DEF DbAbort, Rollback, EndTx, TxStates
  <1>11. ASSUME NEW r \in Requests, ReadOwner(r) PROVE TypeOK'
    BY <1>11 DEF ReadOwner, IsOwner, Goto, Answer, Running, CancelSteps, Ended, Answers, Refusals
  <1>12. ASSUME NEW r \in Requests, DbUpdate(r) PROVE TypeOK'
    BY <1>12, UpdateEffect DEF TxStates
  <1>13. ASSUME NEW r \in Requests, SendUpdate(r) PROVE TypeOK'
    BY <1>13 DEF SendUpdate, Goto, Running, CancelSteps, TxStates
  <1>14. ASSUME NEW r \in Requests, UpdateReply(r) PROVE TypeOK'
    BY <1>14 DEF UpdateReply, Goto, Running, CancelSteps
  <1>15. ASSUME NEW r \in Requests, Reread(r) PROVE TypeOK'
    <2>1. /\ req[r].booking \in Requests
          /\ bookings[req[r].booking] \in Row
      BY <1>15 DEF Reread, StepsAgree, CancelsOwn, CancelSteps, CancelRequest
    <2>2. bookings[req[r].booking].status \in Answers
      BY <2>1 DEF Row, Ledger!Row, Answers
    <2> QED
      BY <1>15, <2>2 DEF Reread, Answer, Ended
  <1>16. ASSUME NEW r \in Requests, ConnLost(r) PROVE TypeOK'
    BY <1>16 DEF ConnLost, Ended, Answers
  <1>17. CASE Crash
    BY <1>17 DEF Crash, Ended
  <1>18. ASSUME NEW s \in Slots, UpsertSlot(s) PROVE TypeOK'
    BY <1>18 DEF UpsertSlot
  <1>19. CASE Tick
    BY <1>19 DEF Tick
  <1>20. CASE UNCHANGED vars
    BY <1>20 DEF vars
  <1> QED
    BY <1>1, <1>2, <1>3, <1>4, <1>5, <1>6, <1>7, <1>8, <1>9, <1>10, <1>11, <1>12,
       <1>13, <1>14, <1>15, <1>16, <1>17, <1>18, <1>19, <1>20
       DEF Next, BookStep, CancelStep, DbStep

(* A request and its transaction stay in step. *)
LEMMA NextStepsAgree ==
  ASSUME TypeOK, StepsAgree, CancelsOwn, [Next]_vars
  PROVE  StepsAgree'
  <1> USE DEF TypeOK, table, txn, StepsAgree, BookSteps, CancelSteps, Running, Ended
  <1>1. ASSUME NEW r \in Requests, ArriveBook(r) PROVE StepsAgree'
    BY <1>1 DEF ArriveBook, Goto, BookRequest
  <1>2. ASSUME NEW r \in Requests, ArriveCancel(r) PROVE StepsAgree'
    BY <1>2 DEF ArriveCancel, Goto, CancelRequest
  <1>3. ASSUME NEW r \in Requests, GetSlot(r) PROVE StepsAgree'
    BY <1>3 DEF GetSlot, Goto, Answer
  <1>4. ASSUME NEW r \in Requests, BeginTx(r) PROVE StepsAgree'
    BY <1>4 DEF BeginTx, Goto
  <1>5. ASSUME NEW r \in Requests, ReadSlot(r) PROVE StepsAgree'
    BY <1>5 DEF ReadSlot, Goto, Answer, Rollback, EndTx, InThePast
  <1>6. ASSUME NEW r \in Requests, Insert(r) PROVE StepsAgree'
    BY <1>6 DEF Insert, Goto, Answer, Rollback, EndTx, ActiveOn, InFlightOn
  <1>7. ASSUME NEW r \in Requests, SendCommit(r) PROVE StepsAgree'
    BY <1>7 DEF SendCommit, Goto
  <1>8. ASSUME NEW r \in Requests, CommitReply(r) PROVE StepsAgree'
    BY <1>8 DEF CommitReply, CommitOutcome, Answer
  <1>9. ASSUME NEW r \in Requests, DbCommit(r) PROVE StepsAgree'
    BY <1>9 DEF DbCommit, Rollback, EndTx
  <1>10. ASSUME NEW r \in Requests, DbAbort(r) PROVE StepsAgree'
    BY <1>10 DEF DbAbort, Rollback, EndTx
  <1>11. ASSUME NEW r \in Requests, ReadOwner(r) PROVE StepsAgree'
    BY <1>11 DEF ReadOwner, IsOwner, Goto, Answer
  <1>12. ASSUME NEW r \in Requests, DbUpdate(r) PROVE StepsAgree'
    BY <1>12, UpdateEffect
  <1>13. ASSUME NEW r \in Requests, SendUpdate(r) PROVE StepsAgree'
    BY <1>13 DEF SendUpdate, Goto
  <1>14. ASSUME NEW r \in Requests, UpdateReply(r) PROVE StepsAgree'
    BY <1>14 DEF UpdateReply, Goto
  <1>15. ASSUME NEW r \in Requests, Reread(r) PROVE StepsAgree'
    BY <1>15 DEF Reread, Answer
  <1>16. ASSUME NEW r \in Requests, ConnLost(r) PROVE StepsAgree'
    BY <1>16 DEF ConnLost
  <1>17. CASE Crash
    BY <1>17 DEF Crash
  <1>18. ASSUME NEW s \in Slots, UpsertSlot(s) PROVE StepsAgree'
    BY <1>18 DEF UpsertSlot
  <1>19. CASE Tick
    BY <1>19 DEF Tick
  <1>20. CASE UNCHANGED vars
    BY <1>20 DEF vars
  <1> QED
    BY <1>1, <1>2, <1>3, <1>4, <1>5, <1>6, <1>7, <1>8, <1>9, <1>10, <1>11, <1>12,
       <1>13, <1>14, <1>15, <1>16, <1>17, <1>18, <1>19, <1>20
       DEF Next, BookStep, CancelStep, DbStep

(* Rows are what their requests asked for. *)
LEMMA NextRowsAgree ==
  ASSUME TypeOK, StepsAgree, RowsAgree, CancelsOwn, [Next]_vars
  PROVE  RowsAgree'
  <1> USE DEF TypeOK, table, txn, RowsAgree, StepsAgree, BookSteps, CancelSteps, Running, Ended
  <1>1. ASSUME NEW r \in Requests, ArriveBook(r) PROVE RowsAgree'
    BY <1>1 DEF ArriveBook, Goto, BookRequest
  <1>2. ASSUME NEW r \in Requests, ArriveCancel(r) PROVE RowsAgree'
    BY <1>2 DEF ArriveCancel, Goto, CancelRequest
  <1>3. ASSUME NEW r \in Requests, GetSlot(r) PROVE RowsAgree'
    BY <1>3 DEF GetSlot, Goto, Answer
  <1>4. ASSUME NEW r \in Requests, BeginTx(r) PROVE RowsAgree'
    BY <1>4 DEF BeginTx, Goto
  <1>5. ASSUME NEW r \in Requests, ReadSlot(r) PROVE RowsAgree'
    BY <1>5 DEF ReadSlot, Goto, Answer, Rollback, EndTx, InThePast
  <1>6. ASSUME NEW r \in Requests, Insert(r) PROVE RowsAgree'
    BY <1>6 DEF Insert, Goto, Answer, Rollback, EndTx, ActiveOn, InFlightOn
  <1>7. ASSUME NEW r \in Requests, SendCommit(r) PROVE RowsAgree'
    BY <1>7 DEF SendCommit, Goto
  <1>8. ASSUME NEW r \in Requests, CommitReply(r) PROVE RowsAgree'
    BY <1>8 DEF CommitReply, CommitOutcome, Answer
  <1>9. ASSUME NEW r \in Requests, DbCommit(r) PROVE RowsAgree'
    BY <1>9 DEF DbCommit, Rollback, EndTx
  <1>10. ASSUME NEW r \in Requests, DbAbort(r) PROVE RowsAgree'
    BY <1>10 DEF DbAbort, Rollback, EndTx
  <1>11. ASSUME NEW r \in Requests, ReadOwner(r) PROVE RowsAgree'
    BY <1>11 DEF ReadOwner, IsOwner, Goto, Answer
  <1>12. ASSUME NEW r \in Requests, DbUpdate(r) PROVE RowsAgree'
    BY <1>12, UpdateEffect
  <1>13. ASSUME NEW r \in Requests, SendUpdate(r) PROVE RowsAgree'
    BY <1>13 DEF SendUpdate, Goto
  <1>14. ASSUME NEW r \in Requests, UpdateReply(r) PROVE RowsAgree'
    BY <1>14 DEF UpdateReply, Goto
  <1>15. ASSUME NEW r \in Requests, Reread(r) PROVE RowsAgree'
    BY <1>15 DEF Reread, Answer
  <1>16. ASSUME NEW r \in Requests, ConnLost(r) PROVE RowsAgree'
    BY <1>16 DEF ConnLost
  <1>17. CASE Crash
    BY <1>17 DEF Crash
  <1>18. ASSUME NEW s \in Slots, UpsertSlot(s) PROVE RowsAgree'
    BY <1>18 DEF UpsertSlot
  <1>19. CASE Tick
    BY <1>19 DEF Tick
  <1>20. CASE UNCHANGED vars
    BY <1>20 DEF vars
  <1> QED
    BY <1>1, <1>2, <1>3, <1>4, <1>5, <1>6, <1>7, <1>8, <1>9, <1>10, <1>11, <1>12,
       <1>13, <1>14, <1>15, <1>16, <1>17, <1>18, <1>19, <1>20
       DEF Next, BookStep, CancelStep, DbStep

(* No statement removes a slot. *)
LEMMA NextSlotsStand ==
  ASSUME TypeOK, StepsAgree, SlotsStand, CancelsOwn, [Next]_vars
  PROVE  SlotsStand'
  <1> USE DEF TypeOK, table, txn, SlotsStand, StepsAgree, BookSteps, CancelSteps, Running, Ended
  <1>1. ASSUME NEW r \in Requests, ArriveBook(r) PROVE SlotsStand'
    BY <1>1 DEF ArriveBook, Goto, BookRequest
  <1>2. ASSUME NEW r \in Requests, ArriveCancel(r) PROVE SlotsStand'
    BY <1>2 DEF ArriveCancel, Goto, CancelRequest
  <1>3. ASSUME NEW r \in Requests, GetSlot(r) PROVE SlotsStand'
    BY <1>3 DEF GetSlot, Goto, Answer
  <1>4. ASSUME NEW r \in Requests, BeginTx(r) PROVE SlotsStand'
    BY <1>4 DEF BeginTx, Goto
  <1>5. ASSUME NEW r \in Requests, ReadSlot(r) PROVE SlotsStand'
    BY <1>5 DEF ReadSlot, Goto, Answer, Rollback, EndTx
  <1>6. ASSUME NEW r \in Requests, Insert(r) PROVE SlotsStand'
    BY <1>6 DEF Insert, Goto, Answer, Rollback, EndTx, ActiveOn, InFlightOn
  <1>7. ASSUME NEW r \in Requests, SendCommit(r) PROVE SlotsStand'
    BY <1>7 DEF SendCommit, Goto
  <1>8. ASSUME NEW r \in Requests, CommitReply(r) PROVE SlotsStand'
    BY <1>8 DEF CommitReply, CommitOutcome, Answer
  <1>9. ASSUME NEW r \in Requests, DbCommit(r) PROVE SlotsStand'
    BY <1>9 DEF DbCommit, Rollback, EndTx
  <1>10. ASSUME NEW r \in Requests, DbAbort(r) PROVE SlotsStand'
    BY <1>10 DEF DbAbort, Rollback, EndTx
  <1>11. ASSUME NEW r \in Requests, ReadOwner(r) PROVE SlotsStand'
    BY <1>11 DEF ReadOwner, IsOwner, Goto, Answer
  <1>12. ASSUME NEW r \in Requests, DbUpdate(r) PROVE SlotsStand'
    BY <1>12, UpdateEffect
  <1>13. ASSUME NEW r \in Requests, SendUpdate(r) PROVE SlotsStand'
    BY <1>13 DEF SendUpdate, Goto
  <1>14. ASSUME NEW r \in Requests, UpdateReply(r) PROVE SlotsStand'
    BY <1>14 DEF UpdateReply, Goto
  <1>15. ASSUME NEW r \in Requests, Reread(r) PROVE SlotsStand'
    BY <1>15 DEF Reread, Answer
  <1>16. ASSUME NEW r \in Requests, ConnLost(r) PROVE SlotsStand'
    BY <1>16 DEF ConnLost
  <1>17. CASE Crash
    BY <1>17 DEF Crash
  <1>18. ASSUME NEW s \in Slots, UpsertSlot(s) PROVE SlotsStand'
    BY <1>18 DEF UpsertSlot
  <1>19. CASE Tick
    BY <1>19 DEF Tick
  <1>20. CASE UNCHANGED vars
    BY <1>20 DEF vars
  <1> QED
    BY <1>1, <1>2, <1>3, <1>4, <1>5, <1>6, <1>7, <1>8, <1>9, <1>10, <1>11, <1>12,
       <1>13, <1>14, <1>15, <1>16, <1>17, <1>18, <1>19, <1>20
       DEF Next, BookStep, CancelStep, DbStep

(* A transaction that passed the check began before its slot starts. *)
LEMMA NextBeganInTime ==
  ASSUME TypeOK, StepsAgree, RowsAgree, BeganInTime, CancelsOwn, [Next]_vars
  PROVE  BeganInTime'
  <1> USE DEF TypeOK, table, txn, BeganInTime, StepsAgree, BookSteps, CancelSteps, Running, Ended
  <1>1. ASSUME NEW r \in Requests, ArriveBook(r) PROVE BeganInTime'
    BY <1>1 DEF ArriveBook, Goto, BookRequest
  <1>2. ASSUME NEW r \in Requests, ArriveCancel(r) PROVE BeganInTime'
    BY <1>2 DEF ArriveCancel, Goto, CancelRequest
  <1>3. ASSUME NEW r \in Requests, GetSlot(r) PROVE BeganInTime'
    BY <1>3 DEF GetSlot, Goto, Answer
  <1>4. ASSUME NEW r \in Requests, BeginTx(r) PROVE BeganInTime'
    BY <1>4 DEF BeginTx, Goto
  <1>5. ASSUME NEW r \in Requests, ReadSlot(r) PROVE BeganInTime'
    BY <1>5, StoreAssumption DEF ReadSlot, Goto, Answer, Rollback, EndTx, InThePast, BookRequest
  <1>6. ASSUME NEW r \in Requests, Insert(r) PROVE BeganInTime'
    BY <1>6 DEF Insert, Goto, Answer, Rollback, EndTx, ActiveOn, InFlightOn
  <1>7. ASSUME NEW r \in Requests, SendCommit(r) PROVE BeganInTime'
    BY <1>7 DEF SendCommit, Goto
  <1>8. ASSUME NEW r \in Requests, CommitReply(r) PROVE BeganInTime'
    BY <1>8 DEF CommitReply, CommitOutcome, Answer
  <1>9. ASSUME NEW r \in Requests, DbCommit(r) PROVE BeganInTime'
    BY <1>9 DEF DbCommit, Rollback, EndTx
  <1>10. ASSUME NEW r \in Requests, DbAbort(r) PROVE BeganInTime'
    BY <1>10 DEF DbAbort, Rollback, EndTx
  <1>11. ASSUME NEW r \in Requests, ReadOwner(r) PROVE BeganInTime'
    BY <1>11 DEF ReadOwner, IsOwner, Goto, Answer
  <1>12. ASSUME NEW r \in Requests, DbUpdate(r) PROVE BeganInTime'
    BY <1>12, UpdateEffect
  <1>13. ASSUME NEW r \in Requests, SendUpdate(r) PROVE BeganInTime'
    BY <1>13 DEF SendUpdate, Goto
  <1>14. ASSUME NEW r \in Requests, UpdateReply(r) PROVE BeganInTime'
    BY <1>14 DEF UpdateReply, Goto
  <1>15. ASSUME NEW r \in Requests, Reread(r) PROVE BeganInTime'
    BY <1>15 DEF Reread, Answer
  <1>16. ASSUME NEW r \in Requests, ConnLost(r) PROVE BeganInTime'
    BY <1>16 DEF ConnLost
  <1>17. CASE Crash
    BY <1>17 DEF Crash
  <1>18. ASSUME NEW s \in Slots, UpsertSlot(s) PROVE BeganInTime'
    BY <1>18 DEF UpsertSlot
  <1>19. CASE Tick
    BY <1>19 DEF Tick
  <1>20. CASE UNCHANGED vars
    BY <1>20 DEF vars
  <1> QED
    BY <1>1, <1>2, <1>3, <1>4, <1>5, <1>6, <1>7, <1>8, <1>9, <1>10, <1>11, <1>12,
       <1>13, <1>14, <1>15, <1>16, <1>17, <1>18, <1>19, <1>20
       DEF Next, BookStep, CancelStep, DbStep

(* The unique index admits one key per slot, committed or not. *)
LEMMA NextOneHolder ==
  ASSUME TypeOK, StepsAgree, RowsAgree, CancelsOwn, OneHolderPerSlot, [Next]_vars
  PROVE  OneHolderPerSlot'
  <1> USE DEF TypeOK, table, txn, OneHolderPerSlot, Holds, StepsAgree, Ledger!Active, BookSteps, CancelSteps, Running, Ended
  <1>1. ASSUME NEW r \in Requests, ArriveBook(r) PROVE OneHolderPerSlot'
    BY <1>1 DEF ArriveBook, Goto, BookRequest
  <1>2. ASSUME NEW r \in Requests, ArriveCancel(r) PROVE OneHolderPerSlot'
    BY <1>2 DEF ArriveCancel, Goto, CancelRequest
  <1>3. ASSUME NEW r \in Requests, GetSlot(r) PROVE OneHolderPerSlot'
    BY <1>3 DEF GetSlot, Goto, Answer
  <1>4. ASSUME NEW r \in Requests, BeginTx(r) PROVE OneHolderPerSlot'
    BY <1>4 DEF BeginTx, Goto
  <1>5. ASSUME NEW r \in Requests, ReadSlot(r) PROVE OneHolderPerSlot'
    BY <1>5 DEF ReadSlot, Goto, Answer, Rollback, EndTx, InThePast
  <1>6. ASSUME NEW r \in Requests, Insert(r) PROVE OneHolderPerSlot'
    BY <1>6 DEF Insert, Goto, Answer, Rollback, EndTx, ActiveOn, InFlightOn, RowsAgree
  <1>7. ASSUME NEW r \in Requests, SendCommit(r) PROVE OneHolderPerSlot'
    BY <1>7 DEF SendCommit, Goto
  <1>8. ASSUME NEW r \in Requests, CommitReply(r) PROVE OneHolderPerSlot'
    BY <1>8 DEF CommitReply, CommitOutcome, Answer
  <1>9. ASSUME NEW r \in Requests, DbCommit(r) PROVE OneHolderPerSlot'
    BY <1>9 DEF DbCommit, Rollback, EndTx
  <1>10. ASSUME NEW r \in Requests, DbAbort(r) PROVE OneHolderPerSlot'
    BY <1>10 DEF DbAbort, Rollback, EndTx
  <1>11. ASSUME NEW r \in Requests, ReadOwner(r) PROVE OneHolderPerSlot'
    BY <1>11 DEF ReadOwner, IsOwner, Goto, Answer
  <1>12. ASSUME NEW r \in Requests, DbUpdate(r) PROVE OneHolderPerSlot'
    BY <1>12, UpdateEffect
  <1>13. ASSUME NEW r \in Requests, SendUpdate(r) PROVE OneHolderPerSlot'
    BY <1>13 DEF SendUpdate, Goto
  <1>14. ASSUME NEW r \in Requests, UpdateReply(r) PROVE OneHolderPerSlot'
    BY <1>14 DEF UpdateReply, Goto
  <1>15. ASSUME NEW r \in Requests, Reread(r) PROVE OneHolderPerSlot'
    BY <1>15 DEF Reread, Answer
  <1>16. ASSUME NEW r \in Requests, ConnLost(r) PROVE OneHolderPerSlot'
    BY <1>16 DEF ConnLost
  <1>17. CASE Crash
    BY <1>17 DEF Crash
  <1>18. ASSUME NEW s \in Slots, UpsertSlot(s) PROVE OneHolderPerSlot'
    BY <1>18 DEF UpsertSlot
  <1>19. CASE Tick
    BY <1>19 DEF Tick
  <1>20. CASE UNCHANGED vars
    BY <1>20 DEF vars
  <1> QED
    BY <1>1, <1>2, <1>3, <1>4, <1>5, <1>6, <1>7, <1>8, <1>9, <1>10, <1>11, <1>12,
       <1>13, <1>14, <1>15, <1>16, <1>17, <1>18, <1>19, <1>20
       DEF Next, BookStep, CancelStep, DbStep

(* A cancellation keeps to the booking whose owner it checked. *)
LEMMA NextCancelsOwn ==
  ASSUME TypeOK, StepsAgree, RowsAgree, CancelsOwn, [Next]_vars
  PROVE  CancelsOwn'
  <1> USE DEF TypeOK, table, txn, CancelsOwn, StepsAgree, CancelRequest, BookSteps, CancelSteps, Running, Ended
  <1>1. ASSUME NEW r \in Requests, ArriveBook(r) PROVE CancelsOwn'
    BY <1>1 DEF ArriveBook, Goto, BookRequest
  <1>2. ASSUME NEW r \in Requests, ArriveCancel(r) PROVE CancelsOwn'
    BY <1>2 DEF ArriveCancel, Goto, CancelRequest
  <1>3. ASSUME NEW r \in Requests, GetSlot(r) PROVE CancelsOwn'
    BY <1>3 DEF GetSlot, Goto, Answer
  <1>4. ASSUME NEW r \in Requests, BeginTx(r) PROVE CancelsOwn'
    BY <1>4 DEF BeginTx, Goto
  <1>5. ASSUME NEW r \in Requests, ReadSlot(r) PROVE CancelsOwn'
    BY <1>5 DEF ReadSlot, Goto, Answer, Rollback, EndTx, InThePast
  <1>6. ASSUME NEW r \in Requests, Insert(r) PROVE CancelsOwn'
    BY <1>6 DEF Insert, Goto, Answer, Rollback, EndTx, ActiveOn, InFlightOn
  <1>7. ASSUME NEW r \in Requests, SendCommit(r) PROVE CancelsOwn'
    BY <1>7 DEF SendCommit, Goto
  <1>8. ASSUME NEW r \in Requests, CommitReply(r) PROVE CancelsOwn'
    BY <1>8 DEF CommitReply, CommitOutcome, Answer
  <1>9. ASSUME NEW r \in Requests, DbCommit(r) PROVE CancelsOwn'
    BY <1>9 DEF DbCommit, Rollback, EndTx
  <1>10. ASSUME NEW r \in Requests, DbAbort(r) PROVE CancelsOwn'
    BY <1>10 DEF DbAbort, Rollback, EndTx
  <1>11. ASSUME NEW r \in Requests, ReadOwner(r) PROVE CancelsOwn'
    BY <1>11 DEF ReadOwner, IsOwner, Goto, Answer
  <1>12. ASSUME NEW r \in Requests, DbUpdate(r) PROVE CancelsOwn'
    BY <1>12, UpdateEffect
  <1>13. ASSUME NEW r \in Requests, SendUpdate(r) PROVE CancelsOwn'
    BY <1>13 DEF SendUpdate, Goto
  <1>14. ASSUME NEW r \in Requests, UpdateReply(r) PROVE CancelsOwn'
    BY <1>14 DEF UpdateReply, Goto
  <1>15. ASSUME NEW r \in Requests, Reread(r) PROVE CancelsOwn'
    BY <1>15 DEF Reread, Answer
  <1>16. ASSUME NEW r \in Requests, ConnLost(r) PROVE CancelsOwn'
    BY <1>16 DEF ConnLost
  <1>17. CASE Crash
    BY <1>17 DEF Crash
  <1>18. ASSUME NEW s \in Slots, UpsertSlot(s) PROVE CancelsOwn'
    BY <1>18 DEF UpsertSlot
  <1>19. CASE Tick
    BY <1>19 DEF Tick
  <1>20. CASE UNCHANGED vars
    BY <1>20 DEF vars
  <1> QED
    BY <1>1, <1>2, <1>3, <1>4, <1>5, <1>6, <1>7, <1>8, <1>9, <1>10, <1>11, <1>12,
       <1>13, <1>14, <1>15, <1>16, <1>17, <1>18, <1>19, <1>20
       DEF Next, BookStep, CancelStep, DbStep

(* Answers fit the question. *)
LEMMA NextAnswersAgree ==
  ASSUME TypeOK, StepsAgree, AnswersAgree, CancelsOwn, [Next]_vars
  PROVE  AnswersAgree'
  <1> USE DEF TypeOK, table, txn, AnswersAgree, StepsAgree, Ledger!Status, BookSteps, CancelSteps, Running, Ended
  <1>1. ASSUME NEW r \in Requests, ArriveBook(r) PROVE AnswersAgree'
    BY <1>1 DEF ArriveBook, Goto, BookRequest
  <1>2. ASSUME NEW r \in Requests, ArriveCancel(r) PROVE AnswersAgree'
    BY <1>2 DEF ArriveCancel, Goto, CancelRequest
  <1>3. ASSUME NEW r \in Requests, GetSlot(r) PROVE AnswersAgree'
    BY <1>3 DEF GetSlot, Goto, Answer
  <1>4. ASSUME NEW r \in Requests, BeginTx(r) PROVE AnswersAgree'
    BY <1>4 DEF BeginTx, Goto
  <1>5. ASSUME NEW r \in Requests, ReadSlot(r) PROVE AnswersAgree'
    BY <1>5 DEF ReadSlot, Goto, Answer, Rollback, EndTx, InThePast
  <1>6. ASSUME NEW r \in Requests, Insert(r) PROVE AnswersAgree'
    BY <1>6 DEF Insert, Goto, Answer, Rollback, EndTx, ActiveOn, InFlightOn
  <1>7. ASSUME NEW r \in Requests, SendCommit(r) PROVE AnswersAgree'
    BY <1>7 DEF SendCommit, Goto
  <1>8. ASSUME NEW r \in Requests, CommitReply(r) PROVE AnswersAgree'
    BY <1>8 DEF CommitReply, CommitOutcome, Answer
  <1>9. ASSUME NEW r \in Requests, DbCommit(r) PROVE AnswersAgree'
    BY <1>9 DEF DbCommit, Rollback, EndTx
  <1>10. ASSUME NEW r \in Requests, DbAbort(r) PROVE AnswersAgree'
    BY <1>10 DEF DbAbort, Rollback, EndTx
  <1>11. ASSUME NEW r \in Requests, ReadOwner(r) PROVE AnswersAgree'
    BY <1>11 DEF ReadOwner, IsOwner, Goto, Answer
  <1>12. ASSUME NEW r \in Requests, DbUpdate(r) PROVE AnswersAgree'
    BY <1>12, UpdateEffect
  <1>13. ASSUME NEW r \in Requests, SendUpdate(r) PROVE AnswersAgree'
    BY <1>13 DEF SendUpdate, Goto
  <1>14. ASSUME NEW r \in Requests, UpdateReply(r) PROVE AnswersAgree'
    BY <1>14 DEF UpdateReply, Goto
  <1>15. ASSUME NEW r \in Requests, Reread(r) PROVE AnswersAgree'
    BY <1>15 DEF Reread, Answer, CancelsOwn
  <1>16. ASSUME NEW r \in Requests, ConnLost(r) PROVE AnswersAgree'
    BY <1>16 DEF ConnLost
  <1>17. CASE Crash
    BY <1>17 DEF Crash
  <1>18. ASSUME NEW s \in Slots, UpsertSlot(s) PROVE AnswersAgree'
    BY <1>18 DEF UpsertSlot
  <1>19. CASE Tick
    BY <1>19 DEF Tick
  <1>20. CASE UNCHANGED vars
    BY <1>20 DEF vars
  <1> QED
    BY <1>1, <1>2, <1>3, <1>4, <1>5, <1>6, <1>7, <1>8, <1>9, <1>10, <1>11, <1>12,
       <1>13, <1>14, <1>15, <1>16, <1>17, <1>18, <1>19, <1>20
       DEF Next, BookStep, CancelStep, DbStep

(* Successful answers stay true. *)
LEMMA NextAnswersAreTrue ==
  ASSUME TypeOK, StepsAgree, RowsAgree, CancelsOwn, AnswersAgree, AnswersAreTrue, [Next]_vars
  PROVE  AnswersAreTrue'
  <1> USE DEF TypeOK, table, txn, AnswersAreTrue, AnswersAgree, StepsAgree, Ledger!Status, CancelRequest, BookSteps, CancelSteps, Running, Ended
  <1>1. ASSUME NEW r \in Requests, ArriveBook(r) PROVE AnswersAreTrue'
    BY <1>1 DEF ArriveBook, Goto, BookRequest
  <1>2. ASSUME NEW r \in Requests, ArriveCancel(r) PROVE AnswersAreTrue'
    BY <1>2 DEF ArriveCancel, Goto, CancelRequest
  <1>3. ASSUME NEW r \in Requests, GetSlot(r) PROVE AnswersAreTrue'
    BY <1>3 DEF GetSlot, Goto, Answer
  <1>4. ASSUME NEW r \in Requests, BeginTx(r) PROVE AnswersAreTrue'
    BY <1>4 DEF BeginTx, Goto
  <1>5. ASSUME NEW r \in Requests, ReadSlot(r) PROVE AnswersAreTrue'
    BY <1>5 DEF ReadSlot, Goto, Answer, Rollback, EndTx, InThePast
  <1>6. ASSUME NEW r \in Requests, Insert(r) PROVE AnswersAreTrue'
    BY <1>6 DEF Insert, Goto, Answer, Rollback, EndTx, ActiveOn, InFlightOn
  <1>7. ASSUME NEW r \in Requests, SendCommit(r) PROVE AnswersAreTrue'
    BY <1>7 DEF SendCommit, Goto
  <1>8. ASSUME NEW r \in Requests, CommitReply(r) PROVE AnswersAreTrue'
    BY <1>8 DEF CommitReply, CommitOutcome, Answer, RowsAgree
  <1>9. ASSUME NEW r \in Requests, DbCommit(r) PROVE AnswersAreTrue'
    BY <1>9 DEF DbCommit, Rollback, EndTx
  <1>10. ASSUME NEW r \in Requests, DbAbort(r) PROVE AnswersAreTrue'
    BY <1>10 DEF DbAbort, Rollback, EndTx
  <1>11. ASSUME NEW r \in Requests, ReadOwner(r) PROVE AnswersAreTrue'
    BY <1>11 DEF ReadOwner, IsOwner, Goto, Answer
  <1>12. ASSUME NEW r \in Requests, DbUpdate(r) PROVE AnswersAreTrue'
    BY <1>12, UpdateEffect
  <1>13. ASSUME NEW r \in Requests, SendUpdate(r) PROVE AnswersAreTrue'
    BY <1>13 DEF SendUpdate, Goto
  <1>14. ASSUME NEW r \in Requests, UpdateReply(r) PROVE AnswersAreTrue'
    BY <1>14 DEF UpdateReply, Goto
  <1>15. ASSUME NEW r \in Requests, Reread(r) PROVE AnswersAreTrue'
    BY <1>15 DEF Reread, Answer, CancelsOwn
  <1>16. ASSUME NEW r \in Requests, ConnLost(r) PROVE AnswersAreTrue'
    BY <1>16 DEF ConnLost
  <1>17. CASE Crash
    BY <1>17 DEF Crash
  <1>18. ASSUME NEW s \in Slots, UpsertSlot(s) PROVE AnswersAreTrue'
    BY <1>18 DEF UpsertSlot
  <1>19. CASE Tick
    BY <1>19 DEF Tick
  <1>20. CASE UNCHANGED vars
    BY <1>20 DEF vars
  <1> QED
    BY <1>1, <1>2, <1>3, <1>4, <1>5, <1>6, <1>7, <1>8, <1>9, <1>10, <1>11, <1>12,
       <1>13, <1>14, <1>15, <1>16, <1>17, <1>18, <1>19, <1>20
       DEF Next, BookStep, CancelStep, DbStep

(* Refusals stay true, and leave nothing behind. *)
LEMMA NextRefusalsAreTrue ==
  ASSUME TypeOK, StepsAgree, RowsAgree, CancelsOwn, AnswersAgree, RefusalsAreTrue, [Next]_vars
  PROVE  RefusalsAreTrue'
  <1> USE DEF TypeOK, table, txn, RefusalsAreTrue, InThePast, AnswersAgree, StepsAgree, Refusals, CancelRequest, BookSteps, CancelSteps, Running, Ended
  <1>1. ASSUME NEW r \in Requests, ArriveBook(r) PROVE RefusalsAreTrue'
    BY <1>1 DEF ArriveBook, Goto, BookRequest
  <1>2. ASSUME NEW r \in Requests, ArriveCancel(r) PROVE RefusalsAreTrue'
    BY <1>2 DEF ArriveCancel, Goto, CancelRequest
  <1>3. ASSUME NEW r \in Requests, GetSlot(r) PROVE RefusalsAreTrue'
    BY <1>3 DEF GetSlot, Goto, Answer
  <1>4. ASSUME NEW r \in Requests, BeginTx(r) PROVE RefusalsAreTrue'
    BY <1>4 DEF BeginTx, Goto
  <1>5. ASSUME NEW r \in Requests, ReadSlot(r) PROVE RefusalsAreTrue'
    BY <1>5 DEF ReadSlot, Goto, Answer, Rollback, EndTx, InThePast
  <1>6. ASSUME NEW r \in Requests, Insert(r) PROVE RefusalsAreTrue'
    BY <1>6 DEF Insert, Goto, Answer, Rollback, EndTx, ActiveOn, Ledger!Active
  <1>7. ASSUME NEW r \in Requests, SendCommit(r) PROVE RefusalsAreTrue'
    BY <1>7 DEF SendCommit, Goto
  <1>8. ASSUME NEW r \in Requests, CommitReply(r) PROVE RefusalsAreTrue'
    BY <1>8 DEF CommitReply, CommitOutcome, Answer
  <1>9. ASSUME NEW r \in Requests, DbCommit(r) PROVE RefusalsAreTrue'
    BY <1>9 DEF DbCommit, Rollback, EndTx
  <1>10. ASSUME NEW r \in Requests, DbAbort(r) PROVE RefusalsAreTrue'
    BY <1>10 DEF DbAbort, Rollback, EndTx
  <1>11. ASSUME NEW r \in Requests, ReadOwner(r) PROVE RefusalsAreTrue'
    BY <1>11 DEF ReadOwner, IsOwner, Goto, Answer
  <1>12. ASSUME NEW r \in Requests, DbUpdate(r) PROVE RefusalsAreTrue'
    BY <1>12, UpdateEffect
  <1>13. ASSUME NEW r \in Requests, SendUpdate(r) PROVE RefusalsAreTrue'
    BY <1>13 DEF SendUpdate, Goto
  <1>14. ASSUME NEW r \in Requests, UpdateReply(r) PROVE RefusalsAreTrue'
    BY <1>14 DEF UpdateReply, Goto
  <1>15. ASSUME NEW r \in Requests, Reread(r) PROVE RefusalsAreTrue'
    BY <1>15 DEF Reread, Answer, CancelsOwn
  <1>16. ASSUME NEW r \in Requests, ConnLost(r) PROVE RefusalsAreTrue'
    BY <1>16 DEF ConnLost
  <1>17. CASE Crash
    BY <1>17 DEF Crash
  <1>18. ASSUME NEW s \in Slots, UpsertSlot(s) PROVE RefusalsAreTrue'
    BY <1>18 DEF UpsertSlot
  <1>19. CASE Tick
    BY <1>19, StoreAssumption DEF Tick, BookRequest
  <1>20. CASE UNCHANGED vars
    BY <1>20 DEF vars
  <1> QED
    BY <1>1, <1>2, <1>3, <1>4, <1>5, <1>6, <1>7, <1>8, <1>9, <1>10, <1>11, <1>12,
       <1>13, <1>14, <1>15, <1>16, <1>17, <1>18, <1>19, <1>20
       DEF Next, BookStep, CancelStep, DbStep

-----------------------------------------------------------------------------

LEMMA NextIInv ==
  ASSUME IInv, [Next]_vars
  PROVE  IInv'
  BY NextType, NextStepsAgree, NextSlotsStand, NextRowsAgree, NextBeganInTime,
     NextOneHolder, NextCancelsOwn, NextAnswersAgree, NextAnswersAreTrue, NextRefusalsAreTrue
     DEF IInv

(* The invariant holds of every behaviour: each request, its transaction,   *)
(* its row and its answer agree.                                            *)
THEOREM Inductive == Spec => []IInv
  BY InitIInv, NextIInv, PTL DEF Spec

(* Every variable keeps its type. *)
THEOREM TypeCorrect == Spec => []TypeOK
  <1>1. IInv => TypeOK
    BY DEF IInv
  <1> QED
    BY Inductive, <1>1, PTL

(* No double booking: an active row is its request's key in the unique      *)
(* index, and the index holds one key per slot.                             *)
LEMMA HoldersAreUnique == IInv => OneActivePerSlot
  BY DEF IInv, OneActivePerSlot, OneHolderPerSlot, Holds, RowsAgree, Ledger!Active

THEOREM NoDoubleBooking == Spec => []OneActivePerSlot
  BY Inductive, HoldersAreUnique, PTL

(* No booking is recorded as created after its slot starts. *)
LEMMA RowsAreInTime == IInv => CreatedBeforeStart
  BY DEF IInv, CreatedBeforeStart, RowsAgree, BeganInTime

THEOREM CreatedInTime == Spec => []CreatedBeforeStart
  BY Inductive, RowsAreInTime, PTL

(* A 201 or 200 is never belied by the table, then or later. *)
THEOREM AnswersKept == Spec => []AnswersAreTrue
  <1>1. IInv => AnswersAreTrue
    BY DEF IInv
  <1> QED
    BY Inductive, <1>1, PTL

(* A refusal had its cause and left nothing behind. *)
THEOREM RefusalsJustified == Spec => []RefusalsAreTrue
  <1>1. IInv => RefusalsAreTrue
    BY DEF IInv
  <1> QED
    BY Inductive, <1>1, PTL

-----------------------------------------------------------------------------
(* What one step does to the table. *)

(* Every step but DbCommit and DbUpdate leaves the bookings alone. *)
LEMMA WhoWrites ==
  ASSUME [Next]_vars, bookings' # bookings
  PROVE  \E r \in Requests : DbCommit(r) \/ DbUpdate(r)
  <1> USE DEF table, txn
  <1>1. ASSUME NEW r \in Requests, BookStep(r) PROVE bookings' = bookings
    BY <1>1 DEF BookStep, GetSlot, BeginTx, ReadSlot, Insert, SendCommit, CommitReply
  <1>2. ASSUME NEW r \in Requests,
               ArriveBook(r) \/ ArriveCancel(r) \/ ReadOwner(r) \/ SendUpdate(r)
                 \/ UpdateReply(r) \/ Reread(r) \/ DbAbort(r) \/ ConnLost(r)
        PROVE  bookings' = bookings
    BY <1>2 DEF ArriveBook, ArriveCancel, ReadOwner, SendUpdate, UpdateReply, Reread, DbAbort, ConnLost
  <1>3. ASSUME Crash \/ Tick \/ UNCHANGED vars PROVE bookings' = bookings
    BY <1>3 DEF Crash, Tick, vars
  <1>4. ASSUME NEW s \in Slots, UpsertSlot(s) PROVE bookings' = bookings
    BY <1>4 DEF UpsertSlot
  <1> QED
    BY <1>1, <1>2, <1>3, <1>4 DEF Next, CancelStep, DbStep

(* Every step but UpsertSlot leaves the slots alone. *)
LEMMA WhoStores ==
  ASSUME [Next]_vars, slots' # slots
  PROVE  \E s \in Slots : UpsertSlot(s)
  <1> USE DEF table, txn
  <1>1. ASSUME NEW r \in Requests, BookStep(r) \/ CancelStep(r) \/ DbStep(r)
        PROVE  slots' = slots
    BY <1>1 DEF BookStep, GetSlot, BeginTx, ReadSlot, Insert, SendCommit, CommitReply,
                CancelStep, ReadOwner, SendUpdate, UpdateReply, Reread,
                DbStep, DbCommit, DbUpdate, DbAbort
  <1>2. ASSUME NEW r \in Requests, ArriveBook(r) \/ ArriveCancel(r) \/ ConnLost(r)
        PROVE  slots' = slots
    BY <1>2 DEF ArriveBook, ArriveCancel, ConnLost
  <1>3. ASSUME Crash \/ Tick \/ UNCHANGED vars PROVE slots' = slots
    BY <1>3 DEF Crash, Tick, vars
  <1> QED
    BY <1>1, <1>2, <1>3 DEF Next

(* An UPDATE touches one row, that of its request, and only an active one.  *)
LEMMA UpdateCancels ==
  ASSUME IInv, NEW r \in Requests, DbUpdate(r), bookings' # bookings
  PROVE  /\ req[r].booking \in Requests
         /\ Ledger!Active(req[r].booking)
         /\ req[r].user = bookings[req[r].booking].user
         /\ bookings' = [bookings EXCEPT ![req[r].booking] =
                           Ledger!Cancelled(bookings[req[r].booking])]
  <1>1. tx[r] = "updating" /\ req[r].booking \in Requests
    BY UpdateEffect DEF IInv
  <1> QED
    BY <1>1 DEF DbUpdate, IInv, CancelsOwn

(* A COMMIT is a booking of the ledger: nobody holds the slot any more, or  *)
(* the INSERT would have waited or failed.                                  *)
LEMMA CommitBooks ==
  ASSUME IInv, NEW r \in Requests, DbCommit(r)
  PROVE  Ledger!Book(r, req[r].slot, req[r].user, began[r])
  <1>1. tx[r] = "committing" /\ bookings[r] = None
    BY DEF DbCommit, IInv, StepsAgree
  <1>2. ~ Ledger!Taken(req[r].slot)
    BY <1>1 DEF IInv, OneHolderPerSlot, Holds, RowsAgree, Ledger!Taken, Ledger!Active
  <1>3. began[r] <= StartOf[req[r].slot] /\ req[r].slot \in slots
    BY <1>1 DEF IInv, BeganInTime, SlotsStand
  <1> QED
    BY <1>1, <1>2, <1>3 DEF DbCommit, Ledger!Book

(* A row changes only by its own user cancelling it. *)
THEOREM OwnerCancels == Spec => OnlyTheOwnerCancels
  <1> DEFINE Step ==
        \A b \in Requests :
          bookings[b] # None /\ bookings'[b] # bookings[b] =>
            /\ bookings'[b] = Ledger!Cancelled(bookings[b])
            /\ \E r \in Requests : /\ tx[r] = "updating" /\ tx'[r] = "none"
                                   /\ req[r].booking = b
                                   /\ req[r].user = bookings[b].user
  <1>1. ASSUME IInv, [Next]_vars PROVE Step
    <2> SUFFICES ASSUME NEW b \in Requests, bookings[b] # None,
                        bookings'[b] # bookings[b]
                 PROVE  /\ bookings'[b] = Ledger!Cancelled(bookings[b])
                        /\ \E r \in Requests :
                             /\ tx[r] = "updating" /\ tx'[r] = "none"
                             /\ req[r].booking = b
                             /\ req[r].user = bookings[b].user
      OBVIOUS
    <2>1. PICK r \in Requests : DbCommit(r) \/ DbUpdate(r)
      BY <1>1, WhoWrites
    <2>2. ~ DbCommit(r)
      BY <1>1 DEF DbCommit, IInv, TypeOK, StepsAgree
    <2>3. DbUpdate(r)
      BY <2>1, <2>2
    <2>4. /\ tx[r] = "updating" /\ tx' = [tx EXCEPT ![r] = "none"]
          /\ tx \in [Requests -> TxStates]
          /\ bookings \in [Requests -> Row \cup {None}]
      BY <1>1, <2>3, UpdateEffect DEF IInv, TypeOK
    <2>5. /\ req[r].booking = b
          /\ req[r].user = bookings[b].user
          /\ bookings'[b] = Ledger!Cancelled(bookings[b])
      BY <1>1, <2>3, <2>4, UpdateCancels
    <2> QED
      BY <2>4, <2>5
  <1>2. IInv /\ [Next]_vars => [Step]_vars
    BY <1>1
  <1> QED
    BY Inductive, <1>2, PTL DEF Spec, OnlyTheOwnerCancels

(* The transactions implement the ledger: every step of the store is one    *)
(* slot, one booking, one cancellation or nothing at all, in the ledger.    *)
THEOREM ImplementsLedger == Spec => IsLedger
  <1>1. Init => Ledger!Init
    BY DEF Init, Ledger!Init
  <1>2. ASSUME IInv, [Next]_vars PROVE [Ledger!Next]_<<slots, bookings>>
    <2>1. CASE bookings' # bookings
      <3>1. PICK r \in Requests : DbCommit(r) \/ DbUpdate(r)
        BY <1>2, <2>1, WhoWrites
      <3>2. CASE DbCommit(r)
        <4>1. req[r] \in BookRequest
          BY <1>2, <3>2 DEF DbCommit, IInv, StepsAgree
        <4>2. /\ req[r].slot \in Slots /\ req[r].user \in Users
              /\ began[r] \in 0 .. StartOf[req[r].slot]
          BY <1>2, <3>2, <4>1, StoreAssumption
             DEF BookRequest, IInv, TypeOK, BeganInTime, DbCommit
        <4> QED
          BY <1>2, <3>2, <4>2, CommitBooks DEF Ledger!Next
      <3>3. CASE DbUpdate(r)
        <4>1. UNCHANGED slots
          BY <3>3 DEF DbUpdate
        <4> QED
          BY <1>2, <2>1, <3>3, <4>1, UpdateCancels DEF Ledger!Next, Ledger!Cancel
      <3> QED
        BY <3>1, <3>2, <3>3
    <2>2. CASE slots' # slots
      <3>1. PICK s \in Slots : UpsertSlot(s)
        BY <1>2, <2>2, WhoStores
      <3> QED
        BY <3>1 DEF UpsertSlot, Ledger!Next, Ledger!AddSlot
    <2> QED
      BY <2>1, <2>2
  <1> QED
    BY <1>1, <1>2, Inductive, PTL DEF Spec, IsLedger, Ledger!Spec
=============================================================================
