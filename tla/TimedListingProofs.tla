------------------------- MODULE TimedListingProofs -------------------------
(***************************************************************************)
(* TimedListing, for every set of requests and keys, whatever fails, every *)
(* time to live and wherever the clock stops: for how long a cached answer *)
(* may be wrong.                                                           *)
(***************************************************************************)
EXTENDS TimedListing, SlotListingProofs

(* Before a list has missed the cache. *)
Early == {"idle", "exists", "cacheGet"}

(* What a list has read is wrong since it missed the cache at the earliest. *)
SpoiledSinceTheMiss ==
  \A r \in Requests :
    /\ pc[r] \in Early => r \notin spoiled
    /\ pc[r] \in Filling /\ r \in spoiled /\ req[r] \in ListRequest =>
         missed[r] <= changed[req[r].room]

(* Nothing is known before it happens, and no entry outlives its time. *)
ClocksAgree ==
  /\ \A r \in Requests : missed[r] <= now
  /\ \A room \in Rooms : changed[room] <= now
  /\ \A k \in Key : cache[k] # None => now <= expiry[k] /\ expiry[k] <= now + TTL

StaleSinceTheChange ==
  \A k \in Key : Stale(k) => expiry[k] <= changed[k.room] + took[k] + TTL

TimedIInv ==
  /\ IInv /\ TimedTypeOK /\ ClocksAgree /\ SpoiledSinceTheMiss /\ StaleSinceTheChange

-----------------------------------------------------------------------------
(* Initially nothing is stored and no time has passed. *)
LEMMA InitTimedIInv == TimedInit => TimedIInv
  <1> SUFFICES ASSUME TimedInit PROVE TimedIInv
    OBVIOUS
  <1>1. IInv
    BY InitIInv DEF TimedInit
  <1>2. TimedTypeOK
    BY <1>1 DEF TimedInit, TimedTypeOK, IInv
  <1>3. ClocksAgree /\ SpoiledSinceTheMiss /\ StaleSinceTheChange
    BY DEF TimedInit, Init, ClocksAgree, SpoiledSinceTheMiss, StaleSinceTheChange, Stale,
           Filling
  <1> QED
    BY <1>1, <1>2, <1>3 DEF TimedIInv

(* A step of TimedListing is one of SlotListing, or none. *)
LEMMA TimedStepIsStep ==
  ASSUME [TimedNext]_<<vars, timing>>
  PROVE  [Next]_vars
  BY DEF TimedNext, TimedOther, TimedSet, TimedExpire, Tick, Next

(* Nobody else stores an entry; a list comes to read after a miss; and what *)
(* it holds is spoiled while it holds it.                                   *)
LEMMA WhatOthersDo ==
  ASSUME IInv, OtherStep
  PROVE  /\ \A k \in Key : cache'[k] \in {cache[k], None}
         /\ \A r \in Requests : pc'[r] \in Early => pc[r] \in Early
         /\ \A r \in Requests : pc'[r] \in Filling /\ req'[r] \in ListRequest =>
              req'[r] = req[r] /\ (pc[r] \in Filling \/ pc[r] = "cacheGet")
         /\ \A r \in spoiled' \ spoiled : pc[r] \in {"upsert", "cacheSet", "unstored"}
  <1> USE RequestKinds
      DEF IInv, TypeOK, StepsAgree, Early, Filling, tables, locals, history, Goto, Answer,
          Overtake, Upsert, Running, ListSteps, CreateSteps, BookSteps, CancelSteps
  <1> DEFINE P ==
        /\ \A k \in Key : cache'[k] \in {cache[k], None}
        /\ \A r \in Requests : pc'[r] \in Early => pc[r] \in Early
        /\ \A r \in Requests : pc'[r] \in Filling /\ req'[r] \in ListRequest =>
             req'[r] = req[r] /\ (pc[r] \in Filling \/ pc[r] = "cacheGet")
        /\ \A r \in spoiled' \ spoiled : pc[r] \in {"upsert", "cacheSet", "unstored"}
  <1>1. ASSUME NEW q \in Requests, Arrive(q) PROVE P
    <2>1. PICK q0 \in Request :
            req' = [req EXCEPT ![q] = q0] /\ Goto(q, FirstStep[q0.op])
      BY <1>1 DEF Arrive
    <2> QED
      BY <1>1, <2>1, Beginnings DEF Arrive
  <1>2. ASSUME NEW q \in Requests, UpsertSlot(q) PROVE P
    BY <1>2 DEF UpsertSlot
  <1>3. ASSUME NEW q \in Requests, Exists(q) PROVE P
    BY <1>3 DEF Exists
  <1>4. ASSUME NEW q \in Requests, CacheHit(q) PROVE P
    BY <1>4 DEF CacheHit
  <1>5. ASSUME NEW q \in Requests, CacheMiss(q) PROVE P
    BY <1>5 DEF CacheMiss
  <1>6. ASSUME NEW q \in Requests, ReadSchedule(q) PROVE P
    BY <1>6 DEF ReadSchedule
  <1>7. ASSUME NEW q \in Requests, ListFree(q) PROVE P
    BY <1>7 DEF ListFree
  <1>8. ASSUME NEW q \in Requests, CacheNotSet(q) PROVE P
    BY <1>8 DEF CacheNotSet, AnswerUnstored
  <1>9. ASSUME NEW q \in Requests, CreateSchedule(q) PROVE P
    BY <1>9 DEF CreateSchedule, InsertSchedule, WritesNothing
  <1>10. ASSUME NEW q \in Requests, GetSlot(q) PROVE P
    BY <1>10 DEF GetSlot
  <1>11. ASSUME NEW q \in Requests, Book(q) PROVE P
    BY <1>11 DEF Book, InsertBooking, WritesNothing
  <1>12. ASSUME NEW q \in Requests, Lookup(q) PROVE P
    BY <1>12 DEF Lookup
  <1>13. ASSUME NEW q \in Requests, Cancel(q) PROVE P
    BY <1>13 DEF Cancel, UpdateBooking, WritesNothing
  <1>14. ASSUME NEW q \in Requests, Reply(q) PROVE P
    BY <1>14 DEF Reply
  <1>15. ASSUME NEW q \in Requests, Invalidate(q) PROVE P
    BY <1>15 DEF Invalidate
  <1>16. ASSUME NEW q \in Requests, Delete(q) PROVE P
    BY <1>16 DEF Delete, Drop
  <1>17. ASSUME NEW q \in Requests, Invalidated(q) PROVE P
    BY <1>17 DEF Invalidated
  <1>18. ASSUME NEW q \in Requests, InvalidateNothing(q) PROVE P
    BY <1>18 DEF InvalidateNothing
  <1>19. ASSUME NEW q \in Requests, UpsertFails(q) PROVE P
    BY <1>19 DEF UpsertFails
  <1>20. ASSUME NEW q \in Requests, ReplyLost(q) PROVE P
    BY <1>20 DEF ReplyLost
  <1>21. ASSUME NEW q \in Requests, NotInvalidated(q) PROVE P
    BY <1>21 DEF NotInvalidated
  <1>22. ASSUME NEW q \in Requests, StatementFails(q) PROVE P
    BY <1>22 DEF StatementFails
  <1>23. ASSUME NEW q \in Requests, LeftAdrift(q) PROVE P
    BY <1>23 DEF LeftAdrift
  <1>24. ASSUME NEW q \in Requests, TakesEffect(q) PROVE P
    BY <1>24 DEF TakesEffect, InsertSchedule, InsertBooking, UpdateBooking
  <1>25. ASSUME NEW room \in Rooms, CreateRoom(room) PROVE P
    BY <1>25 DEF CreateRoom
  <1>26. CASE Crash
    BY <1>26 DEF Crash, CutOff
  <1> QED
    BY <1>1, <1>2, <1>3, <1>4, <1>5, <1>6, <1>7, <1>8, <1>9, <1>10, <1>11, <1>12,
       <1>13, <1>14, <1>15, <1>16, <1>17, <1>18, <1>19, <1>20, <1>21, <1>22, <1>23,
       <1>24, <1>25, <1>26
    DEF OtherStep, ListStep, WriteStep, Fault

(* A statement of a request: what becomes wrong becomes so now. *)
LEMMA OtherKeeps ==
  ASSUME TimedIInv, IInv', TimedOther
  PROVE  TimedIInv'
  <1> USE TimedAssumption DEF TimedIInv, TimedTypeOK
  <1>1. /\ OtherStep /\ now' = now
        /\ missed' = [r \in Requests |-> IF pc'[r] \notin Filling THEN 0
                                         ELSE IF pc[r] = "cacheGet" THEN now ELSE missed[r]]
        /\ changed' = [room \in Rooms |-> IF Disturbed(room) THEN now ELSE changed[room]]
        /\ expiry' = [k \in Key |-> IF cache'[k] = None THEN 0 ELSE expiry[k]]
        /\ took' = [k \in Key |-> IF cache'[k] = None THEN 0 ELSE took[k]]
    BY DEF TimedOther, Missed, Remaining
  <1>2. /\ \A k \in Key : cache'[k] \in {cache[k], None}
        /\ \A r \in Requests : pc'[r] \in Early => pc[r] \in Early
        /\ \A r \in Requests : pc'[r] \in Filling /\ req'[r] \in ListRequest =>
             req'[r] = req[r] /\ (pc[r] \in Filling \/ pc[r] = "cacheGet")
        /\ \A r \in spoiled' \ spoiled : pc[r] \in {"upsert", "cacheSet", "unstored"}
    BY <1>1, WhatOthersDo
  <1>3. TimedTypeOK'
    BY <1>1 DEF IInv
  <1>4. ClocksAgree'
    <2>1. \A r \in Requests : missed'[r] <= now'
      BY <1>1 DEF ClocksAgree
    <2>2. \A room \in Rooms : changed'[room] <= now'
      BY <1>1 DEF ClocksAgree
    <2>3. \A k \in Key : cache'[k] # None => now' <= expiry'[k] /\ expiry'[k] <= now' + TTL
      BY <1>1, <1>2 DEF ClocksAgree
    <2> QED
      BY <2>1, <2>2, <2>3 DEF ClocksAgree
  <1>5. \A room \in Rooms : changed[room] <= changed'[room]
    BY <1>1 DEF ClocksAgree
  <1>6. SpoiledSinceTheMiss'
    <2>1. ASSUME NEW r \in Requests, pc'[r] \in Early
          PROVE  r \notin spoiled'
      BY <1>2, <2>1 DEF SpoiledSinceTheMiss, Early
    <2>2. ASSUME NEW r \in Requests, pc'[r] \in Filling, r \in spoiled', req'[r] \in ListRequest
          PROVE  missed'[r] <= changed'[req'[r].room]
      <3>1. /\ req'[r] = req[r] /\ req[r].room \in Rooms
            /\ pc[r] \in Filling \/ pc[r] = "cacheGet"
        BY <1>2, <2>2, RequestKinds
      <3>2. CASE r \in spoiled
        <4>1. pc[r] \in Filling /\ pc[r] # "cacheGet"
          BY <3>1, <3>2 DEF SpoiledSinceTheMiss, Early
        <4>2. missed'[r] = missed[r]
          BY <1>1, <2>2, <4>1
        <4>3. missed[r] <= changed[req[r].room]
          BY <2>2, <3>1, <3>2, <4>1 DEF SpoiledSinceTheMiss
        <4> QED
          BY <1>1, <1>5, <3>1, <4>2, <4>3
      <3>3. CASE r \notin spoiled
        <4>1. Disturbed(req[r].room)
          BY <2>2, <3>3 DEF Disturbed
        <4>2. changed'[req'[r].room] = now
          BY <1>1, <3>1, <4>1
        <4> QED
          BY <1>1, <1>4, <4>2 DEF ClocksAgree
      <3> QED
        BY <3>2, <3>3
    <2> QED
      BY <2>1, <2>2 DEF SpoiledSinceTheMiss
  <1>7. ASSUME NEW k \in Key, Stale(k)'
        PROVE  expiry'[k] <= changed'[k.room] + took'[k] + TTL
    <2>1. /\ k.room \in Rooms /\ k.day \in Days
          /\ cache'[k] # None /\ cache'[k] = cache[k]
          /\ expiry'[k] = expiry[k] /\ took'[k] = took[k]
      BY <1>1, <1>2, <1>7 DEF Stale, Key
    <2>2. CASE Fresh(k.room, k.day)' = Fresh(k.room, k.day)
      <3>1. Stale(k)
        BY <1>7, <2>1, <2>2 DEF Stale
      <3>2. expiry[k] <= changed[k.room] + took[k] + TTL
        BY <3>1 DEF StaleSinceTheChange
      <3> QED
        BY <1>1, <1>5, <2>1, <3>2
    <2>3. CASE Fresh(k.room, k.day)' # Fresh(k.room, k.day)
      <3>1. changed'[k.room] = now
        BY <1>1, <2>1, <2>3 DEF Disturbed
      <3>2. expiry[k] <= now + TTL
        BY <2>1 DEF ClocksAgree
      <3> QED
        BY <2>1, <3>1, <3>2
    <2> QED
      BY <2>2, <2>3
  <1> QED
    BY <1>3, <1>4, <1>6, <1>7 DEF StaleSinceTheChange

(* A SET: what it stores has been wrong since the miss at the earliest. *)
LEMMA SetKeeps ==
  ASSUME TimedIInv, IInv', NEW q \in Requests, TimedSet(q)
  PROVE  TimedIInv'
  <1> USE TimedAssumption DEF TimedIInv, TimedTypeOK
  <1>1. /\ cache' = [cache EXCEPT ![KeyOf(q)] = seen[q]]
        /\ pc[q] \in {"cacheSet", "unstored"} /\ pc'[q] \in {"done", "unstored", "dead"}
        /\ \A r \in Requests \ {q} : pc'[r] = pc[r]
        /\ UNCHANGED <<tables, req, spoiled, now, changed>>
        /\ missed' = [r \in Requests |-> IF pc'[r] \notin Filling THEN 0
                                         ELSE IF pc[r] = "cacheGet" THEN now ELSE missed[r]]
        /\ expiry' = [expiry EXCEPT ![KeyOf(q)] = now + TTL]
        /\ took' = [took EXCEPT ![KeyOf(q)] = now - missed[q]]
    BY DEF IInv, TypeOK, TimedSet, CacheSet, LateSet, Store, Answer, AnswerUnstored, Goto,
           Missed, Lifetime, locals
  <1>2. req[q] \in ListRequest /\ KeyOf(q) \in Key /\ KeyOf(q).room = req[q].room
        /\ KeyOf(q).day = req[q].day
    BY <1>1, RequestKinds DEF IInv, StepsAgree, ListSteps, KeyOf, Key
  <1>3. missed[q] <= now /\ now - missed[q] \in Nat
    BY DEF ClocksAgree
  <1>4. \A room \in Rooms, day \in Days : Fresh(room, day)' = Fresh(room, day)
    BY <1>1 DEF Fresh, Generated, Taken, tables
  <1>5. TimedTypeOK'
    <2>1. missed' \in [Requests -> Nat]
      BY <1>1
    <2>2. now + TTL \in Nat
      OBVIOUS
    <2>3. expiry' \in [Key -> Nat]
      BY <1>1, <2>2
    <2>4. took' \in [Key -> Nat]
      BY <1>1, <1>3
    <2> QED
      BY <1>1, <2>1, <2>3, <2>4 DEF IInv
  <1>6. ClocksAgree'
    <2>1. \A r \in Requests : missed'[r] <= now'
      BY <1>1 DEF ClocksAgree
    <2>2. \A k \in Key : cache'[k] # None => now' <= expiry'[k] /\ expiry'[k] <= now' + TTL
      BY <1>1, <1>2 DEF ClocksAgree, IInv, TypeOK
    <2> QED
      BY <1>1, <2>1, <2>2 DEF ClocksAgree
  <1>7. SpoiledSinceTheMiss'
    <2>1. \A r \in Requests : pc'[r] \in Early => pc[r] \in Early
      BY <1>1 DEF Early
    <2>2. \A r \in Requests : pc'[r] \in Filling =>
            pc[r] \in Filling /\ missed'[r] = missed[r]
      BY <1>1 DEF Filling
    <2> QED
      BY <1>1, <2>1, <2>2 DEF SpoiledSinceTheMiss
  <1>8. ASSUME NEW k \in Key, Stale(k)'
        PROVE  expiry'[k] <= changed'[k.room] + took'[k] + TTL
    <2>1. /\ k.room \in Rooms /\ k.day \in Days
          /\ cache'[k] # None /\ cache'[k] # Fresh(k.room, k.day)
      BY <1>4, <1>8 DEF Stale, Key
    <2>2. CASE k = KeyOf(q)
      <3>1. cache'[k] = seen[q]
        BY <1>1, <2>2 DEF IInv, TypeOK
      <3>2. q \in spoiled
        BY <1>1, <1>2, <2>1, <2>2, <3>1 DEF IInv, ReadsAreFresh
      <3>3. missed[q] <= changed[k.room]
        BY <1>1, <1>2, <2>2, <3>2 DEF SpoiledSinceTheMiss, Filling
      <3>4. /\ expiry'[k] = now + TTL /\ took'[k] = now - missed[q]
            /\ changed'[k.room] = changed[k.room]
        BY <1>1, <2>2
      <3> QED
        BY <2>1, <3>3, <3>4
    <2>3. CASE k # KeyOf(q)
      <3>1. /\ cache'[k] = cache[k] /\ expiry'[k] = expiry[k] /\ took'[k] = took[k]
            /\ changed' = changed
        BY <1>1, <2>3 DEF IInv, TypeOK
      <3>2. Stale(k)
        BY <2>1, <3>1 DEF Stale
      <3> QED
        BY <3>1, <3>2 DEF StaleSinceTheChange
    <2> QED
      BY <2>2, <2>3
  <1> QED
    BY <1>5, <1>6, <1>7, <1>8 DEF StaleSinceTheChange

(* An entry goes. *)
LEMMA ExpireKeeps ==
  ASSUME TimedIInv, IInv', NEW k0 \in Key, TimedExpire(k0)
  PROVE  TimedIInv'
  <1> USE TimedAssumption DEF TimedIInv, TimedTypeOK
  <1>1. /\ cache' = [cache EXCEPT ![k0] = None]
        /\ UNCHANGED <<tables, req, pc, spoiled, now, missed, changed>>
        /\ expiry' = [k \in Key |-> IF cache'[k] = None THEN 0 ELSE expiry[k]]
        /\ took' = [k \in Key |-> IF cache'[k] = None THEN 0 ELSE took[k]]
    BY DEF TimedExpire, Expire, Drop, Remaining
  <1>2. \A room \in Rooms, day \in Days : Fresh(room, day)' = Fresh(room, day)
    BY <1>1 DEF Fresh, Generated, Taken, tables
  <1>3. \A k \in Key : cache'[k] # None =>
          cache'[k] = cache[k] /\ expiry'[k] = expiry[k] /\ took'[k] = took[k]
    BY <1>1 DEF IInv, TypeOK
  <1>4. TimedTypeOK'
    BY <1>1 DEF IInv
  <1>5. ClocksAgree' /\ SpoiledSinceTheMiss'
    BY <1>1, <1>3 DEF ClocksAgree, SpoiledSinceTheMiss
  <1>6. StaleSinceTheChange'
    <2>1. \A k \in Key : Stale(k)' => Stale(k)
      BY <1>2, <1>3 DEF Stale, Key
    <2> QED
      BY <1>1, <1>3, <2>1 DEF StaleSinceTheChange, Stale
  <1> QED
    BY <1>4, <1>5, <1>6

(* Time passes only while no entry's has run out. *)
LEMMA TickKeeps ==
  ASSUME TimedIInv, IInv', Tick
  PROVE  TimedIInv'
  <1> USE TimedAssumption DEF TimedIInv, TimedTypeOK
  <1>1. /\ \A k \in Key : cache[k] # None => now < expiry[k]
        /\ now' = now + 1
        /\ UNCHANGED <<tables, cache, req, pc, spoiled, missed, expiry, took, changed>>
    BY DEF Tick, vars, history
  <1>2. TimedTypeOK'
    BY <1>1 DEF IInv
  <1>3. ClocksAgree'
    BY <1>1 DEF ClocksAgree
  <1>4. SpoiledSinceTheMiss'
    BY <1>1 DEF SpoiledSinceTheMiss
  <1>5. StaleSinceTheChange'
    BY <1>1 DEF StaleSinceTheChange, Stale, Fresh, Generated, Taken, tables
  <1> QED
    BY <1>2, <1>3, <1>4, <1>5

(* Every step keeps TimedIInv. *)
LEMMA NextTimedIInv == TimedIInv /\ [TimedNext]_<<vars, timing>> => TimedIInv'
  <1> SUFFICES ASSUME TimedIInv, [TimedNext]_<<vars, timing>> PROVE TimedIInv'
    OBVIOUS
  <1>1. IInv'
    BY TimedStepIsStep, NextIInv DEF TimedIInv
  <1>2. CASE UNCHANGED <<vars, timing>>
    BY <1>1, <1>2
    DEF TimedIInv, TimedTypeOK, IInv, ClocksAgree, SpoiledSinceTheMiss, StaleSinceTheChange,
        Stale, Fresh, Generated, Taken, vars, timing, tables, locals, history
  <1> QED
    BY <1>1, <1>2, OtherKeeps, SetKeeps, ExpireKeeps, TickKeeps DEF TimedNext

-----------------------------------------------------------------------------
(* The invariant of the requests, the cache and the clock together. *)
THEOREM TimedInductive == TimedSpec => []TimedIInv
  BY InitTimedIInv, NextTimedIInv, PTL DEF TimedSpec

(* Every variable has its type, and what a list took is no negative time. *)
THEOREM TimedTypeCorrect == TimedSpec => []TimedTypeOK
  BY TimedInductive, PTL DEF TimedIInv

(* Whatever was lost and however late a SET takes effect, a cached answer   *)
(* is wrong for no longer than its time to live and the time its list took. *)
THEOREM NothingIsStaleForLong == TimedSpec => []StaleIsBrief
  <1>1. TimedIInv => StaleIsBrief
    <2> SUFFICES ASSUME TimedIInv, NEW k \in Key, Stale(k)
                 PROVE  now <= changed[k.room] + took[k] + TTL
      BY DEF StaleIsBrief
    <2>1. now <= expiry[k]
      BY DEF TimedIInv, ClocksAgree, Stale
    <2>2. expiry[k] <= changed[k.room] + took[k] + TTL
      BY DEF TimedIInv, StaleSinceTheChange
    <2>3. /\ now \in Nat /\ expiry[k] \in Nat /\ changed[k.room] \in Nat /\ took[k] \in Nat
          /\ TTL \in Nat
      BY TimedAssumption DEF TimedIInv, TimedTypeOK, Key
    <2> QED
      BY <2>1, <2>2, <2>3
  <1> QED
    BY <1>1, TimedInductive, PTL
=============================================================================
