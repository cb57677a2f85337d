--------------------------- MODULE TimedListing ---------------------------
(***************************************************************************)
(* SlotListing with a clock: every entry is stored with a time to live,    *)
(* which both calls of SetSlots in handleListSlots (internal/app/http.go)  *)
(* give as 30 seconds and Redis counts from the SET.  A list may take any  *)
(* time, and so may a SET that is under way when its list has ended.       *)
(***************************************************************************)
EXTENDS SlotListing

CONSTANTS
  TTL,        \* 30 * time.Second
  Horizon     \* bound: the clock stops here

ASSUME TimedAssumption == TTL \in Nat \ {0} /\ Horizon \in Nat

VARIABLES
  now,        \* the clock
  missed,     \* when each list that may yet store its answer missed the cache
  expiry,     \* when the entry of a key runs out
  took,       \* history: from the miss of the list that stored it to the SET
  changed     \* history: when what a room's lists should say last changed

timing == <<now, missed, expiry, took, changed>>

TimedTypeOK ==
  /\ TypeOK
  /\ now \in Nat
  /\ missed \in [Requests -> Nat]
  /\ expiry \in [Key -> Nat] /\ took \in [Key -> Nat]
  /\ changed \in [Rooms -> Nat]

TimedInit ==
  /\ Init
  /\ now = 0
  /\ missed = [r \in Requests |-> 0]
  /\ expiry = [k \in Key |-> 0] /\ took = [k \in Key |-> 0]
  /\ changed = [room \in Rooms |-> 0]

-----------------------------------------------------------------------------
(* Variant: the empty list of a room without a schedule is stored with a    *)
(* TTL of 0, which for Redis is none.                                       *)
ForeverIfEmpty(slots) == IF slots = {} THEN Horizon + 1 ELSE TTL
Lifetime(slots) == TTL

(* The tables changed what a list of the room should say, or a list of it   *)
(* was spoiled, be it by an upsert of its own.                              *)
Disturbed(room) ==
  \/ \E day \in Days : Fresh(room, day)' # Fresh(room, day)
  \/ \E r \in spoiled' \ spoiled : req[r].room = room

(* What is kept of the entries: nothing of those that are gone. *)
Remaining(f) == [k \in Key |-> IF cache'[k] = None THEN 0 ELSE f[k]]

(* Where a list may yet store an answer. *)
Filling == {"readSchedule", "upsert", "listFree", "cacheSet", "unstored"}
Missed ==
  missed' = [r \in Requests |-> IF pc'[r] \notin Filling THEN 0
                                ELSE IF pc[r] = "cacheGet" THEN now ELSE missed[r]]

TimedOther ==
  /\ OtherStep
  /\ Missed
  /\ changed' = [room \in Rooms |-> IF Disturbed(room) THEN now ELSE changed[room]]
  /\ expiry' = Remaining(expiry) /\ took' = Remaining(took)
  /\ UNCHANGED now

TimedSet(r) ==
  /\ CacheSet(r) \/ LateSet(r)
  /\ Missed
  /\ expiry' = [expiry EXCEPT ![KeyOf(r)] = now + Lifetime(seen[r])]
  /\ took' = [took EXCEPT ![KeyOf(r)] = now - missed[r]]
  /\ UNCHANGED <<now, changed>>

TimedExpire(k) ==
  /\ expiry[k] <= now
  /\ Expire(k)
  /\ expiry' = Remaining(expiry) /\ took' = Remaining(took)
  /\ UNCHANGED <<now, missed, changed>>

(* Redis answers with no entry whose time has run out. *)
Tick ==
  /\ now < Horizon
  /\ \A k \in Key : cache[k] # None => now < expiry[k]
  /\ now' = now + 1
  /\ UNCHANGED <<vars, missed, expiry, took, changed>>

TimedNext ==
  \/ TimedOther
  \/ \E r \in Requests : TimedSet(r)
  \/ \E k \in Key : TimedExpire(k)
  \/ Tick

TimedSpec == TimedInit /\ [][TimedNext]_<<vars, timing>>

-----------------------------------------------------------------------------
(* Properties. *)

(* Whatever was lost (an invalidation that failed, was never sent or was    *)
(* made under another spelling, a reply, a process, the cache at start-up,  *)
(* an upsert), and however late a SET takes effect: a cached answer is      *)
(* wrong for no longer than its 30 seconds and the time from its list's     *)
(* miss to its SET, counted from the change that made it wrong.             *)
StaleIsBrief ==
  \A k \in Key : Stale(k) => now <= changed[k.room] + took[k] + TTL
=============================================================================
