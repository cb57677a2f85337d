------------------------------ MODULE SlotGrid ------------------------------
(***************************************************************************)
(* From a schedule to slots: ValidateSchedule and GenerateSlotsForDate     *)
(* (internal/app/slots.go), loop by loop, over the one date of             *)
(* handleListSlots or the seven of handleCreateSchedule                    *)
(* (internal/app/http.go).                                                 *)
(*                                                                         *)
(* A date is the number of days since 1970-01-01, a time the minute of the *)
(* day in UTC.  A behaviour is one call: a schedule is accepted or refused,*)
(* and if it is accepted its slots are collected, one iteration at a time. *)
(***************************************************************************)
EXTENDS Integers, Sequences

CONSTANTS
  DayLists,   \* what the field daysOfWeek of a request may hold
  Minutes,    \* minutes of the day that startTime and endTime may name
  Blank,      \* the empty string in their place
  Unparsable, \* a string that is no time
  Dates       \* the dates a call may be for

RawTimes  == Minutes \cup {Blank, Unparsable}
Schedules == [days : DayLists, start : RawTimes, end : RawTimes]

ASSUME GridAssumption ==
  /\ DayLists \subseteq Seq(Int)
  /\ Minutes \subseteq 0 .. 1439
  /\ Blank \notin Minutes /\ Unparsable \notin Minutes /\ Blank # Unparsable
  /\ Dates \subseteq Nat

VARIABLES
  sched,      \* the schedule
  first,      \* the first date
  span,       \* how many dates
  pc,
  j, listed,  \* ValidateSchedule: its place in daysOfWeek, the days seen
  i,          \* the date at hand, counted from the first
  cur,        \* GenerateSlotsForDate: where the next slot starts
  slots       \* the slots collected

vars == <<sched, first, span, pc, j, listed, i, cur, slots>>

slotDuration == 30

Slot == [date : Nat, start : Int, end : Int]

Steps == {"fields", "days", "date", "slots", "invalid", "done"}

TypeOK ==
  /\ sched \in Schedules
  /\ first \in Dates
  /\ span \in {1, 7}
  /\ pc \in Steps
  /\ j \in 1 .. Len(sched.days) + 1
  /\ listed \subseteq 1 .. 7
  /\ i \in 0 .. span
  /\ cur \in Int
  /\ slots \subseteq Slot

Init ==
  /\ sched \in Schedules
  /\ first \in Dates
  /\ span \in {1, 7}
  /\ pc = "fields"
  /\ j = 1 /\ listed = {}
  /\ i = 0 /\ cur = 0 /\ slots = {}

-----------------------------------------------------------------------------
(* ValidateSchedule *)

(* RoomID, which must not be empty either, is the handler's, from the path; *)
(* no property is about it and it is left out.                              *)
CheckFields ==
  /\ pc = "fields"
  /\ pc' = IF sched.days = << >> \/ Blank \in {sched.start, sched.end}
             THEN "invalid" ELSE "days"
  /\ UNCHANGED <<sched, first, span, j, listed, i, cur, slots>>

(* Variants: a day may be listed twice; days count from Sunday = 0. *)
InWeek(d) == d \in 1 .. 7
NewDayFromZero(d) == d \in 0 .. 7 /\ d \notin listed

NewDay(d) == d \in 1 .. 7 /\ d \notin listed

CheckDay ==
  /\ pc = "days"
  /\ j <= Len(sched.days)
  /\ \/ /\ NewDay(sched.days[j])
        /\ j' = j + 1
        /\ listed' = listed \cup {sched.days[j]}
        /\ UNCHANGED pc
     \/ /\ ~ NewDay(sched.days[j])
        /\ pc' = "invalid"
        /\ UNCHANGED <<j, listed>>
  /\ UNCHANGED <<sched, first, span, i, cur, slots>>

WholeSlots(start, end) == start < end /\ (end - start) % slotDuration = 0

CheckTimes ==
  /\ pc = "days"
  /\ j > Len(sched.days)
  /\ pc' = IF sched.start # Unparsable /\ sched.end # Unparsable
                /\ WholeSlots(sched.start, sched.end)
             THEN "date" ELSE "invalid"
  /\ UNCHANGED <<sched, first, span, j, listed, i, cur, slots>>

-----------------------------------------------------------------------------
(* GenerateSlotsForDate, for each date *)

(* 1970-01-01 was a Thursday. *)
Weekday(date) == (date + 4) % 7

(* Variant: Sunday stays 0. *)
GoWeekday(date) == Weekday(date)

(* time.Weekday counts from Sunday = 0, a schedule to Sunday = 7. *)
DayOfWeek(date) == IF Weekday(date) = 0 THEN 7 ELSE Weekday(date)

InDays(d) == \E n \in 1 .. Len(sched.days) : sched.days[n] = d

StartDate ==
  /\ pc = "date"
  /\ i < span
  /\ \/ /\ InDays(DayOfWeek(first + i))
        /\ pc' = "slots" /\ cur' = sched.start
        /\ UNCHANGED i
     \/ /\ ~ InDays(DayOfWeek(first + i))
        /\ i' = i + 1
        /\ UNCHANGED <<pc, cur>>
  /\ UNCHANGED <<sched, first, span, j, listed, slots>>

(* Variant: a slot may begin every quarter of an hour. *)
QuarterStride == 15

Stride == slotDuration

AddSlot ==
  /\ pc = "slots"
  /\ cur < sched.end
  /\ cur + slotDuration <= sched.end
  /\ slots' = slots \cup
       {[date |-> first + i, start |-> cur, end |-> cur + slotDuration]}
  /\ cur' = cur + Stride
  /\ UNCHANGED <<sched, first, span, pc, j, listed, i>>

(* Variants: the loop stops before the last slot, or waits to be beyond it. *)
BeforeLast == cur + slotDuration >= sched.end
BeyondLast == cur > sched.end

(* The loop ends at the end of the day, or breaks before a slot beyond it.  *)
PastLast == cur >= sched.end \/ cur + slotDuration > sched.end

EndDate ==
  /\ pc = "slots"
  /\ PastLast
  /\ pc' = "date" /\ i' = i + 1
  /\ UNCHANGED <<sched, first, span, j, listed, cur, slots>>

Finish ==
  /\ pc = "date"
  /\ i = span
  /\ pc' = "done"
  /\ UNCHANGED <<sched, first, span, j, listed, i, cur, slots>>

Next ==
  \/ CheckFields \/ CheckDay \/ CheckTimes
  \/ StartDate \/ AddSlot \/ EndDate \/ Finish

Spec == Init /\ [][Next]_vars

(* It is one sequential computation. *)
FairSpec == Spec /\ WF_vars(Next)

-----------------------------------------------------------------------------
(* Properties. *)

(* What a schedule must be: some days, all of them between 1 and 7 (as      *)
(* api.yaml says too), none of them twice, and a time that whole slots fill *)
(* (slots.go, and the schedules that slots_test.go has refused).            *)
ValidDays(days) ==
  /\ days # << >>
  /\ \A n \in 1 .. Len(days) : days[n] \in 1 .. 7
  /\ \A m, n \in 1 .. Len(days) : days[m] = days[n] => m = n

ValidTimes(start, end) ==
  /\ start \in Minutes /\ end \in Minutes
  /\ \E n \in 1 .. 48 : end = start + n * slotDuration

Valid(s) == ValidDays(s.days) /\ ValidTimes(s.start, s.end)

(* ValidateSchedule, which looks at the days one at a time and returns at   *)
(* the first error, accepts the valid schedules and refuses the others.     *)
VerdictIsRight ==
  /\ pc \in {"date", "slots", "done"} => Valid(sched)
  /\ pc = "invalid" => ~ Valid(sched)

(* The ISO number of a date's weekday. *)
IsoDay(date) == ((date + 3) % 7) + 1

(* The slots of a valid schedule over the dates of a call. *)
Grid ==
  {[date |-> d, start |-> m, end |-> m + slotDuration] :
     d \in {e \in first .. first + span - 1 : InDays(IsoDay(e))},
     m \in {n \in sched.start .. sched.end - slotDuration :
             (n - sched.start) % slotDuration = 0}}

(* The loops over dates and times collect the slots of the grid, all of     *)
(* them and nothing else; a refused schedule has none.                      *)
CollectsTheGrid ==
  /\ pc = "done" => slots = Grid
  /\ pc = "invalid" => slots = {}

(* Slots last as long as each other and never overlap, nor leave the date   *)
(* ListAvailableSlots looks for them under: bookings of different slots of  *)
(* a room never collide, though the database only compares slot ids.        *)
SlotsAreApart ==
  \A s, t \in slots :
    /\ 0 <= s.start /\ s.end <= 1439 /\ s.end - s.start = slotDuration
    /\ s.date = t.date => s = t \/ s.end <= t.start \/ t.end <= s.start

(* A week from any date on has every day of the schedule on exactly one of  *)
(* its dates, Sundays included.                                             *)
EveryDayOnce ==
  pc = "done" /\ span = 7 =>
    \A n \in 1 .. Len(sched.days) :
      /\ \E s \in slots : IsoDay(s.date) = sched.days[n]
      /\ \A s, t \in slots :
           IsoDay(s.date) = sched.days[n] /\ IsoDay(t.date) = sched.days[n]
             => s.date = t.date

(* The two loops end. *)
Terminates == <>(pc \in {"invalid", "done"})

-----------------------------------------------------------------------------
(* The inductive invariant. *)

Accepted == pc \in {"date", "slots", "done"}

(* The days looked at are listed, distinct and in range. *)
DaysListed ==
  /\ pc = "fields" => j = 1
  /\ pc \in {"fields", "days"} => i = 0
  /\ pc \notin {"fields", "invalid"} =>
       sched.days # << >> /\ sched.start # Blank /\ sched.end # Blank
  /\ Accepted => j = Len(sched.days) + 1
  /\ \A n \in 1 .. j - 1 : sched.days[n] \in listed
  /\ \A d \in listed : \E n \in 1 .. j - 1 : sched.days[n] = d
  /\ \A m, n \in 1 .. j - 1 : sched.days[m] = sched.days[n] => m = n

OnGrid(t) == sched.start <= t /\ (t - sched.start) % slotDuration = 0

(* The break of the loop never fires: a slot that starts early enough ends  *)
(* in time, because the day is made of whole slots.                         *)
InStep ==
  /\ Accepted => /\ sched.start \in Minutes /\ sched.end \in Minutes
                 /\ sched.start < sched.end /\ OnGrid(sched.end)
  /\ pc = "slots" => /\ i < span
                     /\ InDays(IsoDay(first + i))
                     /\ OnGrid(cur) /\ cur <= sched.end
  /\ pc = "done" => i = span

(* Slots of the dates that are done, and of this one as far as it has got.  *)
Reached(s) ==
  \/ s.date < first + i
  \/ pc = "slots" /\ s.date = first + i /\ s.start < cur

Collected ==
  /\ ~ Accepted => slots = {}
  /\ Accepted => slots = {s \in Grid : Reached(s)}

IInv == TypeOK /\ DaysListed /\ VerdictIsRight /\ InStep /\ Collected
=============================================================================
