--------------------------- MODULE SlotGridProofs ---------------------------
(***************************************************************************)
(* SlotGrid, for every schedule a request may hold and every date: the     *)
(* verdict of ValidateSchedule and the slots of GenerateSlotsForDate.      *)
(***************************************************************************)
EXTENDS SlotGrid, TLAPS

(* Go's weekday, with 7 for Sunday, is the ISO one. *)
LEMMA DayOfWeekIsIso ==
  ASSUME NEW d \in Nat
  PROVE  DayOfWeek(d) = IsoDay(d) /\ IsoDay(d) \in 1 .. 7
  BY SMT DEF DayOfWeek, Weekday, IsoDay

(* Two times of the grid are not less than one slot apart. *)
LEMMA NoneBetween ==
  ASSUME NEW a \in Int, NEW b \in Int, sched.start \in Int,
         OnGrid(a), OnGrid(b), a < b
  PROVE  a + slotDuration <= b
  BY SMT DEF OnGrid, slotDuration

LEMMA NextOnGrid ==
  ASSUME NEW a \in Int, NEW c \in Int, (a - c) % slotDuration = 0
  PROVE  (a + slotDuration - c) % slotDuration = 0
  BY SMT DEF slotDuration

(* What CheckTimes asks of two times is what ValidTimes asks. *)
LEMMA WholeIsValid ==
  ASSUME NEW a \in RawTimes, NEW b \in RawTimes, a # Blank, b # Blank
  PROVE  ValidTimes(a, b) <=> a # Unparsable /\ b # Unparsable /\ WholeSlots(a, b)
  <1>1. CASE a \in Minutes /\ b \in Minutes
    <2>1. a \in 0 .. 1439 /\ b \in 0 .. 1439 /\ a # Unparsable /\ b # Unparsable
      BY <1>1, GridAssumption
    <2>2. ASSUME WholeSlots(a, b) PROVE \E n \in 1 .. 48 : b = a + n * slotDuration
      <3> DEFINE n == (b - a) \div 30
      <3>1. b - a = n * 30 /\ n \in 1 .. 48
        BY <2>1, <2>2, SMT DEF WholeSlots, slotDuration
      <3>2. b = a + n * slotDuration
        BY <2>1, <3>1 DEF slotDuration
      <3> QED
        BY <3>1, <3>2
    <2>3. ASSUME NEW n \in 1 .. 48, b = a + n * slotDuration PROVE WholeSlots(a, b)
      BY <2>1, <2>3, SMT DEF WholeSlots, slotDuration
    <2> QED
      BY <1>1, <2>1, <2>2, <2>3 DEF ValidTimes
  <1>2. CASE ~ (a \in Minutes /\ b \in Minutes)
    BY <1>2 DEF ValidTimes, RawTimes
  <1> QED
    BY <1>1, <1>2

(* What the type invariant says once its sets are opened. *)
LEMMA Types ==
  ASSUME TypeOK
  PROVE  /\ sched.days \in Seq(Int) /\ Len(sched.days) \in Nat
         /\ \A n \in 1 .. Len(sched.days) : sched.days[n] \in Int
         /\ sched.start \in RawTimes /\ sched.end \in RawTimes
         /\ first \in Nat /\ span \in Nat /\ i \in 0 .. span
         /\ j \in 1 .. Len(sched.days) + 1
         /\ cur \in Int
  BY GridAssumption DEF TypeOK, Schedules

LEMMA MinutesAreInts ==
  ASSUME NEW m \in Minutes
  PROVE  m \in Int /\ 0 <= m /\ m <= 1439
  BY GridAssumption

(* What a slot of Grid is, field by field. *)
InGrid(s) ==
  /\ s \in [date : Int, start : Int, end : Int]
  /\ first <= s.date /\ s.date < first + span
  /\ InDays(IsoDay(s.date))
  /\ s.end = s.start + slotDuration
  /\ OnGrid(s.start) /\ s.end <= sched.end

LEMMA GridMembers ==
  ASSUME TypeOK, sched.start \in Int, sched.end \in Int, NEW s
  PROVE  s \in Grid <=> InGrid(s)
  <1>1. first \in Int /\ span \in Int
    BY GridAssumption DEF TypeOK
  <1>2. ASSUME s \in Grid PROVE InGrid(s)
    <2>1. PICK d \in {e \in first .. first + span - 1 : InDays(IsoDay(e))},
               m \in {n \in sched.start .. sched.end - slotDuration :
                        (n - sched.start) % slotDuration = 0} :
            s = [date |-> d, start |-> m, end |-> m + slotDuration]
      BY <1>2 DEF Grid
    <2> QED
      BY <1>1, <2>1 DEF InGrid, OnGrid, slotDuration
  <1>3. ASSUME InGrid(s) PROVE s \in Grid
    <2>1. s = [date |-> s.date, start |-> s.start, end |-> s.start + slotDuration]
      BY <1>3 DEF InGrid
    <2>2. /\ s.date \in {e \in first .. first + span - 1 : InDays(IsoDay(e))}
          /\ s.start \in {n \in sched.start .. sched.end - slotDuration :
                             (n - sched.start) % slotDuration = 0}
      BY <1>1, <1>3 DEF InGrid, OnGrid, slotDuration
    <2> QED
      BY <2>1, <2>2 DEF Grid
  <1> QED
    BY <1>2, <1>3

LEMMA InitIInv == Init => IInv
  BY GridAssumption
  DEF Init, IInv, TypeOK, Steps, Schedules, DaysListed, VerdictIsRight, InStep, Collected,
      Accepted

LEMMA NextType ==
  ASSUME TypeOK, InStep, Collected, [Next]_vars
  PROVE  TypeOK'
  <1> USE DEF TypeOK, Steps
  <1>1. CASE CheckFields
    BY <1>1 DEF CheckFields
  <1>2. CASE CheckDay
    <2>1. UNCHANGED <<sched, first, span, i, cur, slots>> /\ pc' \in Steps
      BY <1>2 DEF CheckDay
    <2>2. j' \in 1 .. Len(sched.days) + 1
      BY <1>2, Types DEF CheckDay
    <2>3. listed' \subseteq 1 .. 7
      BY <1>2 DEF CheckDay, NewDay
    <2> QED
      BY <2>1, <2>2, <2>3
  <1>3. CASE CheckTimes
    BY <1>3 DEF CheckTimes
  <1>4. CASE StartDate
    <2>1. pc = "date" => sched.start \in Int
      BY MinutesAreInts DEF InStep, Accepted
    <2> QED
      BY <1>4, <2>1 DEF StartDate
  <1>5. CASE AddSlot
    <2>1. [date |-> first + i, start |-> cur, end |-> cur + slotDuration] \in Slot
      BY Types DEF Slot, slotDuration
    <2> QED
      BY <1>5, <2>1 DEF AddSlot, Stride, slotDuration
  <1>6. CASE EndDate
    BY <1>6 DEF EndDate, InStep
  <1>7. CASE Finish
    BY <1>7 DEF Finish
  <1>8. CASE UNCHANGED vars
    BY <1>8 DEF vars
  <1> QED
    BY <1>1, <1>2, <1>3, <1>4, <1>5, <1>6, <1>7, <1>8 DEF Next

LEMMA NextDaysListed ==
  ASSUME TypeOK, DaysListed, [Next]_vars
  PROVE  DaysListed'
  <1> USE DEF DaysListed, Accepted
  <1>1. CASE CheckFields
    BY <1>1 DEF CheckFields
  <1>2. CASE CheckDay
    <2> DEFINE d == sched.days[j]
    <2>0. pc = "days" /\ j \in Nat /\ UNCHANGED <<sched, i>>
      BY <1>2, Types DEF CheckDay
    <2>1. CASE NewDay(d)
      <3>1. j' = j + 1 /\ listed' = listed \cup {d} /\ UNCHANGED pc
        BY <1>2, <2>1 DEF CheckDay
      <3>2. 1 .. j' - 1 = (1 .. j - 1) \cup {j}
        BY <2>0, <3>1, Types
      <3>3. \A n \in 1 .. j - 1 : sched.days[n] # d
        BY <2>1 DEF NewDay
      <3> QED
        BY <2>0, <3>1, <3>2, <3>3
    <2>2. CASE ~ NewDay(d)
      <3>1. pc' = "invalid" /\ UNCHANGED <<j, listed>>
        BY <1>2, <2>2 DEF CheckDay
      <3> QED
        BY <2>0, <3>1
    <2> QED
      BY <2>1, <2>2
  <1>3. CASE CheckTimes
    BY <1>3, Types DEF CheckTimes
  <1>4. CASE StartDate \/ AddSlot \/ EndDate \/ Finish
    BY <1>4 DEF StartDate, AddSlot, EndDate, Finish
  <1>5. CASE UNCHANGED vars
    BY <1>5 DEF vars
  <1> QED
    BY <1>1, <1>2, <1>3, <1>4, <1>5 DEF Next

(* The days that were looked at, once all of them were. *)
LEMMA AllListed ==
  ASSUME TypeOK, DaysListed, pc = "days", j = Len(sched.days) + 1
  PROVE  ValidDays(sched.days)
  <1>1. \A n \in 1 .. Len(sched.days) : n \in 1 .. j - 1
    BY Types
  <1> QED
    BY <1>1 DEF ValidDays, DaysListed, TypeOK

LEMMA NextVerdict ==
  ASSUME TypeOK, DaysListed, VerdictIsRight, [Next]_vars
  PROVE  VerdictIsRight'
  <1> USE DEF VerdictIsRight
  <1>1. CASE CheckFields
    <2>1. sched.days = << >> => ~ ValidDays(sched.days)
      BY DEF ValidDays
    <2>2. sched.start = Blank \/ sched.end = Blank => ~ ValidTimes(sched.start, sched.end)
      BY GridAssumption DEF ValidTimes
    <2> QED
      BY <1>1, <2>1, <2>2 DEF CheckFields, Valid
  <1>2. CASE CheckDay
    <2> DEFINE d == sched.days[j]
    <2>0. pc = "days" /\ j \in 1 .. Len(sched.days) /\ UNCHANGED sched
      BY <1>2, Types DEF CheckDay
    <2>1. CASE NewDay(d)
      BY <1>2, <2>0, <2>1 DEF CheckDay
    <2>2. CASE d \notin 1 .. 7
      <3>1. ~ Valid(sched)
        BY <2>0, <2>2 DEF Valid, ValidDays
      <3> QED
        BY <1>2, <2>0, <2>2, <3>1 DEF CheckDay, NewDay
    <2>3. CASE d \in listed
      <3>1. PICK n \in 1 .. j - 1 : sched.days[n] = d
        BY <2>3 DEF DaysListed
      <3>2. n \in 1 .. Len(sched.days) /\ n # j
        BY <2>0, Types
      <3>3. ~ Valid(sched)
        BY <2>0, <3>1, <3>2 DEF Valid, ValidDays
      <3> QED
        BY <1>2, <2>0, <2>3, <3>3 DEF CheckDay, NewDay
    <2> QED
      BY <2>1, <2>2, <2>3 DEF NewDay
  <1>3. CASE CheckTimes
    <2>1. pc = "days" /\ j = Len(sched.days) + 1 /\ UNCHANGED sched
      BY <1>3, Types DEF CheckTimes
    <2>2. ValidDays(sched.days)
      BY <2>1, AllListed
    <2>3. sched.start # Blank /\ sched.end # Blank
      BY <2>1 DEF DaysListed
    <2>4. ValidTimes(sched.start, sched.end) <=>
            /\ sched.start # Unparsable /\ sched.end # Unparsable
            /\ WholeSlots(sched.start, sched.end)
      BY <2>3, Types, WholeIsValid
    <2> QED
      BY <1>3, <2>1, <2>2, <2>4 DEF CheckTimes, Valid
  <1>4. CASE StartDate \/ AddSlot \/ EndDate \/ Finish
    BY <1>4 DEF StartDate, AddSlot, EndDate, Finish
  <1>5. CASE UNCHANGED vars
    BY <1>5 DEF vars
  <1> QED
    BY <1>1, <1>2, <1>3, <1>4, <1>5 DEF Next

LEMMA NextInStep ==
  ASSUME TypeOK, DaysListed, InStep, [Next]_vars
  PROVE  InStep'
  <1> USE DEF InStep, Accepted
  <1>1. CASE CheckFields \/ CheckDay
    BY <1>1 DEF CheckFields, CheckDay
  <1>2. CASE CheckTimes
    <2>1. sched.start # Blank /\ sched.end # Blank /\ pc = "days"
      BY <1>2 DEF CheckTimes, DaysListed
    <2>2. CASE pc' = "date"
      <3>1. /\ sched.start \in Minutes /\ sched.end \in Minutes
            /\ WholeSlots(sched.start, sched.end)
        BY <1>2, <2>1, <2>2, Types DEF CheckTimes, RawTimes
      <3> QED
        BY <1>2, <2>2, <3>1, MinutesAreInts DEF CheckTimes, WholeSlots, OnGrid
    <2>3. CASE pc' = "invalid"
      BY <2>3
    <2> QED
      BY <1>2, <2>2, <2>3 DEF CheckTimes
  <1>3. CASE StartDate
    <2>1. pc = "date" /\ i < span /\ UNCHANGED <<sched, first, span>>
      BY <1>3 DEF StartDate
    <2>2. /\ sched.start \in Minutes /\ sched.end \in Minutes
          /\ sched.start < sched.end /\ OnGrid(sched.end)
      BY <2>1
    <2>3. OnGrid(sched.end)' /\ InDays(IsoDay(first + i)) = InDays(DayOfWeek(first + i))
      <3>1. first + i \in Nat
        BY Types
      <3> QED
        BY <2>1, <2>2, <3>1, DayOfWeekIsIso DEF OnGrid
    <2>4. CASE pc' = "slots"
      <3>1. cur' = sched.start /\ i' = i /\ InDays(DayOfWeek(first + i))
        BY <1>3, <2>1, <2>4 DEF StartDate
      <3>2. sched.start <= sched.start /\ (sched.start - sched.start) % slotDuration = 0
        BY <2>2, MinutesAreInts, SMT DEF slotDuration
      <3>3. OnGrid(cur)' /\ cur' <= sched'.end
        BY <2>1, <2>2, <3>1, <3>2, MinutesAreInts DEF OnGrid
      <3>4. InDays(IsoDay(first + i))'
        BY <2>1, <2>3, <3>1 DEF InDays
      <3> QED
        BY <2>1, <2>2, <2>3, <2>4, <3>1, <3>3, <3>4
    <2>5. CASE pc' = "date"
      BY <2>1, <2>2, <2>3, <2>5
    <2> QED
      BY <1>3, <2>1, <2>4, <2>5 DEF StartDate
  <1>4. CASE AddSlot
    <2>1. cur \in Int /\ sched.start \in Int /\ sched.end \in Int
      BY <1>4, Types, MinutesAreInts DEF AddSlot
    <2>2. (cur + slotDuration - sched.start) % slotDuration = 0
      BY <1>4, <2>1, NextOnGrid DEF AddSlot, OnGrid
    <2>3. cur' = cur + slotDuration /\ sched.start <= cur' /\ cur' <= sched.end
      BY <1>4, <2>1 DEF AddSlot, Stride, OnGrid, slotDuration
    <2>4. pc = "slots" /\ UNCHANGED <<sched, first, span, pc, i>>
      BY <1>4 DEF AddSlot
    <2>5. OnGrid(cur)'
      <3>1. (cur' - sched.start) % slotDuration = 0
        BY <2>1, <2>2, <2>3, SMT DEF slotDuration
      <3> QED
        BY <2>3, <2>4, <3>1 DEF OnGrid
    <2>6. InDays(IsoDay(first + i))'
      BY <2>4 DEF InDays
    <2>7. OnGrid(sched.end)'
      BY <2>4 DEF OnGrid
    <2> QED
      BY <2>3, <2>4, <2>5, <2>6, <2>7
  <1>5. CASE EndDate \/ Finish
    BY <1>5 DEF EndDate, Finish, OnGrid
  <1>6. CASE UNCHANGED vars
    BY <1>6 DEF vars, OnGrid, InDays
  <1> QED
    BY <1>1, <1>2, <1>3, <1>4, <1>5, <1>6 DEF Next

(* While a call is at its dates, its schedule, and so the grid, stands. *)
LEMMA GridStands ==
  ASSUME UNCHANGED <<sched, first, span>>
  PROVE  Grid' = Grid
  BY DEF Grid, InDays

LEMMA NextCollected ==
  ASSUME TypeOK, DaysListed, InStep, Collected, [Next]_vars
  PROVE  Collected'
  <1>1. CASE CheckFields \/ CheckDay
    BY <1>1 DEF CheckFields, CheckDay, Collected, Accepted
  <1>2. CASE CheckTimes
    <2>1. slots = {} /\ i = 0 /\ slots' = {} /\ i' = 0 /\ UNCHANGED <<sched, first, span>>
      BY <1>2 DEF CheckTimes, DaysListed, Collected, Accepted
    <2>2. CASE pc' = "date"
      <3>1. InStep'
        BY NextInStep
      <3>2. sched.start \in Int /\ sched.end \in Int
        BY <2>1, <2>2, <3>1, MinutesAreInts DEF InStep, Accepted
      <3>3. \A s \in Grid : ~ Reached(s)'
        BY <2>1, <2>2, <3>2, GridMembers, Types DEF InGrid, Reached
      <3> QED
        BY <2>1, <2>2, <3>3, GridStands DEF Collected, Accepted
    <2>3. CASE pc' = "invalid"
      BY <2>1, <2>3 DEF Collected, Accepted
    <2> QED
      BY <1>2, <2>2, <2>3 DEF CheckTimes
  <1>3. ASSUME pc \in {"date", "slots"}
        PROVE  /\ sched.start \in Int /\ sched.end \in Int /\ first + i \in Int
               /\ OnGrid(sched.end)
               /\ slots = {s \in Grid : Reached(s)}
               /\ \A s \in Grid : InGrid(s)
    <2>1. sched.start \in Int /\ sched.end \in Int
      BY <1>3, MinutesAreInts DEF InStep, Accepted
    <2> QED
      BY <1>3, <2>1, GridMembers, Types DEF InStep, Accepted, Collected
  <1>4. CASE StartDate
    <2>1. pc = "date" /\ UNCHANGED <<sched, first, span, slots>> /\ pc' \in {"date", "slots"}
      BY <1>4 DEF StartDate
    <2>2. ASSUME NEW s \in Grid PROVE Reached(s)' <=> Reached(s)
      <3>1. InGrid(s)
        BY <1>3, <2>1, <2>2
      <3>2. CASE InDays(DayOfWeek(first + i))
        BY <1>3, <1>4, <2>1, <3>1, <3>2 DEF StartDate, Reached, InGrid, OnGrid
      <3>3. CASE ~ InDays(DayOfWeek(first + i))
        <4>1. i' = i + 1 /\ pc' = "date"
          BY <1>4, <3>3 DEF StartDate
        <4>2. s.date # first + i
          BY <1>3, <2>1, <3>1, <3>3, DayOfWeekIsIso, Types DEF InGrid
        <4>3. s.date \in Int /\ first \in Int /\ i \in Int
          BY <3>1, Types DEF InGrid
        <4> QED
          BY <2>1, <4>1, <4>2, <4>3 DEF Reached
      <3> QED
        BY <3>2, <3>3
    <2> QED
      BY <1>3, <2>1, <2>2, GridStands DEF Collected, Accepted
  <1>5. CASE AddSlot
    <2> DEFINE new == [date |-> first + i, start |-> cur, end |-> cur + slotDuration]
    <2>1. /\ pc = "slots" /\ pc' = "slots" /\ UNCHANGED <<sched, first, span, i>>
          /\ slots' = slots \cup {new} /\ cur' = cur + slotDuration
          /\ cur + slotDuration <= sched.end
      BY <1>5 DEF AddSlot, Stride
    <2>2. cur \in Int /\ i < span /\ InDays(IsoDay(first + i)) /\ OnGrid(cur)
      BY <2>1, Types DEF InStep
    <2>3. new \in Grid
      <3>1. InGrid(new)
        BY <1>3, <2>1, <2>2, Types DEF InGrid, slotDuration
      <3> QED
        BY <1>3, <2>1, <3>1, GridMembers
    <2>4. ASSUME NEW s \in Grid PROVE Reached(s)' <=> Reached(s) \/ s = new
      <3>1. InGrid(s) /\ s.start \in Int /\ s.date \in Int
        BY <1>3, <2>1, <2>4 DEF InGrid
      <3>2. s.start < cur + slotDuration <=> s.start < cur \/ s.start = cur
        <4>1. cur < s.start => cur + slotDuration <= s.start
          BY <1>3, <2>1, <2>2, <3>1, NoneBetween DEF InGrid
        <4> QED
          BY <2>2, <3>1, <4>1 DEF slotDuration
      <3>3. s = new <=> s.date = first + i /\ s.start = cur
        BY <3>1 DEF InGrid
      <3> QED
        BY <2>1, <3>1, <3>2, <3>3 DEF Reached
    <2> QED
      BY <1>3, <2>1, <2>3, <2>4, GridStands DEF Collected, Accepted
  <1>6. CASE EndDate
    <2>1. /\ pc = "slots" /\ pc' = "date" /\ i' = i + 1
          /\ UNCHANGED <<sched, first, span, slots>>
          /\ cur >= sched.end \/ cur + slotDuration > sched.end
      BY <1>6 DEF EndDate, PastLast
    <2>2. cur \in Int /\ OnGrid(cur) /\ cur <= sched.end
      BY <2>1, Types DEF InStep
    <2>3. cur = sched.end
      <3>1. cur < sched.end => cur + slotDuration <= sched.end
        BY <1>3, <2>1, <2>2, NoneBetween
      <3> QED
        BY <1>3, <2>1, <2>2, <3>1 DEF slotDuration
    <2>4. ASSUME NEW s \in Grid PROVE Reached(s)' <=> Reached(s)
      <3>1. InGrid(s)
        BY <1>3, <2>1, <2>4
      <3>2. s.start \in Int /\ s.date \in Int /\ s.start < cur
        BY <1>3, <2>1, <2>3, <3>1 DEF InGrid, slotDuration
      <3>3. first \in Int /\ i \in Int
        BY Types
      <3> QED
        BY <2>1, <3>2, <3>3 DEF Reached
    <2> QED
      BY <1>3, <2>1, <2>4, GridStands DEF Collected, Accepted
  <1>7. CASE Finish
    <2>1. \A s \in Grid : Reached(s)' <=> Reached(s)
      BY <1>7 DEF Finish, Reached
    <2> QED
      BY <1>7, <2>1, GridStands DEF Finish, Collected, Accepted
  <1>8. CASE UNCHANGED vars
    <2>1. \A s \in Grid : Reached(s)' <=> Reached(s)
      BY <1>8 DEF vars, Reached
    <2> QED
      BY <1>8, <2>1, GridStands DEF vars, Collected, Accepted
  <1> QED
    BY <1>1, <1>2, <1>4, <1>5, <1>6, <1>7, <1>8 DEF Next

-----------------------------------------------------------------------------

(* The invariant holds of every call. *)
THEOREM Inductive == Spec => []IInv
  <1>1. IInv /\ [Next]_vars => IInv'
    BY NextType, NextDaysListed, NextVerdict, NextInStep, NextCollected DEF IInv
  <1> QED
    BY InitIInv, <1>1, PTL DEF Spec

(* Every variable keeps its type. *)
THEOREM TypeCorrect == Spec => []TypeOK
  <1>1. IInv => TypeOK
    BY DEF IInv
  <1> QED
    BY Inductive, <1>1, PTL

(* ValidateSchedule accepts exactly the valid schedules. *)
THEOREM VerdictCorrect == Spec => []VerdictIsRight
  <1>1. IInv => VerdictIsRight
    BY DEF IInv
  <1> QED
    BY Inductive, <1>1, PTL

(* At the end of its loops, a call has the grid: every slot was reached. *)
LEMMA AllReached == IInv => CollectsTheGrid
  <1> SUFFICES ASSUME IInv, pc = "done" PROVE \A s \in Grid : Reached(s)
    BY DEF IInv, CollectsTheGrid, Collected, Accepted
  <1>1. sched.start \in Int /\ sched.end \in Int /\ i = span
    BY MinutesAreInts DEF IInv, InStep, Accepted
  <1> QED
    BY <1>1, GridMembers DEF IInv, InGrid, Reached

THEOREM GridCollected == Spec => []CollectsTheGrid
  BY Inductive, AllReached, PTL

(* Slots that start a whole number of half hours apart do not overlap. *)
LEMMA GridIsApart == IInv => SlotsAreApart
  <1> SUFFICES ASSUME IInv, NEW s \in slots, NEW t \in slots
               PROVE  /\ 0 <= s.start /\ s.end <= 1439 /\ s.end - s.start = slotDuration
                      /\ s.date = t.date => s = t \/ s.end <= t.start \/ t.end <= s.start
    BY DEF SlotsAreApart
  <1>1. Accepted /\ s \in Grid /\ t \in Grid
    BY DEF IInv, Collected
  <1>2. /\ sched.start \in Int /\ 0 <= sched.start
        /\ sched.end \in Int /\ sched.end <= 1439
    BY <1>1, MinutesAreInts DEF IInv, InStep
  <1>3. InGrid(s) /\ InGrid(t)
    BY <1>1, <1>2, GridMembers DEF IInv
  <1>4. /\ s.start \in Int /\ s.end = s.start + slotDuration /\ OnGrid(s.start)
        /\ t.start \in Int /\ t.end = t.start + slotDuration /\ OnGrid(t.start)
    BY <1>3 DEF InGrid
  <1>5. /\ s.start < t.start => s.end <= t.start
        /\ t.start < s.start => t.end <= s.start
    BY <1>2, <1>4, NoneBetween
  <1>6. s.date = t.date /\ s.start = t.start => s = t
    BY <1>3 DEF InGrid
  <1> QED
    BY <1>2, <1>3, <1>4, <1>5, <1>6 DEF InGrid, OnGrid, slotDuration

THEOREM NoOverlap == Spec => []SlotsAreApart
  BY Inductive, GridIsApart, PTL

(* Seven dates in a row are seven different days of the week. *)
LEMMA SevenDays ==
  ASSUME NEW a \in Nat, NEW d \in 1 .. 7
  PROVE  /\ \E e \in a .. a + 6 : IsoDay(e) = d
         /\ \A e, f \in a .. a + 6 : IsoDay(e) = d /\ IsoDay(f) = d => e = f
  <1>1. \E e \in a .. a + 6 : IsoDay(e) = d
    <2> DEFINE e == a + ((d + 6 - ((a + 3) % 7)) % 7)
    <2>1. e \in a .. a + 6 /\ IsoDay(e) = d
      BY SMT DEF IsoDay
    <2> QED
      BY <2>1
  <1>2. ASSUME NEW e \in a .. a + 6, NEW f \in a .. a + 6, IsoDay(e) = IsoDay(f)
        PROVE  e = f
    BY <1>2, SMT DEF IsoDay
  <1> QED
    BY <1>1, <1>2

(* Each day of the schedule falls on one date of the week, and has a slot.  *)
LEMMA EveryDayHasItsDate == IInv => EveryDayOnce
  <1> SUFFICES ASSUME IInv, pc = "done", span = 7, NEW n \in 1 .. Len(sched.days)
               PROVE  /\ \E s \in slots : IsoDay(s.date) = sched.days[n]
                      /\ \A s, t \in slots :
                           IsoDay(s.date) = sched.days[n] /\ IsoDay(t.date) = sched.days[n]
                             => s.date = t.date
    BY DEF EveryDayOnce
  <1>1. slots = Grid
    BY AllReached DEF CollectsTheGrid
  <1>2. sched.days[n] \in 1 .. 7
    BY DEF IInv, VerdictIsRight, Valid, ValidDays
  <1>3. /\ sched.start \in Int /\ sched.end \in Int /\ sched.start < sched.end
        /\ OnGrid(sched.end) /\ first \in Nat
    BY MinutesAreInts, Types DEF IInv, InStep, Accepted
  <1>4. \E s \in slots : IsoDay(s.date) = sched.days[n]
    <2>1. PICK e \in first .. first + 6 : IsoDay(e) = sched.days[n]
      BY <1>2, <1>3, SevenDays
    <2> DEFINE s == [date |-> e, start |-> sched.start, end |-> sched.start + slotDuration]
    <2>2. OnGrid(sched.start)
      BY <1>3, SMT DEF OnGrid, slotDuration
    <2>3. sched.start + slotDuration <= sched.end
      BY <1>3, <2>2, NoneBetween
    <2>4. InGrid(s)
      <3>1. e \in Int /\ first <= e /\ e < first + span /\ slotDuration \in Int
        BY <1>3, <2>1 DEF slotDuration
      <3>2. InDays(IsoDay(e))
        BY <2>1 DEF InDays
      <3> QED
        BY <1>3, <2>2, <2>3, <3>1, <3>2 DEF InGrid
    <2>5. s \in Grid
      BY <1>3, <2>4, GridMembers DEF IInv
    <2> QED
      BY <1>1, <2>1, <2>5
  <1>5. ASSUME NEW s \in slots, NEW t \in slots,
               IsoDay(s.date) = sched.days[n], IsoDay(t.date) = sched.days[n]
        PROVE  s.date = t.date
    <2>1. InGrid(s) /\ InGrid(t)
      BY <1>1, <1>3, GridMembers DEF IInv
    <2>2. s.date \in first .. first + 6 /\ t.date \in first .. first + 6
      BY <1>3, <2>1 DEF InGrid
    <2>3. \A e, f \in first .. first + 6 :
            IsoDay(e) = sched.days[n] /\ IsoDay(f) = sched.days[n] => e = f
      BY <1>2, <1>3, SevenDays
    <2> QED
      BY <1>5, <2>2, <2>3
  <1> QED
    BY <1>4, <1>5

THEOREM WeekCovered == Spec => []EveryDayOnce
  BY Inductive, EveryDayHasItsDate, PTL
=============================================================================
