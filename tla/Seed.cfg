\* Two requests of any kind and a row of the command's own, on a weekday, a day
\* of the weekend and a weekday again.  The command may end at any statement and
\* run again and again; nothing else fails.  Whatever the requests have come to,
\* the command can start: deadlock is checked.
CONSTANTS
  Requests = {r1, r2, r3}
  Rooms = {a}
  Schedules = {"seeded", "long"}
  Days = {1, 2, 3}
  Times = {1}
  Covers <- MCCovers
  Week = {1, 2, 3}
  Spellings = {"lower"}
  Canonical = "lower"
  Faults = {}
  None = None
  SeedRooms = {a}
  SeedSchedule <- MCSeedSchedule
  SeedTimes <- MCSeedTimes
  Weekdays = {1, 3}
  DemoRoom = a
SPECIFICATION SeedSpec
SYMMETRY Symmetry
INVARIANTS
  SeedTypeOK
  SlotsAreAccountedFor
  OneActivePerSlot
