\* One request and the command, nothing fails: CreatedScheduleStands is violated.
CONSTANTS
  Requests = {r1}
  Rooms = {a}
  Schedules = {"seeded", "long"}
  Days = {1}
  Times = {1}
  Covers <- MCCovers
  Week = {1}
  Spellings = {"lower"}
  Canonical = "lower"
  Faults = {}
  None = None
  SeedRooms = {a}
  SeedSchedule <- MCSeedSchedule
  SeedTimes <- MCSeedTimes
  Weekdays = {1}
  DemoRoom = a
SPECIFICATION SeedSpec
INVARIANT
  CreatedScheduleStands
