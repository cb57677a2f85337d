\* Three requests of any kind, everything may fail, two days of two slots, and two
\* schedules of which one covers a single slot, of day 1.  Requests are finitely
\* many: the system does stop.
CONSTANTS
  Requests = {r1, r2, r3}
  Rooms = {a}
  Schedules = {"short", "long"}
  Days = {1, 2}
  Times = {1, 2}
  Covers <- MCCovers
  Week = {1, 2}
  Spellings = {"lower"}
  Canonical = "lower"
  Faults = {"postgres", "redis", "process"}
  None = None
SPECIFICATION Spec
SYMMETRY Symmetry
CHECK_DEADLOCK FALSE
INVARIANTS
  TypeOK
  OffersAreRows
  CreatedScheduleStands
  StaleForCause
PROPERTIES
  IsRoomBook
