\* Nothing fails.  A list and the schedule of its room, and a third request.
CONSTANTS
  Requests = {r1, r2, r3}
  Rooms = {a}
  Schedules = {"long"}
  Days = {1}
  Times = {1}
  Covers <- MCCovers
  Week = {1}
  Spellings = {"lower"}
  Canonical = "lower"
  Faults = {}
  None = None
SPECIFICATION Spec
SYMMETRY Symmetry
CHECK_DEADLOCK FALSE
INVARIANTS
  EmptyForCause
