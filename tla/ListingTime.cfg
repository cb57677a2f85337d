\* Three requests of any kind, everything may fail, one slot, and a clock of
\* three instants.  Requests are finitely many, and the clock stops: the system
\* does stop.
CONSTANTS
  Requests = {r1, r2, r3}
  Rooms = {a}
  Schedules = {"long"}
  Days = {1}
  Times = {1}
  Covers <- MCCovers
  Week = {1}
  Spellings = {"lower"}
  Canonical = "lower"
  Faults = {"postgres", "redis", "process"}
  None = None
  TTL = 1
  Horizon = 2
SPECIFICATION TimedSpec
SYMMETRY Symmetry
CHECK_DEADLOCK FALSE
INVARIANTS
  TimedTypeOK
  StaleIsBrief
  
  ReadsAreFresh
