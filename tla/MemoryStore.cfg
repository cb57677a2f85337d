\* Five requests: a room, a schedule, and three more, lists in parallel among
\* them.  Day 2 is not among those a new schedule is filled for.  Requests are
\* finitely many, so the system does stop.
CONSTANTS
  Requests = {r1, r2, r3, r4, r5}
  Rooms = {a}
  Schedules = {"short", "long"}
  Days = {1, 2}
  Times = {1, 2}
  Covers <- MCCovers
  Week = {1}
  SlotIds = {s1, s2, s3, s4}
  None = None
SPECIFICATION Spec
SYMMETRY Symmetry
CHECK_DEADLOCK FALSE
INVARIANTS
  TypeOK
  NoRace
PROPERTIES
  IsRoomBook
