\* One client, which takes nothing from another, three bookings at up to three
\* times, and an int of four bits.  The client reads once: the system stops.
CONSTANTS
  Bookings = {1, 2, 3}
  Users = {"ann", "bob"}
  UserOf <- MCUserOf
  StartOf <- MCStartOf
  Clients = {c1}
  Params <- MCParams
  Blank = Blank
  Junk = Junk
  DefaultSize = 3
  MaxSize = 3
  MaxInt = 7
  Horizon = 2
  None = None
SPECIFICATION Spec
CHECK_DEADLOCK FALSE
INVARIANTS
  TypeOK
  WalkSkipsNothing
  PageFillsTotal
  WrongOnlyByOverflow
  MineIsWhole
