\* Three requests of any kind over two slots and two users: the safety properties
\* and the refinement.  The requests that will ever be made are finitely many and
\* the clock is bounded, so the system does stop.
CONSTANTS
  Requests = {r1, r2, r3}
  Users = {u1, u2}
  Slots = {s1, s2}
  StartOf <- MCStartOf
  Horizon = 1
  None = None
SPECIFICATION Spec
SYMMETRY Symmetry
CHECK_DEADLOCK FALSE
INVARIANTS
  TypeOK
  OneActivePerSlot
  CreatedBeforeStart
  AnswersAreTrue
  RefusalsAreTrue
PROPERTIES
  OnlyTheOwnerCancels
  IsLedger
