\* Progress under fairness: no symmetry, one user, three requests for a slot.
CONSTANTS
  Requests = {r1, r2, r3}
  Users = {u1}
  Slots = {s1}
  StartOf <- MCStartOf
  Horizon = 1
  None = None
SPECIFICATION FairSpec
CHECK_DEADLOCK FALSE
PROPERTIES
  EveryRequestEnds
  EveryTransactionEnds
