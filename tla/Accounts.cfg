\* Three requests of any kind, one address in two spellings, one password and
\* the blank one, which is the wrong one at a login.  A token expires one tick
\* after it was issued, and the process may restart at any time.  Requests are
\* finitely many, so the system does stop.
CONSTANTS
  Requests = {r1, r2, r3}
  Emails = {"Ann", "ann"}
  Lower <- MCLower
  Passwords = {"secret", ""}
  Blank = ""
  Inputs <- MCInputs
  Life = 1
  Horizon = 1
  None = None
SPECIFICATION FairSpec
CHECK_DEADLOCK FALSE
INVARIANTS
  TypeOK
  CreatedAccountStands
  RefusalsAreTrue
  ActsAreAuthorised
  MapIsGuarded
PROPERTIES
  EveryRequestEnds
