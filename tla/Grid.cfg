\* Every list of days and pair of times below, from every day of the week.
\* One call is one run of the loops, so it stops.
CONSTANTS
  DayLists <- MCDayLists
  Minutes = {0, 540, 555, 570, 660, 1409, 1439}
  Blank = Blank
  Unparsable = Unparsable
  Dates = {0, 1, 2, 3, 4, 5, 6}
SPECIFICATION FairSpec
CHECK_DEADLOCK FALSE
INVARIANTS
  TypeOK
  VerdictIsRight
  CollectsTheGrid
  EveryDayOnce
PROPERTIES
  Terminates
