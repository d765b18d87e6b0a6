SPECIFICATION WSpec
CONSTANTS
  MaxDay = 5
  Calendar = {1, 3, 4, 5}
  Sessions = {1, 2, 4, 5}
  CalendarEnd = 4
  Inception = 1
  PreregDay = 1
  Window = 1
  Navs = {0}
  Backfill = FALSE
  MaxCrashes = 1
INVARIANTS WorkflowInv GreenMeansCurrent
PROPERTIES PublishedAppendOnly
CHECK_DEADLOCK FALSE
