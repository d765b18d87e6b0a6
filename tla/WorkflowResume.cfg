SPECIFICATION WSpec
CONSTANTS
  MaxDay = 2
  Calendar = {1, 2}
  Sessions = {1, 2}
  CalendarEnd = 2
  Inception = 1
  PreregDay = 1
  Window = 1
  Navs = {0, 1}
  Backfill = FALSE
  MaxCrashes = 1
INVARIANTS RowsCompound
CHECK_DEADLOCK FALSE
