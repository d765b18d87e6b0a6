SPECIFICATION FairSpec
CONSTANTS
  MaxDay = 5
  Calendar = {1, 2, 3, 5}
  Sessions = {1, 2, 4, 5}
  CalendarEnd = 4
  Inception = 1
  PreregDay = 2
  Window = 1
  Navs = {0, 1}
  Backfill = FALSE
  MaxCrashes = 1
INVARIANTS WallInv HonestRows
PROPERTIES AppendOnly NoReconstruction ImplementsObservationLog EventuallyLogged
CHECK_DEADLOCK FALSE
