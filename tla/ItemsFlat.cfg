SPECIFICATION ItemsSpec
CONSTANTS
  LastDay = 6
  WeekEnds = {1, 3, 5}
  StaleAbsent = 2
  Lookback = 3
  Lag = 1
INVARIANTS FlatWhenMissed
CHECK_DEADLOCK FALSE
