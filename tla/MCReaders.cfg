SPECIFICATION ReadersSpec
CONSTANTS
  u1 = u1
  s1 = s1
  w1 = w1
  Idle = Idle
  Users = {u1}
  Signals = {s1}
  Workers = {w1}
  StaleTrail = FALSE
  Qtys = {1}
  Prices = {50, 100}
  SelfDated = TRUE
  MaxEvents = 4
  MaxDay = 1
  Demergers <- OneDemerger
  LastDay = 6
  WeekEnds = {1, 3, 5}
  StaleAbsent = 2
  Lookback = 3
  Lag = 1
  Tickers = {x, y}
  LastSlot = 2
  MaxCalls = 2
INVARIANTS PositionInv FlatMarketRealizesNothing
INVARIANTS ItemsInv MissIsTold
INVARIANTS JudgeInv
PROPERTIES StaysTold
CHECK_DEADLOCK FALSE
