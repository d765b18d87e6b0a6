SPECIFICATION SerialSpec
CONSTANTS
  u1 = u1
  s1 = s1
  w1 = w1
  Idle = Idle
  Users = {u1}
  Signals = {s1}
  Workers = {w1}
  StaleTrail = FALSE
  Qtys = {1}
  Prices = {100}
  SelfDated = FALSE
  MaxEvents = 3
  MaxDay = 0
  Demergers <- NoDemerger
PROPERTIES RestatementIsNeutral
CHECK_DEADLOCK FALSE
