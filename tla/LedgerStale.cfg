SPECIFICATION Spec
CONSTANTS
  u1 = u1
  s1 = s1
  s2 = s2
  w1 = w1
  w2 = w2
  Idle = Idle
  Users = {u1}
  Signals = {s1, s2}
  Qtys = {1, 2}
  Prices = {100}
  Workers = {w1, w2}
  StaleTrail = TRUE
  SelfDated = FALSE
  MaxEvents = 3
  MaxDay = 0
SYMMETRY Symmetry
INVARIANTS OneCurrentRowPerFill
CHECK_DEADLOCK FALSE
