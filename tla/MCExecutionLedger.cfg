SPECIFICATION Spec
CONSTANTS
  u1 = u1
  s1 = s1
  s2 = s2
  w1 = w1
  w2 = w2
  Idle = Idle
  Users = {u1}
  Signals = {s1, s2}
  Qtys = {1}
  Prices = {100}
  Workers = {w1, w2}
  StaleTrail = FALSE
  SelfDated = FALSE
  MaxEvents = 4
  MaxDay = 1
SYMMETRY Symmetry
CONSTRAINT DaysLate
INVARIANTS LedgerInv SilentOversellIsARace OneCurrentRowPerFill
PROPERTIES ImplementsFillBook
CHECK_DEADLOCK FALSE
