SPECIFICATION RecordsSpec
CONSTANTS
  Dates = {1, 2, 3}
  Values = {a, b}
  MaxRows = 3
  MaxEdits = 2
  Trades = {x}
  AsOfs = {7, 14, 28}
  MaxRuns = 4
  Stocks = {x, y}
  WeekDays = 3
  LastSession = 6
  Never = Never
  Signals = {s1, s2, s3}
  Requests = {q1, q2}
  NoCard = NoCard
  Editions = 2
  MaxOutages = 1
  Names = {x, y}
  Absent = Absent
  MaxPos = 1
  MinHold = 2
  MaxHold = 3
  StaleDays = 2
  LastDay = 5
  LateDay = 3
  MaxMissed = 2
  Universe = {r1, r2, r3, r4}
  TopN = 1
  KeepTo = 2
  StaleAbsent = 2
  FirstRun = 16
  FirstScan = 16
  LastRun = 25
  Week = 2
  MonthDays = 8
  ScanWindow = 5
  WallWindow = 3
  FullBars = 2
  WarmBars = 16
  MinWeeks = 8
  SignalWeeks = 9
  CutDays = {9}
  MaxSplits = 1
  Whole = 20
  Entry = 100
  Stop = 90
  Levels = {88, 100, 130}
  Split = 2
  StaleAfter = 2
  LastBar = 1
PROPERTIES OpenTradeStays
CHECK_DEADLOCK FALSE
