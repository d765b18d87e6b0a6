SPECIFICATION JudgeSpec
CONSTANTS
  Tickers = {x, y}
  LastSlot = 2
  MaxCalls = 2
INVARIANTS OneVerdictPerCard
CHECK_DEADLOCK FALSE
