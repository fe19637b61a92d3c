SPECIFICATION LogSpec
CONSTANTS
  Ids = {t1, t2}
  Numerals = {t1}
  Instants = {1, 2}
  Profits = {1, 2}
  MaxCalls = 3
  MaxCrashes = 1
INVARIANTS
  LogTypeOK
  HistoryExact
CHECK_DEADLOCK FALSE
