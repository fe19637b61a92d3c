SPECIFICATION Spec
CONSTANTS
  RecoveryDays = 1
  ClosePositions = TRUE
  AllowOverride = TRUE
  MaxTick = 3
  Capital = 100
  MaxDailyLoss = 3
  MaxWeeklyLoss = 8
  MaxDrawdownPct = 10
  Navs = {89, 96, 100, 101}
  DailyLosses = {0, 3, 4}
  WeeklyLosses = {0, 8, 9}
INVARIANTS
  TypeOK
PROPERTIES
  NoOrderWhileFileSaysHalted
  LossStopsTheDay
  StoppedUntilNewPeak
