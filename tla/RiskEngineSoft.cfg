SPECIFICATION FairSpec
CONSTANTS
  RecoveryDays = 1
  ClosePositions = TRUE
  AllowOverride = FALSE
  MaxTick = 2
  Capital = 100
  MaxDailyLoss = 3
  MaxWeeklyLoss = 8
  MaxDrawdownPct = 10
  Navs = {100}
  DailyLosses = {0, 4}
  WeeklyLosses = {0}
PROPERTIES
  SoftBreakerRecovers
