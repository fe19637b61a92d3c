SPECIFICATION Spec
CONSTANTS
  RecoveryDays = 2
  ClosePositions = TRUE
  AllowOverride = FALSE
  MaxTick = 9
INVARIANTS
  TypeOK
  RecoveryNeverShortened
  FlagsTruthful
  FileIsCurrent
PROPERTIES
  ShutdownOncePerHalt
  ImplementsTradingHalt
