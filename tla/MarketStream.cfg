SPECIFICATION FairSpec
CONSTANTS
  Symbols = {nifty, bank}
  Cumulative = {nifty}
  Minutes = {1, 2, 3}
  MaxVolume = 2
  MaxLate = 1
  MaxRecount = 1
  MaxReconnectAttempts = 3
INVARIANTS
  TypeOK
  VolumeAccounted
  EmittedOnce
PROPERTIES
  GivesUpLate
  ComesBack
